---------------------------- MODULE HeapResults ----------------------------
(***************************************************************************)
(* The steps of the program preserve the invariant of HeapProofs, and what *)
(* follows from it: the reference counts are exact at every step, nothing  *)
(* that can be followed leads to a freed block, and every block is         *)
(* released once.                                                          *)
(***************************************************************************)
EXTENDS HeapProofs

-----------------------------------------------------------------------------
(* Between two calls.                                                      *)

\* Nothing is marked and every count is exact; v alone, if it is there, may be
\* a new cell that nothing refers to yet.
Ready(h, objs, v) ==
    /\ Shape(h) /\ objs \subseteq Cells /\ h[Root].kind = "thread"
    /\ \A c \in Cells :
          /\ ~h[c].marked
          /\ h[c].refs = FieldRefs(h, c) + Ind(c \in objs) + Ind(c = Root) + Ind(h[c].open # <<>>)
          /\ h[c].kind # "free" /\ c # v => h[c].refs > 0

\* The turned stack, element by element.
LEMMA PileIs ==
    ASSUME NEW w \in Seq(TaskType)
    PROVE  Piled(Pile(w), Len(w), w)
<1>1. Pile(w) \in [1..Len(w) -> TaskType]
  BY PileType
<1>2. \A k \in 1..Len(w) : Pile(w)[k] = w[Len(w) + 1 - k]
  BY DEF Pile
<1>3. QED
  BY <1>1, <1>2 DEF Piled

\* The invariant of an idle VM.
LEMMA IdleReady ==
    ASSUME IInv, Idle
    PROVE  /\ Ready(heap, Objs, None) /\ ChainOK(heap, Listed) /\ status = "open"
           /\ \A x \in Cells, f \in 1..2 : heap[x].fields[f] # None =>
                 heap[x].fields[f] \in Cells /\ heap[heap[x].fields[f]].kind # "free"
           /\ \A c \in Objs : c \in Cells /\ heap[c].kind # "free"
<1> DEFINE p == Pile(work)
<1>1. work = <<>> /\ status = "open" /\ Len(work) = 0
  BY DEF Idle
<1>2. HeapInv(heap, Listed, p, 0, Objs, status)
  BY <1>1 DEF IInv
<1> HIDE DEF p
<1>3. /\ Shape(heap) /\ ChainOK(heap, Listed) /\ Exact(heap, p, 0, Objs, status)
      /\ Released(heap, p, 0) /\ MarksOK(heap, p, 0, Objs)
      /\ Objs \subseteq Cells /\ heap[Root].kind = "thread"
  BY <1>1, <1>2 DEF HeapInv
<1>4. Referred(heap, p, 0, Objs, status)
  BY <1>2, InvReferred
<1>5. ASSUME NEW c \in Cells
      PROVE  /\ ~heap[c].marked
             /\ heap[c].refs = FieldRefs(heap, c) + Ind(c \in Objs) + Ind(c = Root) + Ind(heap[c].open # <<>>)
             /\ heap[c].kind # "free" /\ c # None => heap[c].refs > 0
  <2>1. ~heap[c].marked
    BY <1>3 DEF MarksOK, Marking
  <2>2. heap[c].refs = FieldRefs(heap, c) + Ind(c \in Objs)
                       + Count(p, 0, "drop", c) + Count(p, 0, "advance", c)
                       + Ind(c = Root /\ status = "open") + Ind(heap[c].open # <<>>)
    BY <1>3 DEF Exact
  <2>3. Count(p, 0, "drop", c) = 0 /\ Count(p, 0, "advance", c) = 0 /\ Count(p, 0, "free", c) = 0
    BY CountNil
  <2>4. Ind(c = Root /\ status = "open") = Ind(c = Root)
    BY <1>1 DEF Ind
  <2>5. FieldRefs(heap, c) \in Nat /\ Ind(c \in Objs) \in Nat /\ Ind(c = Root) \in Nat
        /\ Ind(heap[c].open # <<>>) \in Nat /\ heap[c].refs \in Nat
    BY <1>3, HoldersFinite, CellTypes DEF Ind
  <2>6. Count(p, 0, "free", c) = Ind(heap[c].kind # "free" /\ heap[c].refs = 0 /\ ~heap[c].marked)
    BY <1>3 DEF Released
  <2>7. heap[c].kind # "free" => heap[c].refs > 0
    BY <2>1, <2>3, <2>5, <2>6 DEF Ind
  <2>8. heap[c].refs = FieldRefs(heap, c) + Ind(c \in Objs) + Ind(c = Root) + Ind(heap[c].open # <<>>)
    BY <2>2, <2>3, <2>4, <2>5
  <2>9. QED
    BY <2>1, <2>7, <2>8
<1>6. Ready(heap, Objs, None)
  BY <1>3, <1>5 DEF Ready
<1>7. QED
  BY <1>1, <1>3, <1>4, <1>6 DEF Referred

\* A heap that is exact but for a reference to d that is about to be released.
LEMMA DropHeap ==
    ASSUME NEW h, NEW ch, NEW q, NEW m, NEW objs, NEW d \in Cells \cup {None},
           Piled(q, m, Drop(d)), Shape(h), ChainOK(h, ch), objs \subseteq Cells,
           h[Root].kind = "thread", Settled(h, objs, "open", d), \A c \in Cells : ~h[c].marked
    PROVE  HeapInv(h, ch, q, m, objs, "open")
<1>1. m = Len(Drop(d)) /\ q \in [1..m -> TaskType] /\ \A k \in 1..m : q[k] = Drop(d)[m + 1 - k]
  BY DEF Piled
<1>2. Len(Drop(d)) = Ind(d # None) /\ (d # None => IsTask(Drop(d)[1], "drop", d))
  BY DropShape
<1>3. CASE d = None
  <2>1. m = 0
    BY <1>1, <1>2, <1>3 DEF Ind
  <2>2. QED
    BY <2>1, <1>1, <1>3, IdleHeap
<1>4. CASE d # None
  <2>1. m = 1 /\ 1 \in 1..m /\ m + 1 - 1 = 1
    BY <1>1, <1>2, <1>4 DEF Ind
  <2>2. IsTask(q[1], "drop", d)
    BY <2>1, <1>1, <1>2, <1>4
  <2>3. q[1].op = "drop" /\ q[1].cell = d /\ q[1].ending = "" /\ d # None
    BY <2>2, <1>4 DEF IsTask
  <2>4. \A k \in 1..m : k = 1
    BY <2>1
  <2>5. ASSUME NEW c \in Cells
        PROVE  Count(q, m, "drop", c) = Ind(c = d) /\ Count(q, m, "advance", c) = 0
               /\ Count(q, m, "free", c) = 0
    <3>1. \A op : \A k \in 1..m : k # 1 => ~Is(q[k], op, c)
      BY <2>4
    <3>2. ASSUME NEW op PROVE Count(q, m, op, c) = Ind(1 \in 1..m /\ Is(q[1], op, c))
      BY <2>1, <3>1, CountLone
    <3>3. (Is(q[1], "drop", c) <=> c = d) /\ ~Is(q[1], "advance", c) /\ ~Is(q[1], "free", c)
      BY <2>3 DEF Is
    <3>4. QED
      BY <2>1, <3>2, <3>3 DEF Ind
  <2>6. Exact(h, q, m, objs, "open")
    <3>1. SUFFICES ASSUME NEW c \in Cells
                   PROVE  h[c].refs = FieldRefs(h, c) + Ind(c \in objs)
                             + Count(q, m, "drop", c) + Count(q, m, "advance", c)
                             + Ind(c = Root /\ "open" = "open") + Ind(h[c].open # <<>>)
      BY DEF Exact
    <3>2. h[c].refs = FieldRefs(h, c) + Ind(c \in objs) + Ind(c = d)
                      + Ind(c = Root /\ "open" = "open") + Ind(h[c].open # <<>>)
      BY DEF Settled
    <3>3. FieldRefs(h, c) \in Nat /\ Ind(c \in objs) \in Nat /\ Ind(c = d) \in Nat
          /\ Ind(c = Root /\ "open" = "open") \in Nat /\ Ind(h[c].open # <<>>) \in Nat
      BY HoldersFinite DEF Ind
    <3>4. Count(q, m, "drop", c) = Ind(c = d) /\ Count(q, m, "advance", c) = 0
      BY <2>5
    <3>5. QED
      BY <3>2, <3>3, <3>4
  <2>7. Released(h, q, m)
    <3>1. ASSUME NEW c \in Cells PROVE ~(h[c].kind # "free" /\ h[c].refs = 0 /\ ~h[c].marked)
      BY DEF Settled
    <3>2. QED
      BY <3>1, <2>5 DEF Released, Ind
  <2>8. TasksOK(h, q, m, "open")
    <3>1. TaskOK(h, q, m, "open", 1)
      BY <2>3 DEF TaskOK, CellOps
    <3>2. QED
      BY <3>1, <2>4 DEF TasksOK
  <2>9. FreesOK(h, ch, q, m) /\ MarksOK(h, q, m, objs) /\ ScopeOK(h, q, m, "open")
    BY <2>3, <2>4 DEF FreesOK, MarksOK, ScopeOK
  <2>10. m \in Nat
    BY <2>1
  <2>11. QED
    BY <2>6, <2>7, <2>8, <2>9, <2>10, <1>1 DEF HeapInv
<1>5. QED
  BY <1>3, <1>4

\* SQObjectPtr::operator=: the new value is counted, the old one is about to go.
LEMMA StoredHeap ==
    ASSUME NEW h, NEW objs, NEW v, NEW c \in Cells, NEW f \in 1..2, Ready(h, objs, v),
           v = None \/ (v \in Cells /\ h[v].kind # "free" /\ h[v].box # "dropped"),
           HasField(h, c, f)
    PROVE  /\ Shape(Stored(h, c, f, v)) /\ Settled(Stored(h, c, f, v), objs, "open", h[c].fields[f])
           /\ \A x \in Cells : /\ Stored(h, c, f, v)[x].kind = h[x].kind
                               /\ ~Stored(h, c, f, v)[x].marked
           /\ h[c].fields[f] \in Cells \cup {None}
<1> DEFINE h1 == WithField(h, c, f, v)
           h2 == Stored(h, c, f, v)
           d == h[c].fields[f]
<1>1. /\ Shape(h) /\ objs \subseteq Cells
      /\ \A x \in Cells :
            /\ ~h[x].marked
            /\ h[x].refs = FieldRefs(h, x) + Ind(x \in objs) + Ind(x = Root) + Ind(h[x].open # <<>>)
            /\ h[x].kind # "free" /\ x # v => h[x].refs > 0
  BY DEF Ready
<1>2. h \in [Cells -> Cell] /\ v \in Cells \cup {None} /\ d \in Cells \cup {None}
  BY <1>1, CellTypes DEF Shape
<1>3. FieldIs(h, h1, c, f, v)
  BY <1>2, FieldAssigned
<1>4. h2 = AddRefTo(h1, v)
  BY DEF Stored, WithField
<1> HIDE DEF h1, h2
<1>5. Counted(h1, h2, v)
  BY <1>2, <1>3, <1>4, AddRefToCounts DEF FieldIs
<1> HIDE DEF d
<1>6. /\ h2 \in [Cells -> Cell]
      /\ \A x \in Cells : /\ SameBody(h, h2, x) /\ h2[x].refs = h[x].refs + Ind(x = v)
                          /\ \A g \in 1..2 : h2[x].fields[g] = IF x = c /\ g = f THEN v ELSE h[x].fields[g]
  BY <1>3, <1>5 DEF FieldIs, Counted, SameBody
<1>7. Shape(h2)
  <2>1. ASSUME NEW x \in Cells, h[x].kind = "free" \/ h[x].box = "dropped" PROVE h2[x].refs = 0
    <3>1. CellOK(h, x)
      BY <1>1 DEF Shape
    <3>2. h[x].refs = 0
      BY <2>1, <3>1 DEF CellOK
    <3>3. x # v
      BY <2>1, NoneAssumption
    <3>4. QED
      BY <3>2, <3>3, <1>6 DEF Ind
  <2>2. \A x \in Cells, g \in 1..2 : h2[x].fields[g] \in {h[x].fields[g], None} \/ HasField(h, x, g)
    BY <1>6
  <2>3. Evolves(h, h2)
    BY <2>1, <2>2, <1>6 DEF Evolves
  <2>4. QED
    BY <2>3, <1>1, ShapeKept
<1>8. Settled(h2, objs, "open", d)
  <2>1. SUFFICES ASSUME NEW x \in Cells
                 PROVE  /\ h2[x].refs = FieldRefs(h2, x) + Ind(x \in objs) + Ind(x = d)
                                        + Ind(x = Root /\ "open" = "open") + Ind(h2[x].open # <<>>)
                        /\ h2[x].kind # "free" /\ ~h2[x].marked => h2[x].refs > 0
    BY DEF Settled
  <2>2. OneField(h, h2, c, f)
    BY <1>6 DEF OneField
  <2>3. h2[c].fields[f] = v
    BY <1>6
  <2>4. FieldRefs(h2, x) = FieldRefs(h, x) - Ind(d = x) + Ind(v = x)
    BY <2>2, <2>3, FieldRefsStored DEF d
  <2>5. h[x].refs = FieldRefs(h, x) + Ind(x \in objs) + Ind(x = Root) + Ind(h[x].open # <<>>)
    BY <1>1
  <2>6. h2[x].refs = h[x].refs + Ind(x = v) /\ h2[x].open = h[x].open
    BY <1>6 DEF SameBody
  <2>7. Ind(x = Root /\ "open" = "open") = Ind(x = Root) /\ Ind(d = x) = Ind(x = d) /\ Ind(v = x) = Ind(x = v)
    BY DEF Ind
  <2>8. FieldRefs(h, x) \in Nat /\ Ind(x \in objs) \in Nat /\ Ind(x = Root) \in Nat
        /\ Ind(h[x].open # <<>>) \in Nat /\ Ind(x = v) \in Nat /\ Ind(x = d) \in Nat /\ h[x].refs \in Nat
    BY <1>1, HoldersFinite, CellTypes DEF Ind
  <2>9. h2[x].refs = FieldRefs(h2, x) + Ind(x \in objs) + Ind(x = d)
                     + Ind(x = Root /\ "open" = "open") + Ind(h2[x].open # <<>>)
    BY SMTT(30), <2>4, <2>5, <2>6, <2>7, <2>8
  <2>10. h2[x].kind # "free" => h2[x].refs > 0
    <3>1. h2[x].kind = h[x].kind
      BY <1>6 DEF SameBody
    <3>2. CASE x = v
      BY <3>2, <2>6, <2>8 DEF Ind
    <3>3. CASE x # v
      BY <3>1, <3>3, <2>6, <2>8, <1>1
    <3>4. QED
      BY <3>2, <3>3
  <2>11. QED
    BY <2>9, <2>10
<1>9. \A x \in Cells : h2[x].kind = h[x].kind /\ ~h2[x].marked
  BY <1>1, <1>6 DEF SameBody
<1>10. QED
  BY <1>2, <1>7, <1>8, <1>9 DEF h2, d

\* A step of the program that ends with such an assignment.
LEMMA StoreKeeps ==
    ASSUME IInv, Idle, NEW h, NEW v, NEW c \in Cells, NEW f \in 1..2, Ready(h, Objs, v),
           v = None \/ (v \in Cells /\ h[v].kind # "free" /\ h[v].box # "dropped"),
           HasField(h, c, f), ChainOK(h, Listed'), UNCHANGED lists \/ ListsOK',
           heap' = Stored(h, c, f, v), work' = Drop(h[c].fields[f]),
           ops' \in 0..Programs[uses], UNCHANGED <<table, held, leaked, uses, status>>
    PROVE  IInv'
<1> DEFINE d == h[c].fields[f]
           q == Pile(work')
           m == Len(work')
<1>1. /\ Shape(heap') /\ Settled(heap', Objs, "open", d) /\ d \in Cells \cup {None}
      /\ \A x \in Cells : heap'[x].kind = h[x].kind /\ ~heap'[x].marked
  <2> DEFINE h2 == Stored(h, c, f, v)
  <2>1. /\ Shape(h2) /\ Settled(h2, Objs, "open", h[c].fields[f]) /\ h[c].fields[f] \in Cells \cup {None}
        /\ \A x \in Cells : h2[x].kind = h[x].kind /\ ~h2[x].marked
    BY StoredHeap
  <2>2. heap' = h2
    OBVIOUS
  <2> HIDE DEF h2
  <2>3. QED
    BY <2>1, <2>2
<1>2. Objs \subseteq Cells /\ h[Root].kind = "thread"
  BY DEF Ready
<1>3. work' \in Seq(TaskType)
  BY <1>1, DropShape
<1>4. Piled(q, m, Drop(d))
  BY <1>3, PileIs
<1>5. ChainOK(heap', Listed')
  BY <1>1 DEF ChainOK
<1>6. heap'[Root].kind = "thread"
  BY <1>1, <1>2, CellsAssumption
<1> HIDE DEF d, q, m
<1>7. HeapInv(heap', Listed', q, m, Objs, "open")
  BY <1>1, <1>2, <1>4, <1>5, <1>6, DropHeap
<1>8. Nodes' = Nodes /\ Objs' = Objs /\ Slots' = Slots
  BY DEF Nodes, Objs, Slots
<1>9. TypeInv'
  BY <1>3 DEF IInv, TypeInv, ListsOK, Lists, lists
<1>10. TableOK'
  BY <1>8 DEF IInv, TableOK
<1>11. HandlesInv'
  BY <1>8 DEF IInv, HandlesInv
<1>12. status' = "open"
  BY DEF Idle
<1>13. HeapInv(heap', Listed', q, m, Objs', status')
  BY <1>7, <1>8, <1>12
<1>14. QED
  BY <1>9, <1>10, <1>11, <1>13 DEF IInv, q, m

-----------------------------------------------------------------------------
(* What the program can reach.                                             *)

\* A set of cells that is closed under ReachSucc has all that is reached.
LEMMA ReachBound ==
    ASSUME NEW P, NEW from, from \subseteq P, \A c \in P : ReachSucc(c) \subseteq P
    PROVE  Closure(from, ReachSucc) \subseteq P
<1> DEFINE N == Cardinality(Cells)
           G(g) == [n \in 0..N |-> IF n = 0 THEN from
                                   ELSE g[n - 1] \cup UNION {ReachSucc(c) : c \in g[n - 1]}]
           upto == CHOOSE g : g = G(g)
           step == [a \in (SUBSET P) \X (1..N) |-> a[1] \cup UNION {ReachSucc(c) : c \in a[1]}]
<1>1. N \in Nat
  BY CellsAssumption, FS_CardinalityType
<1>2. Closure(from, ReachSucc) = upto[N]
  BY DEF Closure
<1>3. step \in [(SUBSET P) \X (1..N) -> SUBSET P]
  <2>1. ASSUME NEW a \in (SUBSET P) \X (1..N)
        PROVE  a[1] \cup UNION {ReachSucc(c) : c \in a[1]} \in SUBSET P
    <3>1. a[1] \in SUBSET P
      OBVIOUS
    <3>2. QED
      BY <3>1
  <2>2. QED
    BY <2>1
<1>4. PICK g : g \in [0..N -> SUBSET P] /\ g[0] = from /\ \A i \in 1..N : g[i] = step[<<g[i - 1], i>>]
  <2> HIDE DEF step
  <2>1. Recursion(N, SUBSET P, from, step)
    BY <1>1, <1>3 DEF Recursion
  <2>2. \E g : IsRecursive(g, N, SUBSET P, from, step)
    BY <2>1, FiniteRecursion, Zenon
  <2>3. QED
    BY <2>2 DEF IsRecursive
<1>5. g = G(g)
  <2>1. ASSUME NEW i \in 1..N
        PROVE  g[i] = g[i - 1] \cup UNION {ReachSucc(c) : c \in g[i - 1]}
    <3>1. i - 1 \in 0..N
      BY <1>1
    <3>2. <<g[i - 1], i>> \in (SUBSET P) \X (1..N)
      BY <3>1, <1>4
    <3>3. step[<<g[i - 1], i>>] = g[i - 1] \cup UNION {ReachSucc(c) : c \in g[i - 1]}
      BY <3>2
    <3>4. QED
      BY <3>3, <1>4
  <2>2. \A n \in 0..N : g[n] = IF n = 0 THEN from
                               ELSE g[n - 1] \cup UNION {ReachSucc(c) : c \in g[n - 1]}
    BY <2>1, <1>1, <1>4
  <2>3. QED
    BY <2>2, <1>4
<1>6. upto = G(upto)
  BY <1>5
<1> HIDE DEF upto
<1>7. \A n \in 0..N : upto[n] = IF n = 0 THEN from
                                ELSE upto[n - 1] \cup UNION {ReachSucc(c) : c \in upto[n - 1]}
  BY <1>6
<1> DEFINE Bad == {n \in 0..N : ~(upto[n] \subseteq P)}
<1>8. Bad = {}
  <2>1. SUFFICES ASSUME Bad # {} PROVE FALSE
    OBVIOUS
  <2>2. Bad \in SUBSET Nat
    BY <1>1
  <2>3. PICK n \in Bad : \A k \in Bad : n <= k
    BY <2>1, <2>2, LeastNat
  <2>4. n \in 0..N /\ ~(upto[n] \subseteq P) /\ n # 0
    BY <1>7
  <2>5. n - 1 \in 0..N /\ ~(n <= n - 1)
    BY <1>1, <2>4
  <2>6. upto[n - 1] \subseteq P
    BY <2>3, <2>5
  <2>7. upto[n] = upto[n - 1] \cup UNION {ReachSucc(c) : c \in upto[n - 1]}
    BY <2>4, <1>7
  <2>8. QED
    BY <2>4, <2>6, <2>7
<1>9. QED
  BY <1>1, <1>2, <1>8

\* A cell in use whose payload, if it has one, is there.
Usable(h, c) == c \in Cells /\ h[c].kind # "free" /\ h[c].box # "dropped"

\* In an idle VM every cell in use is usable, and so is what the program reaches;
\* a field leads to it, unless it is the root VM.
LEMMA ReachFacts ==
    ASSUME IInv, Idle
    PROVE  /\ \A c \in Cells : heap[c].kind # "free" => Usable(heap, c)
           /\ \A c \in InReach : /\ Usable(heap, c)
                                 /\ c = Root \/ \E x \in Cells, f \in 1..2 : heap[x].fields[f] = c
           /\ \A c \in Cells : held[c] > 0 => Usable(heap, c)
           /\ \A c \in Cells : heap[c].open # <<>> =>
                 heap[c].open[1] \in Cells /\ heap[c].open[2] \in 1..2 /\ heap[heap[c].open[1]].kind = "thread"
           /\ \A c \in Cells : heap[c].link # None => Usable(heap, heap[c].link)
           /\ Usable(heap, Root)
<1>1. /\ Ready(heap, Objs, None) /\ status = "open"
      /\ \A x \in Cells, f \in 1..2 : heap[x].fields[f] # None =>
            heap[x].fields[f] \in Cells /\ heap[heap[x].fields[f]].kind # "free"
      /\ \A c \in Objs : c \in Cells /\ heap[c].kind # "free"
  BY IdleReady
<1>2. Shape(heap) /\ \A c \in Cells : heap[c].kind # "free" => heap[c].refs > 0
  BY <1>1, NoneAssumption DEF Ready
<1>3. ASSUME NEW c \in Cells, heap[c].kind # "free" PROVE Usable(heap, c)
  <2>1. heap[c].refs > 0 /\ CellOK(heap, c)
    BY <1>2, <1>3 DEF Shape
  <2>2. QED
    BY <2>1, <1>3 DEF CellOK, Usable
<1>4. ASSUME NEW c \in Cells, heap[c].open # <<>>
      PROVE  /\ heap[c].open[1] \in Cells /\ heap[c].open[2] \in 1..2
             /\ heap[heap[c].open[1]].kind = "thread"
  <2>1. CellOK(heap, c)
    BY <1>2 DEF Shape
  <2>2. QED
    BY <2>1, <1>2, <1>4, CellTypes DEF CellOK
<1> DEFINE P == {c \in Cells : /\ heap[c].kind # "free"
                               /\ c = Root \/ \E x \in Cells, f \in 1..2 : heap[x].fields[f] = c}
<1>5. Root \in P
  BY <1>1, CellsAssumption DEF Ready
<1>6. ASSUME NEW x \in Cells, NEW f \in 1..2, heap[x].fields[f] # None PROVE heap[x].fields[f] \in P
  BY <1>1, <1>6
<1>7. ASSUME NEW c \in P PROVE ReachSucc(c) \subseteq P
  <2>1. Refers(c) \subseteq P
    BY <1>6 DEF Refers
  <2>2. CASE heap[c].open = <<>>
    BY <2>1, <2>2 DEF ReachSucc
  <2>3. CASE heap[c].open # <<>>
    <3>1. heap[c].open[1] \in Cells /\ heap[c].open[2] \in 1..2
      BY <2>3, <1>4
    <3>2. {heap[heap[c].open[1]].fields[heap[c].open[2]]} \ {None} \subseteq P
      BY <3>1, <1>6
    <3>3. QED
      BY <2>1, <2>3, <3>2 DEF ReachSucc
  <2>4. QED
    BY <2>2, <2>3
<1> HIDE DEF P
<1>8. InReach \subseteq P
  BY <1>5, <1>7, ReachBound DEF InReach
<1>9. ASSUME NEW c \in InReach
      PROVE  Usable(heap, c) /\ (c = Root \/ \E x \in Cells, f \in 1..2 : heap[x].fields[f] = c)
  BY <1>3, <1>8 DEF P
<1>10. ASSUME NEW c \in Cells, held[c] > 0 PROVE Usable(heap, c)
  <2>1. held[c] \in Nat /\ leaked[c] \in Nat
    BY DEF IInv, HandlesInv
  <2>2. held[c] + leaked[c] # 0
    BY <2>1, <1>10
  <2>3. {n \in Nodes : n.obj = c} # {}
    BY <2>2, <1>1 DEF IInv, HandlesInv
  <2>4. c \in Objs
    BY <2>3 DEF Objs
  <2>5. QED
    BY <2>4, <1>1, <1>3
<1>11. ASSUME NEW c \in Cells, heap[c].link # None PROVE Usable(heap, heap[c].link)
  <2>1. heap[c].link \in Cells /\ CellOK(heap, c) /\ CellOK(heap, heap[c].link)
    BY <1>2, <1>11, CellTypes DEF Shape
  <2>2. heap[heap[c].link].link = c /\ c # None
    BY <2>1, <1>11, NoneAssumption DEF CellOK
  <2>3. heap[heap[c].link].kind # "free"
    BY <2>1, <2>2 DEF CellOK
  <2>4. QED
    BY <2>1, <2>3, <1>3
<1>12. Usable(heap, Root)
  BY <1>3, <1>5 DEF P
<1>13. QED
  BY <1>3, <1>4, <1>9, <1>10, <1>11, <1>12

\* What every step of the program counts and leaves alone.
LEMMA ProgramOps ==
    ASSUME IInv, Program
    PROVE  Idle /\ ops' \in 0..Programs[uses] /\ UNCHANGED <<uses, status>>
<1>1. Idle /\ ops < Programs[uses] /\ ops' = ops + 1 /\ UNCHANGED <<uses, status>>
  BY DEF Program
<1>2. ops \in 0..Programs[uses] /\ Programs[uses] \in Nat
  BY BoundsAssumption DEF IInv, TypeInv
<1>3. ops' \in 0..Programs[uses]
  BY <1>1, <1>2
<1>4. QED
  BY <1>1, <1>3

-----------------------------------------------------------------------------
(* Assignments.                                                            *)

\* A value that is there, in a field that its new holder has.
LEMMA PlainStoreKeeps ==
    ASSUME IInv, Program, NEW c \in Cells, NEW f \in 1..2, NEW v,
           v = None \/ Usable(heap, v), HasField(heap, c, f),
           heap' = Stored(heap, c, f, v), work' = Old(c, f),
           UNCHANGED <<lists, Listed, table, held, leaked>>
    PROVE  IInv'
<1>1. Idle /\ ops' \in 0..Programs[uses] /\ UNCHANGED <<uses, status>>
  BY ProgramOps
<1>2. Ready(heap, Objs, None) /\ ChainOK(heap, Listed')
  BY <1>1, IdleReady
<1>3. Ready(heap, Objs, v)
  BY <1>2, NoneAssumption DEF Ready
<1>4. work' = Drop(heap[c].fields[f])
  BY DEF Old
<1>5. v = None \/ (v \in Cells /\ heap[v].kind # "free" /\ heap[v].box # "dropped")
  BY DEF Usable
<1>6. QED
  BY <1>1, <1>2, <1>3, <1>4, <1>5, StoreKeeps

\* The kinds whose fields a program can write.
LEMMA FieldsOfKinds ==
    ASSUME NEW h, Shape(h), NEW c \in Cells
    PROVE  /\ h[c].kind = "thread" => HasField(h, c, 1) /\ HasField(h, c, 2)
           /\ h[c].kind \in {"table", "instance", "class"} => HasField(h, c, 1) /\ HasField(h, c, 2)
           /\ h[c].kind = "userdata" => HasField(h, c, 1)
           /\ h[c].kind = "outer" /\ h[c].open = <<>> => HasField(h, c, 2)
<1>1. h[c].open # <<>> => h[c].kind = "outer"
  BY DEF Shape, CellOK
<1>2. QED
  BY <1>1 DEF HasField

\* What an assignment writes to: a field of its kind of object, which is the
\* second one but on a stack.
LEMMA WritableField ==
    ASSUME IInv, Idle, NEW t \in Writable
    PROVE  /\ t[1] \in Cells /\ t[2] \in 1..2 /\ HasField(heap, t[1], t[2])
           /\ heap[t[1]].kind = "thread" \/ t[2] = 2
<1> DEFINE c == t[1]
           f == t[2]
<1>1. /\ \A x \in InReach : Usable(heap, x)
      /\ \A x \in Cells : heap[x].open # <<>> =>
            heap[x].open[1] \in Cells /\ heap[x].open[2] \in 1..2 /\ heap[heap[x].open[1]].kind = "thread"
  BY ReachFacts
<1>2. Shape(heap)
  BY IdleReady DEF Ready
<1>3. CASE t \in InReach \X {1, 2}
  <2>1. c \in Cells /\ f \in {1, 2} /\ c \in InReach
    BY <1>3, <1>1 DEF Usable
  <2>2. f \in 1..2
    BY <2>1
  <2>3. CASE t \in {Target(x) : x \in OfKind("outer")}
    <3>1. PICK x \in OfKind("outer") : t = Target(x)
      BY <2>3
    <3>2. x \in InReach /\ heap[x].kind = "outer" /\ x \in Cells
      BY <1>1 DEF OfKind, Usable
    <3>3. CASE heap[x].open = <<>>
      <4>1. c = x /\ f = 2
        BY <3>1, <3>3 DEF Target
      <4>2. QED
        BY <4>1, <3>2, <3>3, <1>2, FieldsOfKinds
    <3>4. CASE heap[x].open # <<>>
      <4>1. c = heap[x].open[1] /\ f = heap[x].open[2]
        BY <3>1, <3>4 DEF Target
      <4>2. c \in Cells /\ f \in 1..2 /\ heap[c].kind = "thread"
        BY <4>1, <3>2, <3>4, <1>1
      <4>3. f = 1 \/ f = 2
        BY <4>2
      <4>4. QED
        BY <4>2, <4>3, <1>2, FieldsOfKinds
    <3>5. QED
      BY <3>3, <3>4
  <2>4. CASE \/ heap[c].kind = "thread"
             \/ f = 2 /\ heap[c].kind \in {"table", "instance", "class"}
    BY <2>1, <2>2, <2>4, <1>2, FieldsOfKinds
  <2>5. QED
    BY <2>3, <2>4 DEF Writable
<1>4. CASE t \notin InReach \X {1, 2}
  <2>1. PICK x \in OfKind("outer") : t = Target(x)
    BY <1>4 DEF Writable
  <2>2. x \in InReach /\ heap[x].kind = "outer" /\ x \in Cells
    BY <1>1 DEF OfKind, Usable
  <2>3. CASE heap[x].open = <<>>
    <3>1. c = x /\ f = 2
      BY <2>1, <2>3 DEF Target
    <3>2. QED
      BY <3>1, <2>2, <2>3, <1>2, FieldsOfKinds
  <2>4. CASE heap[x].open # <<>>
    <3>1. c = heap[x].open[1] /\ f = heap[x].open[2]
      BY <2>1, <2>4 DEF Target
    <3>2. c \in Cells /\ f \in 1..2 /\ heap[c].kind = "thread"
      BY <3>1, <2>2, <2>4, <1>1
    <3>3. f = 1 \/ f = 2
      BY <3>2
    <3>4. QED
      BY <3>2, <3>3, <1>2, FieldsOfKinds
  <2>5. QED
    BY <2>3, <2>4
<1>5. QED
  BY <1>3, <1>4

\* An assignment to a slot, a member, a captured variable or a stack slot.
LEMMA AssignKeeps ==
    ASSUME IInv, NEW t \in Writable, NEW v \in Values \cup {None}, Assign(t[1], t[2], v)
    PROVE  IInv'
<1> DEFINE c == t[1]
           f == t[2]
<1>1. /\ Program /\ heap' = Stored(heap, c, f, v) /\ work' = Old(c, f)
      /\ UNCHANGED <<lists, Listed, table, held, leaked>>
  BY ListsSame DEF Assign
<1>2. Idle
  BY <1>1, ProgramOps
<1>3. \A x \in InReach : Usable(heap, x)
  BY <1>2, ReachFacts
<1>4. v = None \/ Usable(heap, v)
  BY <1>3 DEF Values
<1>5. c \in Cells /\ f \in 1..2 /\ HasField(heap, c, f)
  BY <1>2, WritableField
<1> HIDE DEF c, f
<1>6. QED
  BY <1>1, <1>4, <1>5, PlainStoreKeeps

\* A value that is put on the stack of the root VM.
LEMMA PushKeeps ==
    ASSUME IInv, Program, NEW s \in 1..2, NEW v, v = None \/ Usable(heap, v),
           heap' = Stored(heap, Root, s, v), work' = Old(Root, s),
           UNCHANGED <<lists, Listed, table, held, leaked>>
    PROVE  IInv'
<1>1. Idle
  BY ProgramOps
<1>2. Shape(heap) /\ heap[Root].kind = "thread" /\ Root \in Cells
  BY <1>1, IdleReady, CellsAssumption DEF Ready
<1>3. HasField(heap, Root, s)
  <2>1. s = 1 \/ s = 2
    OBVIOUS
  <2>2. QED
    BY <2>1, <1>2, FieldsOfKinds
<1>4. QED
  BY <1>2, <1>3, PlainStoreKeeps

\* A weak reference that is read.
LEMMA DerefKeeps ==
    ASSUME IInv, NEW s \in 1..2, NEW w \in OfKind("weakref"), Deref(w, s)
    PROVE  IInv'
<1>1. /\ Program /\ heap' = Stored(heap, Root, s, heap[w].link) /\ work' = Old(Root, s)
      /\ UNCHANGED <<lists, Listed, table, held, leaked>>
  BY ListsSame DEF Deref
<1>2. Idle
  BY <1>1, ProgramOps
<1>3. w \in Cells
  BY <1>2, ReachFacts DEF OfKind, Usable
<1>4. heap[w].link = None \/ Usable(heap, heap[w].link)
  BY <1>2, <1>3, ReachFacts
<1>5. QED
  BY <1>1, <1>4, PushKeeps

\* A handle that is pushed on the stack.
LEMMA PushHandleKeeps ==
    ASSUME IInv, NEW s \in 1..2, NEW c \in Cells, held[c] > 0, PushHandle(c, s)
    PROVE  IInv'
<1>1. /\ Program /\ heap' = Stored(heap, Root, s, c) /\ work' = Old(Root, s)
      /\ UNCHANGED <<lists, Listed, table, held, leaked>>
  BY ListsSame DEF PushHandle
<1>2. Usable(heap, c)
  BY <1>1, ProgramOps, ReachFacts
<1>3. QED
  BY <1>1, <1>2, PushKeeps

-----------------------------------------------------------------------------
(* New objects.                                                            *)

\* h2 is h with a new cell c whose fields are a and b, all of them counted;
\* an open outer is counted by the list it is in.
Adds(h, h2, c, a, b) ==
    /\ c \in Cells /\ h[c].kind = "free" /\ h2[c].kind # "free"
    /\ \A x \in Cells :
          /\ x # c => h2[x].kind = h[x].kind /\ h2[x].open = h[x].open
          /\ ~h2[x].marked
          /\ h2[x].refs = h[x].refs + Ind(x = a) + Ind(x = b) + Ind(x = c /\ h2[x].open # <<>>)
          /\ \A g \in 1..2 : h2[x].fields[g] = IF x = c THEN (IF g = 1 THEN a ELSE b)
                                               ELSE h[x].fields[g]

\* A new object brings the references of its own two fields.
LEMMA AddedFields ==
    ASSUME NEW h, Shape(h), NEW h2, NEW c, NEW a \in Cells \cup {None}, NEW b, Adds(h, h2, c, a, b),
           NEW x \in Cells
    PROVE  FieldRefs(h2, x) = FieldRefs(h, x) + Ind(x = a) + Ind(x = b)
<1> DEFINE g1 == WithField(h, c, 1, a)
<1>1. c \in Cells /\ h \in [Cells -> Cell] /\ 1 \in 1..2 /\ 2 \in 1..2
  BY DEF Adds, Shape
<1>2. FieldIs(h, g1, c, 1, a)
  BY <1>1, FieldAssigned
<1> HIDE DEF g1
<1>3. \A y \in Cells, g \in 1..2 : g1[y].fields[g] = IF y = c /\ g = 1 THEN a ELSE h[y].fields[g]
  BY <1>2 DEF FieldIs
<1>4. \A y \in Cells, g \in 1..2 : h2[y].fields[g] = IF y = c THEN (IF g = 1 THEN a ELSE b) ELSE h[y].fields[g]
  BY DEF Adds
<1>5. h[c].fields[1] = None /\ h[c].fields[2] = None
  BY <1>1 DEF Adds, Shape, CellOK
<1>6. OneField(h, g1, c, 1) /\ g1[c].fields[1] = a
  BY <1>1, <1>3 DEF OneField
<1>7. OneField(g1, h2, c, 2) /\ g1[c].fields[2] = None /\ h2[c].fields[2] = b
  <2>1. \A g \in 1..2 : g = 1 \/ g = 2
    OBVIOUS
  <2>2. QED
    BY <2>1, <1>1, <1>3, <1>4, <1>5 DEF OneField
<1>8. FieldRefs(g1, x) = FieldRefs(h, x) - Ind(None = x) + Ind(a = x)
  BY <1>5, <1>6, FieldRefsStored
<1>9. FieldRefs(h2, x) = FieldRefs(g1, x) - Ind(None = x) + Ind(b = x)
  BY <1>7, FieldRefsStored
<1>10. Ind(None = x) = 0 /\ Ind(a = x) = Ind(x = a) /\ Ind(b = x) = Ind(x = b)
  BY NoneAssumption DEF Ind
<1>11. Ind(a = x) \in Nat /\ Ind(b = x) \in Nat /\ FieldRefs(h, x) \in Nat
  BY HoldersFinite DEF Ind
<1>12. QED
  BY <1>8, <1>9, <1>10, <1>11

\* Counts stay exact when a new object is filled in.
LEMMA ReadyAdded ==
    ASSUME NEW h, NEW objs, Ready(h, objs, None), NEW h2, Shape(h2), NEW c,
           NEW a \in Cells \cup {None}, NEW b, Adds(h, h2, c, a, b)
    PROVE  Ready(h2, objs, c)
<1>1. /\ Shape(h) /\ objs \subseteq Cells /\ h[Root].kind = "thread"
      /\ \A x \in Cells :
            /\ h[x].refs = FieldRefs(h, x) + Ind(x \in objs) + Ind(x = Root) + Ind(h[x].open # <<>>)
            /\ h[x].kind # "free" => h[x].refs > 0
  BY NoneAssumption DEF Ready
<1>2. /\ c \in Cells /\ h[c].kind = "free"
      /\ \A x \in Cells :
            /\ x # c => h2[x].kind = h[x].kind /\ h2[x].open = h[x].open
            /\ ~h2[x].marked
            /\ h2[x].refs = h[x].refs + Ind(x = a) + Ind(x = b) + Ind(x = c /\ h2[x].open # <<>>)
  BY DEF Adds
<1>3. h2[Root].kind = "thread"
  BY <1>1, <1>2, CellsAssumption
<1>4. h[c].open = <<>>
  BY <1>1, <1>2 DEF Shape, CellOK
<1>5. ASSUME NEW x \in Cells
      PROVE  /\ h2[x].refs = FieldRefs(h2, x) + Ind(x \in objs) + Ind(x = Root) + Ind(h2[x].open # <<>>)
             /\ h2[x].kind # "free" /\ x # c => h2[x].refs > 0
  <2>1. FieldRefs(h2, x) = FieldRefs(h, x) + Ind(x = a) + Ind(x = b)
    BY <1>1, AddedFields
  <2>2. Ind(h2[x].open # <<>>) = Ind(h[x].open # <<>>) + Ind(x = c /\ h2[x].open # <<>>)
    BY <1>2, <1>4 DEF Ind
  <2>3. h2[x].refs = h[x].refs + Ind(x = a) + Ind(x = b) + Ind(x = c /\ h2[x].open # <<>>)
    BY <1>2
  <2>4. h[x].refs = FieldRefs(h, x) + Ind(x \in objs) + Ind(x = Root) + Ind(h[x].open # <<>>)
    BY <1>1
  <2>5. /\ FieldRefs(h, x) \in Nat /\ Ind(x = a) \in Nat /\ Ind(x = b) \in Nat /\ h[x].refs \in Nat
        /\ Ind(x = c /\ h2[x].open # <<>>) \in Nat /\ Ind(x \in objs) \in Nat /\ Ind(x = Root) \in Nat
        /\ Ind(h[x].open # <<>>) \in Nat
    BY <1>1, HoldersFinite, CellTypes DEF Ind
  <2>6. h2[x].refs = FieldRefs(h2, x) + Ind(x \in objs) + Ind(x = Root) + Ind(h2[x].open # <<>>)
    <3> DEFINE ia == Ind(x = a)
               ib == Ind(x = b)
               io == Ind(x = c /\ h2[x].open # <<>>)
               jo == Ind(h[x].open # <<>>)
               ko == Ind(h2[x].open # <<>>)
               is == Ind(x \in objs)
               ir == Ind(x = Root)
    <3> HIDE DEF ia, ib, io, jo, ko, is, ir
    <3>1. /\ FieldRefs(h2, x) = FieldRefs(h, x) + ia + ib /\ ko = jo + io
          /\ h2[x].refs = h[x].refs + ia + ib + io /\ h[x].refs = FieldRefs(h, x) + is + ir + jo
      BY <2>1, <2>2, <2>3, <2>4 DEF ia, ib, io, jo, ko, is, ir
    <3>2. /\ FieldRefs(h, x) \in Nat /\ ia \in Nat /\ ib \in Nat /\ io \in Nat /\ jo \in Nat
          /\ is \in Nat /\ ir \in Nat
      BY <2>5 DEF ia, ib, io, jo, is, ir
    <3>3. h2[x].refs = FieldRefs(h2, x) + is + ir + ko
      BY <3>1, <3>2
    <3>4. QED
      BY <3>3 DEF is, ir, ko
  <2>7. h2[x].refs >= h[x].refs
    BY <2>3, <2>5
  <2>8. h2[x].kind # "free" /\ x # c => h[x].refs > 0
    BY <1>1, <1>2
  <2>9. h2[x].kind # "free" /\ x # c => h2[x].refs > 0
    <3>1. h2[x].refs \in Int
      BY <2>3, <2>5
    <3>2. QED
      BY <3>1, <2>5, <2>7, <2>8
  <2>10. QED
    BY <2>6, <2>9
<1>6. QED
  BY <1>1, <1>2, <1>3, <1>5 DEF Ready

\* A cell that is just made.
IsNew(n, k, r, a, b) ==
    /\ n \in Cell /\ n.kind = k /\ n.refs = r /\ ~n.marked /\ n.link = None
    /\ n.fields[1] = a /\ n.fields[2] = b
    /\ n.box = IF k = "userdata" THEN "full" ELSE "none"
    /\ k \in Kinds
    /\ k \in {"userdata", "outer"} => a = None /\ b = None

\* h2 is h, where c is free, with the new cell n and references to a and b.
Places(h, h2, c, n, a, b) ==
    /\ c \in Cells /\ h[c].kind = "free" /\ h2 \in [Cells -> Cell]
    /\ \A x \in Cells : x # c => SameBody(h, h2, x) /\ h2[x].fields = h[x].fields
    /\ \A x \in Cells : h2[x].refs = (IF x = c THEN n.refs ELSE h[x].refs) + Ind(x = a) + Ind(x = b)
    /\ h2[c].kind = n.kind /\ h2[c].marked = n.marked /\ h2[c].link = n.link /\ h2[c].open = n.open
    /\ h2[c].box = n.box /\ h2[c].fields = n.fields

\* The heap with a new object, its two values counted.
LEMMA PlacedCell ==
    ASSUME NEW h \in [Cells -> Cell], NEW c \in Cells, h[c].kind = "free", NEW n \in Cell,
           NEW a \in Cells \cup {None}, NEW b \in Cells \cup {None}
    PROVE  Places(h, AddRefTo(AddRefTo([h EXCEPT ![c] = n], a), b), c, n, a, b)
<1> DEFINE h1 == [h EXCEPT ![c] = n]
           h2 == AddRefTo(h1, a)
           h3 == AddRefTo(h2, b)
<1>1. h1 \in [Cells -> Cell] /\ h1[c] = n /\ \A x \in Cells : x # c => h1[x] = h[x]
  OBVIOUS
<1> HIDE DEF h1
<1>2. Counted(h1, h2, a)
  BY <1>1, AddRefToCounts
<1>3. h2 \in [Cells -> Cell]
  BY <1>2 DEF Counted
<1> HIDE DEF h2
<1>4. Counted(h2, h3, b)
  BY <1>3, AddRefToCounts
<1> HIDE DEF h3
<1>5. ASSUME NEW x \in Cells
      PROVE  /\ SameBody(h1, h3, x) /\ h3[x].fields = h1[x].fields
             /\ h3[x].refs = h1[x].refs + Ind(x = a) + Ind(x = b)
  BY <1>2, <1>4 DEF Counted, SameBody
<1>6. h3 \in [Cells -> Cell]
  BY <1>4 DEF Counted
<1>7. \A x \in Cells : h3[x].refs = (IF x = c THEN n.refs ELSE h[x].refs) + Ind(x = a) + Ind(x = b)
  BY <1>1, <1>5
<1>8. \A x \in Cells : x # c => SameBody(h, h3, x) /\ h3[x].fields = h[x].fields
  BY <1>1, <1>5 DEF SameBody
<1>9. /\ h3[c].kind = n.kind /\ h3[c].marked = n.marked /\ h3[c].link = n.link /\ h3[c].open = n.open
      /\ h3[c].box = n.box /\ h3[c].fields = n.fields
  BY <1>1, <1>5 DEF SameBody
<1>10. QED
  BY <1>6, <1>7, <1>8, <1>9 DEF Places, h3, h2, h1

\* What the program may refer to in a new cell, and the slot of an open outer.
Fit(h, v) == v = None \/ Usable(h, v)
OpenFit(h, n) == n.open = <<>> \/ (n.kind = "outer" /\ n.open[1] \in Cells /\ h[n.open[1]].kind = "thread")

\* The heap with a new object is well formed.
LEMMA ShapePlaced ==
    ASSUME NEW h, Shape(h), NEW h2, NEW c, NEW n, NEW a, NEW b, NEW k, NEW r, Places(h, h2, c, n, a, b),
           IsNew(n, k, r, a, b), Fit(h, a), Fit(h, b), OpenFit(h, n)
    PROVE  Shape(h2)
<1>1. /\ c \in Cells /\ h[c].kind = "free" /\ h2 \in [Cells -> Cell]
      /\ \A x \in Cells : x # c => SameBody(h, h2, x) /\ h2[x].fields = h[x].fields
      /\ \A x \in Cells : x # c => h2[x].refs = h[x].refs + Ind(x = a) + Ind(x = b)
  BY DEF Places
<1>2. \A x \in Cells : CellOK(h, x)
  BY DEF Shape
<1>3. h[c].link = None
  BY <1>1, <1>2 DEF CellOK
<1>4. ASSUME NEW x \in Cells, x # c PROVE CellOK(h2, x)
  <2>1. SameBody(h, h2, x) /\ h2[x].fields = h[x].fields /\ h2[x].refs = h[x].refs + Ind(x = a) + Ind(x = b)
        /\ CellOK(h, x)
    BY <1>1, <1>2, <1>4
  <2>2. ASSUME h[x].kind = "free" \/ h[x].box = "dropped" PROVE h2[x].refs = 0
    <3>1. x # a /\ x # b
      BY <2>2, NoneAssumption DEF Fit, Usable
    <3>2. h[x].refs = 0
      BY <2>1, <2>2 DEF CellOK
    <3>3. QED
      BY <3>1, <3>2, <2>1 DEF Ind
  <2>3. ASSUME h[x].link # None
        PROVE  h2[h[x].link].link = x /\ (h[x].kind = "weakref") # (h2[h[x].link].kind = "weakref")
    <3>1. h[x].link \in Cells /\ h[h[x].link].link = x
          /\ (h[x].kind = "weakref") # (h[h[x].link].kind = "weakref")
      BY <2>1, <2>3, CellTypes DEF CellOK
    <3>2. h[x].link # c
      BY <3>1, <1>3, NoneAssumption
    <3>3. SameBody(h, h2, h[x].link)
      BY <3>1, <3>2, <1>1
    <3>4. QED
      BY <3>1, <3>3 DEF SameBody
  <2>4. ASSUME h[x].open # <<>> PROVE h2[h[x].open[1]].kind = "thread"
    <3>1. h[x].open[1] \in Cells /\ h[h[x].open[1]].kind = "thread"
      BY <2>1, <2>4, CellTypes DEF CellOK
    <3>2. h[x].open[1] # c
      BY <3>1, <1>1
    <3>3. QED
      BY <3>1, <3>2, <1>1 DEF SameBody
  <2>5. QED
    BY <2>1, <2>2, <2>3, <2>4 DEF CellOK, SameBody
<1>5. CellOK(h2, c)
  <2>1. /\ h2[c].kind = k /\ k \in Kinds /\ ~h2[c].marked /\ h2[c].link = None /\ h2[c].open = n.open
        /\ h2[c].box = (IF k = "userdata" THEN "full" ELSE "none")
        /\ h2[c].fields[1] = a /\ h2[c].fields[2] = b
        /\ k \in {"userdata", "outer"} => a = None /\ b = None
    BY DEF Places, IsNew
  <2>2. k # "free" /\ k # "weakref"
    BY <2>1 DEF Kinds
  <2>3. ASSUME n.open # <<>> PROVE k = "outer" /\ h2[n.open[1]].kind = "thread"
    <3>1. k = "outer" /\ n.open[1] \in Cells /\ h[n.open[1]].kind = "thread"
      BY <2>3 DEF OpenFit, IsNew
    <3>2. n.open[1] # c
      BY <3>1, <1>1
    <3>3. QED
      BY <3>1, <3>2, <1>1 DEF SameBody
  <2>4. QED
    BY <2>1, <2>2, <2>3 DEF CellOK
<1>6. QED
  BY <1>1, <1>4, <1>5 DEF Shape

\* The counts in a heap with a new object are exact, its own first reference
\* still missing.
LEMMA ReadyPlaced ==
    ASSUME NEW h, NEW objs, Ready(h, objs, None), NEW h2, NEW c, NEW n, NEW a, NEW b, NEW k, NEW r,
           Places(h, h2, c, n, a, b), IsNew(n, k, r, a, b), Fit(h, a), Fit(h, b), OpenFit(h, n),
           r = Ind(n.open # <<>>)
    PROVE  Ready(h2, objs, c)
<1>1. Shape(h) /\ \A x \in Cells : ~h[x].marked
  BY DEF Ready
<1>2. Shape(h2)
  BY <1>1, ShapePlaced
<1>3. /\ c \in Cells /\ h[c].kind = "free" /\ h2 \in [Cells -> Cell]
      /\ \A x \in Cells : x # c => SameBody(h, h2, x) /\ h2[x].fields = h[x].fields
      /\ \A x \in Cells : h2[x].refs = (IF x = c THEN n.refs ELSE h[x].refs) + Ind(x = a) + Ind(x = b)
      /\ h2[c].kind = n.kind /\ h2[c].marked = n.marked /\ h2[c].open = n.open /\ h2[c].fields = n.fields
  BY DEF Places
<1>4. n.kind \in Kinds /\ n.refs = r /\ ~n.marked /\ n.fields[1] = a /\ n.fields[2] = b
  BY DEF IsNew
<1>5. h[c].refs = 0
  BY <1>1, <1>3 DEF Shape, CellOK
<1>6. a \in Cells \cup {None} /\ b \in Cells \cup {None}
  BY DEF Fit, Usable
<1>7. ASSUME NEW x \in Cells
      PROVE  /\ x # c => h2[x].kind = h[x].kind /\ h2[x].open = h[x].open
             /\ ~h2[x].marked
             /\ \A g \in 1..2 : h2[x].fields[g] = IF x = c THEN (IF g = 1 THEN a ELSE b) ELSE h[x].fields[g]
  <2>1. \A g \in 1..2 : g = 1 \/ g = 2
    OBVIOUS
  <2>2. CASE x = c
    BY <2>1, <2>2, <1>3, <1>4
  <2>3. CASE x # c
    BY <2>3, <1>1, <1>3 DEF SameBody
  <2>4. QED
    BY <2>2, <2>3
<1>8. ASSUME NEW x \in Cells
      PROVE  h2[x].refs = h[x].refs + Ind(x = a) + Ind(x = b) + Ind(x = c /\ h2[x].open # <<>>)
  <2>1. Ind(x = a) \in Nat /\ Ind(x = b) \in Nat /\ h[x].refs \in Nat
    BY <1>1, CellTypes DEF Ind
  <2>2. CASE x = c
    <3>1. Ind(x = c /\ h2[x].open # <<>>) = r /\ r \in Nat
      BY <2>2, <1>3 DEF Ind
    <3>2. h2[x].refs = r + Ind(x = a) + Ind(x = b)
      BY <2>2, <1>3, <1>4
    <3>3. QED
      BY <3>1, <3>2, <2>1, <2>2, <1>5
  <2>3. CASE x # c
    <3>1. Ind(x = c /\ h2[x].open # <<>>) = 0
      BY <2>3 DEF Ind
    <3>2. h2[x].refs = h[x].refs + Ind(x = a) + Ind(x = b)
      BY <2>3, <1>3
    <3>3. QED
      BY <3>1, <3>2, <2>1
  <2>4. QED
    BY <2>2, <2>3
<1>9. h2[c].kind # "free"
  BY <1>3, <1>4 DEF Kinds
<1>10. Adds(h, h2, c, a, b)
  BY <1>3, <1>7, <1>8, <1>9 DEF Adds
<1>11. QED
  BY <1>2, <1>6, <1>10, ReadyAdded

\* A new cell whose fields are counted and that nothing refers to yet.
Creates(h, h2, c) ==
    \E n, a, b, k : /\ Places(h, h2, c, n, a, b) /\ IsNew(n, k, 0, a, b)
                    /\ Fit(h, a) /\ Fit(h, b) /\ n.open = <<>>

\* What the creating steps have in common.
LEMMA CreateReady ==
    ASSUME NEW h, NEW objs, Ready(h, objs, None), NEW h2, NEW c, Creates(h, h2, c)
    PROVE  /\ Ready(h2, objs, c) /\ c \in Cells /\ h[c].kind = "free" /\ h2[c].kind \in Kinds
           /\ h2[c].kind # "free" /\ h2[c].box # "dropped" /\ ~h2[c].marked
           /\ \A x \in Cells : x # c => SameBody(h, h2, x) /\ h2[x].fields = h[x].fields
<1>1. PICK n, a, b, k : /\ Places(h, h2, c, n, a, b) /\ IsNew(n, k, 0, a, b)
                        /\ Fit(h, a) /\ Fit(h, b) /\ n.open = <<>>
  BY DEF Creates
<1>2. OpenFit(h, n) /\ Ind(n.open # <<>>) = 0
  BY <1>1 DEF OpenFit, Ind
<1>3. Ready(h2, objs, c)
  BY <1>1, <1>2, ReadyPlaced
<1>4. h2[c].kind \in Kinds /\ h2[c].kind # "free" /\ h2[c].box # "dropped" /\ ~h2[c].marked
  BY <1>1 DEF Places, IsNew, Kinds
<1>5. QED
  BY <1>1, <1>3, <1>4 DEF Places

\* ... and is then stored in field f of x.
LEMMA CreateKeeps ==
    ASSUME IInv, Idle, NEW h, Ready(h, Objs, None), NEW h2, NEW c, Creates(h, h2, c),
           NEW ch, ChainOK(h, ch), NEW x \in Cells, NEW f \in 1..2, HasField(h, x, f),
           heap' = Stored(h2, x, f, c), Listed' = ch \cup {c}, ListsOK', work' = Drop(h[x].fields[f]),
           ops' \in 0..Programs[uses], UNCHANGED <<table, held, leaked, uses, status>>
    PROVE  IInv'
<1>1. /\ Ready(h2, Objs, c) /\ c \in Cells /\ h[c].kind = "free" /\ h2[c].kind \in Kinds
      /\ h2[c].kind # "free" /\ h2[c].box # "dropped" /\ ~h2[c].marked
      /\ \A y \in Cells : y # c => SameBody(h, h2, y) /\ h2[y].fields = h[y].fields
  BY CreateReady
<1>2. x # c
  BY <1>1 DEF HasField
<1>3. HasField(h2, x, f) /\ h2[x].fields[f] = h[x].fields[f]
  BY <1>1, <1>2 DEF HasField, SameBody
<1>4. ChainOK(h2, Listed')
  <2>1. ASSUME NEW y \in ch, y # c PROVE y \in Cells /\ h2[y].kind \in Kinds /\ ~h2[y].marked
    BY <2>1, <1>1 DEF ChainOK, SameBody
  <2>2. QED
    BY <2>1, <1>1 DEF ChainOK
<1>5. QED
  BY <1>1, <1>3, <1>4, StoreKeeps

\* The allocator takes a free cell.
LEMMA MinFree ==
    ASSUME NEW S \in SUBSET FreeCells, S # {}
    PROVE  Min(S) \in S /\ Min(S) \in Cells /\ heap[Min(S)].kind = "free"
<1>1. S \in SUBSET Nat
  BY CellsAssumption DEF FreeCells
<1>2. \E n \in S : \A k \in S : n <= k
  BY <1>1, LeastNat
<1>3. Min(S) \in S
  BY <1>2 DEF Min
<1>4. QED
  BY <1>3 DEF FreeCells, Live

\* The components of an empty cell.
LEMMA EmptyCell ==
    /\ NoCell \in Cell /\ NoCell.refs = 0 /\ ~NoCell.marked /\ NoCell.link = None
    /\ NoCell.open = <<>> /\ NoCell.box = "none"
    /\ NoCell.fields[1] = None /\ NoCell.fields[2] = None
<1> DEFINE fs == <<None, None>>
<1>1. fs \in [1..2 -> Cells \cup {None}] /\ fs[1] = None /\ fs[2] = None
  OBVIOUS
<1>2. NoCell = [kind |-> "free", refs |-> 0, marked |-> FALSE, fields |-> fs, link |-> None,
                open |-> <<>>, box |-> "none"]
  BY DEF NoCell
<1> HIDE DEF fs
<1>3. QED
  BY <1>1, <1>2 DEF Cell

\* made is h with a new cell of kind k that is put on the stack of the root VM.
Puts(h, made, c, k, a, b, s) ==
    \E n, h2 : /\ made = Stored(h2, Root, s, c)
               /\ Places(h, h2, c, n, a, b) /\ IsNew(n, k, 0, a, b) /\ n.open = <<>>

\* Created fills in a new cell and puts it on the stack of the root VM.
LEMMA CreatedPlaces ==
    ASSUME NEW h \in [Cells -> Cell], NEW c \in Cells, h[c].kind = "free",
           NEW k \in {"table", "userdata", "thread", "class", "instance", "closure"},
           NEW a \in Cells \cup {None}, NEW b \in Cells \cup {None},
           k = "userdata" => a = None /\ b = None, NEW s
    PROVE  Puts(h, Created(h, c, k, <<a, b>>, s), c, k, a, b, s)
<1> DEFINE n == [NoCell EXCEPT !.kind = k, !.fields = <<a, b>>,
                               !.box = IF k = "userdata" THEN "full" ELSE "none"]
           h2 == AddRefTo(AddRefTo([h EXCEPT ![c] = n], a), b)
<1>1. <<a, b>>[1] = a /\ <<a, b>>[2] = b
  OBVIOUS
<1>2. Created(h, c, k, <<a, b>>, s) = Stored(h2, Root, s, c)
  BY <1>1 DEF Created
<1>3. IsNew(n, k, 0, a, b) /\ n.open = <<>>
  <2> DEFINE fs == <<a, b>>
  <2>1. fs \in [1..2 -> Cells \cup {None}] /\ fs[1] = a /\ fs[2] = b
    BY <1>1
  <2>2. k \in Kinds /\ k # "outer"
    BY DEF Kinds
  <2> DEFINE bx == IF k = "userdata" THEN "full" ELSE "none"
  <2>3. bx \in {"full", "none"}
    OBVIOUS
  <2> HIDE DEF fs, bx
  <2>4. n = [NoCell EXCEPT !.kind = k, !.fields = fs, !.box = bx]
    BY DEF fs, bx
  <2>5. /\ n \in Cell /\ n.kind = k /\ n.refs = 0 /\ ~n.marked /\ n.link = None /\ n.fields = fs
        /\ n.open = <<>> /\ n.box = bx
    <3> HIDE DEF n
    <3>1. /\ NoCell \in Cell /\ NoCell.refs = 0 /\ ~NoCell.marked /\ NoCell.link = None
          /\ NoCell.open = <<>>
      BY EmptyCell
    <3> HIDE DEF NoCell
    <3>2. QED
      BY <3>1, <2>1, <2>2, <2>3, <2>4 DEF Cell
  <2>6. QED
    BY <2>1, <2>2, <2>5 DEF IsNew, bx
<1>4. n \in Cell
  BY <1>3 DEF IsNew
<1> HIDE DEF n
<1>5. Places(h, h2, c, n, a, b)
  BY <1>4, PlacedCell
<1> HIDE DEF h2
<1>6. QED
  BY <1>2, <1>3, <1>5 DEF Puts

\* Created: the new object is put on the stack of the root VM.
LEMMA CreatedKeeps ==
    ASSUME IInv, Idle, NEW h, Ready(h, Objs, None), NEW c \in Cells, h[c].kind = "free",
           NEW k \in {"table", "userdata", "thread", "class", "instance", "closure"},
           NEW a, Fit(h, a), NEW b, Fit(h, b), k = "userdata" => a = None /\ b = None,
           NEW ch, ChainOK(h, ch), NEW s \in 1..2, h[Root].fields[s] = heap[Root].fields[s],
           heap' = Created(h, c, k, <<a, b>>, s), Listed' = ch \cup {c}, ListsOK', work' = Old(Root, s),
           ops' \in 0..Programs[uses], UNCHANGED <<table, held, leaked, uses, status>>
    PROVE  IInv'
<1>1. a \in Cells \cup {None} /\ b \in Cells \cup {None} /\ h \in [Cells -> Cell]
  BY DEF Fit, Usable, Ready, Shape
<1>2. PICK n, h2 : /\ heap' = Stored(h2, Root, s, c)
                   /\ Places(h, h2, c, n, a, b) /\ IsNew(n, k, 0, a, b) /\ n.open = <<>>
  <2> DEFINE made == Created(h, c, k, <<a, b>>, s)
  <2>1. Puts(h, made, c, k, a, b, s)
    BY <1>1, CreatedPlaces
  <2>2. heap' = made
    OBVIOUS
  <2> HIDE DEF made
  <2>3. QED
    BY <2>1, <2>2 DEF Puts
<1>3. Creates(h, h2, c)
  BY <1>2 DEF Creates
<1>4. Root \in Cells /\ HasField(h, Root, s)
  <2>1. s = 1 \/ s = 2
    OBVIOUS
  <2>2. Shape(h) /\ h[Root].kind = "thread" /\ Root \in Cells
    BY CellsAssumption DEF Ready
  <2>3. QED
    BY <2>1, <2>2, FieldsOfKinds
<1>5. work' = Drop(h[Root].fields[s])
  BY DEF Old
<1>6. QED
  BY <1>2, <1>3, <1>4, <1>5, CreateKeeps

\* A field of an idle VM leads to an object that can be used.
LEMMA FieldFit ==
    ASSUME IInv, Idle, NEW x \in Cells, NEW f \in 1..2
    PROVE  Fit(heap, heap[x].fields[f])
<1>1. heap[x].fields[f] # None => heap[x].fields[f] \in Cells /\ heap[heap[x].fields[f]].kind # "free"
  BY IdleReady
<1>2. QED
  BY <1>1, ReachFacts DEF Fit

\* A new table, userdata or coroutine.
LEMMA NewObjectKeeps ==
    ASSUME IInv, NEW s \in 1..2, NEW k, NewObject(k, s)
    PROVE  IInv'
<1> DEFINE c == Min(FreeCells)
<1>1. /\ Program /\ k \in {"table", "userdata", "thread"} /\ FreeCells # {}
      /\ heap' = Created(heap, c, k, <<None, None>>, s) /\ AddToChain({c}, c)
      /\ work' = Old(Root, s) /\ UNCHANGED <<table, held, leaked>>
  BY DEF NewObject
<1>2. Idle /\ ops' \in 0..Programs[uses] /\ UNCHANGED <<uses, status>>
  BY <1>1, ProgramOps
<1>3. Ready(heap, Objs, None) /\ ChainOK(heap, Listed)
  BY <1>2, IdleReady
<1>4. c \in Cells /\ heap[c].kind = "free"
  BY <1>1, MinFree
<1>5. Fit(heap, None)
  BY DEF Fit
<1>6. k \in {"table", "userdata", "thread", "class", "instance", "closure"}
  BY <1>1
<1> HIDE DEF c
<1>7. Listed' = Listed \cup {c} /\ ListsOK'
  BY <1>1, <1>4, ChainMore DEF IInv, TypeInv
<1>8. QED
  BY <1>1, <1>2, <1>3, <1>4, <1>5, <1>6, <1>7, CreatedKeeps

\* A new class with a base, or a new instance.
LEMMA NewDerivedKeeps ==
    ASSUME IInv, NEW s \in 1..2, NEW k, NEW from \in OfKind("class") \cup {None}, NewDerived(k, from, s)
    PROVE  IInv'
<1> DEFINE c == Min(FreeCells)
           b == IF from = None THEN None ELSE heap[from].fields[2]
<1>1. /\ Program /\ k \in {"class", "instance"} /\ FreeCells # {}
      /\ heap' = Created(heap, c, k, <<from, b>>, s) /\ AddToChain({c}, c)
      /\ work' = Old(Root, s) /\ UNCHANGED <<table, held, leaked>>
  BY DEF NewDerived
<1>2. Idle /\ ops' \in 0..Programs[uses] /\ UNCHANGED <<uses, status>>
  BY <1>1, ProgramOps
<1>3. Ready(heap, Objs, None) /\ ChainOK(heap, Listed)
  BY <1>2, IdleReady
<1>4. c \in Cells /\ heap[c].kind = "free"
  BY <1>1, MinFree
<1>5. Fit(heap, from)
  BY <1>2, ReachFacts DEF Fit, OfKind
<1>6. Fit(heap, b)
  <2>1. CASE from = None
    BY <2>1 DEF Fit
  <2>2. CASE from # None
    <3>1. from \in Cells /\ 2 \in 1..2
      BY <2>2, <1>5 DEF Fit, Usable
    <3>2. Fit(heap, heap[from].fields[2])
      BY <3>1, <1>2, FieldFit
    <3>3. QED
      BY <2>2, <3>2
  <2>3. QED
    BY <2>1, <2>2
<1>7. k \in {"table", "userdata", "thread", "class", "instance", "closure"} /\ k # "userdata"
  BY <1>1
<1> HIDE DEF b, c
<1>8. Listed' = Listed \cup {c} /\ ListsOK'
  BY <1>1, <1>4, ChainMore DEF IInv, TypeInv
<1>9. QED
  BY <1>1, <1>2, <1>3, <1>4, <1>5, <1>6, <1>7, <1>8, CreatedKeeps

\* FindOuter makes a new outer of a slot.
HasOuter(h, o, th, g) ==
    h = [heap EXCEPT ![o] = [NoCell EXCEPT !.kind = "outer", !.refs = 1, !.open = <<th, g>>]]
OuterAdded(h, o) ==
    /\ Ready(h, Objs, None) /\ Fit(h, o) /\ ChainOK(h, Listed \cup {o})
    /\ \A x \in Cells : x # o => h[x].kind = heap[x].kind /\ h[x].fields = heap[x].fields

\* FindOuter: the heap with a new open outer.
LEMMA OuterMade ==
    ASSUME IInv, Idle, NEW o \in Cells, heap[o].kind = "free", NEW th \in Cells, heap[th].kind = "thread",
           NEW g \in 1..2, NEW h, HasOuter(h, o, th, g)
    PROVE  OuterAdded(h, o)
<1> DEFINE n == [NoCell EXCEPT !.kind = "outer", !.refs = 1, !.open = <<th, g>>]
<1>1. Ready(heap, Objs, None) /\ ChainOK(heap, Listed)
  BY IdleReady
<1>2. /\ n \in Cell /\ n.kind = "outer" /\ n.refs = 1 /\ ~n.marked /\ n.link = None /\ n.open = <<th, g>>
      /\ n.fields = NoCell.fields /\ n.box = "none"
  <2> DEFINE o2 == <<th, g>>
  <2>1. o2 \in {<<>>} \cup (Cells \X {1, 2})
    OBVIOUS
  <2>2. /\ NoCell \in Cell /\ ~NoCell.marked /\ NoCell.link = None /\ NoCell.box = "none"
    BY EmptyCell
  <2>3. "outer" \in Kinds
    BY DEF Kinds
  <2> HIDE DEF NoCell, o2
  <2>4. n = [NoCell EXCEPT !.kind = "outer", !.refs = 1, !.open = o2]
    BY DEF o2
  <2> HIDE DEF n
  <2>5. /\ n \in Cell /\ n.kind = "outer" /\ n.refs = 1 /\ ~n.marked /\ n.link = None /\ n.open = o2
        /\ n.fields = NoCell.fields /\ n.box = "none"
    BY <2>1, <2>2, <2>3, <2>4 DEF Cell
  <2>6. QED
    BY <2>5 DEF o2
<1>3. h = [heap EXCEPT ![o] = n]
  BY DEF HasOuter
<1> HIDE DEF n
<1>4. AddRefTo(AddRefTo([heap EXCEPT ![o] = n], None), None) = h
  BY <1>3 DEF AddRefTo
<1>5. heap \in [Cells -> Cell]
  BY <1>1 DEF Ready, Shape
<1>6. Places(heap, h, o, n, None, None)
  <2>1. Places(heap, AddRefTo(AddRefTo([heap EXCEPT ![o] = n], None), None), o, n, None, None)
    BY <1>2, <1>5, PlacedCell
  <2>2. QED
    BY <2>1, <1>4
<1>7. IsNew(n, "outer", 1, None, None)
  BY <1>2, EmptyCell DEF IsNew, Kinds
<1>8. n.open # <<>> /\ n.open[1] = th
  BY <1>2
<1>9. OpenFit(heap, n) /\ Ind(n.open # <<>>) = 1 /\ Fit(heap, None)
  BY <1>2, <1>8 DEF OpenFit, Ind, Fit
<1>10. Ready(h, Objs, o)
  BY <1>1, <1>6, <1>7, <1>9, ReadyPlaced
<1>11. /\ \A x \in Cells : x # o => SameBody(heap, h, x) /\ h[x].fields = heap[x].fields
       /\ h[o].kind = "outer" /\ ~h[o].marked /\ h[o].box = "none"
  BY <1>2, <1>6 DEF Places
<1>12. h[o] = n
  BY <1>3, <1>5
<1>13. h[o].refs = 1
  BY <1>2, <1>12
<1>14. Ready(h, Objs, None)
  <2>1. h[o].refs > 0
    BY <1>13
  <2>2. QED
    BY <2>1, <1>10 DEF Ready
<1>15. Fit(h, o)
  BY <1>11 DEF Fit, Usable
<1>16. ChainOK(h, Listed \cup {o})
  <2>1. ASSUME NEW y \in Listed, y # o PROVE y \in Cells /\ h[y].kind \in Kinds /\ ~h[y].marked
    BY <2>1, <1>1, <1>11 DEF ChainOK, SameBody
  <2>2. QED
    BY <2>1, <1>11 DEF ChainOK, Kinds
<1>17. QED
  BY <1>11, <1>14, <1>15, <1>16 DEF SameBody, OuterAdded

\* A new closure with the variable it captures.
LEMMA NewClosureKeeps ==
    ASSUME IInv, NEW s \in 1..2, NEW th \in OfKind("thread"), NEW g \in 1..2, NewClosure(th, g, s)
    PROVE  IInv'
<1> DEFINE known == {o \in OpenOuters(th) : heap[o].open[2] = g}
           c == Min(FreeCells)
           o == IF known = {} THEN Min(FreeCells \ {c}) ELSE CHOOSE k \in known : TRUE
           otr == [NoCell EXCEPT !.kind = "outer", !.refs = 1, !.open = <<th, g>>]
           h == IF known = {} THEN [heap EXCEPT ![o] = otr] ELSE heap
           ch == IF known = {} THEN Listed \cup {o} ELSE Listed
<1>1. /\ Program /\ Cardinality(FreeCells) >= IF known = {} THEN 2 ELSE 1
      /\ heap' = Created(h, c, "closure", <<None, o>>, s) 
      /\ IF known = {} THEN AddToChain({c, o}, o) ELSE AddToChain({c}, c)
      /\ work' = Old(Root, s) /\ UNCHANGED <<table, held, leaked>>
  BY DEF NewClosure
<1>2. Idle /\ ops' \in 0..Programs[uses] /\ UNCHANGED <<uses, status>>
  BY <1>1, ProgramOps
<1>3. Ready(heap, Objs, None) /\ ChainOK(heap, Listed)
  BY <1>2, IdleReady
<1>4. th \in Cells /\ heap[th].kind = "thread"
  BY <1>2, ReachFacts DEF OfKind, Usable
<1>5. IsFiniteSet(FreeCells)
  BY CellsAssumption, FS_Subset DEF FreeCells
<1>6. FreeCells # {}
  <2>1. Cardinality({}) = 0
    BY FS_EmptySet
  <2>2. Cardinality(FreeCells) >= 1
    BY <1>1, <1>5, FS_CardinalityType
  <2>3. QED
    BY <2>1, <2>2
<1>7. c \in Cells /\ heap[c].kind = "free" /\ c \in FreeCells
  BY <1>6, MinFree
<1> HIDE DEF c
<1>8. c # Root
  BY <1>3, <1>7 DEF Ready
<1>9. /\ Ready(h, Objs, None) /\ Fit(h, o) /\ ChainOK(h, ch) /\ h[c].kind = "free"
      /\ h[Root].fields[s] = heap[Root].fields[s] /\ (known = {} => o \in Cells)
  <2>1. CASE known = {}
    <3>1. FreeCells \ {c} # {}
      <4>1. SUFFICES ASSUME FreeCells \ {c} = {} PROVE FALSE
        OBVIOUS
      <4>2. FreeCells = {c}
        BY <4>1, <1>7
      <4>3. Cardinality(FreeCells) = 1
        BY <4>2, FS_Singleton
      <4>4. QED
        BY <4>3, <2>1, <1>1
    <3>2. Min(FreeCells \ {c}) \in FreeCells \ {c}
      BY <3>1, MinFree
    <3>3. o \in FreeCells \ {c}
      BY <2>1, <3>2
    <3>4. o \in Cells /\ heap[o].kind = "free" /\ o # c
      BY <3>3 DEF FreeCells, Live
    <3> HIDE DEF o
    <3>5. HasOuter(h, o, th, g)
      BY <2>1 DEF HasOuter
    <3> HIDE DEF h, known, ch
    <3>6. /\ Ready(h, Objs, None) /\ Fit(h, o) /\ ChainOK(h, Listed \cup {o})
          /\ \A x \in Cells : x # o => h[x].kind = heap[x].kind /\ h[x].fields = heap[x].fields
      <4>1. OuterAdded(h, o)
        BY <3>4, <3>5, <1>2, <1>4, OuterMade
      <4>2. QED
        BY <4>1 DEF OuterAdded
    <3>7. Root # o /\ Root \in Cells
      BY <3>4, <1>3, CellsAssumption DEF Ready
    <3>8. ch = Listed \cup {o}
      BY <2>1 DEF ch
    <3>9. QED
      BY <3>4, <3>6, <3>7, <3>8, <1>7
  <2>2. CASE known # {}
    <3>1. o \in known
      BY <2>2
    <3>2. o \in Cells /\ heap[o].kind = "outer"
      BY <3>1 DEF OpenOuters, Live
    <3>3. h = heap
      BY <2>2
    <3> HIDE DEF o, h
    <3>4. Usable(heap, o)
      BY <3>2, <1>2, ReachFacts
    <3>5. ch = Listed
      BY <2>2
    <3> HIDE DEF ch
    <3>6. QED
      BY <2>2, <3>3, <3>4, <3>5, <1>3, <1>7 DEF Fit
  <2>3. QED
    BY <2>1, <2>2
<1> HIDE DEF o, h, known
<1>10. Listed' = ch \cup {c} /\ ListsOK'
  <2>1. ListsOK
    BY DEF IInv, TypeInv
  <2>2. CASE known = {}
    <3>1. AddToChain({c, o}, o) /\ {c, o} \in SUBSET Cells
      BY <2>2, <1>1, <1>7, <1>9
    <3>2. Listed' = Listed \cup {c, o} /\ ListsOK'
      BY <2>1, <3>1, ChainMore
    <3>3. QED
      BY <2>2, <3>2
  <2>3. CASE known # {}
    <3>1. AddToChain({c}, c) /\ {c} \in SUBSET Cells
      BY <2>3, <1>1, <1>7
    <3>2. Listed' = Listed \cup {c} /\ ListsOK'
      BY <2>1, <3>1, ChainMore
    <3>3. QED
      BY <2>3, <3>2
  <2>4. QED
    BY <2>2, <2>3
<1>11. Fit(h, None)
  BY DEF Fit
<1> HIDE DEF ch
<1>12. QED
  BY <1>1, <1>2, <1>7, <1>9, <1>10, <1>11, CreatedKeeps

\* The clone of a closure, with the base class a and the captured variable b.
LEMMA MethodPlaces ==
    ASSUME IInv, NEW k \in OfKind("class"), NEW c \in OfKind("closure"), AddMethod(k, c)
    PROVE  \E new, n, h2 :
              /\ Places(heap, h2, new, n, heap[k].fields[1], heap[c].fields[2])
              /\ IsNew(n, "closure", 0, heap[k].fields[1], heap[c].fields[2]) /\ n.open = <<>>
              /\ heap' = Stored(h2, k, 2, new) /\ Listed' = Listed \cup {new} /\ ListsOK'
<1> DEFINE new == Min(FreeCells)
           a == heap[k].fields[1]
           b == heap[c].fields[2]
           clone == [NoCell EXCEPT !.kind = "closure", !.fields = <<a, b>>]
           h2 == AddRefTo(AddRefTo([heap EXCEPT ![new] = clone], a), b)
           h3 == AddRefTo(AddRefTo([heap EXCEPT ![new] = clone], clone.fields[1]), clone.fields[2])
<1>1. Program /\ FreeCells # {} /\ heap' = Stored(h3, k, 2, new) /\ AddToChain({new}, new)
  BY DEF AddMethod
<1>2. Idle
  BY <1>1, ProgramOps
<1>3. Ready(heap, Objs, None)
  BY <1>2, IdleReady
<1>4. new \in Cells /\ heap[new].kind = "free"
  BY <1>1, MinFree
<1>5. k \in Cells /\ c \in Cells /\ 1 \in 1..2 /\ 2 \in 1..2
  BY <1>2, ReachFacts DEF OfKind, Usable
<1>6. Fit(heap, a) /\ Fit(heap, b)
  BY <1>2, <1>5, FieldFit
<1>7. a \in Cells \cup {None} /\ b \in Cells \cup {None} /\ heap \in [Cells -> Cell]
  BY <1>3, <1>6 DEF Fit, Usable, Ready, Shape
<1> HIDE DEF a, b, new
<1>8. IsNew(clone, "closure", 0, a, b) /\ clone.open = <<>>
  <2> DEFINE fs == <<a, b>>
  <2>1. fs \in [1..2 -> Cells \cup {None}] /\ fs[1] = a /\ fs[2] = b
    BY <1>7
  <2>2. "closure" \in Kinds
    BY DEF Kinds
  <2>3. /\ NoCell \in Cell /\ NoCell.refs = 0 /\ ~NoCell.marked /\ NoCell.link = None
        /\ NoCell.open = <<>> /\ NoCell.box = "none"
    BY EmptyCell
  <2> HIDE DEF fs, NoCell
  <2>4. clone = [NoCell EXCEPT !.kind = "closure", !.fields = fs]
    BY DEF fs
  <2> HIDE DEF clone
  <2>5. /\ clone \in Cell /\ clone.kind = "closure" /\ clone.refs = 0 /\ ~clone.marked
        /\ clone.link = None /\ clone.fields = fs /\ clone.open = <<>> /\ clone.box = "none"
    BY <2>1, <2>2, <2>3, <2>4 DEF Cell
  <2>6. QED
    BY <2>1, <2>2, <2>5 DEF IsNew
<1>9. clone \in Cell /\ clone.fields[1] = a /\ clone.fields[2] = b
  BY <1>8 DEF IsNew
<1> HIDE DEF clone
<1>10. h3 = h2
  BY <1>9
<1>11. Places(heap, h2, new, clone, a, b)
  BY <1>4, <1>7, <1>9, PlacedCell
<1> HIDE DEF h2, h3
<1>12. heap' = Stored(h2, k, 2, new)
  BY <1>1, <1>10
<1>13. Listed' = Listed \cup {new} /\ ListsOK'
  BY <1>1, <1>4, ChainMore DEF IInv, TypeInv
<1>14. QED
  BY <1>8, <1>11, <1>12, <1>13 DEF a, b

\* A method, copied for its class.
LEMMA AddMethodKeeps ==
    ASSUME IInv, NEW k \in OfKind("class"), NEW c \in OfKind("closure"), AddMethod(k, c)
    PROVE  IInv'
<1>1. Program /\ work' = Old(k, 2) /\ UNCHANGED <<table, held, leaked>>
  BY DEF AddMethod
<1>2. Idle /\ ops' \in 0..Programs[uses] /\ UNCHANGED <<uses, status>>
  BY <1>1, ProgramOps
<1>3. Ready(heap, Objs, None) /\ ChainOK(heap, Listed)
  BY <1>2, IdleReady
<1>4. k \in Cells /\ heap[k].kind = "class" /\ c \in Cells /\ 1 \in 1..2 /\ 2 \in 1..2
  BY <1>2, ReachFacts DEF OfKind, Usable
<1>5. Fit(heap, heap[k].fields[1]) /\ Fit(heap, heap[c].fields[2])
  BY <1>2, <1>4, FieldFit
<1>6. PICK new, n, h2 :
          /\ Places(heap, h2, new, n, heap[k].fields[1], heap[c].fields[2])
          /\ IsNew(n, "closure", 0, heap[k].fields[1], heap[c].fields[2]) /\ n.open = <<>>
          /\ heap' = Stored(h2, k, 2, new) /\ Listed' = Listed \cup {new} /\ ListsOK'
  BY MethodPlaces
<1>7. Creates(heap, h2, new)
  BY <1>5, <1>6 DEF Creates
<1>8. HasField(heap, k, 2)
  BY <1>3, <1>4, FieldsOfKinds DEF Ready
<1>9. work' = Drop(heap[k].fields[2])
  BY <1>1 DEF Old
<1>10. QED
  BY <1>1, <1>2, <1>3, <1>4, <1>6, <1>7, <1>8, <1>9, CreateKeeps

\* GetWeakRef makes the weak reference w of c.
HasWeak(h, c, w) == h = [heap EXCEPT ![c].link = w, ![w] = [NoCell EXCEPT !.kind = "weakref", !.link = c]]

\* GetWeakRef: the heap with a new weak reference.
LEMMA WeakMade ==
    ASSUME IInv, Idle, NEW c \in Cells, heap[c].kind \notin {"free", "weakref"}, heap[c].link = None,
           NEW w \in Cells, heap[w].kind = "free", NEW h, HasWeak(h, c, w)
    PROVE  /\ Ready(h, Objs, w) /\ Usable(h, w) /\ ChainOK(h, Listed)
           /\ \A x \in Cells : x # w => /\ h[x].kind = heap[x].kind /\ h[x].open = heap[x].open
                                        /\ h[x].fields = heap[x].fields
<1> DEFINE made == [NoCell EXCEPT !.kind = "weakref", !.link = c]
           tied == [heap[c] EXCEPT !.link = w]
<1>1. Ready(heap, Objs, None) /\ ChainOK(heap, Listed)
  BY IdleReady
<1>2. Shape(heap) /\ heap \in [Cells -> Cell] /\ \A x \in Cells : CellOK(heap, x) /\ ~heap[x].marked
  BY <1>1 DEF Ready, Shape
<1>3. /\ made \in Cell /\ made.kind = "weakref" /\ made.refs = 0 /\ ~made.marked /\ made.link = c
      /\ made.open = <<>> /\ made.box = "none" /\ made.fields[1] = None /\ made.fields[2] = None
  <2>1. /\ NoCell \in Cell /\ NoCell.refs = 0 /\ ~NoCell.marked /\ NoCell.open = <<>>
        /\ NoCell.box = "none" /\ NoCell.fields[1] = None /\ NoCell.fields[2] = None
    BY EmptyCell
  <2> HIDE DEF NoCell
  <2>2. /\ made \in Cell /\ made.kind = "weakref" /\ made.refs = 0 /\ ~made.marked /\ made.link = c
        /\ made.open = <<>> /\ made.box = "none" /\ made.fields = NoCell.fields
    BY <2>1 DEF Cell
  <2>3. QED
    BY <2>1, <2>2
<1>4. heap[c] \in Cell
  BY <1>2
<1>5. /\ tied \in Cell /\ tied.kind = heap[c].kind /\ tied.refs = heap[c].refs
      /\ tied.marked = heap[c].marked /\ tied.link = w /\ tied.open = heap[c].open
      /\ tied.box = heap[c].box /\ tied.fields = heap[c].fields
  BY <1>4 DEF Cell
<1>6. c # w
  OBVIOUS
<1>7. h = [heap EXCEPT ![c] = tied, ![w] = made]
  BY <1>2 DEF HasWeak
<1> HIDE DEF made, tied
<1>8. /\ h \in [Cells -> Cell] /\ h[w] = made /\ h[c] = tied
      /\ \A x \in Cells : x # c /\ x # w => h[x] = heap[x]
  BY <1>2, <1>3, <1>5, <1>6, <1>7
<1>9. ASSUME NEW x \in Cells, x # w
      PROVE  /\ h[x].kind = heap[x].kind /\ h[x].refs = heap[x].refs /\ h[x].marked = heap[x].marked
             /\ h[x].open = heap[x].open /\ h[x].box = heap[x].box /\ h[x].fields = heap[x].fields
             /\ h[x].link = IF x = c THEN w ELSE heap[x].link
  <2>1. CASE x = c
    BY <2>1, <1>5, <1>8
  <2>2. CASE x # c
    BY <2>2, <1>8, <1>9
  <2>3. QED
    BY <2>1, <2>2
<1>10. heap[w].link = None /\ heap[w].refs = 0 /\ heap[w].open = <<>>
  BY <1>2 DEF CellOK
<1>11. ASSUME NEW x \in Cells, x # w PROVE CellOK(h, x)
  <2>1. CellOK(heap, x)
    BY <1>2
  <2>2. ASSUME h[x].link # None
        PROVE  h[h[x].link].link = x /\ (h[x].kind = "weakref") # (h[h[x].link].kind = "weakref")
    <3>1. CASE x = c
      <4>1. h[x].link = w
        BY <3>1, <1>9, <1>11
      <4>2. QED
        BY <4>1, <3>1, <1>3, <1>8, <1>9, <1>11
    <3>2. CASE x # c
      <4>1. h[x].link = heap[x].link /\ h[x].kind = heap[x].kind
        BY <3>2, <1>9, <1>11
      <4>2. heap[x].link \in Cells /\ heap[heap[x].link].link = x
            /\ (heap[x].kind = "weakref") # (heap[heap[x].link].kind = "weakref")
        BY <4>1, <2>1, <2>2, <1>2, CellTypes DEF CellOK
      <4>3. heap[x].link # w /\ heap[x].link # c
        BY <4>2, <1>10, NoneAssumption
      <4>4. QED
        BY <4>1, <4>2, <4>3, <1>9
    <3>3. QED
      BY <3>1, <3>2
  <2>3. ASSUME heap[x].kind = "free" PROVE h[x].link = None
    <3>1. x # c /\ heap[x].link = None
      BY <2>1, <2>3 DEF CellOK
    <3>2. QED
      BY <3>1, <1>9, <1>11
  <2>4. ASSUME heap[x].open # <<>> PROVE h[heap[x].open[1]].kind = "thread"
    <3>1. heap[x].open[1] \in Cells /\ heap[heap[x].open[1]].kind = "thread"
      BY <2>1, <2>4, <1>2, CellTypes DEF CellOK
    <3>2. heap[x].open[1] # w
      BY <3>1
    <3>3. QED
      BY <3>1, <3>2, <1>9
  <2>5. QED
    BY <2>1, <2>2, <2>3, <2>4, <1>9, <1>11 DEF CellOK
<1>12. CellOK(h, w)
  <2>1. /\ h[w].kind = "weakref" /\ h[w].refs = 0 /\ ~h[w].marked /\ h[w].link = c
        /\ h[w].open = <<>> /\ h[w].box = "none" /\ h[w].fields[1] = None /\ h[w].fields[2] = None
    BY <1>3, <1>8
  <2>2. h[c].link = w /\ h[c].kind # "weakref"
    BY <1>6, <1>9
  <2>3. QED
    BY <2>1, <2>2 DEF CellOK
<1>13. Shape(h)
  BY <1>8, <1>11, <1>12 DEF Shape
<1>14. ASSUME NEW x \in Cells
       PROVE  /\ x # w => h[x].kind = heap[x].kind /\ h[x].open = heap[x].open
              /\ ~h[x].marked
              /\ h[x].refs = heap[x].refs + Ind(x = None) + Ind(x = None) + Ind(x = w /\ h[x].open # <<>>)
              /\ \A g \in 1..2 : h[x].fields[g] = IF x = w THEN (IF g = 1 THEN None ELSE None)
                                                  ELSE heap[x].fields[g]
  <2>1. Ind(x = None) = 0 /\ Ind(x = w /\ h[x].open # <<>>) = 0
    BY <1>3, <1>8, NoneAssumption DEF Ind
  <2>2. \A g \in 1..2 : g = 1 \/ g = 2
    OBVIOUS
  <2>3. heap[x].refs \in Nat
    BY <1>2, CellTypes
  <2>4. CASE x = w
    <3>1. h[x].refs = 0 /\ heap[x].refs = 0 /\ ~h[x].marked /\ \A g \in 1..2 : h[x].fields[g] = None
      BY <2>2, <2>4, <1>3, <1>8, <1>10
    <3>2. h[x].refs = heap[x].refs + Ind(x = None) + Ind(x = None) + Ind(x = w /\ h[x].open # <<>>)
      BY <3>1, <2>1
    <3>3. QED
      BY <3>1, <3>2, <2>4
  <2>5. CASE x # w
    <3>1. h[x].refs = heap[x].refs
      BY <2>5, <1>9
    <3>2. h[x].refs = heap[x].refs + Ind(x = None) + Ind(x = None) + Ind(x = w /\ h[x].open # <<>>)
      BY <3>1, <2>1, <2>3
    <3>3. QED
      BY <3>2, <2>5, <1>2, <1>9
  <2>6. QED
    BY <2>4, <2>5
<1>15. h[w].kind = "weakref" /\ h[w].box = "none"
  BY <1>3, <1>8
<1>16. Adds(heap, h, w, None, None)
  BY <1>14, <1>15 DEF Adds
<1>17. Ready(h, Objs, w)
  BY <1>1, <1>13, <1>16, ReadyAdded
<1>18. ChainOK(h, Listed)
  <2>1. ASSUME NEW y \in Listed PROVE y \in Cells /\ h[y].kind \in Kinds /\ ~h[y].marked
    <3>1. y \in Cells /\ heap[y].kind \in Kinds /\ ~heap[y].marked
      BY <1>1 DEF ChainOK
    <3>2. y # w
      BY <3>1 DEF Kinds
    <3>3. QED
      BY <3>1, <3>2, <1>9
  <2>2. QED
    BY <2>1 DEF ChainOK
<1>19. QED
  BY <1>9, <1>15, <1>17, <1>18 DEF Usable

\* A weak reference that the program takes.
LEMMA MakeWeakRefKeeps ==
    ASSUME IInv, NEW s \in 1..2, NEW c \in Values \cap Collectable, MakeWeakRef(c, s)
    PROVE  IInv'
<1>1. /\ Program /\ work' = Old(Root, s) /\ UNCHANGED <<lists, Listed, table, held, leaked>>
  BY ListsSame DEF MakeWeakRef
<1>2. Idle /\ ops' \in 0..Programs[uses] /\ UNCHANGED <<uses, status>>
  BY <1>1, ProgramOps
<1>3. c \in Cells /\ heap[c].kind \notin {"free", "weakref"}
  BY DEF Collectable, Live
<1>4. CASE heap[c].link # None
  <2>1. heap' = Stored(heap, Root, s, heap[c].link)
    BY <1>4 DEF MakeWeakRef
  <2>2. Usable(heap, heap[c].link)
    BY <1>2, <1>3, <1>4, ReachFacts
  <2>3. QED
    BY <2>1, <2>2, <1>1, PushKeeps
<1>5. CASE heap[c].link = None
  <2> DEFINE w == Min(FreeCells)
             h == [heap EXCEPT ![c].link = w, ![w] = [NoCell EXCEPT !.kind = "weakref", !.link = c]]
  <2>1. FreeCells # {} /\ heap' = Stored(h, Root, s, w)
    BY <1>5 DEF MakeWeakRef
  <2>2. w \in Cells /\ heap[w].kind = "free"
    BY <2>1, MinFree
  <2> HIDE DEF w
  <2>3. HasWeak(h, c, w)
    BY DEF HasWeak
  <2> HIDE DEF h
  <2>4. /\ Ready(h, Objs, w) /\ Usable(h, w) /\ ChainOK(h, Listed)
        /\ \A x \in Cells : x # w => /\ h[x].kind = heap[x].kind /\ h[x].open = heap[x].open
                                     /\ h[x].fields = heap[x].fields
    BY <2>2, <2>3, <1>2, <1>3, <1>5, WeakMade
  <2>5. Root \in Cells /\ heap[Root].kind = "thread"
    BY <1>2, IdleReady, CellsAssumption DEF Ready
  <2>6. Root # w
    BY <2>2, <2>5
  <2>7. HasField(h, Root, s) /\ h[Root].fields[s] = heap[Root].fields[s]
    <3>1. s = 1 \/ s = 2
      OBVIOUS
    <3>2. h[Root].kind = "thread" /\ Shape(h)
      BY <2>4 DEF Ready
    <3>3. QED
      BY <3>1, <3>2, <2>4, <2>5, <2>6, FieldsOfKinds
  <2>8. work' = Drop(h[Root].fields[s])
    BY <2>7, <1>1 DEF Old
  <2>9. ChainOK(h, Listed')
    BY <2>4, <1>1
  <2>10. w \in Cells /\ h[w].kind # "free" /\ h[w].box # "dropped"
    BY <2>4 DEF Usable
  <2>11. QED
    BY <2>1, <2>4, <2>5, <2>7, <2>8, <2>9, <2>10, <1>1, <1>2, StoreKeeps
<1>6. QED
  BY <1>4, <1>5

-----------------------------------------------------------------------------
(* Handles.                                                                *)

NodeType == [obj : Cells, refs : Nat]

\* A table t of m buckets with every node of N, and no other, in its bucket.
Filed(t, m, N) ==
    /\ m \in Nat \ {0} /\ N \subseteq NodeType /\ t \in [Buckets(m) -> SUBSET N]
    /\ \A b \in Buckets(m) : \A n \in N : n \in t[b] <=> Bucket(n.obj, m) = b

\* Every object has a bucket.
LEMMA BucketFacts ==
    ASSUME NEW m \in Nat \ {0}
    PROVE  Cardinality(Buckets(m)) = m /\ \A c \in Cells : Bucket(c, m) \in Buckets(m)
<1>1. 0 \in Int /\ m - 1 \in Int /\ ~(0 > m - 1) /\ m - 1 - 0 + 1 = m
  OBVIOUS
<1>2. Cardinality(0..m - 1) = m
  BY <1>1, FS_Interval
<1>3. ASSUME NEW c \in Cells PROVE c % m \in 0..m - 1
  <2>1. c \in Nat
    BY CellsAssumption
  <2>2. QED
    BY <2>1
<1>4. QED
  BY <1>2, <1>3 DEF Buckets, Bucket

\* In a sound handle table a look-up finds exactly the node of the object.
LEMMA TableFiled ==
    ASSUME TableOK
    PROVE  Filed(table, Slots, Nodes) /\ \A c \in Cells : Found(c) = {n \in Nodes : n.obj = c}
<1>1. PICK m \in Nat \ {0} : table \in [Buckets(m) -> SUBSET [obj : Cells, refs : Nat]]
  BY DEF TableOK
<1>2. DOMAIN table = Buckets(m)
  BY <1>1
<1>3. Slots = m
  BY <1>2, BucketFacts DEF Slots
<1>4. \A b \in Buckets(m) : table[b] \subseteq Nodes
  BY <1>2 DEF Nodes
<1>5. Nodes \subseteq NodeType
  BY <1>1, <1>2 DEF Nodes, NodeType
<1>6. ASSUME NEW b \in Buckets(m), NEW n \in Nodes PROVE n \in table[b] <=> Bucket(n.obj, m) = b
  <2>1. PICK a \in Buckets(m) : n \in table[a]
    BY <1>2 DEF Nodes
  <2>2. \A d \in Buckets(m) : n \in table[d] => Bucket(n.obj, m) = d
    BY <1>2, <1>3 DEF TableOK
  <2>3. QED
    BY <2>1, <2>2
<1>7. table \in [Buckets(m) -> SUBSET Nodes]
  BY <1>1, <1>4
<1>8. Filed(table, Slots, Nodes)
  BY <1>3, <1>5, <1>6, <1>7 DEF Filed
<1>9. ASSUME NEW c \in Cells PROVE Found(c) = {n \in Nodes : n.obj = c}
  <2>1. Bucket(c, m) \in Buckets(m)
    BY BucketFacts
  <2>2. Found(c) = {n \in table[Bucket(c, m)] : n.obj = c}
    BY <1>3 DEF Found
  <2>3. QED
    BY <2>1, <2>2, <1>4, <1>6
<1>10. QED
  BY <1>8, <1>9

\* A table whose nodes lie in their buckets, one per object, is sound.
LEMMA FiledTable ==
    ASSUME NEW m, NEW N, Filed(table', m, N), \A n, o \in N : n.obj = o.obj => n = o
    PROVE  TableOK' /\ Nodes' = N
<1>1. /\ m \in Nat \ {0} /\ N \subseteq NodeType /\ table' \in [Buckets(m) -> SUBSET N]
      /\ \A b \in Buckets(m) : \A n \in N : n \in table'[b] <=> Bucket(n.obj, m) = b
  BY DEF Filed
<1>2. DOMAIN table' = Buckets(m)
  BY <1>1
<1>3. Slots' = m
  BY <1>1, <1>2, BucketFacts DEF Slots
<1>4. Nodes' = N
  <2>1. Nodes' = UNION {table'[b] : b \in Buckets(m)}
    BY <1>2 DEF Nodes
  <2>2. ASSUME NEW n \in N PROVE \E b \in Buckets(m) : n \in table'[b]
    <3>1. n.obj \in Cells
      BY <1>1 DEF NodeType
    <3>2. Bucket(n.obj, m) \in Buckets(m)
      BY <3>1, <1>1, BucketFacts
    <3>3. QED
      BY <3>2, <1>1
  <2>3. \A b \in Buckets(m) : table'[b] \subseteq N
    BY <1>1
  <2>4. QED
    BY <2>1, <2>2, <2>3
<1>5. table' \in [Buckets(m) -> SUBSET [obj : Cells, refs : Nat]]
  BY <1>1 DEF NodeType
<1>6. \A b \in DOMAIN table' : \A n \in table'[b] : Bucket(n.obj, Slots') = b
  BY <1>1, <1>2, <1>3
<1>7. \E k \in Nat \ {0} : table' \in [Buckets(k) -> SUBSET [obj : Cells, refs : Nat]]
  BY <1>1, <1>5
<1>8. QED
  BY <1>4, <1>6, <1>7 DEF TableOK

\* The nodes A of an object are replaced by the nodes B.
LEMMA NodesReplaced ==
    ASSUME NEW t, NEW m, NEW N, Filed(t, m, N), NEW c \in Cells, NEW A, NEW B,
           B \subseteq NodeType, \A n \in A \cup B : n.obj = c
    PROVE  Filed([t EXCEPT ![Bucket(c, m)] = (@ \ A) \cup B], m, (N \ A) \cup B)
<1> DEFINE M == (N \ A) \cup B
           d == Bucket(c, m)
           s == (t[d] \ A) \cup B
           t2 == [t EXCEPT ![d] = s]
<1>1. /\ m \in Nat \ {0} /\ N \subseteq NodeType /\ t \in [Buckets(m) -> SUBSET N]
      /\ \A b \in Buckets(m) : \A n \in N : n \in t[b] <=> Bucket(n.obj, m) = b
  BY DEF Filed
<1>2. d \in Buckets(m)
  BY <1>1, BucketFacts
<1>3. M \subseteq NodeType
  BY <1>1
<1>4. s \subseteq M
  BY <1>1, <1>2
<1>5. ASSUME NEW b \in Buckets(m), b # d PROVE t[b] \subseteq M
  <2>1. ASSUME NEW n \in t[b] PROVE n \in N /\ n \notin A
    <3>1. n \in N /\ Bucket(n.obj, m) = b
      BY <1>1
    <3>2. QED
      BY <3>1, <1>5
  <2>2. QED
    BY <2>1
<1>6. ASSUME NEW b \in Buckets(m), NEW n \in M, b # d PROVE n \in t[b] <=> Bucket(n.obj, m) = b
  <2>1. CASE n \in N
    BY <2>1, <1>1
  <2>2. CASE n \notin N
    <3>1. n \in B /\ n \notin t[b]
      BY <2>2, <1>1
    <3>2. Bucket(n.obj, m) = d
      BY <3>1
    <3>3. QED
      BY <3>1, <3>2, <1>6
  <2>3. QED
    BY <2>1, <2>2
<1>7. ASSUME NEW n \in M PROVE n \in s <=> Bucket(n.obj, m) = d
  <2>1. CASE n \in B
    BY <2>1
  <2>2. CASE n \notin B
    BY <2>2, <1>1, <1>2
  <2>3. QED
    BY <2>1, <2>2
<1>8. \A b \in Buckets(m) : t2[b] = IF b = d THEN s ELSE t[b]
  BY <1>1, <1>2
<1>9. t2 \in [Buckets(m) -> SUBSET M]
  <2>1. \A b \in Buckets(m) : t2[b] \in SUBSET M
    BY <1>4, <1>5, <1>8
  <2>2. DOMAIN t2 = Buckets(m) /\ t2 = [b \in Buckets(m) |-> t2[b]]
    BY <1>1
  <2> HIDE DEF t2, M
  <2>3. QED
    BY <2>1, <2>2
<1> HIDE DEF s, d, M
<1>10. \A b \in Buckets(m) : \A n \in M : n \in t2[b] <=> Bucket(n.obj, m) = b
  BY <1>6, <1>7, <1>8
<1>11. Filed(t2, m, M)
  BY <1>1, <1>3, <1>9, <1>10 DEF Filed
<1>12. QED
  BY <1>11 DEF s, d, M

\* The node of an object with k handles, and a step that changes their number.
NodeFor(c, k) == IF k = 0 THEN {} ELSE {[obj |-> c, refs |-> k]}
Mine(c) == {n \in Nodes : n.obj = c}

\* Nodes and handles stay in step when one object gets another number of
\* handles.
LEMMA HandlesStep ==
    ASSUME IInv, Idle, NEW c \in Cells, NEW k \in Nat, NEW m,
           Filed(table', m, (Nodes \ Mine(c)) \cup NodeFor(c, k)),
           held' \in [Cells -> Nat], leaked' \in [Cells -> Nat], held'[c] + leaked'[c] = k,
           \A y \in Cells : y # c => held'[y] + leaked'[y] = held[y] + leaked[y],
           status' = status
    PROVE  /\ TableOK' /\ HandlesInv'
           /\ Objs' = (Objs \ {c}) \cup (IF k = 0 THEN {} ELSE {c})
<1> DEFINE N == (Nodes \ Mine(c)) \cup NodeFor(c, k)
<1>1. status = "open"
  BY DEF Idle
<1>2. \A n \in NodeFor(c, k) : n.obj = c /\ n = [obj |-> c, refs |-> k]
  BY DEF NodeFor
<1>3. \A n, o \in Nodes : n.obj = o.obj => n = o
  BY DEF IInv, TableOK
<1>4. \A n \in Nodes \ Mine(c) : n.obj # c
  BY DEF Mine
<1>5. \A n, o \in N : n.obj = o.obj => n = o
  BY <1>2, <1>3, <1>4
<1>6. TableOK' /\ Nodes' = N
  <2> HIDE DEF N
  <2>1. Filed(table', m, N)
    BY DEF N
  <2>2. QED
    BY <2>1, <1>5, FiledTable
<1>7. ASSUME NEW y \in Cells
      PROVE  {n \in Nodes' : n.obj = y} = IF held'[y] + leaked'[y] = 0 THEN {}
                                          ELSE {[obj |-> y, refs |-> held'[y] + leaked'[y]]}
  <2>1. CASE y = c
    <3>1. {n \in N : n.obj = c} = NodeFor(c, k)
      BY <1>2, <1>4
    <3>2. QED
      BY <3>1, <2>1, <1>6 DEF NodeFor
  <2>2. CASE y # c
    <3>1. {n \in N : n.obj = y} = {n \in Nodes : n.obj = y}
      BY <2>2, <1>2 DEF Mine
    <3>2. {n \in Nodes : n.obj = y} = IF held[y] + leaked[y] = 0 THEN {}
                                      ELSE {[obj |-> y, refs |-> held[y] + leaked[y]]}
      BY <1>1 DEF IInv, HandlesInv
    <3>3. held'[y] + leaked'[y] = held[y] + leaked[y]
      BY <2>2
    <3>4. QED
      BY <3>1, <3>2, <3>3, <1>6
  <2>3. QED
    BY <2>1, <2>2
<1>8. HandlesInv'
  BY <1>1, <1>7 DEF HandlesInv
<1>9. Objs' = (Objs \ {c}) \cup (IF k = 0 THEN {} ELSE {c})
  <2>1. Objs' = {n.obj : n \in N}
    BY <1>6 DEF Objs
  <2>2. {n.obj : n \in Nodes \ Mine(c)} = Objs \ {c}
    BY DEF Objs, Mine
  <2>3. {n.obj : n \in NodeFor(c, k)} = IF k = 0 THEN {} ELSE {c}
    <3> DEFINE r == [obj |-> c, refs |-> k]
    <3>1. r.obj = c
      OBVIOUS
    <3>2. NodeFor(c, k) = IF k = 0 THEN {} ELSE {r}
      BY DEF NodeFor
    <3> HIDE DEF r
    <3>3. CASE k = 0
      BY <3>2, <3>3
    <3>4. CASE k # 0
      BY <3>1, <3>2, <3>4
    <3>5. QED
      BY <3>3, <3>4
  <2>4. {n.obj : n \in N} = {n.obj : n \in Nodes \ Mine(c)} \cup {n.obj : n \in NodeFor(c, k)}
    OBVIOUS
  <2>5. QED
    BY <2>1, <2>2, <2>3, <2>4
<1>10. QED
  BY <1>6, <1>8, <1>9

\* The nodes of an object that has handles, and the table that SetRefs makes.
LEMMA OneNode ==
    ASSUME IInv, Idle, NEW c \in Cells
    PROVE  /\ Filed(table, Slots, Nodes) /\ held[c] + leaked[c] \in Nat
           /\ held[c] \in Nat /\ leaked[c] \in Nat
           /\ Found(c) = Mine(c) /\ Mine(c) = NodeFor(c, held[c] + leaked[c])
<1>1. Filed(table, Slots, Nodes) /\ Found(c) = {n \in Nodes : n.obj = c}
  BY TableFiled DEF IInv
<1>2. held[c] \in Nat /\ leaked[c] \in Nat
  BY DEF IInv, HandlesInv
<1>3. Mine(c) = NodeFor(c, held[c] + leaked[c])
  BY DEF IInv, HandlesInv, Idle, Mine, NodeFor
<1>4. QED
  BY <1>1, <1>2, <1>3 DEF Mine

\* The table after a change of the count of a node; at 0 the node goes.
LEMMA NodeSet ==
    ASSUME IInv, Idle, NEW c \in Cells, NEW k \in Nat, NEW x \in Found(c)
    PROVE  Filed(SetRefs(x, k), Slots, (Nodes \ Mine(c)) \cup NodeFor(c, k))
           /\ x.refs = held[c] + leaked[c] /\ held[c] + leaked[c] # 0
<1> DEFINE j == held[c] + leaked[c]
           B == IF k = 0 THEN {} ELSE {[x EXCEPT !.refs = k]}
<1>1. Filed(table, Slots, Nodes) /\ Found(c) = Mine(c) /\ Mine(c) = NodeFor(c, j) /\ j \in Nat
  BY OneNode
<1> HIDE DEF j
<1>2. j # 0 /\ x = [obj |-> c, refs |-> j] /\ Mine(c) = {x}
  BY <1>1 DEF NodeFor
<1>3. x.obj = c /\ x.refs = j /\ [x EXCEPT !.refs = k] = [obj |-> c, refs |-> k]
  BY <1>2
<1>4. B = NodeFor(c, k)
  BY <1>3 DEF NodeFor
<1> DEFINE r == [obj |-> c, refs |-> k]
<1>5. r \in NodeType /\ r.obj = c
  BY DEF NodeType
<1>6. B = IF k = 0 THEN {} ELSE {r}
  BY <1>4 DEF NodeFor
<1> HIDE DEF B, r
<1>7. B \subseteq NodeType /\ \A n \in {x} \cup B : n.obj = c
  BY <1>3, <1>5, <1>6
<1>8. SetRefs(x, k) = [table EXCEPT ![Bucket(c, Slots)] = (@ \ {x}) \cup B]
  BY <1>3 DEF SetRefs, B
<1>9. Filed([table EXCEPT ![Bucket(c, Slots)] = (@ \ {x}) \cup B], Slots, (Nodes \ {x}) \cup B)
  BY <1>1, <1>7, NodesReplaced
<1>10. QED
  BY <1>2, <1>3, <1>4, <1>8, <1>9 DEF j

\* The table after a new node, grown first when it is full.
LEMMA NodeAdded ==
    ASSUME IInv, Idle, NEW c \in Cells, Found(c) = {}
    PROVE  (\E m : Filed(WithNode(c), m, (Nodes \ Mine(c)) \cup NodeFor(c, 1)))
           /\ held[c] + leaked[c] = 0 /\ c \notin Objs
<1> DEFINE j == held[c] + leaked[c]
           B == {[obj |-> c, refs |-> 1]}
           t == IF Cardinality(Nodes) = Slots THEN Resized ELSE table
           m == IF Cardinality(Nodes) = Slots THEN 2 * Slots ELSE Slots
<1>1. Filed(table, Slots, Nodes) /\ Mine(c) = {} /\ Mine(c) = NodeFor(c, j) /\ j \in Nat
  BY OneNode
<1> HIDE DEF j
<1>2. j = 0
  BY <1>1 DEF NodeFor
<1>3. Slots \in Nat \ {0} /\ Nodes \subseteq NodeType
  BY <1>1 DEF Filed
<1>4. Filed(Resized, 2 * Slots, Nodes)
  <2> DEFINE M == 2 * Slots
  <2>1. M \in Nat \ {0}
    BY <1>3
  <2>2. Resized = [b \in Buckets(M) |-> {n \in Nodes : Bucket(n.obj, M) = b}]
    BY DEF Resized
  <2> HIDE DEF M
  <2>3. Filed(Resized, M, Nodes)
    BY <2>1, <2>2, <1>3 DEF Filed
  <2>4. QED
    BY <2>3 DEF M
<1>5. Filed(t, m, Nodes)
  BY <1>1, <1>4
<1> HIDE DEF t, m
<1>6. Cardinality(DOMAIN t) = m
  <2>1. m \in Nat \ {0} /\ DOMAIN t = Buckets(m)
    BY <1>5 DEF Filed
  <2>2. QED
    BY <2>1, BucketFacts
<1>7. WithNode(c) = [t EXCEPT ![Bucket(c, m)] = @ \cup B]
  BY <1>6 DEF WithNode, t
<1>8. B \subseteq NodeType /\ (\A n \in {} \cup B : n.obj = c) /\ B = NodeFor(c, 1)
  BY DEF NodeType, NodeFor
<1> HIDE DEF B
<1>9. Filed([t EXCEPT ![Bucket(c, m)] = (@ \ {}) \cup B], m, (Nodes \ {}) \cup B)
  BY <1>5, <1>8, NodesReplaced
<1>10. [t EXCEPT ![Bucket(c, m)] = (@ \ {}) \cup B] = [t EXCEPT ![Bucket(c, m)] = @ \cup B]
  <2>1. (t[Bucket(c, m)] \ {}) \cup B = t[Bucket(c, m)] \cup B
    OBVIOUS
  <2>2. QED
    BY <2>1
<1>11. Filed(WithNode(c), m, (Nodes \ Mine(c)) \cup NodeFor(c, 1))
  BY <1>1, <1>7, <1>8, <1>9, <1>10
<1>12. c \notin Objs
  BY <1>1 DEF Objs, Mine
<1>13. QED
  BY <1>2, <1>11, <1>12 DEF j

\* The whole invariant after a step on handles.
LEMMA HandleDone ==
    ASSUME IInv, Idle, TableOK', HandlesInv', work' \in Seq(TaskType), UNCHANGED <<uses, status>>,
           ops' \in 0..Programs[uses], UNCHANGED lists \/ ListsOK',
           HeapInv(heap', Listed', Pile(work'), Len(work'), Objs', "open")
    PROVE  IInv'
<1>1. status' = "open"
  BY DEF Idle
<1>2. TypeInv'
  BY DEF IInv, TypeInv, ListsOK, Lists, lists
<1>3. HeapInv(heap', Listed', Pile(work'), Len(work'), Objs', status')
  BY <1>1
<1>4. QED
  BY <1>2, <1>3 DEF IInv

\* A step that changes the number of handles of an object that keeps its node.
LEMMA CountChanged ==
    ASSUME IInv, Idle, NEW c \in Cells, NEW k \in Nat, k # 0, held[c] + leaked[c] # 0, NEW m,
           Filed(table', m, (Nodes \ Mine(c)) \cup NodeFor(c, k)),
           held' \in [Cells -> Nat], leaked' \in [Cells -> Nat], held'[c] + leaked'[c] = k,
           \A y \in Cells : y # c => held'[y] + leaked'[y] = held[y] + leaked[y],
           UNCHANGED <<heap, lists, Listed, work, uses, status>>, ops' \in 0..Programs[uses]
    PROVE  IInv'
<1>1. /\ TableOK' /\ HandlesInv'
      /\ Objs' = (Objs \ {c}) \cup (IF k = 0 THEN {} ELSE {c})
  BY HandlesStep
<1>2. Mine(c) # {}
  BY OneNode DEF NodeFor
<1>3. c \in Objs
  BY <1>2 DEF Objs, Mine
<1>4. Objs' = Objs
  BY <1>1, <1>3
<1>5. work' \in Seq(TaskType) /\ HeapInv(heap, Listed, Pile(work), Len(work), Objs, "open")
  BY DEF IInv, TypeInv, Idle
<1>6. HeapInv(heap', Listed', Pile(work'), Len(work'), Objs', "open")
  BY <1>4, <1>5
<1>7. QED
  BY <1>1, <1>5, <1>6, HandleDone

\* The pile of a release of d by an object c that the stack of the call holds.
ReleasePile(q, m, c, d) ==
    /\ m \in {1, 2, 3} /\ q \in [1..m -> TaskType]
    /\ IsTask(q[1], "drop", c)
    /\ d = None => m = 1
    /\ d # None => m # 1 /\ IsTask(q[m], "drop", d)
    /\ m = 3 => IsClear(q[2], c)

\* What LetGo leaves to do, and the end of the call.
LEMMA ReleasePiled ==
    ASSUME NEW c \in Cells, NEW d \in Cells \cup {None}, NEW ts, Lets(ts, c, d)
    PROVE  /\ ts \o Drop(c) \in Seq(TaskType)
           /\ \A q, m : Piled(q, m, ts \o Drop(c)) => ReleasePile(q, m, c, d)
<1> DEFINE u == Drop(c)
           w == ts \o u
           L == Len(ts)
<1>1. u \in Seq(TaskType) /\ Len(u) = 1 /\ IsTask(u[1], "drop", c)
  <2>1. c # None /\ c \in Cells \cup {None}
    BY NoneAssumption
  <2>2. QED
    BY <2>1, DropShape DEF Ind
<1>2. /\ ts \in Seq(TaskType) /\ L \in {0, 1, 2}
      /\ d = None => L = 0
      /\ d # None => L # 0 /\ IsTask(ts[1], "drop", d)
      /\ L = 2 => IsClear(ts[2], c)
  BY DEF Lets
<1> HIDE DEF u
<1>3. /\ w \in Seq(TaskType) /\ Len(w) = L + 1
      /\ \A i \in 1..L + 1 : w[i] = IF i <= L THEN ts[i] ELSE u[i - L]
  <2>1. /\ w \in Seq(TaskType) /\ Len(w) = Len(ts) + Len(u)
        /\ \A i \in 1..Len(ts) + Len(u) : w[i] = IF i <= Len(ts) THEN ts[i] ELSE u[i - Len(ts)]
    BY <1>1, <1>2, ConcatProperties
  <2>2. QED
    BY <2>1, <1>1
<1> HIDE DEF w, L
<1>4. ASSUME NEW q, NEW m, Piled(q, m, w) PROVE ReleasePile(q, m, c, d)
  <2>1. m = L + 1 /\ q \in [1..m -> TaskType] /\ \A k \in 1..m : q[k] = w[m + 1 - k]
    BY <1>3, <1>4 DEF Piled
  <2>2. CASE L = 0
    <3>1. m = 1 /\ 1 \in 1..m /\ m + 1 - 1 = 1 /\ 1 \in 1..L + 1 /\ ~(1 <= L) /\ 1 - L = 1
      BY <2>1, <2>2
    <3>2. q[1] = u[1]
      BY <3>1, <2>1, <1>3
    <3>3. d = None
      BY <2>2, <1>2
    <3>4. QED
      BY <2>1, <3>1, <3>2, <3>3, <1>1 DEF ReleasePile
  <2>3. CASE L = 1
    <3>1. /\ m = 2 /\ 1 \in 1..m /\ 2 \in 1..m /\ m + 1 - 1 = 2 /\ m + 1 - 2 = 1 /\ 1 \in 1..L + 1
          /\ 2 \in 1..L + 1 /\ ~(2 <= L) /\ 2 - L = 1 /\ 1 <= L
      BY <2>1, <2>3
    <3>2. q[1] = u[1] /\ q[2] = ts[1]
      BY <3>1, <2>1, <1>3
    <3>3. d # None /\ IsTask(ts[1], "drop", d)
      BY <2>3, <1>2
    <3>4. QED
      BY <2>1, <3>1, <3>2, <3>3, <1>1 DEF ReleasePile
  <2>4. CASE L = 2
    <3>1. /\ m = 3 /\ 1 \in 1..m /\ 2 \in 1..m /\ 3 \in 1..m
          /\ m + 1 - 1 = 3 /\ m + 1 - 2 = 2 /\ m + 1 - 3 = 1
          /\ 1 \in 1..L + 1 /\ 2 \in 1..L + 1 /\ 3 \in 1..L + 1
          /\ ~(3 <= L) /\ 3 - L = 1 /\ 1 <= L /\ 2 <= L
      BY <2>1, <2>4
    <3>2. q[1] = u[1] /\ q[2] = ts[2] /\ q[3] = ts[1]
      BY <3>1, <2>1, <1>3
    <3>3. d # None /\ IsTask(ts[1], "drop", d) /\ IsClear(ts[2], c)
      BY <2>4, <1>2
    <3>4. QED
      BY <2>1, <3>1, <3>2, <3>3, <1>1 DEF ReleasePile
  <2>5. QED
    BY <2>2, <2>3, <2>4, <1>2
<1>5. QED
  BY <1>3, <1>4 DEF w, u

\* A heap that is exact but for the reference to d that c releases, and one
\* that the stack of the call has on c.
LEMMA ReleaseHeap ==
    ASSUME NEW h, NEW ch, NEW q, NEW m, NEW objs, NEW c \in Cells, NEW d \in Cells \cup {None},
           ReleasePile(q, m, c, d), Shape(h), ChainOK(h, ch), objs \subseteq Cells,
           h[Root].kind = "thread", Settled(h, objs, "open", d), \A x \in Cells : ~h[x].marked,
           h[c].kind # "free", h[c].box # "dropped"
    PROVE  HeapInv(AddRefTo(h, c), ch, q, m, objs, "open")
<1> DEFINE h2 == AddRefTo(h, c)
<1>1. Counted(h, h2, c)
  BY AddRefToCounts DEF Shape
<1> HIDE DEF h2
<1>2. /\ h2 \in [Cells -> Cell]
      /\ \A x \in Cells : /\ SameBody(h, h2, x) /\ h2[x].fields = h[x].fields
                          /\ h2[x].refs = h[x].refs + Ind(x = c)
  BY <1>1 DEF Counted
<1>3. Shape(h2)
  <2>1. ASSUME NEW x \in Cells, h[x].kind = "free" \/ h[x].box = "dropped" PROVE h2[x].refs = 0
    <3>1. h[x].refs = 0
      BY <2>1 DEF Shape, CellOK
    <3>2. x # c
      BY <2>1
    <3>3. QED
      BY <3>1, <3>2, <1>2 DEF Ind
  <2>2. Evolves(h, h2)
    BY <2>1, <1>2 DEF Evolves
  <2>3. QED
    BY <2>2, ShapeKept
<1>4. ChainOK(h2, ch)
  BY <1>2, ChainKept DEF SameBody
<1>5. h2[Root].kind = "thread" /\ \A x \in Cells : ~h2[x].marked
  BY <1>2, CellsAssumption DEF SameBody
<1>6. /\ m = 1 \/ m = 2 \/ m = 3
      /\ q \in [1..m -> TaskType] /\ IsTask(q[1], "drop", c)
      /\ (d = None => m = 1) /\ (d # None => m # 1 /\ IsTask(q[m], "drop", d))
      /\ (m = 3 => IsClear(q[2], c))
  BY DEF ReleasePile
<1>7. m \in Nat /\ 1 \in 1..m /\ m \in 1..m /\ c # None
  BY <1>6, NoneAssumption
<1>8. q[1].op = "drop" /\ q[1].cell = c /\ q[1].ending = ""
  BY <1>6 DEF IsTask
<1>9. ASSUME NEW k \in 1..m
      PROVE  \/ k = 1 \/ (k = m /\ m # 1) \/ (k = 2 /\ m = 3)
  <2>1. CASE m = 1
    BY <2>1
  <2>2. CASE m = 2
    BY <2>2
  <2>3. CASE m = 3
    BY <2>3
  <2>4. QED
    BY <2>1, <2>2, <2>3, <1>6
<1>10. m # 1 => d # None /\ q[m].op = "drop" /\ q[m].cell = d /\ q[m].ending = ""
  BY <1>6 DEF IsTask
<1>11. m = 3 => q[2].op = "clear" /\ q[2].cell = c /\ q[2].ending = ""
  BY <1>6 DEF IsClear
<1>12. ASSUME NEW k \in 1..m
       PROVE  q[k].op \in {"drop", "clear"} /\ q[k].ending = "" /\ q[k].cell # None
  BY <1>7, <1>8, <1>9, <1>10, <1>11
<1>13. ASSUME NEW x \in Cells
       PROVE  /\ Count(q, m, "drop", x) = Ind(x = c) + Ind(x = d)
              /\ Count(q, m, "advance", x) = 0 /\ Count(q, m, "free", x) = 0
  <2>1. ASSUME NEW op \in {"advance", "free"} PROVE Count(q, m, op, x) = 0
    <3>1. \A k \in 1..m : ~Is(q[k], op, x)
      BY <1>12 DEF Is
    <3>2. Count(q, m, op, x) = Ind(1 \in 1..m /\ Is(q[1], op, x))
      BY <1>7, <3>1, CountLone
    <3>3. QED
      BY <3>1, <3>2, <1>7 DEF Ind
  <2>2. Count(q, 1, "drop", x) = Ind(x = c)
    <3>1. \A k \in 1..1 : k # 1 => ~Is(q[k], "drop", x)
      OBVIOUS
    <3>2. Count(q, 1, "drop", x) = Ind(1 \in 1..1 /\ Is(q[1], "drop", x))
      BY <3>1, CountLone
    <3>3. 1 \in 1..1
      OBVIOUS
    <3>4. Is(q[1], "drop", x) <=> x = c
      BY <1>8 DEF Is
    <3>5. QED
      BY <3>2, <3>3, <3>4 DEF Ind
  <2>3. Count(q, m, "drop", x) = Ind(x = c) + Ind(x = d)
    <3>1. CASE m = 1
      <4>1. d = None
        BY <3>1, <1>6
      <4>2. Ind(x = d) = 0 /\ Ind(x = c) \in Nat
        BY <4>1, NoneAssumption DEF Ind
      <4>3. QED
        BY <2>2, <4>2, <3>1
    <3>2. CASE m # 1
      <4>1. ASSUME NEW k \in Nat, k # m
            PROVE  (k \in 1..1 /\ Is(q[k], "drop", x)) <=> (k \in 1..m /\ Is(q[k], "drop", x))
        <5>1. CASE k = 1
          BY <5>1, <1>7
        <5>2. CASE k # 1
          <6>1. k \notin 1..1
            BY <5>2
          <6>2. k \in 1..m => ~Is(q[k], "drop", x)
            BY <5>2, <4>1, <1>9, <1>11 DEF Is
          <6>3. QED
            BY <6>1, <6>2
        <5>3. QED
          BY <5>1, <5>2
      <4>2. OneTask(q, 1, q, m, "drop", x, m)
        BY <4>1 DEF OneTask
      <4>3. Count(q, m, "drop", x) = Count(q, 1, "drop", x) - Ind(m \in 1..1 /\ Is(q[m], "drop", x))
                                     + Ind(m \in 1..m /\ Is(q[m], "drop", x))
        BY <4>2, <1>7, CountOne
      <4>4. Ind(m \in 1..1 /\ Is(q[m], "drop", x)) = 0
        BY <3>2 DEF Ind
      <4>5. Ind(m \in 1..m /\ Is(q[m], "drop", x)) = Ind(x = d)
        BY <3>2, <1>7, <1>10 DEF Ind, Is
      <4>6. Ind(x = c) \in Nat /\ Ind(x = d) \in Nat
        BY DEF Ind
      <4>7. QED
        BY <2>2, <4>3, <4>4, <4>5, <4>6
    <3>3. QED
      BY <3>1, <3>2
  <2>4. QED
    BY <2>1, <2>3
<1>14. \A x : FieldRefs(h2, x) = FieldRefs(h, x)
  <2>1. SameFields(h, h2)
    BY <1>2 DEF SameFields
  <2>2. QED
    BY <2>1, FieldRefsSame
<1>15. Exact(h2, q, m, objs, "open")
  <2>1. SUFFICES ASSUME NEW x \in Cells
                 PROVE  h2[x].refs = FieldRefs(h2, x) + Ind(x \in objs)
                             + Count(q, m, "drop", x) + Count(q, m, "advance", x)
                             + Ind(x = Root /\ "open" = "open") + Ind(h2[x].open # <<>>)
    BY DEF Exact
  <2>2. h[x].refs = FieldRefs(h, x) + Ind(x \in objs) + Ind(x = d)
                    + Ind(x = Root /\ "open" = "open") + Ind(h[x].open # <<>>)
    BY DEF Settled
  <2>3. h2[x].refs = h[x].refs + Ind(x = c) /\ h2[x].open = h[x].open
    BY <1>2 DEF SameBody
  <2>4. FieldRefs(h2, x) = FieldRefs(h, x)
    BY <1>14
  <2>5. FieldRefs(h, x) \in Nat /\ Ind(x \in objs) \in Nat /\ Ind(x = d) \in Nat /\ Ind(x = c) \in Nat
        /\ Ind(x = Root /\ "open" = "open") \in Nat /\ Ind(h[x].open # <<>>) \in Nat
    BY HoldersFinite DEF Ind
  <2>6. Count(q, m, "drop", x) = Ind(x = c) + Ind(x = d) /\ Count(q, m, "advance", x) = 0
    BY <1>13
  <2>7. QED
    BY <2>2, <2>3, <2>4, <2>5, <2>6
<1>16. Released(h2, q, m)
  <2>1. ASSUME NEW x \in Cells PROVE ~(h2[x].kind # "free" /\ h2[x].refs = 0 /\ ~h2[x].marked)
    <3>1. h2[x].kind = h[x].kind /\ h2[x].marked = h[x].marked /\ h2[x].refs = h[x].refs + Ind(x = c)
      BY <1>2 DEF SameBody
    <3>2. h[x].refs \in Nat /\ Ind(x = c) \in Nat
      BY CellTypes DEF Ind
    <3>3. h[x].kind # "free" /\ ~h[x].marked => h[x].refs > 0
      BY DEF Settled
    <3>4. QED
      BY <3>1, <3>2, <3>3
  <2>2. QED
    BY <2>1, <1>13 DEF Released, Ind
<1>17. TasksOK(h2, q, m, "open")
  <2>1. ASSUME NEW k \in 1..m PROVE TaskOK(h2, q, m, "open", k)
    <3>1. q[k].op \in {"drop", "clear"} /\ q[k].ending = "" /\ q[k].cell # None
      BY <1>12
    <3>2. q[k].op = "clear" => Kept(q, k)
      <4>1. SUFFICES ASSUME q[k].op = "clear" PROVE Kept(q, k)
        OBVIOUS
      <4>2. k = 2 /\ m = 3
        BY <4>1, <1>8, <1>9, <1>10
      <4>3. q[k].cell = c
        BY <4>2, <1>11
      <4>4. 1 \in 1..k - 1
        BY <4>2
      <4>5. QED
        BY <4>3, <4>4, <1>8 DEF Kept
    <3>3. QED
      BY <3>1, <3>2 DEF TaskOK, CellOps
  <2>2. QED
    BY <2>1 DEF TasksOK
<1>18. FreesOK(h2, ch, q, m)
  BY <1>12 DEF FreesOK
<1>19. MarksOK(h2, q, m, objs)
  BY <1>5 DEF MarksOK
<1>20. ScopeOK(h2, q, m, "open")
  BY <1>8 DEF ScopeOK
<1>21. QED
  BY <1>3, <1>4, <1>5, <1>6, <1>7, <1>15, <1>16, <1>17, <1>18, <1>19, <1>20 DEF HeapInv, h2

\* A delegate that is set or taken away.
LEMMA SetDelegateKeeps ==
    ASSUME IInv, NEW c \in OfKind("table") \cup OfKind("userdata"),
           NEW v \in OfKind("table") \cup {None}, SetDelegate(c, v)
    PROVE  IInv'
<1> DEFINE h == Stored(heap, c, 1, v)
           d == heap[c].fields[1]
           ts == LetGo(c, 1, d)
           q == Pile(work')
           m == Len(work')
<1>1. /\ Program /\ heap' = AddRefTo(h, c) /\ work' = ts \o Drop(c)
      /\ UNCHANGED <<lists, Listed, table, held, leaked>>
  BY ListsSame DEF SetDelegate
<1>2. Idle /\ ops' \in 0..Programs[uses] /\ UNCHANGED <<uses, status>>
  BY <1>1, ProgramOps
<1>3. \A x \in InReach : Usable(heap, x)
  BY <1>2, ReachFacts
<1>4. Ready(heap, Objs, None) /\ ChainOK(heap, Listed)
  BY <1>2, IdleReady
<1>5. v = None \/ Usable(heap, v)
  BY <1>3 DEF OfKind
<1>6. Usable(heap, c) /\ heap[c].kind \in {"table", "userdata"} /\ 1 \in 1..2
  BY <1>3 DEF OfKind
<1>7. c \in Cells /\ heap[c].kind # "free" /\ heap[c].box # "dropped"
  BY <1>6 DEF Usable
<1>8. HasField(heap, c, 1)
  BY <1>4, <1>6, <1>7, FieldsOfKinds DEF Ready
<1>9. Ready(heap, Objs, v)
  BY <1>4, NoneAssumption DEF Ready
<1>10. /\ Shape(h) /\ Settled(h, Objs, "open", d) /\ d \in Cells \cup {None}
       /\ \A x \in Cells : h[x].kind = heap[x].kind /\ ~h[x].marked
  <2>1. v = None \/ (v \in Cells /\ heap[v].kind # "free" /\ heap[v].box # "dropped")
    BY <1>5 DEF Usable
  <2>2. QED
    BY <2>1, <1>6, <1>7, <1>8, <1>9, StoredHeap
<1>11. h[c].box # "dropped"
  <2> DEFINE h1 == WithField(heap, c, 1, v)
  <2>1. heap \in [Cells -> Cell] /\ v \in Cells \cup {None}
    BY <1>4, <1>5 DEF Ready, Shape, Usable
  <2>2. h = AddRefTo(h1, v)
    BY DEF Stored, WithField
  <2>3. FieldIs(heap, h1, c, 1, v)
    BY <2>1, <1>6, <1>7, FieldAssigned
  <2> HIDE DEF h1
  <2>4. h1 \in [Cells -> Cell] /\ SameBody(heap, h1, c)
    BY <2>3, <1>7 DEF FieldIs
  <2>5. Counted(h1, AddRefTo(h1, v), v)
    BY <2>1, <2>4, AddRefToCounts
  <2>6. SameBody(h1, h, c)
    BY <2>2, <2>5, <1>7 DEF Counted
  <2>7. QED
    BY <2>4, <2>6, <1>7 DEF SameBody
<1>12. ChainOK(h, Listed)
  BY <1>4, <1>10 DEF ChainOK
<1>13. h[Root].kind = "thread" /\ Objs \subseteq Cells /\ h[c].kind # "free"
  BY <1>4, <1>7, <1>10, CellsAssumption DEF Ready
<1>14. Lets(ts, c, d)
  BY <1>6, <1>7, <1>10, LetGoShape
<1> HIDE DEF h, d, ts
<1>15. work' \in Seq(TaskType)
  BY <1>1, <1>7, <1>10, <1>14, ReleasePiled
<1>16. Piled(q, m, work')
  BY <1>15, PileIs
<1> HIDE DEF q, m
<1>17. ReleasePile(q, m, c, d)
  BY <1>1, <1>7, <1>10, <1>14, <1>16, ReleasePiled
<1>18. HeapInv(AddRefTo(h, c), Listed, q, m, Objs, "open")
  BY <1>7, <1>10, <1>11, <1>12, <1>13, <1>17, ReleaseHeap
<1>19. Nodes' = Nodes /\ Objs' = Objs /\ Slots' = Slots
  BY <1>1 DEF Nodes, Objs, Slots
<1>20. TableOK'
  BY <1>1, <1>19 DEF IInv, TableOK
<1>21. HandlesInv'
  BY <1>1, <1>2, <1>19 DEF IInv, HandlesInv
<1>22. HeapInv(heap', Listed', Pile(work'), Len(work'), Objs', "open")
  BY <1>1, <1>18, <1>19 DEF q, m
<1>23. QED
  BY <1>1, <1>2, <1>15, <1>20, <1>21, <1>22, HandleDone

\* sq_addref of a new or a cloned Object.
LEMMA TakeHandleKeeps ==
    ASSUME IInv, NEW c \in Cells, Usable(heap, c), TakeHandle(c)
    PROVE  IInv'
<1> DEFINE j == held[c] + leaked[c]
<1>1. /\ Program /\ sq_addref(c) /\ held' = [held EXCEPT ![c] = @ + 1]
      /\ UNCHANGED <<lists, Listed, leaked, work>>
  BY ListsSame DEF TakeHandle
<1>2. Idle /\ ops' \in 0..Programs[uses] /\ UNCHANGED <<uses, status>>
  BY <1>1, ProgramOps
<1>3. held \in [Cells -> Nat] /\ leaked \in [Cells -> Nat]
  BY DEF IInv, HandlesInv
<1>4. /\ held' \in [Cells -> Nat] /\ leaked' \in [Cells -> Nat] /\ held'[c] + leaked'[c] = j + 1
      /\ \A y \in Cells : y # c => held'[y] + leaked'[y] = held[y] + leaked[y]
  BY <1>1, <1>3
<1>5. j \in Nat /\ j + 1 \in Nat /\ j + 1 # 0
  BY <1>3
<1>6. CASE Found(c) = {}
  <2>1. table' = WithNode(c) /\ heap' = AddRefTo(heap, c)
    BY <1>1, <1>6 DEF sq_addref
  <2>2. PICK m : Filed(WithNode(c), m, (Nodes \ Mine(c)) \cup NodeFor(c, 1))
    BY <1>2, <1>6, NodeAdded
  <2>3. j = 0 /\ c \notin Objs
    BY <1>2, <1>6, NodeAdded
  <2>4. held'[c] + leaked'[c] = 1 /\ 1 \in Nat
    BY <2>3, <1>4
  <2>5. Filed(table', m, (Nodes \ Mine(c)) \cup NodeFor(c, 1)) /\ status' = status
    BY <2>1, <2>2, <1>2
  <2> HIDE DEF j
  <2>6. TableOK' /\ HandlesInv' /\ Objs' = (Objs \ {c}) \cup (IF 1 = 0 THEN {} ELSE {c})
    BY <2>4, <2>5, <1>2, <1>4, HandlesStep
  <2>7. Objs' = Objs \cup {c}
    BY <2>3, <2>6
  <2>8. Ready(heap, Objs, None) /\ ChainOK(heap, Listed)
    BY <1>2, IdleReady
  <2>9. heap \in [Cells -> Cell] /\ Shape(heap)
    BY <2>8 DEF Ready, Shape
  <2>10. Counted(heap, heap', c)
    BY <2>1, <2>9, AddRefToCounts
  <2>11. /\ heap' \in [Cells -> Cell]
         /\ \A x \in Cells : /\ SameBody(heap, heap', x) /\ heap'[x].fields = heap[x].fields
                             /\ heap'[x].refs = heap[x].refs + Ind(x = c)
    BY <2>10 DEF Counted
  <2>12. Shape(heap')
    <3>1. ASSUME NEW x \in Cells, heap[x].kind = "free" \/ heap[x].box = "dropped" PROVE heap'[x].refs = 0
      <4>1. CellOK(heap, x) /\ x # c
        BY <3>1, <2>9 DEF Shape, Usable
      <4>2. heap[x].refs = 0
        BY <3>1, <4>1 DEF CellOK
      <4>3. QED
        BY <4>1, <4>2, <2>11 DEF Ind
    <3>2. Evolves(heap, heap')
      BY <3>1, <2>11 DEF Evolves
    <3>3. QED
      BY <3>2, <2>9, ShapeKept
  <2>13. Settled(heap', Objs', "open", None)
    <3>1. SUFFICES ASSUME NEW x \in Cells
                   PROVE  /\ heap'[x].refs = FieldRefs(heap', x) + Ind(x \in Objs') + Ind(x = None)
                                             + Ind(x = Root /\ "open" = "open") + Ind(heap'[x].open # <<>>)
                          /\ heap'[x].kind # "free" /\ ~heap'[x].marked => heap'[x].refs > 0
      BY DEF Settled
    <3>2. SameFields(heap, heap')
      BY <2>11 DEF SameFields
    <3>3. FieldRefs(heap', x) = FieldRefs(heap, x)
      BY <3>2, FieldRefsSame
    <3>4. /\ heap[x].refs = FieldRefs(heap, x) + Ind(x \in Objs) + Ind(x = Root) + Ind(heap[x].open # <<>>)
          /\ heap[x].kind # "free" => heap[x].refs > 0
      BY <2>8, NoneAssumption DEF Ready
    <3>5. heap'[x].refs = heap[x].refs + Ind(x = c) /\ heap'[x].open = heap[x].open /\ heap'[x].kind = heap[x].kind
      BY <2>11 DEF SameBody
    <3>6. Ind(x \in Objs') = Ind(x \in Objs) + Ind(x = c) /\ Ind(x = None) = 0
          /\ Ind(x = Root /\ "open" = "open") = Ind(x = Root)
      BY <2>3, <2>7, NoneAssumption DEF Ind
    <3>7. FieldRefs(heap, x) \in Nat /\ Ind(x \in Objs) \in Nat /\ Ind(x = c) \in Nat /\ Ind(x = Root) \in Nat
          /\ Ind(heap[x].open # <<>>) \in Nat /\ heap[x].refs \in Nat
      BY <2>9, HoldersFinite, CellTypes DEF Ind
    <3>8. heap'[x].refs = FieldRefs(heap', x) + Ind(x \in Objs') + Ind(x = None)
                          + Ind(x = Root /\ "open" = "open") + Ind(heap'[x].open # <<>>)
      BY <3>3, <3>4, <3>5, <3>6, <3>7
    <3>9. heap'[x].kind # "free" => heap'[x].refs > 0
      BY <3>4, <3>5, <3>7
    <3>10. QED
      BY <3>8, <3>9
  <2>14. \A x \in Cells : heap'[x].kind = heap[x].kind /\ ~heap'[x].marked
    BY <2>8, <2>11 DEF Ready, SameBody
  <2>15. ChainOK(heap', Listed')
    BY <2>8, <2>14, <1>1 DEF ChainOK
  <2>16. work' = <<>> /\ work' \in Seq(TaskType) /\ Len(work') = 0
    BY <1>1, <1>2 DEF Idle
  <2>17. Pile(work') \in [1..0 -> TaskType]
    BY <2>16, PileType
  <2>18. Objs' \subseteq Cells /\ heap'[Root].kind = "thread"
    BY <2>7, <2>8, <2>14, CellsAssumption DEF Ready
  <2>19. HeapInv(heap', Listed', Pile(work'), 0, Objs', "open")
    BY <2>12, <2>13, <2>14, <2>15, <2>17, <2>18, IdleHeap
  <2>20. QED
    BY <2>6, <2>16, <2>19, <1>1, <1>2, HandleDone
<1>7. CASE Found(c) # {}
  <2>1. PICK x \in Found(c) : table' = SetRefs(x, x.refs + 1)
    BY <1>1, <1>7 DEF sq_addref
  <2>2. heap' = heap
    BY <1>1, <1>7 DEF sq_addref
  <2>3. Filed(SetRefs(x, j + 1), Slots, (Nodes \ Mine(c)) \cup NodeFor(c, j + 1)) /\ x.refs = j /\ j # 0
    BY <1>2, <1>5, NodeSet
  <2>4. Filed(table', Slots, (Nodes \ Mine(c)) \cup NodeFor(c, j + 1)) /\ held[c] + leaked[c] # 0
    BY <2>1, <2>3
  <2>5. UNCHANGED <<heap, lists, Listed, work, uses, status>>
    BY <2>2, <1>1, <1>2
  <2> DEFINE k == j + 1
  <2>6. k \in Nat /\ k # 0 /\ held'[c] + leaked'[c] = k /\ Filed(table', Slots, (Nodes \ Mine(c)) \cup NodeFor(c, k))
    BY <2>4, <1>4, <1>5
  <2> HIDE DEF k, j
  <2>7. QED
    BY <2>4, <2>5, <2>6, <1>2, <1>4, CountChanged
<1>8. QED
  BY <1>6, <1>7

\* An Object that is forgotten.
LEMMA ForgetHandleKeeps ==
    ASSUME IInv, NEW c \in Cells, held[c] > 0, ForgetHandle(c)
    PROVE  IInv'
<1> DEFINE j == held[c] + leaked[c]
<1>1. /\ Program /\ held' = [held EXCEPT ![c] = @ - 1] /\ leaked' = [leaked EXCEPT ![c] = @ + 1]
      /\ UNCHANGED <<heap, lists, Listed, table, work>>
  BY ListsSame DEF ForgetHandle
<1>2. Idle /\ ops' \in 0..Programs[uses] /\ UNCHANGED <<uses, status>>
  BY <1>1, ProgramOps
<1>3. held \in [Cells -> Nat] /\ leaked \in [Cells -> Nat]
  BY DEF IInv, HandlesInv
<1>4. held[c] - 1 \in Nat /\ leaked[c] + 1 \in Nat /\ held[c] - 1 + (leaked[c] + 1) = j /\ j \in Nat /\ j # 0
  <2>1. held[c] \in Nat /\ leaked[c] \in Nat
    BY <1>3
  <2>2. QED
    BY <2>1
<1>5. /\ held' \in [Cells -> Nat] /\ leaked' \in [Cells -> Nat] /\ held'[c] + leaked'[c] = j
      /\ \A y \in Cells : y # c => held'[y] + leaked'[y] = held[y] + leaked[y]
  BY <1>1, <1>3, <1>4
<1>6. Filed(table, Slots, Nodes) /\ Mine(c) = NodeFor(c, j)
  BY <1>2, OneNode
<1>7. Mine(c) \subseteq Nodes
  BY DEF Mine
<1>8. (Nodes \ Mine(c)) \cup NodeFor(c, j) = Nodes
  BY <1>6, <1>7
<1>9. Filed(table', Slots, (Nodes \ Mine(c)) \cup NodeFor(c, j))
  BY <1>1, <1>6, <1>8
<1>10. held[c] + leaked[c] # 0
  BY <1>4
<1> HIDE DEF j
<1>11. QED
  BY <1>1, <1>2, <1>4, <1>5, <1>9, <1>10, CountChanged

\* sq_release of a dropped Object.
LEMMA DropHandleKeeps ==
    ASSUME IInv, NEW c \in Cells, held[c] > 0, DropHandle(c)
    PROVE  IInv'
<1> DEFINE j == held[c] + leaked[c]
<1>1. /\ Idle /\ UNCHANGED <<uses, ops, status>> /\ sq_release(c) /\ held' = [held EXCEPT ![c] = @ - 1]
      /\ UNCHANGED <<heap, lists, Listed, leaked>>
  BY ListsSame DEF DropHandle
<1>2. ops' \in 0..Programs[uses]
  BY <1>1 DEF IInv, TypeInv
<1>3. held \in [Cells -> Nat] /\ leaked \in [Cells -> Nat]
  BY DEF IInv, HandlesInv
<1>4. held[c] - 1 \in Nat /\ held[c] - 1 + leaked[c] = j - 1 /\ j \in Nat \ {0} /\ j - 1 \in Nat
  <2>1. held[c] \in Nat /\ leaked[c] \in Nat
    BY <1>3
  <2>2. QED
    BY <2>1
<1>5. /\ held' \in [Cells -> Nat] /\ leaked' \in [Cells -> Nat] /\ held'[c] + leaked'[c] = j - 1
      /\ \A y \in Cells : y # c => held'[y] + leaked'[y] = held[y] + leaked[y]
  BY <1>1, <1>3, <1>4
<1>6. Found(c) = Mine(c) /\ Mine(c) = NodeFor(c, j) /\ Mine(c) # {}
  BY <1>1, <1>4, OneNode DEF NodeFor
<1>7. PICK nd \in Found(c) : table' = SetRefs(nd, nd.refs - 1) /\ work' = IF nd.refs = 1 THEN Drop(c) ELSE <<>>
  BY <1>1, <1>6 DEF sq_release
<1>8. Filed(SetRefs(nd, j - 1), Slots, (Nodes \ Mine(c)) \cup NodeFor(c, j - 1)) /\ nd.refs = j
  BY <1>1, <1>4, NodeSet
<1>9. Filed(table', Slots, (Nodes \ Mine(c)) \cup NodeFor(c, j - 1))
  BY <1>7, <1>8
<1>10. CASE j # 1
  <2>1. work' = work /\ j - 1 # 0
    BY <1>1, <1>4, <1>7, <1>8, <1>10 DEF Idle
  <2>2. UNCHANGED <<heap, lists, Listed, work, uses, status>> /\ held[c] + leaked[c] # 0
    BY <2>1, <1>1, <1>4
  <2> DEFINE k == j - 1
  <2>3. k \in Nat /\ k # 0 /\ held'[c] + leaked'[c] = k /\ Filed(table', Slots, (Nodes \ Mine(c)) \cup NodeFor(c, k))
    BY <2>1, <1>4, <1>5, <1>9
  <2> HIDE DEF k, j
  <2>4. QED
    BY <2>2, <2>3, <1>1, <1>2, <1>5, CountChanged
<1>11. CASE j = 1
  <2>1. work' = Drop(c) /\ j - 1 = 0
    BY <1>7, <1>8, <1>11
  <2>2. held'[c] + leaked'[c] = 0 /\ Filed(table', Slots, (Nodes \ Mine(c)) \cup NodeFor(c, 0)) /\ 0 \in Nat
    BY <2>1, <1>5, <1>9
  <2> HIDE DEF j
  <2>3. TableOK' /\ HandlesInv' /\ Objs' = (Objs \ {c}) \cup (IF 0 = 0 THEN {} ELSE {c})
    BY <2>2, <1>1, <1>5, HandlesStep
  <2>4. Objs' = Objs \ {c} /\ c \in Objs
    BY <2>3, <1>6 DEF Objs, Mine
  <2>5. Ready(heap, Objs, None) /\ ChainOK(heap, Listed)
    BY <1>1, IdleReady
  <2>6. Settled(heap, Objs', "open", c)
    <3>1. SUFFICES ASSUME NEW x \in Cells
                   PROVE  /\ heap[x].refs = FieldRefs(heap, x) + Ind(x \in Objs') + Ind(x = c)
                                            + Ind(x = Root /\ "open" = "open") + Ind(heap[x].open # <<>>)
                          /\ heap[x].kind # "free" /\ ~heap[x].marked => heap[x].refs > 0
      BY DEF Settled
    <3>2. /\ heap[x].refs = FieldRefs(heap, x) + Ind(x \in Objs) + Ind(x = Root) + Ind(heap[x].open # <<>>)
          /\ heap[x].kind # "free" => heap[x].refs > 0
      BY <2>5, NoneAssumption DEF Ready
    <3>3. Ind(x \in Objs) = Ind(x \in Objs') + Ind(x = c) /\ Ind(x = Root /\ "open" = "open") = Ind(x = Root)
      BY <2>4 DEF Ind
    <3>4. FieldRefs(heap, x) \in Nat /\ Ind(x \in Objs') \in Nat /\ Ind(x = c) \in Nat /\ Ind(x = Root) \in Nat
          /\ Ind(heap[x].open # <<>>) \in Nat
      BY HoldersFinite DEF Ind
    <3>5. QED
      BY <3>2, <3>3, <3>4
  <2>7. work' \in Seq(TaskType)
    BY <2>1, DropShape
  <2>8. Piled(Pile(work'), Len(work'), Drop(c))
    BY <2>1, <2>7, PileIs
  <2>9. Shape(heap) /\ Objs' \subseteq Cells /\ heap[Root].kind = "thread" /\ \A x \in Cells : ~heap[x].marked
    BY <2>4, <2>5 DEF Ready
  <2>10. HeapInv(heap, Listed, Pile(work'), Len(work'), Objs', "open")
    BY <2>5, <2>6, <2>8, <2>9, DropHeap
  <2>11. HeapInv(heap', Listed', Pile(work'), Len(work'), Objs', "open")
    BY <2>10, <1>1
  <2>12. QED
    BY <2>3, <2>7, <2>11, <1>1, <1>2, HandleDone
<1>12. QED
  BY <1>10, <1>11

-----------------------------------------------------------------------------
(* Scopes, collections and the end of the VM.                              *)

\* A call that starts on an idle VM and has d to release.
Starts(q, m, d) ==
    /\ m \in Nat /\ q \in [1..m -> TaskType]
    /\ \A k \in 1..m : q[k].op \notin {"advance", "free"} /\ (q[k].op = "drop" => k = 3)
    /\ \A c \in Cells : 3 \in 1..m /\ Is(q[3], "drop", c) <=> c = d

\* The first task of a call that begins.
LEMMA StartHeap ==
    ASSUME NEW h, NEW objs, Ready(h, objs, None), NEW q, NEW m, NEW st, NEW d, Starts(q, m, d),
           d = IF st = "open" THEN None ELSE Root
    PROVE  /\ Exact(h, q, m, objs, st) /\ Released(h, q, m) /\ MarksOK(h, q, m, objs)
           /\ \A ch : FreesOK(h, ch, q, m)
<1>1. m \in Nat /\ \A k \in 1..m : q[k].op \notin {"advance", "free"} /\ (q[k].op = "drop" => k = 3)
  BY DEF Starts
<1>2. /\ Shape(h)
      /\ \A c \in Cells :
            /\ ~h[c].marked
            /\ h[c].refs = FieldRefs(h, c) + Ind(c \in objs) + Ind(c = Root) + Ind(h[c].open # <<>>)
            /\ h[c].kind # "free" => h[c].refs > 0
  BY NoneAssumption DEF Ready
<1>3. ASSUME NEW c \in Cells
      PROVE  Count(q, m, "drop", c) = Ind(c = d) /\ Count(q, m, "advance", c) = 0 /\ Count(q, m, "free", c) = 0
  <2>1. \A op \in {"drop", "advance", "free"} : \A k \in 1..m : k # 3 => ~Is(q[k], op, c)
    BY <1>1 DEF Is
  <2>2. \A op \in {"drop", "advance", "free"} : Count(q, m, op, c) = Ind(3 \in 1..m /\ Is(q[3], op, c))
    BY <2>1, <1>1, CountLone
  <2>3. ~(3 \in 1..m /\ Is(q[3], "advance", c)) /\ ~(3 \in 1..m /\ Is(q[3], "free", c))
    BY <1>1 DEF Is
  <2>4. Ind(3 \in 1..m /\ Is(q[3], "drop", c)) = Ind(c = d)
    BY DEF Starts, Ind
  <2>5. Ind(3 \in 1..m /\ Is(q[3], "advance", c)) = 0 /\ Ind(3 \in 1..m /\ Is(q[3], "free", c)) = 0
    BY <2>3 DEF Ind
  <2>6. QED
    BY <2>2, <2>4, <2>5
<1>4. Exact(h, q, m, objs, st)
  <2>1. SUFFICES ASSUME NEW c \in Cells
                 PROVE  h[c].refs = FieldRefs(h, c) + Ind(c \in objs)
                             + Count(q, m, "drop", c) + Count(q, m, "advance", c)
                             + Ind(c = Root /\ st = "open") + Ind(h[c].open # <<>>)
    BY DEF Exact
  <2>2. h[c].refs = FieldRefs(h, c) + Ind(c \in objs) + Ind(c = Root) + Ind(h[c].open # <<>>)
    BY <1>2
  <2>3. Ind(c = Root) = Ind(c = d) + Ind(c = Root /\ st = "open")
    BY NoneAssumption DEF Ind
  <2>4. FieldRefs(h, c) \in Nat /\ Ind(c \in objs) \in Nat /\ Ind(c = d) \in Nat
        /\ Ind(c = Root /\ st = "open") \in Nat /\ Ind(h[c].open # <<>>) \in Nat
    BY HoldersFinite DEF Ind
  <2>5. Count(q, m, "drop", c) = Ind(c = d) /\ Count(q, m, "advance", c) = 0
    BY <1>3
  <2>6. QED
    BY <2>2, <2>3, <2>4, <2>5
<1>5. Released(h, q, m)
  <2>1. ASSUME NEW c \in Cells PROVE ~(h[c].kind # "free" /\ h[c].refs = 0 /\ ~h[c].marked)
    BY <1>2
  <2>2. QED
    BY <2>1, <1>3 DEF Released, Ind
<1>6. MarksOK(h, q, m, objs)
  BY <1>2 DEF MarksOK
<1>7. \A ch : FreesOK(h, ch, q, m)
  BY <1>1 DEF FreesOK
<1>8. QED
  BY <1>4, <1>5, <1>6, <1>7

\* CloseOuters at the end of a scope.
LEMMA CloseScopeKeeps ==
    ASSUME IInv, NEW th \in OfKind("thread"), CloseScope(th)
    PROVE  IInv'
<1> DEFINE t == Task("closeouters", th)
           q == Pile(work')
           m == Len(work')
<1>1. /\ Program /\ work' = <<t>> /\ UNCHANGED <<heap, lists, Listed, table, held, leaked>>
  BY ListsSame DEF CloseScope
<1>2. Idle /\ ops' \in 0..Programs[uses] /\ UNCHANGED <<uses, status>>
  BY <1>1, ProgramOps
<1>3. Ready(heap, Objs, None) /\ ChainOK(heap, Listed) /\ status = "open"
  BY <1>2, IdleReady
<1>4. /\ th \in Cells /\ heap[th].kind = "thread"
      /\ th = Root \/ \E x \in Cells, f \in 1..2 : heap[x].fields[f] = th
  BY <1>2, ReachFacts DEF OfKind, Usable
<1>5. IsTask(t, "closeouters", th)
  BY <1>4, TaskFacts DEF CellOps
<1>6. t \in TaskType /\ t.op = "closeouters" /\ t.cell = th /\ t.ending = ""
  BY <1>5 DEF IsTask
<1> HIDE DEF t
<1>7. work' \in Seq(TaskType) /\ Len(work') = 1 /\ work'[1] = t
  <2>1. t \in TaskType
    BY <1>6
  <2>2. QED
    BY <2>1, <1>1
<1>8. Piled(q, m, work')
  BY <1>7, PileIs
<1> HIDE DEF q, m
<1>9. m = 1 /\ q \in [1..m -> TaskType] /\ q[1] = t /\ \A k \in 1..m : k = 1
  <2>1. m = 1 /\ 1 \in 1..m /\ m + 1 - 1 = 1 /\ \A k \in 1..m : k = 1
    BY <1>7 DEF m
  <2>2. QED
    BY <2>1, <1>7, <1>8 DEF Piled
<1>10. q[1].op = "closeouters" /\ q[1].cell = th /\ q[1].ending = ""
  BY <1>6, <1>9
<1>11. Starts(q, m, None)
  <2>1. m \in Nat /\ 3 \notin 1..m
    BY <1>9
  <2>2. \A k \in 1..m : q[k].op = "closeouters"
    BY <1>9, <1>10
  <2>3. QED
    BY <2>1, <2>2, <1>9, NoneAssumption DEF Starts
<1>12. /\ Exact(heap, q, m, Objs, "open") /\ Released(heap, q, m) /\ MarksOK(heap, q, m, Objs)
       /\ FreesOK(heap, Listed, q, m)
  BY <1>3, <1>11, StartHeap
<1>13. TasksOK(heap, q, m, "open")
  <2>1. TaskOK(heap, q, m, "open", 1)
    <3>1. th # None
      BY <1>4, NoneAssumption
    <3>2. QED
      BY <3>1, <1>10 DEF TaskOK, CellOps
  <2>2. QED
    BY <2>1, <1>9 DEF TasksOK
<1>14. ScopeOK(heap, q, m, "open")
  <2>1. \A x : Spared(q, m, x)
    BY <1>9, <1>10 DEF Spared
  <2>2. Stays(heap, q, m, th)
    BY <2>1, <1>4 DEF Stays
  <2>3. \A k \in 2..m : FALSE
    BY <1>9
  <2>4. QED
    BY <2>2, <2>3, <1>4, <1>10 DEF ScopeOK
<1>15. HeapInv(heap, Listed, q, m, Objs, "open")
  <2>1. m \in Nat
    BY <1>9
  <2>2. QED
    BY <2>1, <1>3, <1>9, <1>12, <1>13, <1>14 DEF HeapInv, Ready
<1>16. Nodes' = Nodes /\ Objs' = Objs /\ Slots' = Slots
  BY <1>1 DEF Nodes, Objs, Slots
<1>17. TableOK'
  BY <1>1, <1>16 DEF IInv, TableOK
<1>18. HandlesInv'
  BY <1>1, <1>2, <1>16 DEF IInv, HandlesInv
<1>19. HeapInv(heap', Listed', Pile(work'), Len(work'), Objs', "open")
  BY <1>1, <1>15, <1>16 DEF q, m
<1>20. QED
  BY <1>1, <1>2, <1>7, <1>17, <1>18, <1>19, HandleDone

\* What sq_close has to do, as a pile.
ClosePile(q, m) ==
    /\ m \in Nat /\ 3 \in 1..m /\ q \in [1..m -> TaskType]
    /\ IsTask(q[1], "sweepall", None) /\ IsTask(q[2], "reftable", None) /\ IsTask(q[3], "drop", Root)
    /\ \A k \in 4..m : ClearsOnly(q[k], Root)

\* sq_close finalizes the root VM twice, drops it, and goes on to the handle
\* table and the chain.
LEMMA CloseTasks ==
    ASSUME IInv, sq_close
    PROVE  work' \in Seq(TaskType) /\ ClosePile(Pile(work'), Len(work'))
<1> DEFINE F == FinalizeTasks(Root)
           G == F \o F
           td == Task("drop", Root)
           tr == Task("reftable", None)
           ts == Task("sweepall", None)
           T == <<td, tr, ts>>
           W == G \o T
           q == Pile(work')
           m == Len(work')
<1>1. /\ Idle /\ (\A c \in Cells : held[c] = 0) /\ status' = "closing" /\ work' = W
      /\ UNCHANGED <<heap, lists, Listed, table, held, leaked, uses, ops>>
  BY ListsSame DEF sq_close
<1>2. Ready(heap, Objs, None) /\ ChainOK(heap, Listed) /\ Root \in Cells
  BY <1>1, IdleReady, CellsAssumption
<1>3. heap[Root].kind \in Kinds /\ ~heap[Root].marked
  BY <1>2 DEF Ready, Kinds
<1>4. Finalizes(F, Root)
  BY <1>2, <1>3, FinalizeShape
<1>5. F \in Seq(TaskType) /\ Len(F) \in 1..3 /\ \A j \in 1..Len(F) : ClearsOnly(F[j], Root)
  BY <1>4 DEF Finalizes
<1> HIDE DEF F
<1>6. IsTask(td, "drop", Root) /\ IsTask(tr, "reftable", None) /\ IsTask(ts, "sweepall", None)
  BY <1>2, TaskFacts DEF CellOps, LoneOps
<1>7. /\ td \in TaskType /\ td.op = "drop" /\ td.cell = Root /\ td.ending = ""
      /\ tr \in TaskType /\ tr.op = "reftable" /\ tr.cell = None /\ tr.ending = ""
      /\ ts \in TaskType /\ ts.op = "sweepall" /\ ts.cell = None /\ ts.ending = ""
  BY <1>6 DEF IsTask
<1> HIDE DEF td, tr, ts
<1>8. T \in Seq(TaskType) /\ Len(T) = 3 /\ T[1] = td /\ T[2] = tr /\ T[3] = ts
  <2>1. td \in TaskType /\ tr \in TaskType /\ ts \in TaskType
    BY <1>7
  <2>2. QED
    BY <2>1
<1>9. /\ G \in Seq(TaskType) /\ Len(G) = Len(F) + Len(F)
      /\ \A i \in 1..Len(F) + Len(F) : G[i] = IF i <= Len(F) THEN F[i] ELSE F[i - Len(F)]
  BY <1>5, ConcatProperties
<1> HIDE DEF T, G
<1>10. /\ W \in Seq(TaskType) /\ Len(W) = Len(G) + Len(T)
       /\ \A i \in 1..Len(G) + Len(T) : W[i] = IF i <= Len(G) THEN G[i] ELSE T[i - Len(G)]
  <2>1. G \in Seq(TaskType) /\ T \in Seq(TaskType)
    BY <1>8, <1>9
  <2>2. QED
    BY <2>1, ConcatProperties
<1> HIDE DEF W
<1> DEFINE g == Len(G)
<1>11. g \in Nat /\ g >= 2 /\ Len(W) = g + 3
  <2>1. Len(F) \in 1..3 /\ g = Len(F) + Len(F)
    BY <1>5, <1>9
  <2>2. Len(W) = g + 3
    BY <1>8, <1>10
  <2>3. QED
    BY <2>1, <2>2
<1>12. \A i \in 1..g : ClearsOnly(G[i], Root)
  <2>1. ASSUME NEW i \in 1..g PROVE ClearsOnly(G[i], Root)
    <3>1. Len(F) \in 1..3 /\ g = Len(F) + Len(F) /\ i \in 1..Len(F) + Len(F)
      BY <1>5, <1>9
    <3>2. CASE i <= Len(F)
      <4>1. i \in 1..Len(F)
        BY <3>1, <3>2
      <4>2. QED
        BY <4>1, <3>1, <3>2, <1>5, <1>9
    <3>3. CASE ~(i <= Len(F))
      <4>1. i - Len(F) \in 1..Len(F)
        BY <3>1, <3>3
      <4>2. QED
        BY <4>1, <3>1, <3>3, <1>5, <1>9
    <3>4. QED
      BY <3>2, <3>3
  <2>2. QED
    BY <2>1
<1>13. Piled(q, m, W)
  BY <1>1, <1>10, PileIs
<1> HIDE DEF q, m
<1>14. m = g + 3 /\ q \in [1..m -> TaskType] /\ \A k \in 1..m : q[k] = W[m + 1 - k]
  BY <1>11, <1>13 DEF Piled
<1> HIDE DEF g
<1>15. q[1] = ts /\ q[2] = tr /\ q[3] = td
  <2>1. /\ 1 \in 1..m /\ 2 \in 1..m /\ 3 \in 1..m
        /\ m + 1 - 1 = g + 3 /\ m + 1 - 2 = g + 2 /\ m + 1 - 3 = g + 1
    BY <1>11, <1>14
  <2>2. /\ g + 1 \in 1..g + 3 /\ g + 2 \in 1..g + 3 /\ g + 3 \in 1..g + 3
        /\ ~(g + 1 <= g) /\ ~(g + 2 <= g) /\ ~(g + 3 <= g)
        /\ g + 1 - g = 1 /\ g + 2 - g = 2 /\ g + 3 - g = 3
    BY <1>11
  <2>3. \A i \in 1..g + 3 : W[i] = IF i <= g THEN G[i] ELSE T[i - g]
    BY <1>8, <1>10 DEF g
  <2>4. W[g + 1] = td /\ W[g + 2] = tr /\ W[g + 3] = ts
    <3> DEFINE e1 == g + 1
               e2 == g + 2
               e3 == g + 3
    <3>1. /\ e1 \in 1..g + 3 /\ ~(e1 <= g) /\ e1 - g = 1 /\ e2 \in 1..g + 3 /\ ~(e2 <= g) /\ e2 - g = 2
          /\ e3 \in 1..g + 3 /\ ~(e3 <= g) /\ e3 - g = 3
      BY <1>11
    <3> HIDE DEF e1, e2, e3
    <3>2. W[e1] = T[1] /\ W[e2] = T[2] /\ W[e3] = T[3]
      BY <3>1, <2>3
    <3>3. QED
      BY <3>2, <1>8 DEF e1, e2, e3
  <2>5. QED
    BY <2>1, <2>4, <1>14
<1>16. ASSUME NEW k \in 4..m PROVE ClearsOnly(q[k], Root)
  <2>1. k \in 1..m /\ m + 1 - k \in 1..g /\ m + 1 - k \in 1..g + 3 /\ m + 1 - k <= g
    BY <1>11, <1>14
  <2>2. \A i \in 1..g + 3 : W[i] = IF i <= g THEN G[i] ELSE T[i - g]
    BY <1>8, <1>10 DEF g
  <2>3. q[k] = G[m + 1 - k]
    BY <2>1, <2>2, <1>14
  <2>4. QED
    BY <2>1, <2>3, <1>12
<1>17. 3 \in 1..m /\ m \in Nat
  BY <1>11, <1>14
<1>18. ClosePile(q, m)
  BY <1>6, <1>14, <1>15, <1>16, <1>17 DEF ClosePile
<1>19. QED
  BY <1>1, <1>10, <1>18 DEF q, m

\* sq_close begins.
LEMMA CloseKeeps ==
    ASSUME IInv, sq_close
    PROVE  IInv'
<1> DEFINE q == Pile(work')
           m == Len(work')
<1>1. /\ Idle /\ (\A c \in Cells : held[c] = 0) /\ status' = "closing"
      /\ UNCHANGED <<heap, lists, Listed, table, held, leaked, uses, ops>>
  BY ListsSame DEF sq_close
<1>2. Ready(heap, Objs, None) /\ ChainOK(heap, Listed) /\ Root \in Cells
  BY <1>1, IdleReady, CellsAssumption
<1>3. heap[Root].kind \in Kinds /\ ~heap[Root].marked
  BY <1>2 DEF Ready, Kinds
<1>4. work' \in Seq(TaskType) /\ ClosePile(q, m)
  BY CloseTasks
<1> HIDE DEF q, m
<1>5. /\ m \in Nat /\ 3 \in 1..m /\ q \in [1..m -> TaskType]
      /\ IsTask(q[1], "sweepall", None) /\ IsTask(q[2], "reftable", None) /\ IsTask(q[3], "drop", Root)
  BY <1>4 DEF ClosePile
<1>6. /\ q[1].op = "sweepall" /\ q[1].cell = None /\ q[1].ending = ""
      /\ q[2].op = "reftable" /\ q[2].cell = None /\ q[2].ending = ""
      /\ q[3].op = "drop" /\ q[3].cell = Root /\ q[3].ending = ""
  BY <1>5 DEF IsTask
<1>7. ASSUME NEW k \in 4..m PROVE ClearsOnly(q[k], Root)
  BY <1>4 DEF ClosePile
<1>8. m \in Nat /\ 3 \in 1..m /\ 1 \in 1..m /\ \A k \in 1..m : k = 1 \/ k = 2 \/ k = 3 \/ k \in 4..m
  BY <1>5
<1>9. Starts(q, m, Root)
  <2>1. ASSUME NEW k \in 1..m PROVE q[k].op \notin {"advance", "free"} /\ (q[k].op = "drop" => k = 3)
    <3>1. CASE k \in 4..m
      BY <3>1, <1>7 DEF ClearsOnly
    <3>2. QED
      BY <3>1, <1>6, <1>8
  <2>2. \A c \in Cells : 3 \in 1..m /\ Is(q[3], "drop", c) <=> c = Root
    BY <1>6, <1>8 DEF Is
  <2>3. QED
    BY <2>1, <2>2, <1>5, <1>8 DEF Starts
<1>10. /\ Exact(heap, q, m, Objs, "closing") /\ Released(heap, q, m) /\ MarksOK(heap, q, m, Objs)
       /\ FreesOK(heap, Listed, q, m)
  BY <1>2, <1>9, StartHeap
<1>11. TasksOK(heap, q, m, "closing")
  <2>1. Root # None
    BY <1>2, NoneAssumption
  <2>2. TaskOK(heap, q, m, "closing", 1)
    BY <1>6 DEF TaskOK, CellOps
  <2>3. TaskOK(heap, q, m, "closing", 2)
    BY <1>6 DEF TaskOK, CellOps
  <2>4. TaskOK(heap, q, m, "closing", 3)
    BY <2>1, <1>6 DEF TaskOK, CellOps
  <2>5. ASSUME NEW k \in 4..m PROVE TaskOK(heap, q, m, "closing", k)
    <3>1. q[k].cell = Root /\ q[k].ending = "" /\ (q[k].op = "closeouters" \/ (q[k].op = "null" /\ q[k].field \in 1..2))
      BY <1>7 DEF ClearsOnly
    <3>2. 3 \in 1..k - 1
      BY <1>8
    <3>3. Kept(q, k)
      BY <3>1, <3>2, <1>6 DEF Kept
    <3>4. Written(q, k)
      <4>1. ASSUME NEW j \in 1..k - 1 PROVE q[j].op # "clear"
        <5>1. j = 1 \/ j = 2 \/ j = 3 \/ j \in 4..m
          BY <1>8
        <5>2. CASE j \in 4..m
          BY <5>2, <1>7 DEF ClearsOnly
        <5>3. QED
          BY <5>1, <5>2, <1>6
      <4>2. QED
        BY <4>1 DEF Written, Is
    <3>5. QED
      BY <2>1, <3>1, <3>3, <3>4, <1>3 DEF TaskOK, CellOps
  <2>6. QED
    BY <2>2, <2>3, <2>4, <2>5, <1>8 DEF TasksOK
<1>12. ScopeOK(heap, q, m, "closing")
  BY <1>6 DEF ScopeOK
<1>13. HeapInv(heap, Listed, q, m, Objs, "closing")
  BY <1>2, <1>5, <1>8, <1>10, <1>11, <1>12 DEF HeapInv, Ready
<1>14. Nodes' = Nodes /\ Objs' = Objs /\ Slots' = Slots
  BY <1>1 DEF Nodes, Objs, Slots
<1>15. TableOK'
  BY <1>1, <1>14 DEF IInv, TableOK
<1>16. HandlesInv'
  BY <1>1 DEF IInv, HandlesInv
<1>17. HeapInv(heap', Listed', Pile(work'), Len(work'), Objs', status')
  BY <1>1, <1>13, <1>14 DEF q, m
<1>18. TypeInv'
  BY <1>1, <1>4 DEF IInv, TypeInv, ListsOK, Lists, lists
<1>19. QED
  BY <1>15, <1>16, <1>17, <1>18 DEF IInv

MarkFrom == {Root} \cup (Objs \cap Collectable)

\* RunMark, as the last of |Cells| rounds.
LEMMA MarkRounds ==
    ASSUME Root \in Collectable
    PROVE  \E g : /\ RunMark = g[Cardinality(Cells)] /\ g[0] = MarkFrom
                  /\ \A n \in 1..Cardinality(Cells) :
                        g[n] = g[n - 1] \cup UNION {MarkSucc(c) : c \in g[n - 1]}
<1> DEFINE from == {Root} \cup ({n.obj : n \in Nodes} \cap Collectable)
           P == Collectable
           N == Cardinality(Cells)
           G(g) == [n \in 0..N |-> IF n = 0 THEN from
                                   ELSE g[n - 1] \cup UNION {MarkSucc(c) : c \in g[n - 1]}]
           upto == CHOOSE g : g = G(g)
           step == [a \in (SUBSET P) \X (1..N) |-> a[1] \cup UNION {MarkSucc(c) : c \in a[1]}]
<1>1. N \in Nat
  BY CellsAssumption, FS_CardinalityType
<1>2. RunMark = upto[N]
  BY DEF RunMark, Closure
<1>3. from \subseteq P /\ \A c : MarkSucc(c) \subseteq P
  BY DEF MarkSucc
<1>4. from = MarkFrom
  BY DEF MarkFrom, Objs
<1> HIDE DEF from, P
<1>5. step \in [(SUBSET P) \X (1..N) -> SUBSET P]
  <2>1. ASSUME NEW a \in (SUBSET P) \X (1..N)
        PROVE  a[1] \cup UNION {MarkSucc(c) : c \in a[1]} \in SUBSET P
    <3>1. a[1] \in SUBSET P
      OBVIOUS
    <3>2. QED
      BY <3>1, <1>3
  <2>2. QED
    BY <2>1
<1>6. PICK g : g \in [0..N -> SUBSET P] /\ g[0] = from /\ \A i \in 1..N : g[i] = step[<<g[i - 1], i>>]
  <2> HIDE DEF step
  <2>1. Recursion(N, SUBSET P, from, step)
    BY <1>1, <1>3, <1>5 DEF Recursion
  <2>2. \E g : IsRecursive(g, N, SUBSET P, from, step)
    BY <2>1, FiniteRecursion, Zenon
  <2>3. QED
    BY <2>2 DEF IsRecursive
<1>7. g = G(g)
  <2>1. ASSUME NEW i \in 1..N
        PROVE  g[i] = g[i - 1] \cup UNION {MarkSucc(c) : c \in g[i - 1]}
    <3>1. i - 1 \in 0..N
      BY <1>1
    <3>2. <<g[i - 1], i>> \in (SUBSET P) \X (1..N)
      BY <3>1, <1>6
    <3>3. step[<<g[i - 1], i>>] = g[i - 1] \cup UNION {MarkSucc(c) : c \in g[i - 1]}
      BY <3>2
    <3>4. QED
      BY <3>3, <1>6
  <2>2. \A n \in 0..N : g[n] = IF n = 0 THEN from
                               ELSE g[n - 1] \cup UNION {MarkSucc(c) : c \in g[n - 1]}
    BY <2>1, <1>1, <1>6
  <2>3. QED
    BY <2>2, <1>6
<1>8. upto = G(upto)
  BY <1>7
<1> HIDE DEF upto
<1>9. \A n \in 0..N : upto[n] = IF n = 0 THEN from
                                ELSE upto[n - 1] \cup UNION {MarkSucc(c) : c \in upto[n - 1]}
  BY <1>8
<1>10. upto[0] = from /\ \A n \in 1..N : upto[n] = upto[n - 1] \cup UNION {MarkSucc(c) : c \in upto[n - 1]}
  <2>1. 0 \in 0..N /\ \A n \in 1..N : n \in 0..N /\ n # 0
    BY <1>1
  <2>2. QED
    BY <2>1, <1>9
<1>11. QED
  BY <1>2, <1>4, <1>10

\* What is marked is collectable, and is the root VM, the object of a node, or
\* in a field of something that is marked.
LEMMA MarkBound ==
    ASSUME Root \in Collectable
    PROVE  \A c \in RunMark : /\ c \in Collectable
                              /\ c = Root \/ c \in Objs \/ \E x \in RunMark : c \in Refers(x)
<1> DEFINE N == Cardinality(Cells)
           P == Collectable
<1>1. N \in Nat
  BY CellsAssumption, FS_CardinalityType
<1>2. PICK g : /\ RunMark = g[N] /\ g[0] = MarkFrom
               /\ \A n \in 1..N : g[n] = g[n - 1] \cup UNION {MarkSucc(c) : c \in g[n - 1]}
  BY MarkRounds
<1>3. MarkFrom \subseteq P /\ \A c : MarkSucc(c) \subseteq P
  BY DEF MarkSucc, MarkFrom
<1>4. \A c \in MarkFrom : c = Root \/ c \in Objs
  BY DEF MarkFrom
<1> HIDE DEF P
<1> DEFINE Good(n) == \A c \in g[n] : /\ c \in P
                                      /\ c = Root \/ c \in Objs \/ \E x \in g[n] : c \in Refers(x)
           Bad == {n \in 0..N : ~Good(n)}
<1>5. Bad = {}
  <2>1. SUFFICES ASSUME Bad # {} PROVE FALSE
    OBVIOUS
  <2>2. Bad \in SUBSET Nat
    BY <1>1
  <2>3. PICK n \in Bad : \A k \in Bad : n <= k
    BY <2>1, <2>2, LeastNat
  <2>4. Good(0)
    BY <1>2, <1>3, <1>4
  <2>5. n \in 0..N /\ ~Good(n) /\ n # 0
    BY <2>4
  <2>6. n - 1 \in 0..N /\ ~(n <= n - 1)
    BY <1>1, <2>5
  <2>7. Good(n - 1)
    BY <2>3, <2>6
  <2>8. g[n] = g[n - 1] \cup UNION {MarkSucc(c) : c \in g[n - 1]}
    BY <2>5, <1>1, <1>2
  <2>9. ASSUME NEW c \in g[n]
        PROVE  c \in P /\ (c = Root \/ c \in Objs \/ \E x \in g[n] : c \in Refers(x))
    <3>1. CASE c \in g[n - 1]
      <4>1. c \in P /\ (c = Root \/ c \in Objs \/ \E x \in g[n - 1] : c \in Refers(x))
        BY <3>1, <2>7
      <4>2. g[n - 1] \subseteq g[n]
        BY <2>8
      <4>3. QED
        BY <4>1, <4>2
    <3>2. CASE c \notin g[n - 1]
      <4>1. PICK x \in g[n - 1] : c \in MarkSucc(x)
        BY <3>2, <2>8
      <4>2. x \in g[n] /\ c \in Refers(x) /\ c \in P
        BY <4>1, <2>8, <1>3 DEF MarkSucc
      <4>3. QED
        BY <4>2
    <3>3. QED
      BY <3>1, <3>2
  <2>10. QED
    BY <2>5, <2>9
<1>6. Good(N)
  <2>1. N \in 0..N
    BY <1>1
  <2>2. QED
    BY <2>1, <1>5
<1>7. QED
  BY <1>2, <1>6 DEF P

\* |Cells| rounds are enough: what is marked leads to what is marked, as far as
\* it is collectable.
LEMMA MarkClosed ==
    ASSUME Root \in Collectable
    PROVE  MarkFrom \subseteq RunMark /\ \A c \in RunMark : MarkSucc(c) \subseteq RunMark
<1> DEFINE N == Cardinality(Cells)
           P == Collectable
<1>1. N \in Nat
  BY CellsAssumption, FS_CardinalityType
<1>2. PICK g : /\ RunMark = g[N] /\ g[0] = MarkFrom
               /\ \A n \in 1..N : g[n] = g[n - 1] \cup UNION {MarkSucc(c) : c \in g[n - 1]}
  BY MarkRounds
<1>3. Root \in MarkFrom /\ MarkFrom \subseteq P /\ \A c : MarkSucc(c) \subseteq P
  BY DEF MarkSucc, MarkFrom
<1>4. P \subseteq Cells
  BY DEF Collectable, Live
<1> HIDE DEF P
<1>5. ASSUME NEW S \in SUBSET P PROVE IsFiniteSet(S) /\ Cardinality(S) \in Nat /\ Cardinality(S) <= N
  <2>1. S \in SUBSET Cells
    BY <1>4
  <2>2. QED
    BY <2>1, CellsAssumption, FS_Subset, FS_CardinalityType
<1> DEFINE Whole(S) == \A c \in S : MarkSucc(c) \subseteq S
           Good(n) == /\ MarkFrom \subseteq g[n] /\ g[n] \subseteq P
                      /\ Whole(g[n]) \/ Cardinality(g[n]) >= n + 1
           Bad == {n \in 0..N : ~Good(n)}
<1>6. Bad = {}
  <2>1. SUFFICES ASSUME Bad # {} PROVE FALSE
    OBVIOUS
  <2>2. Bad \in SUBSET Nat
    BY <1>1
  <2>3. PICK n \in Bad : \A k \in Bad : n <= k
    BY <2>1, <2>2, LeastNat
  <2>4. Good(0)
    <3>1. {Root} \in SUBSET MarkFrom /\ Cardinality({Root}) = 1 /\ MarkFrom \in SUBSET P
      BY <1>3, FS_Singleton
    <3>2. IsFiniteSet(MarkFrom) /\ Cardinality(MarkFrom) \in Nat
      BY <3>1, <1>5
    <3>3. Cardinality({Root}) <= Cardinality(MarkFrom)
      BY <3>1, <3>2, FS_Subset
    <3>4. Cardinality(MarkFrom) >= 0 + 1
      BY <3>1, <3>2, <3>3
    <3>5. QED
      BY <3>4, <1>2, <1>3
  <2>5. n \in 0..N /\ ~Good(n) /\ n # 0
    BY <2>4
  <2>6. n - 1 \in 0..N /\ ~(n <= n - 1) /\ n \in 1..N
    BY <1>1, <2>5
  <2>7. Good(n - 1)
    BY <2>3, <2>6
  <2> DEFINE A == g[n - 1]
             B == g[n]
  <2>8. B = A \cup UNION {MarkSucc(c) : c \in A}
    BY <2>6, <1>2
  <2>9. MarkFrom \subseteq A /\ A \subseteq P /\ (Whole(A) \/ Cardinality(A) >= n)
    <3>1. n - 1 + 1 = n
      BY <2>6
    <3>2. QED
      BY <2>7, <3>1
  <2> HIDE DEF A, B, Whole
  <2>10. MarkFrom \subseteq B /\ B \subseteq P /\ A \subseteq B
    BY <2>8, <2>9, <1>3
  <2>11. CASE Whole(A)
    <3>1. B = A
      BY <2>8, <2>11 DEF Whole
    <3>2. QED
      BY <3>1, <2>5, <2>10, <2>11 DEF B
  <2>12. CASE ~Whole(A)
    <3>1. A # B
      BY <2>8, <2>12 DEF Whole
    <3>2. IsFiniteSet(B) /\ Cardinality(B) \in Nat /\ Cardinality(A) \in Nat
      BY <2>9, <2>10, <1>5
    <3>3. Cardinality(A) <= Cardinality(B) /\ Cardinality(A) # Cardinality(B)
      BY <3>1, <3>2, <2>10, FS_Subset
    <3>4. Cardinality(B) >= n + 1
      BY <3>2, <3>3, <2>6, <2>9, <2>12
    <3>5. QED
      BY <3>4, <2>5, <2>10 DEF B
  <2>13. QED
    BY <2>11, <2>12
<1>7. Good(N)
  <2>1. N \in 0..N
    BY <1>1
  <2>2. QED
    BY <2>1, <1>6
<1>8. ~(Cardinality(g[N]) >= N + 1)
  <2>1. g[N] \in SUBSET P
    BY <1>7
  <2>2. Cardinality(g[N]) \in Nat /\ Cardinality(g[N]) <= N
    BY <2>1, <1>5
  <2>3. QED
    BY <2>2, <1>1
<1>9. QED
  BY <1>2, <1>7, <1>8

\* The first half of a collection.
LEMMA MarkedHeap ==
    ASSUME IInv, Idle, NEW h, h = [c \in Cells |-> [heap[c] EXCEPT !.marked = c \in RunMark]]
    PROVE  /\ Shape(h) /\ ChainOK(h, Listed \ RunMark) /\ h[Root].kind = "thread"
           /\ Settled(h, Objs, "open", None)
           /\ \A c \in Cells : h[c].marked => Anchored(h, Objs, c)
<1>1. Ready(heap, Objs, None) /\ ChainOK(heap, Listed)
  BY IdleReady
<1>2. Shape(heap) /\ heap \in [Cells -> Cell] /\ \A c \in Cells : CellOK(heap, c)
  BY <1>1 DEF Ready, Shape
<1>3. Root \in Collectable
  BY <1>1, CellsAssumption DEF Ready, Collectable, Live
<1>4. \A c \in RunMark : /\ c \in Collectable
                         /\ c = Root \/ c \in Objs \/ \E x \in RunMark : c \in Refers(x)
  BY <1>3, MarkBound
<1>5. ASSUME NEW c \in Cells
      PROVE  /\ h[c] \in Cell /\ h[c].kind = heap[c].kind /\ h[c].refs = heap[c].refs
             /\ h[c].fields = heap[c].fields /\ h[c].link = heap[c].link /\ h[c].open = heap[c].open
             /\ h[c].box = heap[c].box /\ (h[c].marked <=> c \in RunMark)
  <2> DEFINE b == c \in RunMark
  <2>1. h[c] = [heap[c] EXCEPT !.marked = b] /\ b \in BOOLEAN /\ heap[c] \in Cell
    BY <1>2
  <2> HIDE DEF b
  <2>2. /\ h[c] \in Cell /\ h[c].kind = heap[c].kind /\ h[c].refs = heap[c].refs
        /\ h[c].fields = heap[c].fields /\ h[c].link = heap[c].link /\ h[c].open = heap[c].open
        /\ h[c].box = heap[c].box /\ h[c].marked = b
    BY <2>1 DEF Cell
  <2>3. QED
    BY <2>2 DEF b
<1>6. h \in [Cells -> Cell]
  BY <1>5
<1>7. Shape(h)
  <2>1. ASSUME NEW c \in Cells PROVE CellOK(h, c)
    <3>1. CellOK(heap, c)
      BY <1>2
    <3>2. h[c].marked => heap[c].kind # "free" /\ heap[c].kind # "weakref"
      BY <1>4, <1>5 DEF Collectable, Live
    <3>3. ASSUME heap[c].link # None
          PROVE  h[heap[c].link].link = c /\ (heap[c].kind = "weakref") # (h[heap[c].link].kind = "weakref")
      <4>1. heap[c].link \in Cells
        BY <3>3, <1>2, CellTypes
      <4>2. QED
        BY <4>1, <3>1, <3>3, <1>5 DEF CellOK
    <3>4. ASSUME heap[c].open # <<>> PROVE h[heap[c].open[1]].kind = "thread"
      <4>1. heap[c].open[1] \in Cells
        BY <3>4, <1>2, CellTypes
      <4>2. QED
        BY <4>1, <3>1, <3>4, <1>5 DEF CellOK
    <3>5. QED
      BY <3>1, <3>2, <3>3, <3>4, <1>5 DEF CellOK
  <2>2. QED
    BY <2>1, <1>6 DEF Shape
<1>8. ChainOK(h, Listed \ RunMark)
  BY <1>1, <1>5 DEF ChainOK
<1>9. h[Root].kind = "thread"
  BY <1>1, <1>5, CellsAssumption DEF Ready
<1>10. Settled(h, Objs, "open", None)
  <2>1. SUFFICES ASSUME NEW x \in Cells
                 PROVE  /\ h[x].refs = FieldRefs(h, x) + Ind(x \in Objs) + Ind(x = None)
                                       + Ind(x = Root /\ "open" = "open") + Ind(h[x].open # <<>>)
                        /\ h[x].kind # "free" /\ ~h[x].marked => h[x].refs > 0
    BY DEF Settled
  <2>2. SameFields(heap, h)
    BY <1>5 DEF SameFields
  <2>3. FieldRefs(h, x) = FieldRefs(heap, x)
    BY <2>2, FieldRefsSame
  <2>4. /\ heap[x].refs = FieldRefs(heap, x) + Ind(x \in Objs) + Ind(x = Root) + Ind(heap[x].open # <<>>)
        /\ heap[x].kind # "free" => heap[x].refs > 0
    BY <1>1, NoneAssumption DEF Ready
  <2>5. Ind(x = None) = 0 /\ Ind(x = Root /\ "open" = "open") = Ind(x = Root)
    BY NoneAssumption DEF Ind
  <2>6. FieldRefs(heap, x) \in Nat /\ Ind(x \in Objs) \in Nat /\ Ind(x = Root) \in Nat
        /\ Ind(heap[x].open # <<>>) \in Nat
    BY HoldersFinite DEF Ind
  <2>7. h[x].refs = heap[x].refs /\ h[x].open = heap[x].open /\ h[x].kind = heap[x].kind
    BY <1>5
  <2>8. h[x].refs = FieldRefs(h, x) + Ind(x \in Objs) + Ind(x = None)
                    + Ind(x = Root /\ "open" = "open") + Ind(h[x].open # <<>>)
    BY <2>3, <2>4, <2>5, <2>6, <2>7
  <2>9. QED
    BY <2>4, <2>7, <2>8
<1>11. ASSUME NEW c \in Cells, h[c].marked PROVE Anchored(h, Objs, c)
  <2>1. c \in RunMark
    BY <1>5, <1>11
  <2>2. CASE c = Root \/ c \in Objs
    BY <2>2 DEF Anchored
  <2>3. CASE \E x \in RunMark : c \in Refers(x)
    <3>1. PICK x \in RunMark : c \in Refers(x)
      BY <2>3
    <3>2. x \in Cells
      BY <1>4 DEF Collectable, Live
    <3>3. PICK f \in 1..2 : heap[x].fields[f] = c
      BY <3>1 DEF Refers
    <3>4. h[x].marked /\ h[x].fields[f] = c
      BY <3>2, <3>3, <1>5
    <3>5. QED
      BY <3>2, <3>4 DEF Anchored
  <2>4. QED
    BY <2>1, <2>2, <2>3, <1>4
<1>12. QED
  BY <1>7, <1>8, <1>9, <1>10, <1>11

\* The turns of the objects in a mark.
LEMMA TurnsTyped ==
    ASSUME RunMark \subseteq Cells
    PROVE  MarkTurns \in [Cells -> Nat]
<1>1. ASSUME NEW S, S \subseteq RunMark PROVE Cardinality(S) \in Nat
  BY <1>1, CellsAssumption, FS_Subset, FS_CardinalityType
<1>2. PICK f : MarkTurns = [c \in Cells |-> Cardinality(f[c])] /\ \A c \in Cells : f[c] \subseteq RunMark
  <2> DEFINE handles == {n.obj : n \in Nodes}
             nodes == CHOOSE s \in [1..Cardinality(handles) -> handles] : Range(s) = handles
             order == MarkOrder(<<<<Root, FALSE>>>> \o [i \in DOMAIN nodes |-> <<nodes[i], FALSE>>])
             at(c) == IF c = Root THEN Len(order) + 1 ELSE Min({i \in DOMAIN order : order[i] = c})
             f == [c \in Cells |-> {x \in RunMark : c \in RunMark /\ at(x) <= at(c)}]
  <2>1. MarkTurns = [c \in Cells |-> Cardinality({x \in RunMark : c \in RunMark /\ at(x) <= at(c)})]
    BY DEF MarkTurns
  <2> HIDE DEF at
  <2>2. MarkTurns = [c \in Cells |-> Cardinality(f[c])] /\ \A c \in Cells : f[c] \subseteq RunMark
    BY <2>1
  <2>3. QED
    BY <2>2
<1>3. QED
  BY <1>1, <1>2

\* CollectGarbage marks and begins its sweep.
LEMMA CollectKeeps ==
    ASSUME IInv, CollectGarbage
    PROVE  IInv'
<1> DEFINE dead == Listed \ RunMark
           h == [c \in Cells |-> [heap[c] EXCEPT !.marked = c \in RunMark]]
<1>1. /\ Program /\ RemoveFromChain(RunMark, MarkTurns) /\ UNCHANGED <<table, held, leaked>>
      /\ \/ chain' = {} /\ heap' = h /\ work' = <<Task("unmark", None)>>
         \/ \E c \in chain' : /\ heap' = AddRefTo(h, c)
                              /\ work' = FinalizeTasks(c) \o <<NextTask(c, chain' \ {c}, "unmark")>>
  BY DEF CollectGarbage
<1>2. Idle /\ ops' \in 0..Programs[uses] /\ UNCHANGED <<uses, status>>
  BY <1>1, ProgramOps
<1>3. /\ Shape(h) /\ ChainOK(h, dead) /\ h[Root].kind = "thread" /\ Settled(h, Objs, "open", None)
      /\ \A c \in Cells : h[c].marked => Anchored(h, Objs, c)
  BY <1>2, MarkedHeap
<1>4. ChainOK(heap, Listed) /\ Objs \subseteq Cells
  BY <1>2, IdleReady DEF Ready
<1>5. h \in [Cells -> Cell]
  BY <1>3 DEF Shape
<1>6. dead \subseteq Cells
  BY <1>4 DEF ChainOK
<1>0. Listed' = dead /\ ListsOK' /\ chain' \subseteq dead
  <2>1. Root \in Collectable
    BY <1>2, IdleReady, CellsAssumption DEF Ready, Collectable, Live
  <2>2. RunMark \subseteq Cells
    BY <2>1, MarkBound DEF Collectable, Live
  <2>3. ListsOK /\ MarkTurns \in [Cells -> Nat]
    BY <2>2, TurnsTyped DEF IInv, TypeInv
  <2>4. Listed' = dead /\ ListsOK'
    BY <2>3, <1>1, ChainLeft
  <2>5. chain' \subseteq Listed'
    BY <2>4 DEF Listed, ListsOK, Lists
  <2>6. QED
    BY <2>4, <2>5
<1> HIDE DEF h
<1>7. PICK x \in dead \cup {None} :
         /\ Counted(h, heap', x) /\ work' \in Seq(TaskType)
         /\ SweepPile(Pile(work'), Len(work'), x, "unmark", None)
  <2>1. CASE chain' = {} /\ heap' = h /\ work' = <<Task("unmark", None)>>
    <3>1. Drop(None) = <<>>
      BY DEF Drop
    <3>2. work' = EndTasks(None, Task("unmark", None))
      <4>1. <<Task("unmark", None)>> \in Seq({Task("unmark", None)})
        OBVIOUS
      <4>2. <<>> \o <<Task("unmark", None)>> = <<Task("unmark", None)>>
        BY <4>1, ConcatEmptySeq
      <4>3. QED
        BY <4>2, <3>1, <2>1 DEF EndTasks
    <3>3. /\ work' \in Seq(TaskType)
          /\ \A q, m : Piled(q, m, work') => SweepPile(q, m, None, "unmark", None)
      BY <3>2, EndPiled
    <3>4. Piled(Pile(work'), Len(work'), work')
      BY <3>3, PileIs
    <3>5. h = AddRefTo(h, None)
      BY DEF AddRefTo
    <3>6. Counted(h, heap', None)
      BY <3>5, <2>1, <1>5, AddRefToCounts
    <3>7. SweepPile(Pile(work'), Len(work'), None, "unmark", None)
      BY <3>3, <3>4
    <3>8. QED
      BY <3>3, <3>6, <3>7
  <2>2. ASSUME NEW c \in chain', heap' = AddRefTo(h, c),
               work' = FinalizeTasks(c) \o <<NextTask(c, chain' \ {c}, "unmark")>>
        PROVE  /\ Counted(h, heap', c) /\ work' \in Seq(TaskType)
               /\ SweepPile(Pile(work'), Len(work'), c, "unmark", None)
    <3> DEFINE F == FinalizeTasks(c)
               t == NextTask(c, chain' \ {c}, "unmark")
    <3>1. c \in Cells /\ heap[c].kind \in Kinds
      BY <1>0, <1>4 DEF ChainOK
    <3>2. Finalizes(F, c) /\ F \in Seq(TaskType)
      BY <3>1, FinalizeShape DEF Finalizes
    <3> HIDE DEF F
    <3>3. Drop(None) = <<>> /\ <<>> \o F = F
      BY <3>2, ConcatEmptySeq DEF Drop
    <3>4. work' = TurnTasks(None, F, t)
      BY <3>3, <2>2 DEF TurnTasks, F
    <3>5. chain' \ {c} \in SUBSET Cells
      BY <1>0, <1>6
    <3>6. /\ work' \in Seq(TaskType)
          /\ \A q, m : Piled(q, m, work') => SweepPile(q, m, c, "unmark", None)
      BY <3>1, <3>2, <3>4, <3>5, TurnPiled
    <3>7. Piled(Pile(work'), Len(work'), work')
      BY <3>6, PileIs
    <3>8. Counted(h, heap', c)
      BY <2>2, <3>1, <1>5, AddRefToCounts
    <3>9. SweepPile(Pile(work'), Len(work'), c, "unmark", None)
      BY <3>6, <3>7
    <3>10. QED
      BY <3>6, <3>8, <3>9
  <2>3. QED
    BY <2>1, <2>2, <1>0, <1>1
<1>8. HeapInv(heap', Listed', Pile(work'), Len(work'), Objs, "open")
  <2> DEFINE q == Pile(work')
             m == Len(work')
  <2>1. SweepPile(q, m, x, "unmark", None)
    BY <1>7
  <2> HIDE DEF q, m, dead
  <2>2. HeapInv(heap', dead, q, m, Objs, "open")
    BY <2>1, <1>3, <1>4, <1>7, SweepHeap
  <2>3. QED
    BY <2>2, <1>0 DEF q, m
<1>9. Nodes' = Nodes /\ Objs' = Objs /\ Slots' = Slots
  BY <1>1 DEF Nodes, Objs, Slots
<1>10. TableOK'
  BY <1>1, <1>9 DEF IInv, TableOK
<1>11. HandlesInv'
  BY <1>1, <1>2, <1>9 DEF IInv, HandlesInv
<1>12. HeapInv(heap', Listed', Pile(work'), Len(work'), Objs', "open")
  BY <1>8, <1>9
<1>13. work' \in Seq(TaskType)
  BY <1>7
<1>14. QED
  BY <1>0, <1>2, <1>10, <1>11, <1>12, <1>13, HandleDone

-----------------------------------------------------------------------------
(* The invariant.                                                          *)

\* The new VM.
LEMMA InitHolds ==
    ASSUME Init
    PROVE  IInv
<1> DEFINE top == [NoCell EXCEPT !.kind = "thread", !.refs = 1]
<1>1. /\ heap = [c \in Cells |-> IF c = Root THEN top ELSE NoCell]
      /\ Listed = {Root} /\ ListsOK /\ table = NewTable(RefSlots)
      /\ held = [c \in Cells |-> 0] /\ leaked = [c \in Cells |-> 0]
      /\ work = <<>> /\ ops = 0 /\ status = "open" /\ uses \in DOMAIN Programs
  BY CellsAssumption DEF Init, ListsOK, Listed, Lists
<1>2. /\ NoCell \in Cell /\ NoCell.refs = 0 /\ ~NoCell.marked /\ NoCell.link = None /\ NoCell.open = <<>>
      /\ NoCell.box = "none" /\ NoCell.fields[1] = None /\ NoCell.fields[2] = None
  BY EmptyCell
<1>3. NoCell.kind = "free"
  BY DEF NoCell
<1>4. /\ top \in Cell /\ top.kind = "thread" /\ top.refs = 1 /\ ~top.marked /\ top.link = None
      /\ top.open = <<>> /\ top.box = "none" /\ top.fields = NoCell.fields
  <2>1. "thread" \in Kinds
    BY DEF Kinds
  <2> HIDE DEF NoCell
  <2>2. QED
    BY <2>1, <1>2 DEF Cell
<1> HIDE DEF top, NoCell
<1>5. \A g \in 1..2 : g = 1 \/ g = 2
  OBVIOUS
<1>6. ASSUME NEW c \in Cells
      PROVE  /\ heap[c] \in Cell /\ heap[c].kind = (IF c = Root THEN "thread" ELSE "free")
             /\ heap[c].refs = Ind(c = Root) /\ ~heap[c].marked /\ heap[c].link = None
             /\ heap[c].open = <<>> /\ heap[c].box = "none" /\ \A g \in 1..2 : heap[c].fields[g] = None
  <2>1. CASE c = Root
    <3>1. heap[c] = top
      BY <2>1, <1>1
    <3>2. QED
      BY <3>1, <2>1, <1>2, <1>4, <1>5 DEF Ind
  <2>2. CASE c # Root
    <3>1. heap[c] = NoCell
      BY <2>2, <1>1
    <3>2. QED
      BY <3>1, <2>2, <1>2, <1>3, <1>5 DEF Ind
  <2>3. QED
    BY <2>1, <2>2
<1>7. Shape(heap)
  <2>1. heap = [c \in Cells |-> heap[c]]
    BY <1>1
  <2>2. heap \in [Cells -> Cell]
    BY <2>1, <1>6
  <2>3. ASSUME NEW c \in Cells PROVE CellOK(heap, c)
    <3>1. /\ heap[c].kind = (IF c = Root THEN "thread" ELSE "free")
          /\ (c # Root => heap[c].refs = 0) /\ ~heap[c].marked /\ heap[c].link = None
          /\ heap[c].open = <<>> /\ heap[c].box = "none" /\ \A g \in 1..2 : heap[c].fields[g] = None
      BY <1>6 DEF Ind
    <3>2. QED
      BY <3>1 DEF CellOK
  <2>4. QED
    BY <2>2, <2>3 DEF Shape
<1>8. Root \in Cells /\ heap[Root].kind = "thread"
  BY <1>6, CellsAssumption
<1>9. ChainOK(heap, Listed)
  BY <1>1, <1>6, <1>8 DEF ChainOK, Kinds
<1>10. \A b \in DOMAIN table : table[b] = {}
  BY <1>1 DEF NewTable
<1>11. Nodes = {} /\ Objs = {}
  BY <1>10 DEF Nodes, Objs
<1>12. TableOK
  <2>1. RefSlots \in Nat \ {0}
    BY BoundsAssumption
  <2>2. table \in [Buckets(RefSlots) -> SUBSET [obj : Cells, refs : Nat]]
    BY <1>1 DEF NewTable
  <2>3. QED
    BY <2>1, <2>2, <1>10, <1>11 DEF TableOK
<1>13. HandlesInv
  BY <1>1, <1>11 DEF HandlesInv
<1>14. TypeInv
  <2>1. work \in Seq(TaskType) /\ 0 \in 0..Programs[uses]
    BY <1>1, BoundsAssumption
  <2>2. QED
    BY <2>1, <1>1 DEF TypeInv
<1>15. Settled(heap, Objs, "open", None)
  <2>1. SUFFICES ASSUME NEW x \in Cells
                 PROVE  /\ heap[x].refs = FieldRefs(heap, x) + Ind(x \in Objs) + Ind(x = None)
                                          + Ind(x = Root /\ "open" = "open") + Ind(heap[x].open # <<>>)
                        /\ heap[x].kind # "free" /\ ~heap[x].marked => heap[x].refs > 0
    BY DEF Settled
  <2>2. ~\E y \in Cells, f \in 1..2 : heap[y].fields[f] = x
    BY <1>6, NoneAssumption
  <2>3. FieldRefs(heap, x) = 0
    BY <2>2, FieldRefsPositive, HoldersFinite
  <2>4. Ind(x \in Objs) = 0 /\ Ind(x = None) = 0 /\ Ind(x = Root /\ "open" = "open") = Ind(x = Root)
        /\ Ind(heap[x].open # <<>>) = 0
    BY <1>6, <1>11, NoneAssumption DEF Ind
  <2>5. heap[x].refs = Ind(x = Root) /\ Ind(x = Root) \in Nat
    BY <1>6 DEF Ind
  <2>6. heap[x].kind # "free" => heap[x].refs > 0
    BY <1>6 DEF Ind
  <2>7. QED
    BY <2>3, <2>4, <2>5, <2>6
<1>16. Len(work) = 0 /\ Pile(work) \in [1..0 -> TaskType]
  <2>1. work \in Seq(TaskType) /\ Len(work) = 0
    BY <1>1
  <2>2. QED
    BY <2>1, PileType
<1>17. Objs \subseteq Cells /\ \A c \in Cells : ~heap[c].marked
  BY <1>6, <1>11
<1>18. HeapInv(heap, Listed, Pile(work), 0, Objs, "open")
  BY <1>7, <1>8, <1>9, <1>15, <1>16, <1>17, IdleHeap
<1>19. QED
  BY <1>1, <1>12, <1>13, <1>14, <1>16, <1>18 DEF IInv

\* Nothing happens.
LEMMA StutterKeeps ==
    ASSUME IInv, UNCHANGED vars
    PROVE  IInv'
<1>1. /\ heap' = heap /\ Listed' = Listed /\ table' = table /\ held' = held /\ leaked' = leaked
      /\ work' = work /\ uses' = uses /\ ops' = ops /\ status' = status /\ UNCHANGED lists
  BY ListsSame DEF vars, lists
<1>2. Nodes' = Nodes /\ Objs' = Objs /\ Slots' = Slots
  BY <1>1 DEF Nodes, Objs, Slots
<1>3. TableOK'
  BY <1>1, <1>2 DEF IInv, TableOK
<1>4. HandlesInv'
  BY <1>1, <1>2 DEF IInv, HandlesInv
<1>5. TypeInv'
  BY <1>1 DEF IInv, TypeInv, ListsOK, Lists, lists
<1>6. HeapInv(heap', Listed', Pile(work'), Len(work'), Objs', status')
  BY <1>1, <1>2 DEF IInv
<1>7. QED
  BY <1>3, <1>4, <1>5, <1>6 DEF IInv

\* Every step of the program.
LEMMA ProgramKeeps ==
    ASSUME IInv, Idle, ProgramStep
    PROVE  IInv'
<1>1. ASSUME NEW s \in 1..2, NEW k \in Kinds, NewObject(k, s) PROVE IInv'
  BY <1>1, NewObjectKeeps
<1>2. ASSUME NEW s \in 1..2, NEW k \in Kinds, NEW from \in OfKind("class") \cup {None}, NewDerived(k, from, s)
      PROVE  IInv'
  BY <1>2, NewDerivedKeeps
<1>3. ASSUME NEW s \in 1..2, NEW th \in OfKind("thread"), NEW g \in 1..2, NewClosure(th, g, s) PROVE IInv'
  BY <1>3, NewClosureKeeps
<1>4. ASSUME NEW s \in 1..2, NEW c \in Values \cap Collectable, MakeWeakRef(c, s) PROVE IInv'
  BY <1>4, MakeWeakRefKeeps
<1>5. ASSUME NEW s \in 1..2, NEW w \in OfKind("weakref"), Deref(w, s) PROVE IInv'
  BY <1>5, DerefKeeps
<1>6. ASSUME NEW s \in 1..2, NEW c \in Cells, held[c] > 0, PushHandle(c, s) PROVE IInv'
  BY <1>6, PushHandleKeeps
<1>7. ASSUME NEW k \in OfKind("class"), NEW c \in OfKind("closure"), AddMethod(k, c) PROVE IInv'
  BY <1>7, AddMethodKeeps
<1>8. ASSUME NEW t \in Writable, NEW v \in Values \cup {None}, Assign(t[1], t[2], v) PROVE IInv'
  BY <1>8, AssignKeeps
<1>9. ASSUME NEW c \in OfKind("table") \cup OfKind("userdata"), NEW v \in OfKind("table") \cup {None},
             SetDelegate(c, v)
      PROVE  IInv'
  BY <1>9, SetDelegateKeeps
<1>10. ASSUME NEW th \in OfKind("thread"), CloseScope(th) PROVE IInv'
  BY <1>10, CloseScopeKeeps
<1>11. ASSUME NEW c \in Refers(Root) \cup {h \in Cells : held[h] > 0}, TakeHandle(c) PROVE IInv'
  <2>1. c \in Cells /\ Usable(heap, c)
    <3>1. CASE c \in Refers(Root)
      <4>1. PICK f \in 1..2 : heap[Root].fields[f] = c
        BY <3>1 DEF Refers
      <4>2. c # None
        BY <3>1 DEF Refers
      <4>3. Fit(heap, c)
        BY <4>1, CellsAssumption, FieldFit
      <4>4. QED
        BY <4>2, <4>3 DEF Fit, Usable
    <3>2. CASE c \in {h \in Cells : held[h] > 0}
      BY <3>2, ReachFacts
    <3>3. QED
      BY <3>1, <3>2, <1>11
  <2>2. QED
    BY <2>1, <1>11, TakeHandleKeeps
<1>12. ASSUME NEW c \in Cells, held[c] > 0, DropHandle(c) \/ ForgetHandle(c) PROVE IInv'
  BY <1>12, DropHandleKeeps, ForgetHandleKeeps
<1>13. ASSUME CollectGarbage PROVE IInv'
  BY <1>13, CollectKeeps
<1>14. ASSUME sq_close PROVE IInv'
  BY <1>14, CloseKeeps
<1>15. QED
  BY <1>1, <1>2, <1>3, <1>4, <1>5, <1>6, <1>7, <1>8, <1>9, <1>10, <1>11, <1>12, <1>13, <1>14
  DEF ProgramStep

\* The invariant is inductive, so it holds in every state of every behaviour.
THEOREM HeapInvariant == Spec => []IInv
<1>1. Init => IInv
  BY InitHolds
<1>2. IInv /\ [Next]_vars => IInv'
  BY WorkKeeps, ProgramKeeps, StutterKeeps DEF Next
<1>3. QED
  BY <1>1, <1>2, PTL DEF Spec

-----------------------------------------------------------------------------
(* What follows from the invariant.                                        *)

\* Counting the tasks of work, or those of its pile.
LEMMA TasksCounted ==
    ASSUME work \in Seq(TaskType), NEW op, NEW c
    PROVE  Cardinality(Tasks(op, c)) = Count(Pile(work), Len(work), op, c)
<1> DEFINE n == Len(work)
           p == Pile(work)
           S == TasksOf(p, n, op, c)
           T == Tasks(op, c)
           f == [k \in S |-> n + 1 - k]
<1>1. n \in Nat /\ DOMAIN work = 1..n /\ \A k \in 1..n : p[k] = work[n + 1 - k]
  BY DEF Pile
<1>2. S = {k \in 1..n : Is(p[k], op, c)} /\ T = {i \in 1..n : Is(work[i], op, c)}
  BY <1>1 DEF TasksOf, Tasks, Is
<1> HIDE DEF n, p, S, T
<1>3. ASSUME NEW k \in 1..n PROVE n + 1 - k \in 1..n /\ n + 1 - (n + 1 - k) = k
  BY <1>1
<1>4. \A k \in S : k \in 1..n /\ n + 1 - k \in T
  <2>1. ASSUME NEW k \in S PROVE k \in 1..n /\ n + 1 - k \in T
    <3>1. k \in 1..n /\ Is(p[k], op, c)
      BY <1>2
    <3>2. n + 1 - k \in 1..n /\ p[k] = work[n + 1 - k]
      BY <3>1, <1>1, <1>3
    <3>3. QED
      BY <3>1, <3>2, <1>2
  <2>2. QED
    BY <2>1
<1>5. f \in [S -> T]
  BY <1>4
<1>6. \A a, b \in S : f[a] = f[b] => a = b
  <2>1. ASSUME NEW a \in S, NEW b \in S, f[a] = f[b] PROVE a = b
    <3>1. a \in 1..n /\ b \in 1..n /\ n + 1 - a = n + 1 - b
      BY <2>1, <1>4
    <3>2. QED
      BY <3>1, <1>1
  <2>2. QED
    BY <2>1
<1>7. \A t \in T : \E s \in S : f[s] = t
  <2>1. ASSUME NEW t \in T PROVE \E s \in S : f[s] = t
    <3>1. t \in 1..n /\ Is(work[t], op, c)
      BY <1>2
    <3>2. n + 1 - t \in 1..n /\ n + 1 - (n + 1 - t) = t
      BY <3>1, <1>3
    <3>3. p[n + 1 - t] = work[t]
      BY <3>2, <1>1
    <3>4. n + 1 - t \in S
      BY <3>1, <3>2, <3>3, <1>2
    <3>5. f[n + 1 - t] = t
      BY <3>2, <3>4
    <3>6. QED
      BY <3>4, <3>5
  <2>2. QED
    BY <2>1
<1> HIDE DEF f
<1>8. f \in Bijection(S, T)
  BY <1>5, <1>6, <1>7, Fun_IsBij
<1>9. ExistsBijection(S, T)
  BY <1>8, Fun_ExistsBij
<1>10. IsFiniteSet(S) /\ Count(p, n, op, c) = Cardinality(S)
  BY <1>1, TasksFinite DEF S
<1>11. Cardinality(T) = Cardinality(S)
  BY <1>9, <1>10, FS_Bijection
<1>12. QED
  BY <1>10, <1>11 DEF T, n, p

\* The facts that the theorems rest on, in the terms of Heap.
LEMMA InvFacts ==
    ASSUME IInv
    PROVE  /\ work \in Seq(TaskType) /\ TableOK /\ HandlesInv /\ Shape(heap) /\ ChainOK(heap, Listed)
           /\ Objs \subseteq Cells
           /\ Exact(heap, Pile(work), Len(work), Objs, status) /\ Released(heap, Pile(work), Len(work))
           /\ \A x \in Cells, f \in 1..2 : heap[x].fields[f] # None =>
                 heap[x].fields[f] \in Cells /\ heap[heap[x].fields[f]].kind # "free"
           /\ \A c \in Objs : c \in Cells /\ heap[c].kind # "free"
           /\ \A i \in DOMAIN work : work[i].cell = None \/ work[i].cell \in Live
<1> DEFINE p == Pile(work)
           n == Len(work)
<1>1. HeapInv(heap, Listed, p, n, Objs, status) /\ work \in Seq(TaskType)
  BY DEF IInv, TypeInv
<1>2. n \in Nat /\ DOMAIN work = 1..n /\ \A k \in 1..n : p[k] = work[n + 1 - k]
  BY <1>1 DEF Pile
<1>3. Referred(heap, p, n, Objs, status) /\ \A k \in 1..n : p[k].cell = None \/ p[k].cell \in LiveIn(heap)
  BY <1>1, InvReferred, TasksLive
<1>4. LiveIn(heap) = Live
  BY DEF LiveIn, Live
<1> HIDE DEF p, n
<1>5. ASSUME NEW i \in DOMAIN work PROVE work[i].cell = None \/ work[i].cell \in Live
  <2>1. n + 1 - i \in 1..n /\ n + 1 - (n + 1 - i) = i
    BY <1>2
  <2>2. p[n + 1 - i] = work[i]
    BY <2>1, <1>2
  <2>3. p[n + 1 - i].cell = None \/ p[n + 1 - i].cell \in Live
    BY <2>1, <1>3, <1>4
  <2>4. QED
    BY <2>2, <2>3
<1>6. QED
  BY <1>1, <1>3, <1>5 DEF IInv, HeapInv, Referred, p, n

\* The invariant has the types.
LEMMA InvTypes ==
    ASSUME IInv
    PROVE  TypeOK
<1>1. heap \in [Cells -> Cell]
  BY InvFacts DEF Shape
<1>2. Nodes \subseteq NodeType
  BY TableFiled DEF IInv, Filed
<1>3. \A n \in Nodes : n.obj \in Cells /\ n.refs \in Nat
  BY <1>2 DEF NodeType
<1>4. QED
  BY <1>1, <1>3 DEF TypeOK, IInv, TypeInv, HandlesInv, ListsOK

\* The invariant counts the references as RefsExact does, on the stack of
\* tasks as it is.
LEMMA InvRefsExact ==
    ASSUME IInv
    PROVE  RefsExact
<1> DEFINE p == Pile(work)
           n == Len(work)
<1>1. SUFFICES ASSUME NEW c \in Live
               PROVE  heap[c].refs =
                          Cardinality({x \in Live \X {1, 2} : heap[x[1]].fields[x[2]] = c})
                          + Cardinality({x \in Nodes : x.obj = c})
                          + Cardinality(Tasks("drop", c)) + Cardinality(Tasks("advance", c))
                          + (IF c = Root /\ status = "open" THEN 1 ELSE 0)
                          + (IF heap[c].open # <<>> THEN 1 ELSE 0)
  BY DEF RefsExact
<1>2. /\ work \in Seq(TaskType) /\ TableOK /\ Shape(heap) /\ Exact(heap, p, n, Objs, status)
  BY InvFacts
<1>3. c \in Cells
  BY DEF Live
<1>4. heap[c].refs = FieldRefs(heap, c) + Ind(c \in Objs)
                     + Count(p, n, "drop", c) + Count(p, n, "advance", c)
                     + Ind(c = Root /\ status = "open") + Ind(heap[c].open # <<>>)
  BY <1>2, <1>3 DEF Exact
<1>5. Cardinality({x \in Live \X {1, 2} : heap[x[1]].fields[x[2]] = c}) = FieldRefs(heap, c)
  <2>1. ASSUME NEW x \in Cells \X (1..2), heap[x[1]].fields[x[2]] = c PROVE x \in Live \X {1, 2}
    <3>1. x[1] \in Cells /\ x[2] \in 1..2 /\ x = <<x[1], x[2]>>
      OBVIOUS
    <3>2. CellOK(heap, x[1]) /\ c # None
      BY <3>1, <1>2, <1>3, NoneAssumption DEF Shape
    <3>3. heap[x[1]].kind # "free"
      BY <2>1, <3>1, <3>2 DEF CellOK
    <3>4. x[1] \in Live /\ x[2] \in {1, 2}
      BY <3>1, <3>3 DEF Live
    <3>5. QED
      BY <3>1, <3>4
  <2>2. ASSUME NEW x \in Live \X {1, 2} PROVE x \in Cells \X (1..2)
    <3>1. x[1] \in Cells /\ x[2] \in 1..2 /\ x = <<x[1], x[2]>>
      BY DEF Live
    <3>2. QED
      BY <3>1
  <2>3. {x \in Live \X {1, 2} : heap[x[1]].fields[x[2]] = c} = Holders(heap, c)
    BY <2>1, <2>2 DEF Holders
  <2>4. QED
    BY <2>3, HoldersFinite
<1>6. Cardinality({x \in Nodes : x.obj = c}) = Ind(c \in Objs)
  <2>1. \A x, y \in Nodes : x.obj = y.obj => x = y
    BY <1>2 DEF TableOK
  <2>2. CASE c \in Objs
    <3>1. PICK x \in Nodes : x.obj = c
      BY <2>2 DEF Objs
    <3>2. {y \in Nodes : y.obj = c} = {x}
      BY <2>1, <3>1
    <3>3. QED
      BY <3>2, <2>2, FS_Singleton DEF Ind
  <2>3. CASE c \notin Objs
    <3>1. {y \in Nodes : y.obj = c} = {}
      BY <2>3 DEF Objs
    <3>2. QED
      BY <3>1, <2>3, FS_EmptySet DEF Ind
  <2>4. QED
    BY <2>2, <2>3
<1>7. /\ Cardinality(Tasks("drop", c)) = Count(p, n, "drop", c)
      /\ Cardinality(Tasks("advance", c)) = Count(p, n, "advance", c)
  BY <1>2, TasksCounted
<1> HIDE DEF p, n
<1>8. QED
  BY <1>4, <1>5, <1>6, <1>7 DEF Ind

\* The invariant has the frees that are pending.
LEMMA InvReleasedOnce ==
    ASSUME IInv
    PROVE  ReleasedOnce
<1>1. work \in Seq(TaskType) /\ Released(heap, Pile(work), Len(work))
  BY InvFacts
<1>2. ASSUME NEW c \in Cells
      PROVE  Cardinality(Tasks("free", c)) =
                 IF c \in Live /\ heap[c].refs = 0 /\ ~heap[c].marked THEN 1 ELSE 0
  <2>1. Cardinality(Tasks("free", c)) = Count(Pile(work), Len(work), "free", c)
    BY <1>1, TasksCounted
  <2>2. Count(Pile(work), Len(work), "free", c)
          = Ind(heap[c].kind # "free" /\ heap[c].refs = 0 /\ ~heap[c].marked)
    BY <1>1 DEF Released
  <2>3. c \in Live <=> heap[c].kind # "free"
    BY DEF Live
  <2>4. QED
    BY <2>1, <2>2, <2>3 DEF Ind
<1>3. QED
  BY <1>2 DEF ReleasedOnce

\* What has a positive count is not free.
LEMMA InvNoDangling ==
    ASSUME IInv
    PROVE  NoDangling
<1>1. /\ HandlesInv /\ Shape(heap)
      /\ \A x \in Cells, f \in 1..2 : heap[x].fields[f] # None =>
            heap[x].fields[f] \in Cells /\ heap[heap[x].fields[f]].kind # "free"
      /\ \A c \in Objs : c \in Cells /\ heap[c].kind # "free"
      /\ \A i \in DOMAIN work : work[i].cell = None \/ work[i].cell \in Live
  BY InvFacts
<1>2. ASSUME NEW c \in Live
      PROVE  /\ Refers(c) \cup {heap[c].link} \subseteq Live \cup {None}
             /\ heap[c].open = <<>> \/ heap[c].open[1] \in Live
  <2>1. c \in Cells /\ CellOK(heap, c)
    BY <1>1 DEF Live, Shape
  <2>2. Refers(c) \subseteq Live
    BY <2>1, <1>1 DEF Refers, Live
  <2>3. ASSUME heap[c].link # None PROVE heap[c].link \in Live
    <3>1. heap[c].link \in Cells /\ heap[heap[c].link].link = c
      BY <2>1, <2>3, <1>1, CellTypes DEF CellOK
    <3>2. CellOK(heap, heap[c].link) /\ c # None
      BY <3>1, <2>1, <1>1, NoneAssumption DEF Shape
    <3>3. QED
      BY <3>1, <3>2 DEF CellOK, Live
  <2>4. ASSUME heap[c].open # <<>> PROVE heap[c].open[1] \in Live
    BY <2>1, <2>4, <1>1, CellTypes DEF CellOK, Live
  <2>5. QED
    BY <2>2, <2>3, <2>4
<1>3. ASSUME NEW c \in Cells, held[c] > 0 PROVE c \in Live
  <2>1. held[c] \in Nat /\ leaked[c] \in Nat
    BY <1>1 DEF HandlesInv
  <2>2. held[c] # 0 /\ held[c] + leaked[c] # 0
    BY <2>1, <1>3
  <2>3. status = "open"
    BY <2>2, <1>1 DEF HandlesInv
  <2>4. {n \in Nodes : n.obj = c} # {}
    BY <2>2, <2>3, <1>1 DEF HandlesInv
  <2>5. c \in Objs
    BY <2>4 DEF Objs
  <2>6. QED
    BY <2>5, <1>1 DEF Live
<1>4. \A n \in Nodes : n.obj \in Live
  BY <1>1 DEF Objs, Live
<1>5. ASSUME NEW i \in DOMAIN work, NEW j \in DOMAIN work, i < j,
             work[i].op = "null", work[j].op = "clear"
      PROVE  work[i].cell # work[j].cell
  <2> DEFINE p == Pile(work)
             n == Len(work)
             k == n + 1 - i
             l == n + 1 - j
  <2>1. work \in Seq(TaskType) /\ TasksOK(heap, p, n, status)
    BY DEF IInv, TypeInv, HeapInv
  <2>2. n \in Nat /\ i \in 1..n /\ j \in 1..n
    BY <2>1
  <2>3. k \in 1..n /\ l \in 1..n /\ l \in 1..k - 1 /\ n + 1 - k = i /\ n + 1 - l = j
    BY <2>2, <1>5
  <2>4. p[k] = work[i] /\ p[l] = work[j]
    BY <2>3 DEF Pile
  <2> HIDE DEF p, n, k, l
  <2>5. Written(p, k)
    BY <2>1, <2>3, <2>4, <1>5 DEF TasksOK, TaskOK
  <2>6. QED
    BY <2>3, <2>4, <2>5, <1>5 DEF Written, Is
<1>6. QED
  BY <1>1, <1>2, <1>3, <1>4, <1>5 DEF NoDangling

\* Type correctness of the heap, the chain, the handle table and the counters.
THEOREM HeapTypes == Spec => []TypeOK
<1>1. IInv => TypeOK
  BY InvTypes
<1>2. QED
  BY <1>1, HeapInvariant, PTL

\* __AddRef and __Release: _uiRef of every object in use is the number of the
\* references to it, at every step of every release, sweep, collection and
\* sq_close, whatever the program did before.
THEOREM CountsAreExact == Spec => []RefsExact
<1>1. IInv => RefsExact
  BY InvRefsExact
<1>2. QED
  BY <1>1, HeapInvariant, PTL

\* No field, handle, node, weak reference or open outer, and nothing that a
\* running release, sweep or close is about to touch, leads to a freed block.
THEOREM NothingDangles == Spec => []NoDangling
<1>1. IInv => NoDangling
  BY InvNoDangling
<1>2. QED
  BY <1>1, HeapInvariant, PTL

\* Release: a block is freed when and only when nothing refers to it, and once.
THEOREM FreedOnce == Spec => []ReleasedOnce
<1>1. IInv => ReleasedOnce
  BY InvReleasedOnce
<1>2. QED
  BY <1>1, HeapInvariant, PTL

\* RefTable: while the VM is open every object with Rust handles, forgotten ones
\* included, has one node, where Get looks for it, with their number.
THEOREM HandlesAreCounted == Spec => []HandlesExact
<1>1. ASSUME IInv PROVE HandlesExact
  <2>1. SUFFICES ASSUME status = "open", NEW c \in Cells
                 PROVE  LET n == held[c] + leaked[c]
                            mine == {x \in Nodes : x.obj = c}
                        IN  /\ mine = Found(c)
                            /\ mine = IF n = 0 THEN {} ELSE {[obj |-> c, refs |-> n]}
    BY DEF HandlesExact
  <2>2. Found(c) = {n \in Nodes : n.obj = c}
    BY <1>1, TableFiled DEF IInv
  <2>3. {n \in Nodes : n.obj = c} = IF held[c] + leaked[c] = 0 THEN {}
                                    ELSE {[obj |-> c, refs |-> held[c] + leaked[c]]}
    BY <1>1, <2>1 DEF IInv, HandlesInv
  <2>4. QED
    BY <2>2, <2>3
<1>2. QED
  BY <1>1, HeapInvariant, PTL

\* The release hook of a userdata runs exactly once before its block is gone.
THEOREM HooksRunOnce == Spec => []PayloadOnce
<1>1. ASSUME IInv PROVE PayloadOnce
  <2>1. \A c \in Cells : heap[c].box \in IF heap[c].kind = "userdata" THEN {"full", "dropped"} ELSE {"none"}
    BY <1>1, InvFacts DEF Shape, CellOK
  <2>2. QED
    BY <2>1 DEF PayloadOnce
<1>2. QED
  BY <1>1, HeapInvariant, PTL

\* GetWeakRef, ~SQRefCounted and SQWeakRef::Release: an object and its weak
\* reference know each other, or neither does.
THEOREM WeakReferencesAgree == Spec => []WeakLinks
<1>1. ASSUME IInv PROVE WeakLinks
  <2>1. \A c \in Cells : heap[c].link # None =>
           /\ heap[heap[c].link].link = c
           /\ (heap[c].kind = "weakref") # (heap[heap[c].link].kind = "weakref")
    BY <1>1, InvFacts DEF Shape, CellOK
  <2>2. QED
    BY <2>1 DEF WeakLinks, Live
<1>2. QED
  BY <1>1, HeapInvariant, PTL
=============================================================================
