----------------------------- MODULE HeapProofs -----------------------------
(***************************************************************************)
(* The inductive invariant of Heap, and the proof that every step of a     *)
(* running release, sweep or close preserves it.  HeapResults has the      *)
(* steps of the program and the theorems.                                  *)
(*                                                                         *)
(* The invariant is a predicate of a heap h, a chain ch, a stack of tasks  *)
(* p of height n, the set objs of the objects that have a node, and a      *)
(* status st.  p[n] is the next task: Pile turns `work` round, so that a   *)
(* task keeps its number as long as it is pending.                         *)
(***************************************************************************)
EXTENDS Heap, Induction, SequenceTheorems, FiniteSetTheorems, FunctionTheorems

-----------------------------------------------------------------------------
(* Cells.                                                                  *)

LiveIn(h) == {c \in Cells : h[c].kind # "free"}

\* A cell that is not in use is empty, the fields of a kind are those of
\* Fields, an object and its weak reference know each other, an open outer
\* has no value of its own and points to a thread.
CellOK(h, c) ==
    /\ h[c].kind = "free" => /\ h[c].refs = 0 /\ ~h[c].marked /\ h[c].link = None
                             /\ h[c].open = <<>> /\ \A f \in 1..2 : h[c].fields[f] = None
    /\ h[c].kind \in {"userdata", "weakref"} => h[c].fields[2] = None
    /\ h[c].kind \in {"outer", "weakref"} => h[c].fields[1] = None
    /\ h[c].link # None =>
          /\ h[h[c].link].link = c
          /\ (h[c].kind = "weakref") # (h[h[c].link].kind = "weakref")
    /\ h[c].open # <<>> => /\ h[c].kind = "outer" /\ h[c].fields[2] = None
                           /\ h[h[c].open[1]].kind = "thread"
    /\ h[c].box \in IF h[c].kind = "userdata" THEN {"full", "dropped"} ELSE {"none"}
    /\ h[c].box = "dropped" => h[c].refs = 0
    /\ h[c].marked => h[c].kind # "weakref"
Shape(h) == h \in [Cells -> Cell] /\ \A c \in Cells : CellOK(h, c)

\* What the collector's list holds.
ChainOK(h, ch) == \A c \in ch : c \in Cells /\ h[c].kind \in Kinds /\ ~h[c].marked

-----------------------------------------------------------------------------
(* Counts.                                                                 *)

CellOps == {"drop", "null", "clear", "unchain", "hook", "free", "closeouters", "advance"}
LoneOps == {"sweepall", "unmark", "reftable", "closed"}
TaskType == [op : CellOps \cup LoneOps, cell : Cells \cup {None}, field : 0..2,
             todo : SUBSET Cells, ending : {"", "unmark", "closed"}]

Pile(w) == [k \in 1..Len(w) |-> w[Len(w) + 1 - k]]
Is(t, op, c) == t.op = op /\ t.cell = c

Ind(b) == IF b THEN 1 ELSE 0
FieldRefs(h, c) == Cardinality({p \in Cells \X (1..2) : h[p[1]].fields[p[2]] = c})
Count(p, n, op, c) == Cardinality({k \in 1..n : Is(p[k], op, c)})

\* _uiRef of every cell, the free ones too, counts the references there are.
Exact(h, p, n, objs, st) ==
    \A c \in Cells :
        h[c].refs = FieldRefs(h, c) + Ind(c \in objs)
                    + Count(p, n, "drop", c) + Count(p, n, "advance", c)
                    + Ind(c = Root /\ st = "open") + Ind(h[c].open # <<>>)

\* A cell is being freed, once, when nothing refers to it.
Released(h, p, n) ==
    \A c \in Cells :
        Count(p, n, "free", c) = Ind(h[c].kind # "free" /\ h[c].refs = 0 /\ ~h[c].marked)

-----------------------------------------------------------------------------
(* Tasks.                                                                  *)

\* A task on a cell is followed by one that keeps the cell, but for the last
\* one of a scope that is being closed.
Kept(p, k) == \E j \in 1..k - 1 : /\ p[j].cell = p[k].cell
                                  /\ p[j].op \in {"free", "advance", "drop"}
\* No pointer of its cell is released and not yet overwritten when a field is
\* released.
Written(p, k) == \A j \in 1..k - 1 : ~Is(p[j], "clear", p[k].cell)
TaskOK(h, p, n, st, k) ==
    /\ p[k].op \in CellOps <=> p[k].cell # None
    /\ p[k].op = "null" => /\ p[k].field \in 1..2 /\ ~h[p[k].cell].marked
                           /\ Written(p, k)
    /\ p[k].op \in {"null", "clear", "unchain", "hook"} => Kept(p, k)
    /\ p[k].op = "closeouters" => Kept(p, k) \/ k = 1
    /\ p[k].op = "hook" => /\ k = n /\ h[p[k].cell].box = "full"
                           /\ \E j \in 1..k - 1 : Is(p[j], "free", p[k].cell)
    /\ p[k].op \in {"advance", "sweepall", "unmark", "closed"} => k = 1
    /\ p[k].op = "unmark" \/ p[k].ending = "unmark" => st = "open"
    /\ p[k].op \in {"sweepall", "closed", "reftable"} \/ p[k].ending = "closed" => st # "open"
    /\ p[k].op = "advance" <=> p[k].ending # ""
TasksOK(h, p, n, st) == \A k \in 1..n : TaskOK(h, p, n, st, k)

\* What precedes the end of a block.
Before(p, n, k, op, f) ==
    \E j \in k + 1..n : Is(p[j], op, p[k].cell) /\ p[j].field = f
FreeOK(h, ch, p, n, k) ==
    /\ \A f \in 1..2 : h[p[k].cell].fields[f] = None \/ Before(p, n, k, "null", f)
    /\ p[k].cell \notin ch \/ Before(p, n, k, "unchain", 0)
    /\ h[p[k].cell].box # "full" \/ Before(p, n, k, "hook", 0)
    /\ \/ \A o \in Cells : h[o].open # <<>> => h[o].open[1] # p[k].cell
       \/ Before(p, n, k, "closeouters", 0)
FreesOK(h, ch, p, n) == \A k \in 1..n : p[k].op = "free" => FreeOK(h, ch, p, n, k)

\* Marks are there between the two halves of a collection only, and a marked
\* object is held by something that the sweep leaves alone.
Marking(p, n) == n > 0 /\ (p[1].op = "unmark" \/ p[1].ending = "unmark")
Anchored(h, objs, c) ==
    \/ c = Root
    \/ c \in objs
    \/ \E x \in Cells, f \in 1..2 : h[x].marked /\ h[x].fields[f] = c
MarksOK(h, p, n, objs) ==
    \A c \in Cells : h[c].marked => Marking(p, n) /\ Anchored(h, objs, c)

\* A scope that is being closed: the thread th stays, because something that is
\* not being released refers to it, and an outer that goes holds nothing that
\* the thread does not hold too.
InStack(h, th, v) == v = None \/ \E g \in 1..2 : h[th].fields[g] = v
Spared(p, n, x) == \A k \in 1..n : p[k].cell = x => p[k].op \notin {"null", "free"}
Stays(h, p, n, th) ==
    \/ th = Root
    \/ \E x \in Cells, f \in 1..2 : h[x].fields[f] = th /\ Spared(p, n, x)
Passing(h, th, t) ==
    /\ t.op \in {"drop", "unchain", "null", "clear", "free"}
    /\ \/ t.op = "drop" /\ InStack(h, th, t.cell)
       \/ /\ h[t.cell].kind = "outer" /\ h[t.cell].open = <<>>
          /\ InStack(h, th, h[t.cell].fields[2])
ScopeOK(h, p, n, st) ==
    n > 0 /\ p[1].op = "closeouters" =>
        /\ h[p[1].cell].kind = "thread" /\ st = "open"
        /\ Stays(h, p, n, p[1].cell)
        /\ \A k \in 2..n : Passing(h, p[1].cell, p[k])

-----------------------------------------------------------------------------
(* The handle table, and the whole.                                        *)

\* A node is in the bucket of its object, and alone with it.
TableOK ==
    /\ \E m \in Nat \ {0} : table \in [Buckets(m) -> SUBSET [obj : Cells, refs : Nat]]
    /\ \A b \in DOMAIN table : \A n \in table[b] : Bucket(n.obj, Slots) = b
    /\ \A n, o \in Nodes : n.obj = o.obj => n = o

\* The handles of the Rust crate.
HandlesInv ==
    /\ held \in [Cells -> Nat] /\ leaked \in [Cells -> Nat]
    /\ status = "open" =>
          \A c \in Cells : {n \in Nodes : n.obj = c} =
              IF held[c] + leaked[c] = 0 THEN {} ELSE {[obj |-> c, refs |-> held[c] + leaked[c]]}
    /\ status # "open" => \A c \in Cells : held[c] = 0

ListsOK == Lists \subseteq SUBSET Cells /\ place \in [Cells -> Nat]
TypeInv ==
    /\ ListsOK
    /\ work \in Seq(TaskType) /\ status \in {"open", "closing", "closed"}
    /\ uses \in DOMAIN Programs /\ ops \in 0..Programs[uses]

HeapInv(h, ch, p, n, objs, st) ==
    /\ n \in Nat /\ p \in [1..n -> TaskType] /\ objs \subseteq Cells
    /\ st = "open" => h[Root].kind = "thread"
    /\ Shape(h) /\ ChainOK(h, ch)
    /\ Exact(h, p, n, objs, st) /\ Released(h, p, n)
    /\ TasksOK(h, p, n, st) /\ FreesOK(h, ch, p, n)
    /\ MarksOK(h, p, n, objs) /\ ScopeOK(h, p, n, st)

Objs == {n.obj : n \in Nodes}
IInv == /\ TypeInv /\ TableOK /\ HandlesInv
        /\ HeapInv(heap, Listed, Pile(work), Len(work), Objs, status)

-----------------------------------------------------------------------------
(* Counting fields and tasks.                                              *)

\* Removing and adding an element of a finite set.
LEMMA CountSwap ==
    ASSUME NEW A, NEW B, NEW x, IsFiniteSet(A), \A y : y # x => (y \in A <=> y \in B)
    PROVE  /\ IsFiniteSet(B)
           /\ Cardinality(B) = Cardinality(A) - Ind(x \in A) + Ind(x \in B)
<1> DEFINE C == A \ {x}
<1>1. IsFiniteSet(C) /\ Cardinality(C) \in Nat /\ Cardinality(A) \in Nat
      /\ Cardinality(C) = IF x \in A THEN Cardinality(A) - 1 ELSE Cardinality(A)
  BY FS_RemoveElement, FS_CardinalityType
<1>2. x \notin C
  OBVIOUS
<1>3. CASE x \in B
  <2>1. B = C \cup {x}
    BY <1>3
  <2>2. QED
    BY <1>1, <1>2, <1>3, <2>1, FS_AddElement DEF Ind
<1>4. CASE x \notin B
  <2>1. B = C
    BY <1>4
  <2>2. QED
    BY <1>1, <1>4, <2>1 DEF Ind
<1>5. QED
  BY <1>3, <1>4

\* The places that hold c.
Holders(h, c) == {p \in Cells \X (1..2) : h[p[1]].fields[p[2]] = c}

\* The places that hold a cell can be counted.
LEMMA HoldersFinite ==
    ASSUME NEW h, NEW c
    PROVE  IsFiniteSet(Holders(h, c)) /\ FieldRefs(h, c) = Cardinality(Holders(h, c))
           /\ FieldRefs(h, c) \in Nat
<1>1. IsFiniteSet(1..2)
  <2>1. 1 \in Int /\ 2 \in Int
    OBVIOUS
  <2>2. QED
    BY <2>1, FS_Interval, Zenon
<1>2. IsFiniteSet(Cells \X (1..2))
  BY <1>1, CellsAssumption, FS_Product
<1>3. IsFiniteSet(Holders(h, c))
  BY <1>2, FS_Subset DEF Holders
<1>4. QED
  BY <1>3, FS_CardinalityType DEF Holders, FieldRefs

\* A cell has a holder if and only if fields are counted.
LEMMA FieldRefsPositive ==
    ASSUME NEW h, NEW c
    PROVE  FieldRefs(h, c) > 0 <=> \E x \in Cells, f \in 1..2 : h[x].fields[f] = c
<1>1. FieldRefs(h, c) \in Nat /\ (FieldRefs(h, c) = 0 <=> Holders(h, c) = {})
  BY HoldersFinite, FS_EmptySet
<1>2. Holders(h, c) # {} <=> \E x \in Cells, f \in 1..2 : h[x].fields[f] = c
  <2>1. ASSUME NEW x \in Cells, NEW f \in 1..2, h[x].fields[f] = c PROVE Holders(h, c) # {}
    <3>1. <<x, f>> \in Holders(h, c)
      BY <2>1 DEF Holders
    <3>2. QED
      BY <3>1
  <2>2. ASSUME Holders(h, c) # {} PROVE \E x \in Cells, f \in 1..2 : h[x].fields[f] = c
    <3>1. PICK p \in Cells \X (1..2) : h[p[1]].fields[p[2]] = c
      BY <2>2 DEF Holders
    <3>2. p[1] \in Cells /\ p[2] \in 1..2
      OBVIOUS
    <3>3. QED
      BY <3>1, <3>2
  <2>3. QED
    BY <2>1, <2>2
<1>3. QED
  BY <1>1, <1>2

\* h2 differs from h in field f of x at most.
OneField(h, h2, x, f) ==
    /\ x \in Cells /\ f \in 1..2
    /\ \A y \in Cells, g \in 1..2 : ~(y = x /\ g = f) => h2[y].fields[g] = h[y].fields[g]

\* A store moves one reference from the old value of a field to the new one.
LEMMA FieldRefsStored ==
    ASSUME NEW h, NEW h2, NEW x, NEW f, OneField(h, h2, x, f)
    PROVE  \A c : FieldRefs(h2, c) = FieldRefs(h, c) - Ind(h[x].fields[f] = c)
                                     + Ind(h2[x].fields[f] = c)
<1> SUFFICES ASSUME NEW c
             PROVE  FieldRefs(h2, c) = FieldRefs(h, c) - Ind(h[x].fields[f] = c)
                                       + Ind(h2[x].fields[f] = c)
  OBVIOUS
<1> DEFINE A == Holders(h, c)
           B == Holders(h2, c)
<1>1. x \in Cells /\ f \in 1..2
  BY DEF OneField
<1>2. ASSUME NEW p, p # <<x, f>> PROVE p \in A <=> p \in B
  <2>1. CASE p \in Cells \X (1..2)
    <3>1. p[1] \in Cells /\ p[2] \in 1..2 /\ p = <<p[1], p[2]>>
      BY <2>1
    <3>2. ~(p[1] = x /\ p[2] = f)
      BY <3>1, <1>2
    <3>3. h2[p[1]].fields[p[2]] = h[p[1]].fields[p[2]]
      BY <3>1, <3>2 DEF OneField
    <3>4. QED
      BY <3>3 DEF Holders
  <2>2. CASE p \notin Cells \X (1..2)
    BY <2>2 DEF Holders
  <2>3. QED
    BY <2>1, <2>2
<1>3. /\ (<<x, f>> \in A) <=> h[x].fields[f] = c
      /\ (<<x, f>> \in B) <=> h2[x].fields[f] = c
  BY <1>1 DEF Holders
<1>4. IsFiniteSet(A)
  BY HoldersFinite
<1> HIDE DEF A, B
<1>5. Cardinality(B) = Cardinality(A) - Ind(<<x, f>> \in A) + Ind(<<x, f>> \in B)
  BY <1>2, <1>4, CountSwap
<1>6. Ind(<<x, f>> \in A) = Ind(h[x].fields[f] = c) /\ Ind(<<x, f>> \in B) = Ind(h2[x].fields[f] = c)
  BY <1>3 DEF Ind
<1>7. QED
  BY <1>5, <1>6, HoldersFinite DEF A, B

SameFields(h, h2) == \A y \in Cells, g \in 1..2 : h2[y].fields[g] = h[y].fields[g]
\* Without a store no reference moves.
LEMMA FieldRefsSame ==
    ASSUME NEW h, NEW h2, SameFields(h, h2)
    PROVE  \A c : FieldRefs(h2, c) = FieldRefs(h, c)
<1> SUFFICES ASSUME NEW c PROVE FieldRefs(h2, c) = FieldRefs(h, c)
  OBVIOUS
<1>1. ASSUME NEW p \in Cells \X (1..2) PROVE h2[p[1]].fields[p[2]] = h[p[1]].fields[p[2]]
  BY DEF SameFields
<1>2. Holders(h, c) = Holders(h2, c)
  BY <1>1 DEF Holders
<1>3. QED
  BY <1>2, HoldersFinite

\* The tasks of a kind on a cell, in the lowest n of a pile.
TasksOf(p, n, op, c) == {k \in 1..n : Is(p[k], op, c)}

\* Pending tasks can be counted.
LEMMA TasksFinite ==
    ASSUME NEW p, NEW n \in Nat, NEW op, NEW c
    PROVE  /\ IsFiniteSet(TasksOf(p, n, op, c))
           /\ Count(p, n, op, c) = Cardinality(TasksOf(p, n, op, c))
           /\ Count(p, n, op, c) \in Nat
<1>1. IsFiniteSet(1..n)
  <2>1. 1 \in Int /\ n \in Int
    OBVIOUS
  <2>2. QED
    BY <2>1, FS_Interval, Zenon
<1>2. IsFiniteSet(TasksOf(p, n, op, c))
  BY <1>1, FS_Subset DEF TasksOf
<1>3. QED
  BY <1>2, FS_CardinalityType DEF TasksOf, Count

\* A positive count has a task.
LEMMA CountPositive ==
    ASSUME NEW p, NEW n \in Nat, NEW op, NEW c
    PROVE  Count(p, n, op, c) > 0 <=> \E k \in 1..n : Is(p[k], op, c)
<1>1. Count(p, n, op, c) \in Nat /\ (Count(p, n, op, c) = 0 <=> TasksOf(p, n, op, c) = {})
  BY TasksFinite, FS_EmptySet
<1>2. TasksOf(p, n, op, c) # {} <=> \E k \in 1..n : Is(p[k], op, c)
  BY DEF TasksOf
<1>3. QED
  BY <1>1, <1>2

\* q is p but for the tasks above height i, and none of these matches.
SameTasks(p, n, q, m, op, c) ==
    \A k \in Nat : (k \in 1..n /\ Is(p[k], op, c)) <=> (k \in 1..m /\ Is(q[k], op, c))
\* Two stacks that agree on the tasks for a cell count alike.
LEMMA CountSame ==
    ASSUME NEW p, NEW n \in Nat, NEW q, NEW m \in Nat, NEW op, NEW c,
           SameTasks(p, n, q, m, op, c)
    PROVE  Count(q, m, op, c) = Count(p, n, op, c)
<1>1. \A k \in 1..n : k \in Nat
  OBVIOUS
<1>2. \A k \in 1..m : k \in Nat
  OBVIOUS
<1>3. TasksOf(p, n, op, c) = TasksOf(q, m, op, c)
  BY <1>1, <1>2 DEF TasksOf, SameTasks
<1>4. QED
  BY <1>3, TasksFinite

\* q is p but for the task of height j.
OneTask(p, n, q, m, op, c, j) ==
    \A k \in Nat : k # j =>
        ((k \in 1..n /\ Is(p[k], op, c)) <=> (k \in 1..m /\ Is(q[k], op, c)))
\* Two stacks that differ in one task differ in its count only.
LEMMA CountOne ==
    ASSUME NEW p, NEW n \in Nat, NEW q, NEW m \in Nat, NEW op, NEW c, NEW j,
           OneTask(p, n, q, m, op, c, j)
    PROVE  Count(q, m, op, c) = Count(p, n, op, c) - Ind(j \in 1..n /\ Is(p[j], op, c))
                                + Ind(j \in 1..m /\ Is(q[j], op, c))
<1> DEFINE A == TasksOf(p, n, op, c)
           B == TasksOf(q, m, op, c)
<1>1. \A k : k \in 1..n => k \in Nat
  OBVIOUS
<1>2. \A k : k \in 1..m => k \in Nat
  OBVIOUS
<1>3. \A k : k # j => (k \in A <=> k \in B)
  BY <1>1, <1>2 DEF TasksOf, OneTask
<1>4. /\ j \in A <=> j \in 1..n /\ Is(p[j], op, c)
      /\ j \in B <=> j \in 1..m /\ Is(q[j], op, c)
  BY DEF TasksOf
<1>5. IsFiniteSet(A)
  BY TasksFinite
<1> HIDE DEF A, B
<1>6. Cardinality(B) = Cardinality(A) - Ind(j \in A) + Ind(j \in B)
  BY <1>3, <1>5, CountSwap
<1>7. /\ Ind(j \in A) = Ind(j \in 1..n /\ Is(p[j], op, c))
      /\ Ind(j \in B) = Ind(j \in 1..m /\ Is(q[j], op, c))
  BY <1>4 DEF Ind
<1>8. QED
  BY <1>6, <1>7, TasksFinite DEF A, B

\* The tasks ts replace the one on top of a pile.
Replaced(p, n, q, m, ts) ==
    /\ n \in Nat \ {0} /\ Len(ts) \in Nat /\ m = n - 1 + Len(ts)
    /\ q \in [1..m -> TaskType]
    /\ \A k \in 1..n - 1 : q[k] = p[k]
    /\ \A j \in 1..Len(ts) : q[n + Len(ts) - j] = ts[j]

\* Turning the stack round keeps its tasks.
LEMMA PileType ==
    ASSUME NEW w \in Seq(TaskType)
    PROVE  Len(w) \in Nat /\ Pile(w) \in [1..Len(w) -> TaskType]
<1>1. Len(w) \in Nat
  OBVIOUS
<1>2. ASSUME NEW k \in 1..Len(w) PROVE w[Len(w) + 1 - k] \in TaskType
  <2>1. Len(w) + 1 - k \in 1..Len(w)
    BY <1>1
  <2>2. QED
    BY <2>1
<1>3. QED
  BY <1>1, <1>2 DEF Pile

\* Then, seen from the bottom of the pile.
LEMMA PileThen ==
    ASSUME NEW w \in Seq(TaskType), w # <<>>, NEW ts \in Seq(TaskType)
    PROVE  /\ ts \o Tail(w) \in Seq(TaskType)
           /\ Pile(w)[Len(w)] = Head(w)
           /\ Replaced(Pile(w), Len(w), Pile(ts \o Tail(w)), Len(ts \o Tail(w)), ts)
<1> DEFINE v == ts \o Tail(w)
           n == Len(w)
           m == Len(v)
<1>1. n \in Nat \ {0} /\ Tail(w) \in Seq(TaskType) /\ Len(Tail(w)) = n - 1
      /\ \A i \in 1..n - 1 : Tail(w)[i] = w[i + 1]
  OBVIOUS
<1>2. v \in Seq(TaskType) /\ m = Len(ts) + (n - 1) /\ Len(ts) \in Nat
  BY <1>1
<1>3. \A i \in 1..Len(ts) : v[i] = ts[i]
  BY <1>1
<1>4. \A i \in 1..n - 1 : v[Len(ts) + i] = Tail(w)[i]
  BY <1>1
<1>5. Pile(w)[n] = Head(w)
  BY <1>1 DEF Pile
<1> HIDE DEF v, n, m
<1>6. Pile(v) \in [1..m -> TaskType]
  BY <1>2, PileType DEF m
<1>7. ASSUME NEW k \in 1..n - 1 PROVE Pile(v)[k] = Pile(w)[k]
  <2>1. k \in 1..m /\ k \in 1..n /\ n - k \in 1..n - 1
    BY <1>1, <1>2
  <2>2. Pile(v)[k] = v[m + 1 - k] /\ Pile(w)[k] = w[n + 1 - k]
    BY <2>1 DEF Pile, m, n
  <2>3. v[Len(ts) + (n - k)] = w[n - k + 1]
    BY <1>1, <1>4, <2>1
  <2>4. m + 1 - k = Len(ts) + (n - k) /\ n + 1 - k = n - k + 1
    BY <1>1, <1>2
  <2>5. QED
    BY <2>2, <2>3, <2>4
<1>8. ASSUME NEW j \in 1..Len(ts) PROVE Pile(v)[n + Len(ts) - j] = ts[j]
  <2>1. n + Len(ts) - j \in 1..m /\ m + 1 - (n + Len(ts) - j) = j
    BY <1>1, <1>2
  <2>2. QED
    BY <2>1, <1>3 DEF Pile, m
<1>9. m = n - 1 + Len(ts)
  BY <1>1, <1>2
<1>10. Replaced(Pile(w), n, Pile(v), m, ts)
  BY <1>1, <1>2, <1>6, <1>7, <1>8, <1>9 DEF Replaced
<1>11. QED
  BY <1>10, <1>2, <1>5 DEF v, n, m

-----------------------------------------------------------------------------
(* What the invariant says of a cell that something refers to.             *)

\* The components of a cell.
LEMMA CellTypes ==
    ASSUME NEW h, Shape(h), NEW c \in Cells
    PROVE  /\ h[c].refs \in Nat /\ h[c].marked \in BOOLEAN
           /\ h[c].kind \in Kinds \cup {"weakref", "free"}
           /\ h[c].link \in Cells \cup {None}
           /\ h[c].open \in {<<>>} \cup (Cells \X {1, 2})
           /\ h[c].fields \in [1..2 -> Cells \cup {None}]
           /\ \A f \in 1..2 : h[c].fields[f] \in Cells \cup {None}
           /\ h[c].open # <<>> => h[c].open[1] \in Cells /\ h[c].open[2] \in 1..2
           /\ h[c] \in Cell
<1>1. h[c] \in Cell
  BY DEF Shape
<1>2. QED
  BY <1>1 DEF Cell

\* What is referred to has a count above zero, so it is there.
Referred(h, p, n, objs, st) ==
    /\ \A c \in Cells : h[c].refs > 0 => h[c].kind # "free"
    /\ \A x \in Cells, f \in 1..2 : h[x].fields[f] # None =>
          h[x].fields[f] \in Cells /\ h[h[x].fields[f]].refs > 0
    /\ \A c \in objs : c \in Cells /\ h[c].refs > 0
    /\ \A c \in Cells : h[c].open # <<>> => h[c].refs > 0
    /\ \A k \in 1..n : p[k].op \in {"drop", "advance"} =>
          p[k].cell \in Cells /\ h[p[k].cell].refs > 0
    /\ \A k \in 1..n : p[k].op = "free" =>
          /\ p[k].cell \in Cells /\ h[p[k].cell].refs = 0 /\ ~h[p[k].cell].marked
          /\ h[p[k].cell].kind # "free" /\ Count(p, n, "free", p[k].cell) = 1
    /\ st = "open" => h[Root].refs > 0

\* Counts are naturals, indicators 0 or 1.
LEMMA CountTypes ==
    ASSUME NEW h, NEW p, NEW n \in Nat, NEW c, NEW b1 \in BOOLEAN
    PROVE  /\ FieldRefs(h, c) \in Nat /\ Count(p, n, "drop", c) \in Nat
           /\ Count(p, n, "advance", c) \in Nat /\ Count(p, n, "free", c) \in Nat
           /\ Ind(b1) \in 0..1 /\ (Ind(b1) = 1 <=> b1) /\ (Ind(b1) = 0 <=> ~b1)
  BY HoldersFinite, TasksFinite DEF Ind

\* Whatever a field, a node, a task or an outer refers to has a positive
\* count.
LEMMA InvReferred ==
    ASSUME NEW h, NEW ch, NEW p, NEW n, NEW objs, NEW st, HeapInv(h, ch, p, n, objs, st)
    PROVE  Referred(h, p, n, objs, st)
<1>1. /\ n \in Nat /\ p \in [1..n -> TaskType] /\ objs \subseteq Cells /\ Shape(h)
      /\ Exact(h, p, n, objs, st) /\ Released(h, p, n) /\ TasksOK(h, p, n, st)
  BY DEF HeapInv
<1>2. ASSUME NEW c \in Cells
      PROVE  /\ h[c].refs \in Nat
             /\ FieldRefs(h, c) > 0 => h[c].refs > 0
             /\ c \in objs => h[c].refs > 0
             /\ Count(p, n, "drop", c) > 0 => h[c].refs > 0
             /\ Count(p, n, "advance", c) > 0 => h[c].refs > 0
             /\ c = Root /\ st = "open" => h[c].refs > 0
             /\ h[c].open # <<>> => h[c].refs > 0
  <2>1. /\ FieldRefs(h, c) \in Nat /\ Count(p, n, "drop", c) \in Nat
        /\ Count(p, n, "advance", c) \in Nat
    BY <1>1, CountTypes
  <2>2. h[c].refs = FieldRefs(h, c) + Ind(c \in objs)
                    + Count(p, n, "drop", c) + Count(p, n, "advance", c)
                    + Ind(c = Root /\ st = "open") + Ind(h[c].open # <<>>)
    BY <1>1 DEF Exact
  <2>3. QED
    BY <2>1, <2>2 DEF Ind
<1>3. \A c \in Cells : h[c].refs > 0 => h[c].kind # "free"
  BY <1>1 DEF Shape, CellOK
<1>4. ASSUME NEW x \in Cells, NEW f \in 1..2, h[x].fields[f] # None
      PROVE  h[x].fields[f] \in Cells /\ h[h[x].fields[f]].refs > 0
  <2>1. h[x].fields[f] \in Cells
    BY <1>1, <1>4, CellTypes
  <2>2. FieldRefs(h, h[x].fields[f]) > 0
    BY FieldRefsPositive
  <2>3. QED
    BY <2>1, <2>2, <1>2
<1>5. ASSUME NEW k \in 1..n PROVE p[k].cell \in Cells \cup {None} /\ (p[k].op \in CellOps => p[k].cell \in Cells)
  <2>1. p[k] \in TaskType
    BY <1>1
  <2>2. QED
    BY <2>1, <1>1 DEF TaskType, TasksOK, TaskOK
<1>6. ASSUME NEW k \in 1..n, p[k].op \in {"drop", "advance"}
      PROVE  p[k].cell \in Cells /\ h[p[k].cell].refs > 0
  <2>1. p[k].cell \in Cells
    BY <1>5, <1>6 DEF CellOps
  <2>2. Is(p[k], p[k].op, p[k].cell)
    BY DEF Is
  <2>3. Count(p, n, p[k].op, p[k].cell) > 0
    BY <1>1, <2>2, CountPositive
  <2>4. QED
    BY <1>6, <2>1, <2>3, <1>2
<1>7. ASSUME NEW k \in 1..n, p[k].op = "free"
      PROVE  /\ p[k].cell \in Cells /\ h[p[k].cell].refs = 0 /\ ~h[p[k].cell].marked
             /\ h[p[k].cell].kind # "free" /\ Count(p, n, "free", p[k].cell) = 1
  <2>1. p[k].cell \in Cells
    BY <1>5, <1>7 DEF CellOps
  <2>2. Is(p[k], "free", p[k].cell)
    BY <1>7 DEF Is
  <2>3. Count(p, n, "free", p[k].cell) > 0
    BY <1>1, <2>2, CountPositive
  <2>4. QED
    BY <2>1, <2>3, <1>1 DEF Released, Ind
<1>8. QED
  BY <1>1, <1>2, <1>3, <1>4, <1>6, <1>7, CellsAssumption DEF Referred

\* The cell of a pending task is there.
LEMMA TasksLive ==
    ASSUME NEW h, NEW ch, NEW p, NEW n, NEW objs, NEW st, HeapInv(h, ch, p, n, objs, st)
    PROVE  \A k \in 1..n : /\ p[k].cell = None \/ p[k].cell \in LiveIn(h)
                           /\ p[k].op \in CellOps => p[k].cell \in LiveIn(h)
<1>1. /\ n \in Nat /\ p \in [1..n -> TaskType] /\ Shape(h) /\ TasksOK(h, p, n, st)
      /\ ScopeOK(h, p, n, st)
  BY DEF HeapInv
<1>2. Referred(h, p, n, objs, st)
  BY InvReferred
<1>3. ASSUME NEW k \in 1..n, p[k].op \in {"drop", "advance", "free"} PROVE p[k].cell \in LiveIn(h)
  BY <1>2, <1>3 DEF Referred, LiveIn
<1>4. ASSUME NEW k \in 1..n, Kept(p, k) PROVE p[k].cell \in LiveIn(h)
  <2>1. PICK j \in 1..k - 1 : p[j].cell = p[k].cell /\ p[j].op \in {"free", "advance", "drop"}
    BY <1>4 DEF Kept
  <2>2. j \in 1..n
    BY <1>1
  <2>3. QED
    BY <2>1, <2>2, <1>3
<1>5. ASSUME 1 \in 1..n, p[1].op = "closeouters" PROVE p[1].cell \in LiveIn(h)
  <2>1. p[1] \in TaskType /\ p[1].cell # None
    BY <1>1, <1>5 DEF TasksOK, TaskOK, CellOps
  <2>2. p[1].cell \in Cells
    BY <2>1 DEF TaskType
  <2>3. h[p[1].cell].kind = "thread"
    BY <1>1, <1>5 DEF ScopeOK
  <2>4. QED
    BY <2>2, <2>3 DEF LiveIn
<1>6. ASSUME NEW k \in 1..n
      PROVE  /\ p[k].cell = None \/ p[k].cell \in LiveIn(h)
             /\ p[k].op \in CellOps => p[k].cell \in LiveIn(h)
  <2>1. TaskOK(h, p, n, st, k)
    BY <1>1 DEF TasksOK
  <2>2. CASE p[k].op \in CellOps
    <3>1. CASE p[k].op \in {"null", "clear", "unchain", "hook"}
      BY <3>1, <2>1, <1>4 DEF TaskOK
    <3>2. CASE p[k].op = "closeouters"
      <4>1. CASE Kept(p, k)
        BY <4>1, <1>4
      <4>2. CASE k = 1
        BY <4>2, <1>5, <3>2
      <4>3. QED
        BY <4>1, <4>2, <3>2, <2>1 DEF TaskOK
    <3>3. QED
      BY <2>2, <3>1, <3>2, <1>3 DEF CellOps
  <2>3. CASE p[k].op \notin CellOps
    BY <2>3, <2>1 DEF TaskOK
  <2>4. QED
    BY <2>2, <2>3
<1>7. QED
  BY <1>6

-----------------------------------------------------------------------------
(* What a step that replaces the task on top of the pile leaves as it was. *)

NoneOf(ts, op, c) == \A j \in 1..Len(ts) : ~Is(ts[j], op, c)
OneOf(ts, op, c, i) == i \in 1..Len(ts) /\ \A j \in 1..Len(ts) : Is(ts[j], op, c) <=> j = i

\* Taking the next task off the stack.
LEMMA CountPop ==
    ASSUME NEW p, NEW n \in Nat \ {0}, NEW op, NEW c
    PROVE  Count(p, n - 1, op, c) = Count(p, n, op, c) - Ind(Is(p[n], op, c))
<1>1. OneTask(p, n, p, n - 1, op, c, n)
  BY DEF OneTask
<1>2. n - 1 \in Nat /\ n \in 1..n /\ n \notin 1..n - 1
  OBVIOUS
<1>3. Count(p, n - 1, op, c) = Count(p, n, op, c) - Ind(n \in 1..n /\ Is(p[n], op, c))
                                + Ind(n \in 1..n - 1 /\ Is(p[n], op, c))
  BY <1>1, <1>2, CountOne
<1>4. Ind(n \in 1..n - 1 /\ Is(p[n], op, c)) = 0 /\ Ind(n \in 1..n /\ Is(p[n], op, c)) = Ind(Is(p[n], op, c))
  BY <1>2 DEF Ind
<1>5. Count(p, n, op, c) \in Nat /\ Ind(Is(p[n], op, c)) \in Nat
  BY TasksFinite DEF Ind
<1>6. QED
  BY <1>3, <1>4, <1>5

\* The height in the pile of a new task, and the other way round.
LEMMA NewHeights ==
    ASSUME NEW p, NEW n, NEW q, NEW m, NEW ts, Replaced(p, n, q, m, ts)
    PROVE  /\ n \in Nat \ {0} /\ n - 1 \in Nat /\ m \in Nat /\ Len(ts) \in Nat /\ n - 1 <= m
           /\ \A k \in n..m : n + Len(ts) - k \in 1..Len(ts) /\ q[k] = ts[n + Len(ts) - k]
           /\ \A k \in 1..m : k \in 1..n - 1 \/ k \in n..m
           /\ \A k \in 1..n - 1 : k \in 1..m /\ k \in 1..n /\ q[k] = p[k]
<1>1. n \in Nat \ {0} /\ n - 1 \in Nat /\ m \in Nat /\ Len(ts) \in Nat /\ m = n - 1 + Len(ts)
  BY DEF Replaced
<1>2. ASSUME NEW k \in n..m
      PROVE  n + Len(ts) - k \in 1..Len(ts) /\ q[k] = ts[n + Len(ts) - k]
  <2>1. n + Len(ts) - k \in 1..Len(ts) /\ n + Len(ts) - (n + Len(ts) - k) = k
    BY <1>1
  <2>2. q[n + Len(ts) - (n + Len(ts) - k)] = ts[n + Len(ts) - k]
    BY <2>1 DEF Replaced
  <2>3. QED
    BY <2>1, <2>2
<1>3. \A k \in 1..n - 1 : k \in 1..m /\ k \in 1..n /\ q[k] = p[k]
  BY <1>1 DEF Replaced
<1>4. QED
  BY <1>1, <1>2, <1>3

\* Replacing the next task by tasks none of which is the one counted.
LEMMA CountNone ==
    ASSUME NEW p, NEW n, NEW q, NEW m, NEW ts, Replaced(p, n, q, m, ts),
           NEW op, NEW c, NoneOf(ts, op, c)
    PROVE  Count(q, m, op, c) = Count(p, n, op, c) - Ind(Is(p[n], op, c))
<1>1. n \in Nat \ {0} /\ n - 1 \in Nat /\ m \in Nat /\ n - 1 <= m
  BY NewHeights
<1>2. ASSUME NEW k \in Nat
      PROVE  (k \in 1..n - 1 /\ Is(p[k], op, c)) <=> (k \in 1..m /\ Is(q[k], op, c))
  <2>1. CASE k \in 1..n - 1
    BY <2>1, NewHeights
  <2>2. CASE k \in n..m
    <3>1. n + Len(ts) - k \in 1..Len(ts) /\ q[k] = ts[n + Len(ts) - k]
      BY <2>2, NewHeights
    <3>2. ~Is(q[k], op, c)
      BY <3>1 DEF NoneOf
    <3>3. k \notin 1..n - 1
      BY <2>2, <1>1
    <3>4. QED
      BY <3>2, <3>3
  <2>3. CASE k \notin 1..m
    BY <2>3, <1>1
  <2>4. QED
    BY <1>1, <2>1, <2>2, <2>3
<1>3. SameTasks(p, n - 1, q, m, op, c)
  BY <1>2 DEF SameTasks
<1>4. QED
  BY <1>1, <1>3, CountSame, CountPop

\* Replacing the next task by tasks one of which is the one counted.
LEMMA CountOneMore ==
    ASSUME NEW p, NEW n, NEW q, NEW m, NEW ts, Replaced(p, n, q, m, ts),
           NEW op, NEW c, NEW i, OneOf(ts, op, c, i)
    PROVE  Count(q, m, op, c) = Count(p, n, op, c) - Ind(Is(p[n], op, c)) + 1
<1>1. n \in Nat \ {0} /\ n - 1 \in Nat /\ m \in Nat /\ n - 1 <= m /\ Len(ts) \in Nat
  BY NewHeights
<1> DEFINE j == n + Len(ts) - i
<1>2. i \in 1..Len(ts) /\ j \in Nat /\ j \in n..m /\ j \in 1..m /\ j \notin 1..n - 1
  BY <1>1 DEF OneOf, Replaced
<1> HIDE DEF j
<1>3. ASSUME NEW k \in Nat, k # j
      PROVE  (k \in 1..n - 1 /\ Is(p[k], op, c)) <=> (k \in 1..m /\ Is(q[k], op, c))
  <2>1. CASE k \in 1..n - 1
    BY <2>1, NewHeights
  <2>2. CASE k \in n..m
    <3>1. n + Len(ts) - k \in 1..Len(ts) /\ q[k] = ts[n + Len(ts) - k]
      BY <2>2, NewHeights
    <3>2. n + Len(ts) - k # i
      BY <1>1, <1>2, <1>3 DEF j
    <3>3. QED
      BY <3>1, <3>2, <2>2, <1>1 DEF OneOf
  <2>3. CASE k \notin 1..m
    BY <2>3, <1>1
  <2>4. QED
    BY <1>1, <2>1, <2>2, <2>3
<1>4. OneTask(p, n - 1, q, m, op, c, j)
  BY <1>3 DEF OneTask
<1>5. Is(q[j], op, c)
  BY <1>2 DEF OneOf, Replaced, j
<1>6. Count(q, m, op, c) = Count(p, n - 1, op, c) - Ind(j \in 1..n - 1 /\ Is(p[j], op, c))
                           + Ind(j \in 1..m /\ Is(q[j], op, c))
  BY <1>1, <1>4, CountOne
<1>7. Ind(j \in 1..n - 1 /\ Is(p[j], op, c)) = 0 /\ Ind(j \in 1..m /\ Is(q[j], op, c)) = 1
  BY <1>2, <1>5 DEF Ind
<1>8. Count(p, n - 1, op, c) \in Int
  BY <1>1, TasksFinite
<1>9. QED
  BY <1>1, <1>6, <1>7, <1>8, CountPop

\* h2 is h with other counts, and fields that have been cleared or that the
\* kind of their cell has.
HasField(h, c, f) ==
    /\ h[c].kind # "free"
    /\ f = 1 => h[c].kind \notin {"outer", "weakref"}
    /\ f = 2 => h[c].kind \notin {"userdata", "weakref"} /\ h[c].open = <<>>
SameBody(h, h2, c) ==
    /\ h2[c].kind = h[c].kind /\ h2[c].marked = h[c].marked /\ h2[c].link = h[c].link
    /\ h2[c].open = h[c].open /\ h2[c].box = h[c].box
Evolves(h, h2) ==
    /\ h2 \in [Cells -> Cell]
    /\ \A c \in Cells :
          /\ SameBody(h, h2, c)
          /\ h[c].kind = "free" \/ h[c].box = "dropped" => h2[c].refs = 0
          /\ \A f \in 1..2 : \/ h2[c].fields[f] \in {h[c].fields[f], None}
                             \/ HasField(h, c, f)

\* Cells stay well formed when fields are cleared or overwritten and counts
\* move.
LEMMA ShapeKept ==
    ASSUME NEW h, NEW h2, Shape(h), Evolves(h, h2)
    PROVE  Shape(h2)
<1>1. ASSUME NEW c \in Cells PROVE CellOK(h2, c)
  <2>1. /\ SameBody(h, h2, c)
        /\ h[c].kind = "free" \/ h[c].box = "dropped" => h2[c].refs = 0
        /\ \A f \in 1..2 : \/ h2[c].fields[f] \in {h[c].fields[f], None}
                           \/ HasField(h, c, f)
    BY DEF Evolves
  <2>2. CellOK(h, c)
    BY DEF Shape
  <2>3. h[c].link # None => h[c].link \in Cells /\ SameBody(h, h2, h[c].link)
    BY CellTypes DEF Evolves
  <2>4. h[c].open # <<>> => h[c].open[1] \in Cells /\ SameBody(h, h2, h[c].open[1])
    BY CellTypes DEF Evolves
  <2>5. QED
    BY <2>1, <2>2, <2>3, <2>4 DEF SameBody, CellOK, HasField
<1>2. QED
  BY <1>1 DEF Shape, Evolves

\* Objects leave the chain without harm to the others.
LEMMA ChainKept ==
    ASSUME NEW h, NEW h2, NEW ch, NEW ch2, ChainOK(h, ch), ch2 \subseteq ch,
           \A c \in Cells : h2[c].kind = h[c].kind /\ h2[c].marked = h[c].marked
    PROVE  ChainOK(h2, ch2)
  BY DEF ChainOK

\* Tasks below the replaced one stay sound when no cell becomes marked.
LEMMA TasksKept ==
    ASSUME NEW h, NEW h2, NEW p, NEW n, NEW q, NEW m, NEW ts, NEW st,
           TasksOK(h, p, n, st), Replaced(p, n, q, m, ts),
           \A c \in Cells : h2[c].marked => h[c].marked,
           \A k \in n..m : TaskOK(h2, q, m, st, k)
    PROVE  TasksOK(h2, q, m, st)
<1>1. ASSUME NEW k \in 1..n - 1 PROVE TaskOK(h2, q, m, st, k)
  <2>1. TaskOK(h, p, n, st, k) /\ q[k] = p[k] /\ n \in Nat \ {0} /\ k \in Nat /\ k # n
    BY NewHeights DEF TasksOK
  <2>2. p[k].op # "hook"
    BY <2>1 DEF TaskOK
  <2>3. \A j \in 1..k - 1 : j \in 1..n - 1 /\ q[j] = p[j]
    BY <2>1, NewHeights
  <2>4. Kept(p, k) => Kept(q, k)
    BY <2>1, <2>3 DEF Kept
  <2>5. q[k] \in TaskType
    <3>1. k \in 1..m
      BY NewHeights
    <3>2. QED
      BY <3>1 DEF Replaced
  <2>6. p[k].op = "null" => p[k].cell \in Cells
    BY <2>1, <2>5 DEF TaskOK, CellOps, TaskType
  <2>7. Written(p, k) => Written(q, k)
    BY <2>1, <2>3 DEF Written, Is
  <2>8. QED
    BY <2>1, <2>2, <2>4, <2>6, <2>7 DEF TaskOK
<1>2. QED
  BY <1>1, NewHeights DEF TasksOK

\* The step does for a block that is being freed what its top task says.
Settles(h, ch, h2, ch2, t, q, n, c) ==
    /\ \A f \in 1..2 : /\ h2[c].fields[f] \in {h[c].fields[f], None}
                       /\ Is(t, "null", c) /\ t.field = f => h2[c].fields[f] = None
    /\ c \in ch2 => c \in ch /\ ~Is(t, "unchain", c)
    /\ h2[c].box = "full" => h[c].box = "full" /\ ~Is(t, "hook", c)
    /\ \A o \in Cells : h2[o].open # <<>> /\ h2[o].open[1] = c =>
          /\ h[o].open # <<>> /\ h[o].open[1] = c
          /\ Is(t, "closeouters", c) => Is(q[n], "closeouters", c) /\ q[n].field = 0

\* A pending free stays prepared: each thing it waits for is done, or still
\* pending above it.
LEMMA FreesKept ==
    ASSUME NEW h, NEW ch, NEW h2, NEW ch2, NEW p, NEW n, NEW q, NEW m, NEW ts,
           FreesOK(h, ch, p, n), Replaced(p, n, q, m, ts),
           \A k \in n..m : q[k].op = "free" => FreeOK(h2, ch2, q, m, k),
           p[n].op = "closeouters" => Len(ts) > 0 \/ \A o \in Cells : h2[o].open # <<>> => h2[o].open[1] # p[n].cell,
           \A k \in 1..n - 1 : p[k].op = "free" => Settles(h, ch, h2, ch2, p[n], q, n, p[k].cell)
    PROVE  FreesOK(h2, ch2, q, m)
<1>1. SUFFICES ASSUME NEW k \in 1..n - 1, q[k].op = "free" PROVE FreeOK(h2, ch2, q, m, k)
  BY NewHeights DEF FreesOK
<1>2. n \in Nat \ {0} /\ n - 1 \in Nat /\ m \in Nat /\ Len(ts) \in Nat /\ n - 1 <= m
  BY NewHeights
<1>3. k \in 1..n - 1 /\ k \in 1..n /\ q[k] = p[k]
  BY <1>1, NewHeights
<1> DEFINE c == p[k].cell
<1>4. FreeOK(h, ch, p, n, k) /\ Settles(h, ch, h2, ch2, p[n], q, n, c)
  BY <1>1, <1>3 DEF FreesOK
<1>5. ASSUME NEW op, NEW f, Before(p, n, k, op, f), ~(Is(p[n], op, c) /\ p[n].field = f)
      PROVE  Before(q, m, k, op, f)
  <2>1. PICK j \in k + 1..n : Is(p[j], op, c) /\ p[j].field = f
    BY <1>5 DEF Before
  <2>2. j \in 1..n - 1 /\ j \in k + 1..m
    BY <2>1, <1>5, <1>2, <1>3
  <2>3. q[j] = p[j]
    BY <2>2, NewHeights
  <2>4. QED
    BY <2>1, <2>2, <2>3, <1>3 DEF Before
<1> HIDE DEF c
<1>6. ASSUME NEW f \in 1..2 PROVE h2[c].fields[f] = None \/ Before(q, m, k, "null", f)
  BY <1>4, <1>5 DEF FreeOK, Settles, c
<1>7. c \notin ch2 \/ Before(q, m, k, "unchain", 0)
  BY <1>4, <1>5 DEF FreeOK, Settles, c
<1>8. h2[c].box # "full" \/ Before(q, m, k, "hook", 0)
  BY <1>4, <1>5 DEF FreeOK, Settles, c
<1>9. \/ \A o \in Cells : h2[o].open # <<>> => h2[o].open[1] # c
      \/ Before(q, m, k, "closeouters", 0)
  <2>1. SUFFICES ASSUME NEW o \in Cells, h2[o].open # <<>>, h2[o].open[1] = c
                 PROVE  Before(q, m, k, "closeouters", 0)
    OBVIOUS
  <2>2. Before(p, n, k, "closeouters", 0)
    BY <2>1, <1>4 DEF FreeOK, Settles, c
  <2>3. CASE Is(p[n], "closeouters", c)
    <3>1. Len(ts) > 0
      BY <2>1, <2>3 DEF Is
    <3>2. n \in k + 1..m
      BY <3>1, <1>2, <1>3 DEF Replaced
    <3>3. Is(q[n], "closeouters", c) /\ q[n].field = 0
      BY <2>1, <2>3, <1>4 DEF Settles
    <3>4. QED
      BY <3>2, <3>3, <1>3 DEF Before, c
  <2>4. CASE ~Is(p[n], "closeouters", c)
    BY <2>2, <2>4, <1>5
  <2>5. QED
    BY <2>3, <2>4
<1>10. QED
  BY <1>3, <1>6, <1>7, <1>8, <1>9 DEF FreeOK, c

\* Marks and what they hold stay as they are.
LEMMA MarksKept ==
    ASSUME NEW h, NEW h2, NEW p, NEW n, NEW q, NEW m, NEW ts, NEW objs,
           MarksOK(h, p, n, objs), Replaced(p, n, q, m, ts),
           Marking(p, n) => Marking(q, m),
           \A c \in Cells : h2[c].marked = h[c].marked,
           \A c \in Cells : h[c].marked => \A f \in 1..2 : h[c].fields[f] = None \/ h2[c].fields[f] = h[c].fields[f]
    PROVE  MarksOK(h2, q, m, objs)
<1>1. SUFFICES ASSUME NEW c \in Cells, h2[c].marked PROVE Marking(q, m) /\ Anchored(h2, objs, c)
  BY DEF MarksOK
<1>2. Marking(p, n) /\ Anchored(h, objs, c)
  BY <1>1 DEF MarksOK
<1>3. QED
  BY <1>2, NoneAssumption DEF Anchored

\* A collection goes on until its unmark.
LEMMA MarkingKept ==
    ASSUME NEW p, NEW n, NEW q, NEW m, NEW ts, Replaced(p, n, q, m, ts),
           p[n].op # "unmark", p[n].ending # "unmark"
    PROVE  Marking(p, n) => Marking(q, m)
<1>1. SUFFICES ASSUME Marking(p, n) PROVE Marking(q, m)
  OBVIOUS
<1>2. n \in Nat \ {0} /\ n # 1
  BY <1>1, NewHeights DEF Marking
<1>3. 1 \in 1..n - 1
  BY <1>2
<1>4. q[1] = p[1] /\ m > 0
  BY <1>2, <1>3, NewHeights
<1>5. QED
  BY <1>1, <1>4 DEF Marking

\* No scope is being closed when the task on top is none that one leads to.
LEMMA ScopeNone ==
    ASSUME NEW h, NEW h2, NEW p, NEW n, NEW q, NEW m, NEW ts, NEW st,
           ScopeOK(h, p, n, st), Replaced(p, n, q, m, ts),
           p[n].op \notin {"drop", "unchain", "null", "clear", "free"},
           n = 1 => m = 0 \/ q[1].op # "closeouters"
    PROVE  ScopeOK(h2, q, m, st)
<1>1. n \in Nat \ {0} /\ m \in Nat /\ n - 1 <= m
  BY NewHeights
<1>2. CASE n = 1
  BY <1>1, <1>2 DEF ScopeOK
<1>3. CASE n # 1
  <2>1. 1 \in 1..n - 1 /\ n \in 2..n
    BY <1>1, <1>3
  <2>2. q[1] = p[1]
    BY <2>1, NewHeights
  <2>3. p[1].op # "closeouters"
    BY <1>1, <2>1 DEF ScopeOK, Passing
  <2>4. QED
    BY <2>2, <2>3 DEF ScopeOK
<1>4. QED
  BY <1>2, <1>3

\* Closing the outers of a thread: the values it moves stay in the stack of
\* the thread.
LEMMA ScopeKept ==
    ASSUME NEW h, NEW h2, NEW p, NEW n, NEW q, NEW m, NEW ts, NEW st,
           ScopeOK(h, p, n, st), Replaced(p, n, q, m, ts),
           n = 1 => m = 0 \/ q[1].op # "closeouters",
           p[1].op = "closeouters" /\ n > 1 /\ h[p[1].cell].kind = "thread"
             /\ Stays(h, p, n, p[1].cell) /\ (\A k \in 2..n : Passing(h, p[1].cell, p[k])) =>
               /\ h2[p[1].cell].kind = "thread" /\ Stays(h2, q, m, p[1].cell)
               /\ \A k \in 2..n - 1 : Passing(h2, p[1].cell, p[k])
               /\ \A k \in n..m : Passing(h2, p[1].cell, q[k])
    PROVE  ScopeOK(h2, q, m, st)
<1>1. n \in Nat \ {0} /\ m \in Nat /\ n - 1 <= m
  BY NewHeights
<1>2. CASE n = 1
  BY <1>1, <1>2 DEF ScopeOK
<1>3. CASE n # 1
  <2>1. 1 \in 1..n - 1 /\ n > 1
    BY <1>1, <1>3
  <2>2. q[1] = p[1]
    BY <2>1, NewHeights
  <2>3. SUFFICES ASSUME p[1].op = "closeouters"
                 PROVE  /\ h2[p[1].cell].kind = "thread" /\ st = "open"
                        /\ Stays(h2, q, m, p[1].cell)
                        /\ \A k \in 2..m : Passing(h2, p[1].cell, q[k])
    BY <2>2 DEF ScopeOK
  <2>4. /\ h[p[1].cell].kind = "thread" /\ st = "open"
        /\ Stays(h, p, n, p[1].cell)
        /\ \A k \in 2..n : Passing(h, p[1].cell, p[k])
    BY <1>1, <2>3 DEF ScopeOK
  <2>5. /\ h2[p[1].cell].kind = "thread" /\ Stays(h2, q, m, p[1].cell)
        /\ \A k \in 2..n - 1 : Passing(h2, p[1].cell, p[k])
        /\ \A k \in n..m : Passing(h2, p[1].cell, q[k])
    BY <2>1, <2>3, <2>4
  <2>6. ASSUME NEW k \in 2..m PROVE Passing(h2, p[1].cell, q[k])
    <3>1. CASE k \in n..m
      BY <3>1, <2>5
    <3>2. CASE k \notin n..m
      <4>1. k \in 2..n - 1 /\ k \in 1..n - 1
        BY <3>2, <1>1
      <4>2. QED
        BY <4>1, <2>5, NewHeights
    <3>3. QED
      BY <3>1, <3>2
  <2>7. QED
    BY <2>4, <2>5, <2>6
<1>4. QED
  BY <1>2, <1>3

-----------------------------------------------------------------------------
(* The tasks of a release and of a finalization.                           *)

IsTask(t, op, c) ==
    t \in TaskType /\ t.op = op /\ t.cell = c /\ t.field = 0 /\ t.ending = ""
IsNull(t, c, f) ==
    t \in TaskType /\ t.op = "null" /\ t.cell = c /\ t.field = f /\ t.ending = ""
IsNext(t, c, S, e) ==
    t \in TaskType /\ t.op = "advance" /\ t.cell = c /\ t.todo = S /\ t.ending = e

\* The components of a task on a cell.
LEMMA TaskFacts ==
    ASSUME NEW c \in Cells \cup {None}, NEW op \in CellOps \cup LoneOps
    PROVE  IsTask(Task(op, c), op, c)
  BY DEF Task, TaskType, IsTask

\* The components of a task that clears a field.
LEMMA NullFacts ==
    ASSUME NEW c \in Cells, NEW f \in 1..2
    PROVE  IsNull(NullTask(c, f), c, f)
<1> DEFINE r == Task("null", c)
<1>1. r \in TaskType /\ r.op = "null" /\ r.cell = c /\ r.ending = ""
  BY DEF Task, TaskType, CellOps
<1> HIDE DEF r
<1>2. NullTask(c, f) = [r EXCEPT !.field = f]
  BY DEF NullTask, r
<1>3. f \in 0..2
  OBVIOUS
<1>4. QED
  BY <1>1, <1>2, <1>3 DEF TaskType, IsNull

\* The components of a task that goes on with a sweep.
LEMMA NextFacts ==
    ASSUME NEW c \in Cells, NEW S \in SUBSET Cells, NEW e \in {"unmark", "closed"}
    PROVE  IsNext(NextTask(c, S, e), c, S, e)
<1> DEFINE r == Task("advance", c)
<1>1. r \in TaskType /\ r.op = "advance" /\ r.cell = c
  BY DEF Task, TaskType, CellOps
<1> HIDE DEF r
<1>2. NextTask(c, S, e) = [r EXCEPT !.todo = S, !.ending = e]
  BY DEF NextTask, r
<1>3. QED
  BY <1>1, <1>2 DEF TaskType, IsNext

IsFour(s, S, a, b, c, d) ==
    s \in Seq(S) /\ Len(s) = 4 /\ s[1] = a /\ s[2] = b /\ s[3] = c /\ s[4] = d
\* A sequence of four tasks, element by element.
LEMMA FourTasks ==
    ASSUME NEW S, NEW a \in S, NEW b \in S, NEW c \in S, NEW d \in S
    PROVE  IsFour(<<a>> \o <<b>> \o <<c>> \o <<d>>, S, a, b, c, d)
<1> DEFINE u == <<a>> \o <<b>>
           x == <<c>>
           y == <<d>>
           v == u \o x
           s == v \o y
<1>1. u \in Seq(S) /\ Len(u) = 2 /\ u[1] = a /\ u[2] = b
  OBVIOUS
<1>2. x \in Seq(S) /\ Len(x) = 1 /\ x[1] = c
  OBVIOUS
<1>3. y \in Seq(S) /\ Len(y) = 1 /\ y[1] = d
  OBVIOUS
<1> HIDE DEF u, x, y
<1>4. v \in Seq(S) /\ Len(v) = 3 /\ v[1] = a /\ v[2] = b /\ v[3] = c
  <2>1. /\ v \in Seq(S) /\ Len(v) = Len(u) + Len(x)
        /\ \A i \in 1..Len(u) + Len(x) :
              v[i] = IF i <= Len(u) THEN u[i] ELSE x[i - Len(u)]
    BY <1>1, <1>2, ConcatProperties
  <2> HIDE DEF v
  <2>2. QED
    BY <1>1, <1>2, <2>1
<1> HIDE DEF v
<1>5. s \in Seq(S) /\ Len(s) = 4 /\ s[1] = a /\ s[2] = b /\ s[3] = c /\ s[4] = d
  <2>1. /\ s \in Seq(S) /\ Len(s) = Len(v) + Len(y)
        /\ \A i \in 1..Len(v) + Len(y) :
              s[i] = IF i <= Len(v) THEN v[i] ELSE y[i - Len(v)]
    BY <1>3, <1>4, ConcatProperties
  <2> HIDE DEF s
  <2>2. QED
    BY <1>3, <1>4, <2>1
<1> HIDE DEF s
<1>6. IsFour(s, S, a, b, c, d)
  BY <1>5 DEF IsFour
<1>7. QED
  BY <1>6 DEF s, v, u, x, y

\* FinalizeTasks closes outers and clears fields, and does nothing else.
ClearsOnly(t, c) == /\ t.cell = c /\ t.ending = ""
                    /\ t.op = "closeouters" \/ (t.op = "null" /\ t.field \in 1..2)
Finalizes(ts, c) ==
    ts \in Seq(TaskType) /\ Len(ts) \in 1..3 /\ \A j \in 1..Len(ts) : ClearsOnly(ts[j], c)

\* Finalize clears fields and closes outers of its own object only.
LEMMA FinalizeShape ==
    ASSUME NEW c \in Cells, heap[c].kind \in Kinds
    PROVE  Finalizes(FinalizeTasks(c), c)
<1> DEFINE n1 == NullTask(c, 1)
           n2 == NullTask(c, 2)
           co == Task("closeouters", c)
<1>1. IsNull(n1, c, 1) /\ IsNull(n2, c, 2)
  BY NullFacts
<1>2. IsTask(co, "closeouters", c)
  BY TaskFacts DEF CellOps
<1> HIDE DEF n1, n2, co
<1>3. /\ n1 \in TaskType /\ n2 \in TaskType /\ co \in TaskType
      /\ ClearsOnly(n1, c) /\ ClearsOnly(n2, c) /\ ClearsOnly(co, c)
  <2>1. 1 \in 1..2 /\ 2 \in 1..2
    OBVIOUS
  <2>2. QED
    BY <2>1, <1>1, <1>2, Zenon DEF ClearsOnly, IsNull, IsTask
<1>4. FinalizeTasks(c) \in {<<n2, n1>>, <<n1, n2>>, <<n1>>, <<n2>>, <<co, n1, n2>>}
  BY DEF FinalizeTasks, Kinds, n1, n2, co
<1>5. Finalizes(<<n2, n1>>, c)
  BY <1>2, <1>3 DEF Finalizes
<1>6. Finalizes(<<n1, n2>>, c)
  BY <1>2, <1>3 DEF Finalizes
<1>7. Finalizes(<<n1>>, c)
  BY <1>2, <1>3 DEF Finalizes
<1>8. Finalizes(<<n2>>, c)
  BY <1>2, <1>3 DEF Finalizes
<1>9. Finalizes(<<co, n1, n2>>, c)
  BY <1>2, <1>3 DEF Finalizes
<1>10. QED
  BY <1>4, <1>5, <1>6, <1>7, <1>8, <1>9

\* ReleaseTasks ends with the block, after all that this kind of object needs.
Some(ts, op, f) == \E j \in 1..Len(ts) - 1 : ts[j].op = op /\ ts[j].field = f
ReleasesOnly(t, c) ==
    /\ t.cell = c /\ t.ending = "" /\ t.op \in {"null", "unchain", "hook", "closeouters"}
    /\ t.op = "null" => t.field \in 1..2
Releases(ts, k, c) ==
    /\ ts \in Seq(TaskType) /\ Len(ts) \in 1..5 /\ ts[Len(ts)] = Task("free", c)
    /\ \A j \in 1..Len(ts) - 1 : /\ ReleasesOnly(ts[j], c)
                                 /\ ts[j].op = "hook" => j = 1 /\ k = "userdata"
                                 /\ k = "outer" => ts[j].op \in {"null", "unchain"}
    /\ Some(ts, "null", 1) \/ k \in {"outer", "weakref"}
    /\ Some(ts, "null", 2) \/ k \in {"userdata", "weakref"}
    /\ Some(ts, "unchain", 0) \/ k = "weakref"
    /\ Some(ts, "hook", 0) \/ k # "userdata"
    /\ Some(ts, "closeouters", 0) \/ k # "thread"

\* Release clears what its kind of object holds before it frees it.
LEMMA ReleaseShape ==
    ASSUME NEW c \in Cells, heap[c].kind \in Kinds \cup {"weakref"}
    PROVE  Releases(ReleaseTasks(c), heap[c].kind, c)
<1> DEFINE k == heap[c].kind
           n1 == NullTask(c, 1)
           n2 == NullTask(c, 2)
           co == Task("closeouters", c)
           un == Task("unchain", c)
           hk == Task("hook", c)
           fr == Task("free", c)
           ts == ReleaseTasks(c)
<1>1. IsNull(n1, c, 1) /\ IsNull(n2, c, 2)
  BY NullFacts
<1>2. /\ IsTask(co, "closeouters", c) /\ IsTask(un, "unchain", c)
      /\ IsTask(hk, "hook", c) /\ IsTask(fr, "free", c)
  BY TaskFacts DEF CellOps
<1> HIDE DEF n1, n2, co, un, hk, fr, k
<1>3. /\ n1 \in TaskType /\ n2 \in TaskType /\ co \in TaskType /\ un \in TaskType
      /\ hk \in TaskType /\ fr \in TaskType
  BY <1>1, <1>2 DEF IsNull, IsTask
<1>4. /\ ReleasesOnly(n1, c) /\ n1.op = "null" /\ n1.field = 1
      /\ ReleasesOnly(n2, c) /\ n2.op = "null" /\ n2.field = 2
      /\ ReleasesOnly(co, c) /\ co.op = "closeouters" /\ co.field = 0
      /\ ReleasesOnly(un, c) /\ un.op = "unchain" /\ un.field = 0
      /\ ReleasesOnly(hk, c) /\ hk.op = "hook" /\ hk.field = 0
  <2>1. 1 \in 1..2 /\ 2 \in 1..2
    OBVIOUS
  <2>2. QED
    BY <2>1, <1>1, <1>2, Zenon DEF ReleasesOnly, IsNull, IsTask
<1>5. CASE k = "table"
  <2>1. ts = <<n1>> \o <<un>> \o <<n2>> \o <<fr>>
    BY <1>5 DEF ReleaseTasks, n1, un, n2, fr, k
  <2>2. ts \in Seq(TaskType) /\ Len(ts) = 4 /\ ts[1] = n1 /\ ts[2] = un /\ ts[3] = n2 /\ ts[4] = fr
    <3>1. IsFour(ts, TaskType, n1, un, n2, fr)
      BY <2>1, <1>3, FourTasks
    <3> HIDE DEF ts
    <3>2. QED
      BY <3>1 DEF IsFour
  <2>3. QED
    BY <2>2, <1>3, <1>4, <1>5 DEF Releases, Some, fr, k
<1>6. CASE k = "userdata"
  <2>1. ts = <<hk>> \o <<un>> \o <<n1>> \o <<fr>>
    BY <1>6 DEF ReleaseTasks, n1, un, hk, fr, k
  <2>2. ts \in Seq(TaskType) /\ Len(ts) = 4 /\ ts[1] = hk /\ ts[2] = un /\ ts[3] = n1 /\ ts[4] = fr
    <3>1. IsFour(ts, TaskType, hk, un, n1, fr)
      BY <2>1, <1>3, FourTasks
    <3> HIDE DEF ts
    <3>2. QED
      BY <3>1 DEF IsFour
  <2>3. QED
    BY <2>2, <1>3, <1>4, <1>6 DEF Releases, Some, fr, k
<1>7. CASE k = "class"
  <2>1. ts = <<un>> \o <<n2, n1>> \o <<fr>>
    BY <1>7 DEF ReleaseTasks, FinalizeTasks, n1, un, n2, fr, k
  <2>2. ts \in Seq(TaskType) /\ Len(ts) = 4 /\ ts[1] = un /\ ts[2] = n2 /\ ts[3] = n1 /\ ts[4] = fr
    BY <2>1, <1>3
  <2>3. QED
    BY <2>2, <1>3, <1>4, <1>7 DEF Releases, Some, fr, k
<1>8. CASE k = "instance"
  <2>1. ts = <<un>> \o <<n1, n2>> \o <<fr>>
    BY <1>8 DEF ReleaseTasks, FinalizeTasks, n1, un, n2, fr, k
  <2>2. ts \in Seq(TaskType) /\ Len(ts) = 4 /\ ts[1] = un /\ ts[2] = n1 /\ ts[3] = n2 /\ ts[4] = fr
    BY <2>1, <1>3
  <2>3. QED
    BY <2>2, <1>3, <1>4, <1>8 DEF Releases, Some, fr, k
<1>9. CASE k = "outer"
  <2>1. ts = <<un>> \o <<n2>> \o <<fr>>
    BY <1>9 DEF ReleaseTasks, FinalizeTasks, n1, un, n2, fr, k
  <2>2. ts \in Seq(TaskType) /\ Len(ts) = 3 /\ ts[1] = un /\ ts[2] = n2 /\ ts[3] = fr
    BY <2>1, <1>3
  <2>3. QED
    BY <2>2, <1>3, <1>4, <1>9 DEF Releases, Some, fr, k
<1>10. CASE k = "closure"
  <2>1. ts = <<n2, n1>> \o <<un>> \o <<fr>>
    BY <1>10 DEF ReleaseTasks, n1, un, n2, fr, k
  <2>2. ts \in Seq(TaskType) /\ Len(ts) = 4 /\ ts[1] = n2 /\ ts[2] = n1 /\ ts[3] = un /\ ts[4] = fr
    BY <2>1, <1>3
  <2>3. QED
    BY <2>2, <1>3, <1>4, <1>10 DEF Releases, Some, fr, k
<1>11. CASE k = "thread"
  <2>1. ts = <<co, n1, n2>> \o <<un>> \o <<fr>>
    BY <1>11 DEF ReleaseTasks, FinalizeTasks, n1, un, n2, co, fr, k
  <2>2. ts \in Seq(TaskType) /\ Len(ts) = 5 /\ ts[1] = co /\ ts[2] = n1 /\ ts[3] = n2 /\ ts[4] = un /\ ts[5] = fr
    BY <2>1, <1>3
  <2>3. QED
    BY <2>2, <1>3, <1>4, <1>11 DEF Releases, Some, fr, k
<1>12. CASE k = "weakref"
  <2>1. ts = <<fr>>
    BY <1>12 DEF ReleaseTasks, fr, k
  <2>2. QED
    BY <2>1, <1>3, <1>12 DEF Releases, Some, fr, k
<1>13. QED
  BY <1>5, <1>6, <1>7, <1>8, <1>9, <1>10, <1>11, <1>12 DEF Kinds, k

-----------------------------------------------------------------------------
(* Assignments to a cell.                                                  *)

WithRefs(h, c, r) == [h EXCEPT ![c].refs = r]
RefsAre(h, h2, c, r) ==
    /\ h2 \in [Cells -> Cell]
    /\ \A x \in Cells : /\ SameBody(h, h2, x) /\ h2[x].fields = h[x].fields
                        /\ h2[x].refs = IF x = c THEN r ELSE h[x].refs
\* The heap after an assignment to a count.
LEMMA RefsAssigned ==
    ASSUME NEW h \in [Cells -> Cell], NEW c \in Cells, NEW r \in Nat
    PROVE  RefsAre(h, WithRefs(h, c, r), c, r)
<1> DEFINE new == [h[c] EXCEPT !.refs = r]
           h2 == WithRefs(h, c, r)
<1>1. h[c] \in Cell /\ h2 = [h EXCEPT ![c] = new]
  BY DEF WithRefs
<1>2. /\ new \in Cell /\ new.refs = r /\ new.fields = h[c].fields /\ new.kind = h[c].kind
      /\ new.marked = h[c].marked /\ new.link = h[c].link /\ new.open = h[c].open
      /\ new.box = h[c].box
  BY <1>1 DEF Cell
<1> HIDE DEF new, h2
<1>3. RefsAre(h, h2, c, r)
  BY <1>1, <1>2 DEF SameBody, RefsAre
<1>4. QED
  BY <1>3 DEF h2

\* h2 is h with a reference more to v.
Counted(h, h2, v) ==
    /\ h2 \in [Cells -> Cell]
    /\ \A x \in Cells : /\ SameBody(h, h2, x) /\ h2[x].fields = h[x].fields
                        /\ h2[x].refs = h[x].refs + Ind(x = v)

\* __AddRef raises the count of a value that is an object.
LEMMA AddRefToCounts ==
    ASSUME NEW h \in [Cells -> Cell], NEW v \in Cells \cup {None}
    PROVE  Counted(h, AddRefTo(h, v), v)
<1>0. \A x \in Cells : h[x].refs \in Nat
  BY DEF Cell
<1>1. CASE v = None
  <2>1. \A x \in Cells : Ind(x = v) = 0
    BY <1>1, NoneAssumption DEF Ind
  <2>2. QED
    BY <1>0, <1>1, <2>1 DEF AddRefTo, Counted, SameBody
<1>2. CASE v # None
  <2>1. v \in Cells
    BY <1>2
  <2> DEFINE r == h[v].refs + 1
             h2 == AddRefTo(h, v)
  <2>2. r \in Nat /\ h2 = WithRefs(h, v, r)
    BY <1>0, <1>2, <2>1 DEF AddRefTo, WithRefs
  <2> HIDE DEF h2, r
  <2>3. RefsAre(h, h2, v, r)
    BY <2>1, <2>2, RefsAssigned
  <2>4. \A x \in Cells : h2[x].refs = h[x].refs + Ind(x = v)
    BY <2>1, <2>3, <1>0 DEF Ind, r, RefsAre
  <2>5. QED
    BY <2>3, <2>4 DEF Counted, h2, RefsAre
<1>3. QED
  BY <1>1, <1>2

WithField(h, c, f, v) == [h EXCEPT ![c].fields[f] = v]
FieldIs(h, h2, c, f, v) ==
    /\ h2 \in [Cells -> Cell]
    /\ \A x \in Cells :
          /\ SameBody(h, h2, x) /\ h2[x].refs = h[x].refs
          /\ \A g \in 1..2 : h2[x].fields[g] = IF x = c /\ g = f THEN v ELSE h[x].fields[g]
\* The heap after an assignment to a field.
LEMMA FieldAssigned ==
    ASSUME NEW h \in [Cells -> Cell], NEW c \in Cells, NEW f \in 1..2, NEW v \in Cells \cup {None}
    PROVE  FieldIs(h, WithField(h, c, f, v), c, f, v)
<1>1. h[c] \in Cell /\ h[c].fields \in [1..2 -> Cells \cup {None}]
  BY DEF Cell
<1> DEFINE fs == [h[c].fields EXCEPT ![f] = v]
           new == [h[c] EXCEPT !.fields = fs]
           h2 == WithField(h, c, f, v)
<1>2. fs \in [1..2 -> Cells \cup {None}] /\ \A g \in 1..2 : fs[g] = IF g = f THEN v ELSE h[c].fields[g]
  BY <1>1
<1>3. h2 = [h EXCEPT ![c] = new]
  BY DEF WithField
<1> HIDE DEF fs
<1>4. /\ new \in Cell /\ new.refs = h[c].refs /\ new.fields = fs /\ new.kind = h[c].kind
      /\ new.marked = h[c].marked /\ new.link = h[c].link /\ new.open = h[c].open
      /\ new.box = h[c].box
  BY <1>1, <1>2 DEF Cell
<1> HIDE DEF new, h2
<1>5. FieldIs(h, h2, c, f, v)
  BY <1>2, <1>3, <1>4 DEF SameBody, FieldIs
<1>6. QED
  BY <1>5 DEF h2

-----------------------------------------------------------------------------
(* Steps of a running call.                                                *)

\* What is listed follows from the lists.
LEMMA ListsSame ==
    ASSUME UNCHANGED lists
    PROVE  Listed' = Listed
  BY DEF lists, Listed, Lists

\* RemoveFromChain takes objects from the lists; it makes none be lost if none
\* was.
LEMMA ChainLeft ==
    ASSUME ListsOK, NEW gone, NEW turn \in [Cells -> Nat], RemoveFromChain(gone, turn)
    PROVE  /\ ListsOK' /\ Listed' = Listed \ gone
           /\ lost = {} => lost' = {} /\ chain' = chain \ gone
<1>1. PICK l \in Lists : chain' = l \ gone /\ lost' = {k \ gone : k \in Lists \ {l}} \ {{}}
  BY DEF RemoveFromChain
<1>2. ASSUME NEW x
      PROVE  (\E k \in Lists' : x \in k) <=> (\E k \in Lists : x \in k \ gone)
  <2>1. ASSUME NEW k \in Lists', x \in k PROVE \E j \in Lists : x \in j \ gone
    BY <2>1, <1>1 DEF Lists
  <2>2. ASSUME NEW k \in Lists, x \in k \ gone PROVE \E j \in Lists' : x \in j
    <3>1. k \ gone # {}
      BY <2>2
    <3>2. k \ gone \in Lists'
      BY <3>1, <1>1 DEF Lists
    <3>3. QED
      BY <3>2, <2>2
  <2>3. QED
    BY <2>1, <2>2
<1>3. Listed' = Listed \ gone
  BY <1>2 DEF Listed
<1>4. Lists' \subseteq SUBSET Cells
  BY <1>1 DEF ListsOK, Lists
<1>5. place' \in [Cells -> Nat]
  <2>1. ASSUME NEW c \in Cells
        PROVE  Cardinality({x \in Mates(c) \ gone : place[x] <= place[c]}) \in Nat
    <3>1. {x \in Mates(c) \ gone : place[x] <= place[c]} \subseteq Cells
      BY DEF Mates
    <3>2. QED
      BY <3>1, CellsAssumption, FS_Subset, FS_CardinalityType
  <2>2. QED
    BY <2>1 DEF RemoveFromChain
<1>6. lost = {} => lost' = {} /\ chain' = chain \ gone
  BY <1>1 DEF Lists
<1>7. QED
  BY <1>3, <1>4, <1>5, <1>6 DEF ListsOK

\* AddToChain adds its objects to the list that _gc_chain heads.
LEMMA ChainMore ==
    ASSUME ListsOK, NEW objs \in SUBSET Cells, NEW c, AddToChain(objs, c)
    PROVE  ListsOK' /\ Listed' = Listed \cup objs /\ lost' = lost /\ chain' = chain \cup objs
<1>1. chain' = chain \cup objs /\ lost' = lost
  BY DEF AddToChain
<1>2. Listed' = Listed \cup objs
  BY <1>1 DEF Listed, Lists
<1>3. Lists' \subseteq SUBSET Cells
  BY <1>1 DEF ListsOK, Lists
<1>4. Cardinality(chain) \in Nat /\ Cardinality(objs) \in Nat
  <2>1. chain \subseteq Cells
    BY DEF ListsOK, Lists
  <2>2. QED
    BY <2>1, CellsAssumption, FS_Subset, FS_CardinalityType
<1>5. place' \in [Cells -> Nat]
  <2> DEFINE a == Cardinality(chain)
             b == Cardinality(objs)
  <2>1. place \in [Cells -> Nat] /\ a \in Nat /\ b \in Nat
    BY <1>4 DEF ListsOK
  <2>2. place' = [x \in Cells |-> IF x \notin objs THEN place[x] ELSE a + IF x = c THEN b ELSE 1]
    BY DEF AddToChain
  <2> HIDE DEF a, b
  <2>3. QED
    BY <2>1, <2>2
<1>6. QED
  BY <1>1, <1>2, <1>3, <1>5 DEF ListsOK

\* A step of the running call as a change of the turned stack.
LEMMA WorkSetup ==
    ASSUME IInv, work # <<>>, NEW ts \in Seq(TaskType), work' = ts \o Tail(work)
    PROVE  /\ work' \in Seq(TaskType)
           /\ Replaced(Pile(work), Len(work), Pile(work'), Len(work'), ts)
           /\ Pile(work)[Len(work)] = Head(work)
           /\ HeapInv(heap, Listed, Pile(work), Len(work), Objs, status)
<1>1. work \in Seq(TaskType) /\ HeapInv(heap, Listed, Pile(work), Len(work), Objs, status)
  BY DEF IInv, TypeInv
<1>2. QED
  BY <1>1, PileThen

\* A step of the running call leaves the handle table and the program alone.
LEMMA WorkDone ==
    ASSUME IInv, UNCHANGED <<table, held, leaked, uses, ops, status>>, work' \in Seq(TaskType),
           UNCHANGED lists \/ ListsOK',
           HeapInv(heap', Listed', Pile(work'), Len(work'), Objs, status)
    PROVE  IInv'
<1>1. Nodes' = Nodes /\ Objs' = Objs /\ Slots' = Slots
  BY DEF Nodes, Objs, Slots
<1>2. TypeInv'
  BY DEF IInv, TypeInv, ListsOK, Lists, lists
<1>3. TableOK'
  BY <1>1 DEF IInv, TableOK
<1>4. HandlesInv'
  BY <1>1 DEF IInv, HandlesInv
<1>5. HeapInv(heap, Listed, Pile(work), Len(work), Objs, status)'
  BY <1>1
<1>6. QED
  BY <1>2, <1>3, <1>4, <1>5 DEF IInv

\* What the invariant says about the next task.
LEMMA WorkTop ==
    ASSUME IInv, work # <<>>
    PROVE  /\ Len(work) \in Nat \ {0} /\ Pile(work)[Len(work)] = Head(work)
           /\ HeapInv(heap, Listed, Pile(work), Len(work), Objs, status)
           /\ Referred(heap, Pile(work), Len(work), Objs, status)
           /\ TaskOK(heap, Pile(work), Len(work), status, Len(work))
           /\ Head(work) \in TaskType /\ Here = Pile(work)[Len(work)].cell
           /\ Head(work).op \in CellOps => Here \in Cells /\ heap[Here].kind # "free"
<1>1. work \in Seq(TaskType) /\ HeapInv(heap, Listed, Pile(work), Len(work), Objs, status)
  BY DEF IInv, TypeInv
<1>2. Len(work) \in Nat \ {0} /\ Head(work) = work[1]
  BY <1>1
<1>3. Len(work) \in 1..Len(work)
  BY <1>2
<1>4. Pile(work)[Len(work)] = Head(work) /\ Head(work) \in TaskType
  BY <1>1, <1>2 DEF Pile
<1>5. TaskOK(heap, Pile(work), Len(work), status, Len(work))
  BY <1>1, <1>3 DEF HeapInv, TasksOK
<1>6. Head(work).op \in CellOps => Here \in LiveIn(heap)
  BY <1>1, <1>3, <1>4, TasksLive DEF Here
<1>7. QED
  BY <1>1, <1>2, <1>4, <1>5, <1>6, InvReferred DEF Here, LiveIn

\* Fields, kinds and open outers decide what passes while a scope is closed.
LEMMA PassingSame ==
    ASSUME NEW h, NEW h2, NEW th \in Cells, NEW t \in TaskType, t.cell # None,
           \A x \in Cells : /\ h2[x].kind = h[x].kind /\ h2[x].open = h[x].open
                            /\ \A g \in 1..2 : h2[x].fields[g] = h[x].fields[g],
           Passing(h, th, t)
    PROVE  Passing(h2, th, t)
<1>1. t.cell \in Cells
  BY DEF TaskType
<1>2. \A v : InStack(h, th, v) => InStack(h2, th, v)
  BY DEF InStack
<1>3. h2[t.cell].fields[2] = h[t.cell].fields[2]
  BY <1>1
<1>4. QED
  BY <1>1, <1>2, <1>3 DEF Passing

\* The thread of a scope, and the tasks above it.
LEMMA ScopeThread ==
    ASSUME NEW h, NEW ch, NEW p, NEW n, NEW objs, NEW st, HeapInv(h, ch, p, n, objs, st),
           n > 0, p[1].op = "closeouters"
    PROVE  /\ p[1].cell \in Cells /\ h[p[1].cell].kind = "thread" /\ Stays(h, p, n, p[1].cell)
           /\ \A k \in 2..n : /\ Passing(h, p[1].cell, p[k]) /\ p[k] \in TaskType
                              /\ p[k].cell # None /\ p[k].cell \in Cells
<1>1. /\ n \in Nat /\ p \in [1..n -> TaskType] /\ TasksOK(h, p, n, st) /\ ScopeOK(h, p, n, st)
  BY DEF HeapInv
<1>2. ASSUME NEW k \in 1..n, p[k].op \in CellOps PROVE p[k] \in TaskType /\ p[k].cell # None /\ p[k].cell \in Cells
  <2>1. p[k] \in TaskType /\ TaskOK(h, p, n, st, k)
    BY <1>1 DEF TasksOK
  <2>2. QED
    BY <2>1, <1>2 DEF TaskType, TaskOK
<1>3. 1 \in 1..n /\ p[1].op \in CellOps
  BY <1>1 DEF CellOps
<1>4. /\ h[p[1].cell].kind = "thread" /\ Stays(h, p, n, p[1].cell)
      /\ \A k \in 2..n : Passing(h, p[1].cell, p[k])
  BY <1>1 DEF ScopeOK
<1>5. ASSUME NEW k \in 2..n PROVE p[k] \in TaskType /\ p[k].cell # None /\ p[k].cell \in Cells
  <2>1. k \in 1..n /\ p[k].op \in CellOps
    BY <1>1, <1>4 DEF Passing, CellOps
  <2>2. QED
    BY <2>1, <1>2
<1>6. QED
  BY <1>2, <1>3, <1>4, <1>5

\* __Release takes one reference, and starts the release of the block with the
\* last one.
LEMMA DropRefKeeps ==
    ASSUME IInv, DropRef
    PROVE  IInv'
<1> DEFINE c == Here
           p == Pile(work)
           n == Len(work)
           q == Pile(work')
           m == Len(work')
           left == heap[c].refs - 1
           gone == left = 0 /\ ~heap[c].marked
           ts == IF gone THEN ReleaseTasks(c) ELSE <<>>
<1>1. /\ work # <<>> /\ Head(work).op = "drop" /\ heap' = WithRefs(heap, c, left)
      /\ work' = ts \o Tail(work) /\ UNCHANGED <<lists, Listed, table, held, leaked, uses, ops, status>>
  BY ListsSame DEF DropRef, Doing, Then, WithRefs, Here
<1>2. /\ n \in Nat \ {0} /\ p[n] = Head(work) /\ HeapInv(heap, Listed, p, n, Objs, status)
      /\ Referred(heap, p, n, Objs, status) /\ TaskOK(heap, p, n, status, n) /\ c = p[n].cell
  BY <1>1, WorkTop
<1>3. /\ Shape(heap) /\ ChainOK(heap, Listed) /\ Exact(heap, p, n, Objs, status)
      /\ Released(heap, p, n) /\ TasksOK(heap, p, n, status) /\ FreesOK(heap, Listed, p, n)
      /\ MarksOK(heap, p, n, Objs) /\ ScopeOK(heap, p, n, status) /\ p \in [1..n -> TaskType]
      /\ Objs \subseteq Cells /\ (status = "open" => heap[Root].kind = "thread")
  BY <1>2 DEF HeapInv
<1>4. n \in 1..n /\ p[n].op = "drop"
  BY <1>1, <1>2
<1>5. /\ c \in Cells /\ heap[c].refs > 0 /\ heap[c].kind # "free" /\ heap[c].refs \in Nat
      /\ left \in Nat /\ heap[c].box # "dropped" /\ heap[c].kind \in Kinds \cup {"weakref"}
      /\ c # None
  <2>1. c \in Cells /\ heap[c].refs > 0
    BY <1>2, <1>4 DEF Referred
  <2>2. CellOK(heap, c) /\ heap[c].refs \in Nat /\ heap[c].kind \in Kinds \cup {"weakref", "free"}
    BY <2>1, <1>3, CellTypes DEF Shape
  <2>3. heap[c].kind # "free" /\ heap[c].box # "dropped"
    BY <2>1, <2>2 DEF CellOK
  <2>4. QED
    BY <2>1, <2>2, <2>3, NoneAssumption
<1>6. gone => Releases(ts, heap[c].kind, c)
  BY <1>5, ReleaseShape
<1>7. ts \in Seq(TaskType) /\ (~gone => ts = <<>> /\ Len(ts) = 0)
  BY <1>6 DEF Releases
<1>8. work' \in Seq(TaskType) /\ Replaced(p, n, q, m, ts)
  BY <1>1, <1>7, WorkSetup
<1>9. RefsAre(heap, heap', c, left)
  BY <1>1, <1>3, <1>5, RefsAssigned DEF Shape
<1> HIDE DEF c, p, n, q, m, left, ts
<1>10. \A x \in Cells : /\ SameBody(heap, heap', x) /\ heap'[x].fields = heap[x].fields
                        /\ heap'[x].refs = heap[x].refs - Ind(x = c)
  <2>1. \A x \in Cells : heap[x].refs \in Nat
    BY <1>3, CellTypes
  <2>2. QED
    BY <1>5, <1>9, <2>1 DEF RefsAre, left, Ind
<1>11. gone => /\ \A j \in 1..Len(ts) - 1 : ReleasesOnly(ts[j], c)
               /\ Len(ts) \in Nat \ {0} /\ Is(ts[Len(ts)], "free", c)
               /\ ts[Len(ts)].ending = ""
               /\ \A j \in 1..Len(ts) : j \in 1..Len(ts) - 1 \/ j = Len(ts)
  <2>1. SUFFICES ASSUME gone PROVE /\ \A j \in 1..Len(ts) - 1 : ReleasesOnly(ts[j], c)
                                   /\ Len(ts) \in Nat \ {0} /\ Is(ts[Len(ts)], "free", c)
                                   /\ ts[Len(ts)].ending = ""
                                   /\ \A j \in 1..Len(ts) : j \in 1..Len(ts) - 1 \/ j = Len(ts)
    OBVIOUS
  <2>2. IsTask(Task("free", c), "free", c)
    BY <1>5, TaskFacts DEF CellOps
  <2>3. ts[Len(ts)] = Task("free", c) /\ Len(ts) \in Nat \ {0}
        /\ \A j \in 1..Len(ts) - 1 : ReleasesOnly(ts[j], c)
    BY <2>1, <1>6 DEF Releases
  <2>4. Is(ts[Len(ts)], "free", c) /\ ts[Len(ts)].ending = ""
    BY <2>2, <2>3, Zenon DEF IsTask, Is
  <2>5. Len(ts) \in Nat \ {0} => \A j \in 1..Len(ts) : j \in 1..Len(ts) - 1 \/ j = Len(ts)
    OBVIOUS
  <2>6. QED
    BY <2>3, <2>4, <2>5
<1>12. ASSUME NEW x, NEW op \in {"drop", "advance"} PROVE NoneOf(ts, op, x)
  <2>1. CASE gone
    <3>1. ASSUME NEW j \in 1..Len(ts) PROVE ts[j].op # op
      <4>1. j \in 1..Len(ts) - 1 \/ j = Len(ts)
        BY <2>1, <1>11
      <4>2. QED
        BY <4>1, <2>1, <1>11 DEF ReleasesOnly, Is
    <3>2. QED
      BY <3>1 DEF NoneOf, Is
  <2>2. QED
    BY <2>1, <1>7 DEF NoneOf
<1>13. Shape(heap')
  <2>1. Evolves(heap, heap')
    BY <1>3, <1>5, <1>9, <1>10 DEF Evolves, RefsAre, Shape, CellOK
  <2>2. QED
    BY <2>1, <1>3, ShapeKept
<1>14. ChainOK(heap', Listed)
  BY <1>3, <1>10 DEF ChainOK, SameBody
<1>15. Exact(heap', q, m, Objs, status)
  <2>1. SUFFICES ASSUME NEW x \in Cells
                 PROVE  heap'[x].refs = FieldRefs(heap', x) + Ind(x \in Objs)
                           + Count(q, m, "drop", x) + Count(q, m, "advance", x)
                           + Ind(x = Root /\ status = "open") + Ind(heap'[x].open # <<>>)
    BY DEF Exact
  <2>2. FieldRefs(heap', x) = FieldRefs(heap, x)
    BY <1>10, FieldRefsSame DEF SameFields
  <2>3. /\ Count(q, m, "drop", x) = Count(p, n, "drop", x) - Ind(Is(p[n], "drop", x))
        /\ Count(q, m, "advance", x) = Count(p, n, "advance", x) - Ind(Is(p[n], "advance", x))
    BY <1>8, <1>12, CountNone
  <2>4. Ind(Is(p[n], "drop", x)) = Ind(x = c) /\ Ind(Is(p[n], "advance", x)) = 0
    BY <1>2, <1>4 DEF Ind, Is
  <2>5. heap'[x].refs = heap[x].refs - Ind(x = c) /\ heap'[x].open = heap[x].open
    BY <1>10 DEF SameBody
  <2>6. heap[x].refs = FieldRefs(heap, x) + Ind(x \in Objs)
                       + Count(p, n, "drop", x) + Count(p, n, "advance", x)
                       + Ind(x = Root /\ status = "open") + Ind(heap[x].open # <<>>)
    BY <1>3 DEF Exact
  <2>7. /\ FieldRefs(heap, x) \in Nat /\ Count(p, n, "drop", x) \in Nat
        /\ Count(p, n, "advance", x) \in Nat
    BY <1>2, CountTypes
  <2>8. QED
    BY <2>2, <2>3, <2>4, <2>5, <2>6, <2>7 DEF Ind
<1>16. Released(heap', q, m)
  <2>1. SUFFICES ASSUME NEW x \in Cells
                 PROVE  Count(q, m, "free", x) =
                          Ind(heap'[x].kind # "free" /\ heap'[x].refs = 0 /\ ~heap'[x].marked)
    BY DEF Released
  <2>2. Count(p, n, "free", x) = Ind(heap[x].kind # "free" /\ heap[x].refs = 0 /\ ~heap[x].marked)
    BY <1>3 DEF Released
  <2>3. ~Is(p[n], "free", x) /\ Ind(Is(p[n], "free", x)) = 0
    BY <1>4 DEF Is, Ind
  <2>4. SameBody(heap, heap', x) /\ heap'[x].refs = heap[x].refs - Ind(x = c) /\ heap[x].refs \in Nat
    BY <1>3, <1>10, CellTypes
  <2>5. CASE gone /\ x = c
    <3>0. Len(ts) \in 1..Len(ts) /\ Len(ts) \notin 1..Len(ts) - 1
      <4>1. Len(ts) \in Nat \ {0}
        BY <2>5, <1>11
      <4>2. QED
        BY <4>1
    <3>1. OneOf(ts, "free", c, Len(ts))
      BY <3>0, <2>5, <1>11 DEF OneOf, Is, ReleasesOnly
    <3>2. Count(q, m, "free", x) = Count(p, n, "free", x) - 0 + 1
      BY <3>1, <2>3, <2>5, <1>8, CountOneMore
    <3>3. QED
      BY <3>2, <2>2, <2>4, <2>5, <1>5 DEF SameBody, Ind, left
  <2>6. CASE ~(gone /\ x = c)
    <3>1. NoneOf(ts, "free", x)
      <4>1. CASE ~gone
        BY <4>1, <1>7 DEF NoneOf
      <4>2. CASE gone /\ x # c
        <5>1. \A j \in 1..Len(ts) : j \in 1..Len(ts) - 1 \/ j = Len(ts)
          BY <4>2, <1>11
        <5>2. QED
          BY <4>2, <5>1, <1>11 DEF NoneOf, Is, ReleasesOnly
      <4>3. QED
        BY <4>1, <4>2, <2>6
    <3>2. Count(q, m, "free", x) = Count(p, n, "free", x) - 0
      BY <3>1, <2>3, <1>8, CountNone
    <3>3. Count(p, n, "free", x) \in Nat
      BY <1>2, TasksFinite
    <3>4. QED
      BY <3>2, <3>3, <2>2, <2>4, <2>6, <1>5 DEF SameBody, Ind, left
  <2>7. QED
    BY <2>5, <2>6
<1>17. ASSUME gone
       PROVE  /\ m = n - 1 + Len(ts) /\ Is(q[n], "free", c) /\ q[n].ending = "" /\ n \in n..m
              /\ \A k \in n + 1..m : ReleasesOnly(q[k], c)
                   /\ (q[k].op = "hook" => k = m /\ heap[c].kind = "userdata")
                   /\ (heap[c].kind = "outer" => q[k].op \in {"null", "unchain"})
              /\ \A op, f : Some(ts, op, f) => Before(q, m, n, op, f)
  <2>1. m = n - 1 + Len(ts) /\ Len(ts) \in Nat \ {0}
    BY <1>8, <1>11, <1>17 DEF Replaced
  <2>2. n \in n..m /\ n + Len(ts) - n = Len(ts)
    BY <1>2, <2>1
  <2>3. q[n] = ts[Len(ts)]
    BY <1>8, <2>2, NewHeights
  <2>4. ASSUME NEW k \in n + 1..m
        PROVE  ReleasesOnly(q[k], c) /\ (q[k].op = "hook" => k = m /\ heap[c].kind = "userdata")
               /\ (heap[c].kind = "outer" => q[k].op \in {"null", "unchain"})
    <3>1. k \in n..m /\ n + Len(ts) - k \in 1..Len(ts) - 1
      BY <1>2, <2>1
    <3>2. q[k] = ts[n + Len(ts) - k]
      BY <1>8, <3>1, NewHeights
    <3>3. n + Len(ts) - k = 1 => k = m
      BY <1>2, <2>1
    <3>4. QED
      BY <3>1, <3>2, <3>3, <1>6, <1>17 DEF Releases
  <2>5. ASSUME NEW op, NEW f, Some(ts, op, f) PROVE Before(q, m, n, op, f)
    <3>1. PICK j \in 1..Len(ts) - 1 : ts[j].op = op /\ ts[j].field = f
      BY <2>5 DEF Some
    <3>2. n + Len(ts) - j \in n + 1..m /\ j \in 1..Len(ts)
      BY <1>2, <2>1
    <3>3. q[n + Len(ts) - j] = ts[j] /\ ts[j].cell = c
      BY <3>2, <1>8, <1>11, <1>17 DEF Replaced, ReleasesOnly
    <3>4. q[n].cell = c
      BY <2>3, <1>11, <1>17 DEF Is
    <3>5. QED
      BY <3>1, <3>2, <3>3, <3>4 DEF Before, Is
  <2>6. QED
    BY <2>1, <2>2, <2>3, <2>4, <2>5, <1>11, <1>17
<1>18. ~gone => m = n - 1
  BY <1>7, <1>8, <1>2 DEF Replaced
<1>19. TasksOK(heap', q, m, status)
  <2>0. ASSUME gone, NEW j \in 1..n - 1, Is(p[j], "clear", c) PROVE FALSE
    <3>1. j \in 1..n /\ TaskOK(heap, p, n, status, j)
      BY <1>2, <1>3 DEF TasksOK
    <3>2. PICK i \in 1..j - 1 : p[i].cell = c /\ p[i].op \in {"free", "advance", "drop"}
      BY <2>0, <3>1 DEF TaskOK, Kept, Is
    <3>3. i \in 1..n - 1 /\ i \in 1..m /\ i \in 1..n /\ q[i] = p[i] /\ m \in Nat
      <4>1. i \in 1..n - 1
        BY <1>2
      <4>2. QED
        BY <4>1, <1>8, NewHeights
    <3>4. CASE p[i].op = "free"
      BY <3>2, <3>3, <3>4, <1>2, <1>5 DEF Referred
    <3>5. CASE p[i].op # "free"
      <4>1. Is(q[i], "drop", c) \/ Is(q[i], "advance", c)
        BY <3>2, <3>3, <3>5 DEF Is
      <4>2. Count(q, m, "drop", c) > 0 \/ Count(q, m, "advance", c) > 0
        BY <4>1, <3>3, CountPositive
      <4>3. heap'[c].refs = FieldRefs(heap', c) + Ind(c \in Objs)
                           + Count(q, m, "drop", c) + Count(q, m, "advance", c)
                           + Ind(c = Root /\ status = "open") + Ind(heap'[c].open # <<>>)
        BY <1>5, <1>15 DEF Exact
      <4>4. /\ FieldRefs(heap', c) \in Nat /\ Count(q, m, "drop", c) \in Nat
            /\ Count(q, m, "advance", c) \in Nat
        BY <3>3, CountTypes
      <4>5. /\ Ind(c \in Objs) \in Nat /\ Ind(c = Root /\ status = "open") \in Nat
            /\ Ind(heap'[c].open # <<>>) \in Nat
        BY DEF Ind
      <4>6. heap'[c].refs = 0
        BY <2>0, <1>5, <1>9 DEF RefsAre
      <4>7. CASE Count(q, m, "drop", c) > 0
        BY <4>3, <4>4, <4>5, <4>6, <4>7
      <4>8. CASE Count(q, m, "advance", c) > 0
        BY <4>3, <4>4, <4>5, <4>6, <4>8
      <4>9. QED
        BY <4>2, <4>7, <4>8
    <3>6. QED
      BY <3>4, <3>5
  <2>1. ASSUME NEW k \in n..m PROVE TaskOK(heap', q, m, status, k)
    <3>0. gone
      BY <1>2, <1>18
    <3>1. heap'[c].box = heap[c].box /\ heap'[c].marked = heap[c].marked
      BY <1>5, <1>10 DEF SameBody
    <3>2. CASE k = n
      BY <3>0, <3>2, <1>17, <1>5 DEF TaskOK, CellOps, Is
    <3>3. CASE k # n
      <4>1. k \in n + 1..m /\ n \in 1..k - 1
        BY <3>3, <1>2
      <4>2. ReleasesOnly(q[k], c) /\ (q[k].op = "hook" => k = m /\ heap[c].kind = "userdata")
            /\ Is(q[n], "free", c)
        BY <3>0, <4>1, <1>17
      <4>3. Kept(q, k)
        BY <4>1, <4>2 DEF Kept, Is, ReleasesOnly
      <4>4. heap[c].kind = "userdata" => heap[c].box = "full"
        BY <1>3, <1>5 DEF Shape, CellOK
      <4>5. Written(q, k)
        <5>1. SUFFICES ASSUME NEW j \in 1..k - 1, Is(q[j], "clear", c) PROVE FALSE
          BY <4>2 DEF Written, ReleasesOnly
        <5>2. CASE j \in 1..n - 1
          <6>1. q[j] = p[j]
            BY <5>2, <1>8, NewHeights
          <6>2. QED
            BY <6>1, <5>1, <5>2, <3>0, <2>0
        <5>3. CASE j = n
          BY <5>1, <5>3, <4>2 DEF Is
        <5>4. CASE j \in n + 1..m
          BY <5>1, <5>4, <3>0, <1>17 DEF Is, ReleasesOnly
        <5>5. m \in Nat
          BY <1>8, NewHeights
        <5>6. QED
          BY <5>2, <5>3, <5>4, <5>5, <4>1, <1>2
      <4>6. QED
        BY <4>1, <4>2, <4>3, <4>4, <4>5, <3>0, <3>1, <1>5 DEF TaskOK, CellOps, ReleasesOnly
    <3>4. QED
      BY <3>2, <3>3
  <2>2. QED
    BY <2>1, <1>3, <1>8, <1>10, TasksKept DEF SameBody
<1>20. FreesOK(heap', Listed, q, m)
  <2>1. ASSUME NEW k \in n..m, q[k].op = "free" PROVE FreeOK(heap', Listed, q, m, k)
    <3>0. gone
      BY <1>2, <1>18
    <3>1. k = n /\ q[k].cell = c
      <4>1. k \in n + 1..m => q[k].op # "free"
        BY <3>0, <1>17 DEF ReleasesOnly
      <4>2. k = n
        BY <4>1, <2>1, <1>2
      <4>3. QED
        BY <3>0, <4>2, <1>17 DEF Is
    <3>2. /\ heap'[c].fields = heap[c].fields /\ heap'[c].box = heap[c].box
          /\ \A o \in Cells : heap'[o].open = heap[o].open
      BY <1>5, <1>10 DEF SameBody
    <3>3. CellOK(heap, c)
      BY <1>3, <1>5 DEF Shape
    <3>4. \A f \in 1..2 : heap'[c].fields[f] = None \/ Before(q, m, n, "null", f)
      <4>1. heap'[c].fields[1] = None \/ Before(q, m, n, "null", 1)
        BY <3>0, <3>2, <3>3, <1>6, <1>17 DEF Releases, CellOK
      <4>2. heap'[c].fields[2] = None \/ Before(q, m, n, "null", 2)
        BY <3>0, <3>2, <3>3, <1>6, <1>17 DEF Releases, CellOK
      <4>3. \A f \in 1..2 : f = 1 \/ f = 2
        OBVIOUS
      <4>4. QED
        BY <4>1, <4>2, <4>3
    <3>5. c \notin Listed \/ Before(q, m, n, "unchain", 0)
      BY <3>0, <1>3, <1>6, <1>17 DEF Releases, ChainOK, Kinds
    <3>6. heap'[c].box # "full" \/ Before(q, m, n, "hook", 0)
      BY <3>0, <3>2, <3>3, <1>6, <1>17 DEF Releases, CellOK
    <3>7. \/ \A o \in Cells : heap'[o].open # <<>> => heap'[o].open[1] # c
          \/ Before(q, m, n, "closeouters", 0)
      <4>1. \A o \in Cells : heap[o].open # <<>> => heap[heap[o].open[1]].kind = "thread"
        BY <1>3 DEF Shape, CellOK
      <4>2. QED
        BY <3>0, <3>2, <4>1, <1>6, <1>17 DEF Releases
    <3>8. QED
      BY <3>1, <3>4, <3>5, <3>6, <3>7 DEF FreeOK
  <2>2. ASSUME NEW k \in 1..n - 1, p[k].op = "free"
        PROVE  Settles(heap, Listed, heap', Listed, p[n], q, n, p[k].cell)
    <3>1. p[k].cell \in Cells
      BY <2>2, <1>2 DEF Referred
    <3>2. QED
      BY <3>1, <1>4, <1>10 DEF Settles, SameBody, Is
  <2>3. QED
    BY <2>1, <2>2, <1>3, <1>4, <1>8, FreesKept
<1>21. MarksOK(heap', q, m, Objs)
  <2>1. Marking(p, n) => Marking(q, m)
    BY <1>2, <1>4, <1>8, MarkingKept DEF TaskOK
  <2>2. QED
    BY <2>1, <1>3, <1>8, <1>10, MarksKept DEF SameBody
<1>22. ScopeOK(heap', q, m, status)
  <2>1. n = 1 => m = 0 \/ q[1].op # "closeouters"
    <3>1. CASE gone
      BY <3>1, <1>17 DEF Is
    <3>2. CASE ~gone
      BY <3>2, <1>18
    <3>3. QED
      BY <3>1, <3>2
  <2>2. ASSUME p[1].op = "closeouters", n > 1
        PROVE  /\ heap'[p[1].cell].kind = "thread" /\ Stays(heap', q, m, p[1].cell)
               /\ \A k \in 2..n - 1 : Passing(heap', p[1].cell, p[k])
               /\ \A k \in n..m : Passing(heap', p[1].cell, q[k])
    <3> DEFINE th == p[1].cell
    <3>1. /\ th \in Cells /\ heap[th].kind = "thread" /\ Stays(heap, p, n, th)
          /\ \A k \in 2..n : /\ Passing(heap, th, p[k]) /\ p[k] \in TaskType
                             /\ p[k].cell # None /\ p[k].cell \in Cells
      BY <2>2, <1>2, ScopeThread
    <3> HIDE DEF th
    <3>2. \A x \in Cells : /\ heap'[x].kind = heap[x].kind /\ heap'[x].open = heap[x].open
                           /\ \A g \in 1..2 : heap'[x].fields[g] = heap[x].fields[g]
      BY <1>10 DEF SameBody
    <3>3. ASSUME NEW k \in 2..n - 1 PROVE Passing(heap', th, p[k])
      <4>1. k \in 2..n
        BY <1>2
      <4>2. QED
        BY <4>1, <3>1, <3>2, PassingSame
    <3>4. gone => /\ heap[c].kind = "outer" /\ heap[c].open = <<>>
                  /\ InStack(heap, th, heap[c].fields[2])
      <4>1. n \in 2..n
        BY <1>2, <2>2
      <4>2. Passing(heap, th, p[n])
        BY <4>1, <3>1
      <4>3. InStack(heap, th, c) => ~gone
        <5>1. SUFFICES ASSUME InStack(heap, th, c) PROVE left > 0
          OBVIOUS
        <5>2. FieldRefs(heap, c) > 0
          BY <5>1, <3>1, <1>5, FieldRefsPositive DEF InStack
        <5>3. Count(p, n, "drop", c) > 0
          BY <1>2, <1>4, CountPositive DEF Is
        <5>4. heap[c].refs = FieldRefs(heap, c) + Ind(c \in Objs)
                             + Count(p, n, "drop", c) + Count(p, n, "advance", c)
                             + Ind(c = Root /\ status = "open") + Ind(heap[c].open # <<>>)
          BY <1>3, <1>5 DEF Exact
        <5>5. /\ FieldRefs(heap, c) \in Nat /\ Count(p, n, "drop", c) \in Nat
              /\ Count(p, n, "advance", c) \in Nat
          BY <1>2, CountTypes
        <5>6. QED
          BY <5>2, <5>3, <5>4, <5>5 DEF Ind, left
      <4>4. QED
        BY <4>2, <4>3, <1>2 DEF Passing
    <3>5. ASSUME NEW k \in n..m PROVE Passing(heap', th, q[k])
      <4>1. gone
        BY <1>2, <1>18
      <4>2. q[k].cell = c /\ q[k].op \in {"null", "unchain", "free"}
        <5>1. CASE k = n
          BY <5>1, <4>1, <1>17 DEF Is
        <5>2. CASE k # n
          <6>1. k \in n + 1..m
            BY <5>2, <1>2
          <6>2. QED
            BY <6>1, <4>1, <1>17, <3>4 DEF ReleasesOnly
        <5>3. QED
          BY <5>1, <5>2
      <4>3. /\ heap'[c].kind = "outer" /\ heap'[c].open = <<>>
            /\ heap'[c].fields[2] = heap[c].fields[2]
        BY <4>1, <3>2, <3>4, <1>5
      <4>4. InStack(heap', th, heap'[c].fields[2])
        BY <4>1, <4>3, <3>1, <3>2, <3>4 DEF InStack
      <4>5. QED
        BY <4>2, <4>3, <4>4 DEF Passing
    <3>6. ASSUME NEW x \in Cells, Spared(p, n, x), ~(gone /\ x = c) PROVE Spared(q, m, x)
      <4>1. ASSUME NEW k \in 1..m, q[k].cell = x PROVE q[k].op \notin {"null", "free"}
        <5>1. CASE k \in 1..n - 1
          BY <5>1, <4>1, <3>6, <1>8, NewHeights DEF Spared
        <5>2. CASE k \in n..m
          <6>1. gone
            BY <5>2, <1>2, <1>18
          <6>2. q[k].cell = c
            <7>1. k # n => k \in n + 1..m
              BY <5>2, <1>2
            <7>2. QED
              BY <6>1, <7>1, <1>17 DEF ReleasesOnly, Is
          <6>3. QED
            BY <6>1, <6>2, <4>1, <3>6
        <5>3. QED
          BY <5>1, <5>2, <1>8, NewHeights
      <4>2. QED
        BY <4>1 DEF Spared
    <3>7. Stays(heap', q, m, th)
      <4>1. CASE th = Root
        BY <4>1 DEF Stays
      <4>2. CASE th # Root
        <5>1. PICK x \in Cells, f \in 1..2 : heap[x].fields[f] = th /\ Spared(p, n, x)
          BY <4>2, <3>1 DEF Stays
        <5>2. CASE ~(gone /\ x = c)
          BY <5>1, <5>2, <3>2, <3>6 DEF Stays
        <5>3. CASE gone /\ x = c
          <6>1. th # None /\ c # th
            BY <5>3, <3>1, <3>4, NoneAssumption
          <6>2. heap[c].fields[1] = None
            BY <5>3, <3>4, <1>3, <1>5 DEF Shape, CellOK
          <6>3. heap[c].fields[2] = th
            BY <5>1, <5>3, <6>1, <6>2
          <6>4. PICK g \in 1..2 : heap[th].fields[g] = th
            BY <5>3, <6>1, <6>3, <3>4 DEF InStack
          <6>5. ASSUME NEW k \in 1..n, p[k].cell = th PROVE p[k].op \notin {"null", "free"}
            <7>1. CASE k = 1
              BY <7>1, <2>2
            <7>2. CASE k # 1
              <8>1. k \in 2..n
                BY <7>2, <1>2
              <8>2. Passing(heap, th, p[k])
                BY <8>1, <3>1
              <8>3. QED
                BY <8>2, <6>5, <3>1 DEF Passing
            <7>3. QED
              BY <7>1, <7>2
          <6>6. Spared(p, n, th)
            BY <6>5 DEF Spared
          <6>7. Spared(q, m, th)
            BY <6>1, <6>6, <3>1, <3>6
          <6>8. QED
            BY <6>4, <6>7, <3>1, <3>2 DEF Stays
        <5>4. QED
          BY <5>2, <5>3
      <4>3. QED
        BY <4>1, <4>2
    <3>8. heap'[th].kind = "thread"
      BY <3>1, <3>2
    <3>9. QED
      BY <3>3, <3>5, <3>7, <3>8 DEF th
  <2>3. QED
    BY <2>1, <2>2, <1>3, <1>8, ScopeKept
<1>23. status = "open" => heap'[Root].kind = "thread"
  BY <1>3, <1>10, CellsAssumption DEF SameBody
<1>24. HeapInv(heap', Listed', q, m, Objs, status)
  <2>1. m \in Nat /\ q \in [1..m -> TaskType]
    BY <1>8, NewHeights DEF Replaced
  <2>2. QED
    BY <2>1, <1>1, <1>3, <1>13, <1>14, <1>15, <1>16, <1>19, <1>20, <1>21, <1>22, <1>23 DEF HeapInv
<1>25. QED
  BY <1>1, <1>8, <1>24, WorkDone DEF q, m

\* What a step may do to a scope that is being closed.
LEMMA PassingKept ==
    ASSUME NEW h, NEW h2, NEW th \in Cells, NEW t \in TaskType, t.cell # None,
           \A g \in 1..2 : h2[th].fields[g] = h[th].fields[g],
           /\ h2[t.cell].kind = h[t.cell].kind /\ h2[t.cell].open = h[t.cell].open
           /\ h2[t.cell].fields[2] \in {h[t.cell].fields[2], None},
           Passing(h, th, t)
    PROVE  Passing(h2, th, t)
<1>1. \A v : InStack(h, th, v) => InStack(h2, th, v)
  BY DEF InStack
<1>2. InStack(h2, th, None)
  BY DEF InStack
<1>3. QED
  BY <1>1, <1>2 DEF Passing

\* The release of what a field held.
LEMMA DropShape ==
    ASSUME NEW v \in Cells \cup {None}
    PROVE  /\ Drop(v) \in Seq(TaskType) /\ Len(Drop(v)) = Ind(v # None)
           /\ v # None => IsTask(Drop(v)[1], "drop", v)
<1>1. CASE v = None
  BY <1>1 DEF Drop, Ind
<1>2. CASE v # None
  <2> DEFINE t == Task("drop", v)
  <2>1. IsTask(t, "drop", v)
    BY TaskFacts DEF CellOps
  <2>2. t \in TaskType
    BY <2>1 DEF IsTask
  <2>3. Drop(v) = <<t>>
    BY <1>2 DEF Drop
  <2> HIDE DEF t
  <2>4. <<t>> \in Seq(TaskType) /\ Len(<<t>>) = 1 /\ <<t>>[1] = t
    BY <2>2
  <2>5. QED
    BY <2>1, <2>3, <2>4, <1>2 DEF Ind
<1>3. QED
  BY <1>1, <1>2

\* The task of a step that goes on with the release of one value.
LEMMA DropReplaced ==
    ASSUME NEW p, NEW n, NEW q, NEW m, NEW v \in Cells \cup {None}, Replaced(p, n, q, m, Drop(v))
    PROVE  /\ \A op, x : op # "drop" => NoneOf(Drop(v), op, x)
           /\ v = None => m = n - 1
           /\ v # None => m = n /\ IsTask(q[n], "drop", v)
           /\ \A x \in Cells : Count(q, m, "drop", x) =
                 Count(p, n, "drop", x) - Ind(Is(p[n], "drop", x)) + Ind(x = v)
<1>1. n \in Nat \ {0} /\ m = n - 1 + Len(Drop(v)) /\ Len(Drop(v)) = Ind(v # None)
  BY DropShape DEF Replaced
<1>2. CASE v = None
  <2>1. Len(Drop(v)) = 0 /\ m = n - 1
    BY <1>1, <1>2 DEF Ind
  <2>2. \A op, x : NoneOf(Drop(v), op, x)
    BY <2>1 DEF NoneOf
  <2>3. ASSUME NEW x \in Cells PROVE Count(q, m, "drop", x) =
                 Count(p, n, "drop", x) - Ind(Is(p[n], "drop", x)) + Ind(x = v)
    <3>1. Count(q, m, "drop", x) = Count(p, n, "drop", x) - Ind(Is(p[n], "drop", x))
      BY <2>2, CountNone
    <3>2. Ind(x = v) = 0 /\ Count(p, n, "drop", x) \in Nat /\ Ind(Is(p[n], "drop", x)) \in Nat
      BY <1>1, <1>2, NoneAssumption, TasksFinite DEF Ind
    <3>3. QED
      BY <3>1, <3>2
  <2>4. QED
    BY <1>2, <2>1, <2>2, <2>3
<1>3. CASE v # None
  <2>1. Len(Drop(v)) = 1 /\ m = n
    BY <1>1, <1>3 DEF Ind
  <2>2. IsTask(Drop(v)[1], "drop", v)
    BY <1>3, DropShape
  <2>3. Drop(v)[1].op = "drop" /\ Drop(v)[1].cell = v
    BY <2>2 DEF IsTask
  <2>4. \A j \in 1..Len(Drop(v)) : j = 1
    BY <2>1
  <2>5. \A op, x : op # "drop" => NoneOf(Drop(v), op, x)
    BY <2>3, <2>4 DEF NoneOf, Is
  <2>6. q[n] = Drop(v)[1]
    <3>1. n \in n..m /\ n + Len(Drop(v)) - n = 1
      BY <1>1, <2>1
    <3>2. QED
      BY <3>1, NewHeights
  <2>7. ASSUME NEW x \in Cells PROVE Count(q, m, "drop", x) =
                 Count(p, n, "drop", x) - Ind(Is(p[n], "drop", x)) + Ind(x = v)
    <3>1. Count(p, n, "drop", x) \in Nat /\ Ind(Is(p[n], "drop", x)) \in Nat
      BY <1>1, TasksFinite DEF Ind
    <3>2. CASE x = v
      <4>1. 1 \in 1..Len(Drop(v))
        BY <2>1
      <4>2. OneOf(Drop(v), "drop", x, 1)
        BY <4>1, <2>3, <2>4, <3>2 DEF OneOf, Is
      <4>3. QED
        BY <4>2, <3>1, <3>2, CountOneMore DEF Ind
    <3>3. CASE x # v
      <4>1. NoneOf(Drop(v), "drop", x)
        BY <2>3, <2>4, <3>3 DEF NoneOf, Is
      <4>2. QED
        BY <4>1, <3>1, <3>3, CountNone DEF Ind
    <3>4. QED
      BY <3>2, <3>3
  <2>8. QED
    BY <1>3, <2>1, <2>2, <2>5, <2>6, <2>7
<1>4. QED
  BY <1>2, <1>3

IsClear(t, c) == t \in TaskType /\ t.op = "clear" /\ t.cell = c /\ t.ending = ""
\* The components of a task that writes a field after its release.
LEMMA ClearFacts ==
    ASSUME NEW c \in Cells, NEW f \in 1..2, NEW v \in Cells
    PROVE  IsClear(ClearTask(c, f, v), c)
<1> DEFINE r == Task("clear", c)
<1>1. r \in TaskType /\ r.op = "clear" /\ r.cell = c /\ r.ending = ""
  BY DEF Task, TaskType, CellOps
<1> HIDE DEF r
<1>2. ClearTask(c, f, v) = [r EXCEPT !.field = f, !.todo = {v}]
  BY DEF ClearTask, r
<1>3. f \in 0..2 /\ {v} \in SUBSET Cells
  OBVIOUS
<1>4. QED
  BY <1>1, <1>2, <1>3 DEF TaskType, IsClear

\* What releases the value v of a field of c: its drop, and then perhaps the
\* write.
Lets(ts, c, v) ==
    /\ ts \in Seq(TaskType) /\ Len(ts) \in {0, 1, 2}
    /\ v = None => Len(ts) = 0
    /\ v # None => Len(ts) # 0 /\ IsTask(ts[1], "drop", v)
    /\ Len(ts) = 2 => IsClear(ts[2], c)

\* A release drops the value first.
LEMMA LetGoShape ==
    ASSUME NEW c \in Cells, NEW f \in 1..2, NEW v \in Cells \cup {None}
    PROVE  Lets(LetGo(c, f, v), c, v)
<1>1. CASE v = None
  <2>1. LetGo(c, f, v) = <<>>
    BY <1>1 DEF LetGo, Drop
  <2>2. QED
    BY <2>1, <1>1 DEF Lets
<1>2. CASE v # None
  <2> DEFINE d == Task("drop", v)
             t == ClearTask(c, f, v)
  <2>1. IsTask(d, "drop", v)
    BY TaskFacts DEF CellOps
  <2>2. IsClear(t, c)
    <3>1. v \in Cells
      BY <1>2
    <3>2. QED
      BY <3>1, ClearFacts
  <2>3. d \in TaskType
    BY <2>1 DEF IsTask
  <2>4. t \in TaskType
    BY <2>2 DEF IsClear
  <2>5. LetGo(c, f, v) = <<d>> \o <<t>> \/ LetGo(c, f, v) = <<d>> \o <<>>
    BY <1>2 DEF LetGo, Drop
  <2> HIDE DEF d, t
  <2>6. Lets(<<d>> \o <<t>>, c, v)
    <3>1. /\ <<d>> \o <<t>> \in Seq(TaskType) /\ Len(<<d>> \o <<t>>) = 2
          /\ (<<d>> \o <<t>>)[1] = d /\ (<<d>> \o <<t>>)[2] = t
      BY <2>3, <2>4
    <3> DEFINE s == <<d>> \o <<t>>
    <3> HIDE DEF s
    <3>2. s \in Seq(TaskType) /\ Len(s) = 2 /\ s[1] = d /\ s[2] = t
      BY <3>1 DEF s
    <3>3. Lets(s, c, v)
      BY <3>2, <2>1, <2>2, <1>2 DEF Lets
    <3>4. QED
      BY <3>3 DEF s
  <2>7. Lets(<<d>> \o <<>>, c, v)
    <3>1. <<d>> \o <<>> \in Seq(TaskType) /\ Len(<<d>> \o <<>>) = 1 /\ (<<d>> \o <<>>)[1] = d
      BY <2>3
    <3> DEFINE s == <<d>> \o <<>>
    <3> HIDE DEF s
    <3>2. s \in Seq(TaskType) /\ Len(s) = 1 /\ s[1] = d
      BY <3>1 DEF s
    <3>3. Lets(s, c, v)
      BY <3>2, <2>1, <1>2 DEF Lets
    <3>4. QED
      BY <3>3 DEF s
  <2>8. QED
    BY <2>5, <2>6, <2>7
<1>3. QED
  BY <1>1, <1>2

OneLetGo(p, n, q, m, ts, c, v) ==
    /\ \A op, x : op \notin {"drop", "clear"} => NoneOf(ts, op, x)
    /\ \A k \in n..m : /\ v # None /\ q[k] \in TaskType /\ q[k].ending = ""
                       /\ \/ k = m /\ Is(q[k], "drop", v)
                          \/ k = n /\ Is(q[k], "clear", c)
    /\ \A x \in Cells : Count(q, m, "drop", x) =
          Count(p, n, "drop", x) - Ind(Is(p[n], "drop", x)) + Ind(x = v)
\* The tasks of a step that goes on with the release of one value.
LEMMA LetGoReplaced ==
    ASSUME NEW p, NEW n, NEW q, NEW m, NEW ts, NEW c, NEW v \in Cells \cup {None},
           Lets(ts, c, v), Replaced(p, n, q, m, ts)
    PROVE  OneLetGo(p, n, q, m, ts, c, v)
<1> DEFINE L == Len(ts)
<1>1. /\ n \in Nat \ {0} /\ m = n - 1 + L /\ m \in Nat /\ L \in Nat
  BY NewHeights DEF Replaced
<1>2. L = 0 \/ L = 1 \/ L = 2
  BY DEF Lets
<1>3. L # 0 => ts[1].op = "drop" /\ ts[1].cell = v /\ ts[1].ending = "" /\ v # None
  BY DEF Lets, IsTask
<1>4. L = 2 => ts[2].op = "clear" /\ ts[2].cell = c /\ ts[2].ending = ""
  BY DEF Lets, IsClear
<1>5. v # None => L # 0
  BY DEF Lets
<1>6. \A k \in n..m : n + L - k \in 1..L /\ q[k] = ts[n + L - k]
  BY NewHeights
<1>7. \A j \in 1..m : q[j] \in TaskType
  BY DEF Replaced
<1>8. \A op, x : NoneOf(ts, op, x) <=> \A j \in 1..L : ~(ts[j].op = op /\ ts[j].cell = x)
  BY DEF NoneOf, Is
<1> HIDE DEF L
<1>9. ASSUME NEW j \in 1..L PROVE L # 0 /\ (j = 1 \/ (j = 2 /\ L = 2))
  <2>1. j \in Int /\ 1 <= j /\ j <= L
    BY <1>1
  <2>2. L # 0
    BY <2>1, <1>1
  <2>3. CASE L = 1
    <3>1. j = 1
      BY <2>1, <2>3
    <3>2. QED
      BY <3>1, <2>2
  <2>4. CASE L = 2
    <3>1. j = 1 \/ j = 2
      BY <2>1, <2>4
    <3>2. QED
      BY <3>1, <2>2, <2>4
  <2>5. QED
    BY <2>2, <2>3, <2>4, <1>2
<1>10. ASSUME NEW op, NEW x, op \notin {"drop", "clear"} PROVE NoneOf(ts, op, x)
  <2>1. ASSUME NEW j \in 1..L PROVE ts[j].op # op
    BY <1>3, <1>4, <1>9, <1>10, Zenon
  <2>2. QED
    BY <2>1, <1>8
<1>11. ASSUME NEW k \in n..m
      PROVE  /\ v # None /\ q[k] \in TaskType /\ q[k].ending = ""
             /\ \/ k = m /\ Is(q[k], "drop", v)
                \/ k = n /\ Is(q[k], "clear", c)
  <2> DEFINE j == n + L - k
  <2>1. j \in 1..L /\ q[k] = ts[j]
    BY <1>6
  <2>2. k \in 1..m /\ (j = 1 => k = m) /\ (j = 2 /\ L = 2 => k = n)
    BY <1>1
  <2> HIDE DEF j
  <2>3. q[k] \in TaskType
    BY <2>2, <1>7
  <2>4. L # 0 /\ (j = 1 \/ (j = 2 /\ L = 2))
    BY <2>1, <1>9
  <2>5. QED
    BY <2>1, <2>2, <2>3, <2>4, <1>3, <1>4, Zenon DEF Is
<1>12. ASSUME NEW x \in Cells
      PROVE  Count(q, m, "drop", x) =
                 Count(p, n, "drop", x) - Ind(Is(p[n], "drop", x)) + Ind(x = v)
  <2>1. Count(p, n, "drop", x) \in Nat /\ Ind(Is(p[n], "drop", x)) \in Nat
    BY <1>1, TasksFinite DEF Ind
  <2>2. CASE x = v
    <3>1. L # 0 /\ 1 \in 1..L
      <4>1. L # 0
        BY <1>5, <2>2, NoneAssumption
      <4>2. QED
        BY <4>1, <1>1
    <3>2. \A i \in 1..L : ts[i].op = "drop" /\ ts[i].cell = x <=> i = 1
      <4>1. ASSUME NEW i \in 1..L PROVE ts[i].op = "drop" /\ ts[i].cell = x <=> i = 1
        <5>1. i = 1 \/ (i = 2 /\ L = 2)
          BY <1>9
        <5>2. 2 # 1
          OBVIOUS
        <5>3. CASE i = 1
          BY <5>3, <3>1, <1>3, <2>2
        <5>4. CASE i = 2 /\ L = 2
          BY <5>2, <5>4, <1>4
        <5>5. QED
          BY <5>1, <5>3, <5>4
      <4>2. QED
        BY <4>1
    <3>3. OneOf(ts, "drop", x, 1)
      BY <3>1, <3>2 DEF OneOf, Is, L
    <3>4. Count(q, m, "drop", x) = Count(p, n, "drop", x) - Ind(Is(p[n], "drop", x)) + 1
      BY <3>3, CountOneMore
    <3>5. QED
      BY <3>4, <2>1, <2>2 DEF Ind
  <2>3. CASE x # v
    <3>1. NoneOf(ts, "drop", x)
      <4>1. ASSUME NEW j \in 1..L PROVE ~(ts[j].op = "drop" /\ ts[j].cell = x)
        BY <1>3, <1>4, <1>9, <2>3, Zenon
      <4>2. QED
        BY <4>1, <1>8
    <3>2. QED
      BY <3>1, <2>1, <2>3, CountNone DEF Ind
  <2>4. QED
    BY <2>2, <2>3
<1>13. QED
  BY <1>10, <1>11, <1>12 DEF OneLetGo

\* A field that is released is not waiting to be written.
LEMMA PointerWritten ==
    ASSUME IInv, Doing("null")
    PROVE  Pointer(Here, Head(work).field) = heap[Here].fields[Head(work).field]
<1> DEFINE p == Pile(work)
           n == Len(work)
<1>1. work # <<>> /\ Head(work).op = "null" /\ work \in Seq(TaskType)
  BY DEF Doing, IInv, TypeInv
<1>2. /\ n \in Nat \ {0} /\ p[n] = Head(work) /\ TaskOK(heap, p, n, status, n)
      /\ Here = p[n].cell
  BY <1>1, WorkTop
<1>3. Written(p, n)
  <2>1. p[n].op = "null"
    BY <1>1, <1>2, Zenon
  <2>2. QED
    BY <2>1, <1>2 DEF TaskOK
<1>4. ASSUME NEW i \in DOMAIN work, Is(work[i], "clear", Here) PROVE FALSE
  <2>1. i \in 1..n
    BY <1>1
  <2>2. i # 1
    BY <1>1, <1>4 DEF Is
  <2>3. n + 1 - i \in 1..n - 1 /\ n + 1 - i \in 1..n /\ n + 1 - (n + 1 - i) = i
    BY <2>1, <2>2, <1>2
  <2>4. p[n + 1 - i] = work[i]
    BY <2>3 DEF Pile
  <2>5. QED
    BY <2>3, <2>4, <1>2, <1>3, <1>4 DEF Written
<1>5. Unwritten(Here, Head(work).field) = {}
  BY <1>4 DEF Unwritten, Is
<1>6. QED
  BY <1>5 DEF Pointer

\* SQObjectPtr::Null and __ObjRelease hand the reference of a field to a drop.
LEMMA NullFieldKeeps ==
    ASSUME IInv, NullField
    PROVE  IInv'
<1> DEFINE c == Here
           p == Pile(work)
           n == Len(work)
           q == Pile(work')
           m == Len(work')
           f == Head(work).field
           v == heap[c].fields[f]
           ts == LetGo(c, f, v)
<1>1. /\ work # <<>> /\ Head(work).op = "null" /\ heap' = WithField(heap, c, f, None)
      /\ work' = ts \o Tail(work) /\ UNCHANGED <<lists, Listed, table, held, leaked, uses, ops, status>>
  <2>1. Doing("null")
    BY DEF NullField
  <2>2. Pointer(Here, Head(work).field) = v
    BY <2>1, PointerWritten
  <2>3. QED
    BY <2>2, ListsSame DEF NullField, Doing, Then, WithField, Here
<1>2. /\ n \in Nat \ {0} /\ p[n] = Head(work) /\ HeapInv(heap, Listed, p, n, Objs, status)
      /\ Referred(heap, p, n, Objs, status) /\ TaskOK(heap, p, n, status, n) /\ c = p[n].cell
      /\ p[n] \in TaskType /\ (p[n].op \in CellOps => c \in Cells /\ heap[c].kind # "free")
  BY <1>1, WorkTop
<1>3. /\ Shape(heap) /\ ChainOK(heap, Listed) /\ Exact(heap, p, n, Objs, status)
      /\ Released(heap, p, n) /\ TasksOK(heap, p, n, status) /\ FreesOK(heap, Listed, p, n)
      /\ MarksOK(heap, p, n, Objs) /\ ScopeOK(heap, p, n, status) /\ p \in [1..n -> TaskType]
      /\ Objs \subseteq Cells /\ (status = "open" => heap[Root].kind = "thread")
  BY <1>2 DEF HeapInv
<1>4. /\ n \in 1..n /\ p[n].op = "null" /\ f = p[n].field /\ f \in 1..2 /\ c \in Cells
      /\ ~heap[c].marked /\ heap[c].kind # "free"
  <2>0. n \in 1..n
    BY <1>2
  <2>1. p[n].op = "null" /\ f = p[n].field
    BY <1>1, <1>2, Zenon
  <2>2. f \in 1..2 /\ ~heap[c].marked
    BY <2>1, <1>2 DEF TaskOK
  <2>3. p[n].op \in CellOps
    BY <2>1 DEF CellOps
  <2>4. QED
    BY <2>0, <2>1, <2>2, <2>3, <1>2
<1>5. v \in Cells \cup {None}
  BY <1>3, <1>4, CellTypes
<1>6. Lets(ts, c, v) /\ ts \in Seq(TaskType)
  BY <1>4, <1>5, LetGoShape DEF Lets
<1>7. work' \in Seq(TaskType) /\ Replaced(p, n, q, m, ts)
  BY <1>1, <1>6, WorkSetup
<1>8. FieldIs(heap, heap', c, f, None)
  BY <1>1, <1>3, <1>4, FieldAssigned DEF Shape
<1> HIDE DEF c, p, n, q, m, f, v, ts
<1>9. /\ heap' \in [Cells -> Cell]
      /\ \A x \in Cells : /\ SameBody(heap, heap', x) /\ heap'[x].refs = heap[x].refs
                          /\ \A g \in 1..2 : heap'[x].fields[g] = IF x = c /\ g = f THEN None ELSE heap[x].fields[g]
  BY <1>8 DEF FieldIs
<1>10. /\ \A op, x : op \notin {"drop", "clear"} => NoneOf(ts, op, x)
       /\ \A x \in Cells : Count(q, m, "drop", x) =
             Count(p, n, "drop", x) - Ind(Is(p[n], "drop", x)) + Ind(x = v)
       /\ OneLetGo(p, n, q, m, ts, c, v)
  <2>1. OneLetGo(p, n, q, m, ts, c, v)
    BY <1>5, <1>6, <1>7, LetGoReplaced
  <2>2. QED
    BY <2>1 DEF OneLetGo
<1>11. ASSUME NEW k \in n..m
       PROVE  /\ v # None /\ q[k] \in TaskType /\ q[k].ending = "" /\ q[k].op \in {"drop", "clear"}
              /\ q[k].op = "drop" => q[k].cell = v
              /\ q[k].op = "clear" => k = n /\ q[k].cell = c
  BY <1>10 DEF OneLetGo, Is
<1>13. Shape(heap')
  <2>1. Evolves(heap, heap')
    BY <1>3, <1>9 DEF Evolves, Shape, CellOK
  <2>2. QED
    BY <2>1, <1>3, ShapeKept
<1>14. ChainOK(heap', Listed)
  BY <1>3, <1>9 DEF ChainOK, SameBody
<1>15. Exact(heap', q, m, Objs, status)
  <2>1. SUFFICES ASSUME NEW x \in Cells
                 PROVE  heap'[x].refs = FieldRefs(heap', x) + Ind(x \in Objs)
                           + Count(q, m, "drop", x) + Count(q, m, "advance", x)
                           + Ind(x = Root /\ status = "open") + Ind(heap'[x].open # <<>>)
    BY DEF Exact
  <2>2. heap[x].refs = FieldRefs(heap, x) + Ind(x \in Objs)
                       + Count(p, n, "drop", x) + Count(p, n, "advance", x)
                       + Ind(x = Root /\ status = "open") + Ind(heap[x].open # <<>>)
    BY <1>3 DEF Exact
  <2>3. /\ FieldRefs(heap, x) \in Nat /\ Count(p, n, "drop", x) \in Nat
        /\ Count(p, n, "advance", x) \in Nat
    BY <1>2, CountTypes
  <2>4. FieldRefs(heap', x) = FieldRefs(heap, x) - Ind(v = x) + Ind(None = x)
    <3>1. OneField(heap, heap', c, f)
      BY <1>4, <1>9 DEF OneField
    <3>2. heap'[c].fields[f] = None /\ heap[c].fields[f] = v
      BY <1>4, <1>9 DEF v
    <3>3. QED
      BY <3>1, <3>2, FieldRefsStored
  <2>5. Ind(None = x) = 0 /\ Ind(v = x) = Ind(x = v)
    BY NoneAssumption DEF Ind
  <2>6. Count(q, m, "advance", x) = Count(p, n, "advance", x) - Ind(Is(p[n], "advance", x))
    BY <1>7, <1>10, CountNone
  <2>7. Ind(Is(p[n], "drop", x)) = 0 /\ Ind(Is(p[n], "advance", x)) = 0
    BY <1>4 DEF Ind, Is
  <2>8. heap'[x].refs = heap[x].refs /\ heap'[x].open = heap[x].open
    BY <1>9 DEF SameBody
  <2>9. Count(q, m, "drop", x) = Count(p, n, "drop", x) - Ind(Is(p[n], "drop", x)) + Ind(x = v)
    BY <1>10
  <2>10. QED
    BY SMTT(30), <2>2, <2>3, <2>4, <2>5, <2>6, <2>7, <2>8, <2>9 DEF Ind
<1>16. Released(heap', q, m)
  <2>1. SUFFICES ASSUME NEW x \in Cells
                 PROVE  Count(q, m, "free", x) =
                          Ind(heap'[x].kind # "free" /\ heap'[x].refs = 0 /\ ~heap'[x].marked)
    BY DEF Released
  <2>2. Count(p, n, "free", x) = Ind(heap[x].kind # "free" /\ heap[x].refs = 0 /\ ~heap[x].marked)
    BY <1>3 DEF Released
  <2>3. Count(q, m, "free", x) = Count(p, n, "free", x) - Ind(Is(p[n], "free", x))
    BY <1>7, <1>10, CountNone
  <2>4. Ind(Is(p[n], "free", x)) = 0
    BY <1>4 DEF Ind, Is
  <2>5. QED
    BY <2>2, <2>3, <2>4, <1>9 DEF SameBody, Ind
<1>17. TasksOK(heap', q, m, status)
  <2>1. ASSUME NEW k \in n..m PROVE TaskOK(heap', q, m, status, k)
    <3>1. CASE q[k].op = "drop"
      BY <3>1, <1>11 DEF TaskOK, CellOps
    <3>2. CASE q[k].op = "clear"
      <4>1. k = n /\ q[k].cell = c /\ q[k].ending = "" /\ c # None
        BY <3>2, <1>4, <1>11, NoneAssumption
      <4>2. PICK j \in 1..n - 1 : p[j].cell = c /\ p[j].op \in {"free", "advance", "drop"}
        BY <1>2, <1>4 DEF TaskOK, Kept
      <4>3. q[j] = p[j]
        BY <1>7, NewHeights
      <4>4. Kept(q, k)
        BY <4>1, <4>2, <4>3 DEF Kept
      <4>5. QED
        BY <3>2, <4>1, <4>4 DEF TaskOK, CellOps
    <3>3. QED
      BY <3>1, <3>2, <1>11
  <2>2. QED
    BY <2>1, <1>3, <1>7, <1>9, TasksKept DEF SameBody
<1>18. FreesOK(heap', Listed, q, m)
  <2>1. ASSUME NEW k \in n..m, q[k].op = "free" PROVE FreeOK(heap', Listed, q, m, k)
    BY <2>1, <1>11
  <2>2. ASSUME NEW k \in 1..n - 1, p[k].op = "free"
        PROVE  Settles(heap, Listed, heap', Listed, p[n], q, n, p[k].cell)
    <3>1. p[k].cell \in Cells
      BY <2>2, <1>2 DEF Referred
    <3>2. QED
      BY <3>1, <1>2, <1>4, <1>9 DEF Settles, SameBody, Is
  <2>3. QED
    BY <2>1, <2>2, <1>3, <1>4, <1>7, FreesKept
<1>19. MarksOK(heap', q, m, Objs)
  <2>1. Marking(p, n) => Marking(q, m)
    BY <1>2, <1>4, <1>7, MarkingKept DEF TaskOK
  <2>2. \A x \in Cells : heap[x].marked => \A g \in 1..2 : heap'[x].fields[g] = heap[x].fields[g]
    BY <1>4, <1>9
  <2>3. QED
    BY <2>1, <2>2, <1>3, <1>7, <1>9, MarksKept DEF SameBody
<1>20. ScopeOK(heap', q, m, status)
  <2>1. n = 1 => m = 0 \/ q[1].op # "closeouters"
    <3>1. ASSUME n = 1, m # 0 PROVE q[1].op # "closeouters"
      <4>1. 1 \in n..m
        BY <3>1, <1>7, NewHeights
      <4>2. QED
        BY <4>1, <1>11
    <3>2. QED
      BY <3>1
  <2>2. ASSUME p[1].op = "closeouters", n > 1
        PROVE  /\ heap'[p[1].cell].kind = "thread" /\ Stays(heap', q, m, p[1].cell)
               /\ \A k \in 2..n - 1 : Passing(heap', p[1].cell, p[k])
               /\ \A k \in n..m : Passing(heap', p[1].cell, q[k])
    <3> DEFINE th == p[1].cell
    <3>1. /\ th \in Cells /\ heap[th].kind = "thread" /\ Stays(heap, p, n, th)
          /\ \A k \in 2..n : /\ Passing(heap, th, p[k]) /\ p[k] \in TaskType
                             /\ p[k].cell # None /\ p[k].cell \in Cells
      BY <2>2, <1>2, ScopeThread
    <3> HIDE DEF th
    <3>2. heap[c].kind = "outer" /\ heap[c].open = <<>> /\ InStack(heap, th, heap[c].fields[2])
      <4>1. n \in 2..n
        BY <1>2, <2>2
      <4>2. QED
        BY <4>1, <3>1, <1>2, <1>4 DEF Passing
    <3>3. th # c /\ \A g \in 1..2 : heap'[th].fields[g] = heap[th].fields[g]
      BY <3>1, <3>2, <1>9
    <3>4. ASSUME NEW k \in 2..n - 1 PROVE Passing(heap', th, p[k])
      <4>1. k \in 2..n
        BY <1>2
      <4>2. Passing(heap, th, p[k]) /\ p[k] \in TaskType /\ p[k].cell # None /\ p[k].cell \in Cells
        BY <4>1, <3>1
      <4>3. /\ heap'[p[k].cell].kind = heap[p[k].cell].kind
            /\ heap'[p[k].cell].open = heap[p[k].cell].open
            /\ heap'[p[k].cell].fields[2] \in {heap[p[k].cell].fields[2], None}
        BY <4>2, <1>9 DEF SameBody
      <4>4. QED
        BY <4>2, <4>3, <3>1, <3>3, PassingKept
    <3>5. ASSUME NEW k \in n..m PROVE Passing(heap', th, q[k])
      <4>1. v # None
        BY <1>11
      <4>2. f = 2
        <5>1. heap[c].fields[1] = None
          BY <3>2, <1>3, <1>4 DEF Shape, CellOK
        <5>2. QED
          BY <5>1, <4>1, <1>4 DEF v
      <4>3. InStack(heap', th, v) /\ InStack(heap', th, None)
        BY <4>2, <3>2, <3>3 DEF InStack, v
      <4>4. CASE q[k].op = "drop"
        BY <4>3, <4>4, <1>11 DEF Passing
      <4>5. CASE q[k].op = "clear"
        <5>1. heap'[c].kind = "outer" /\ heap'[c].open = <<>> /\ heap'[c].fields[2] = None
          <6>1. 2 \in 1..2
            OBVIOUS
          <6>2. QED
            BY <6>1, <4>2, <3>2, <1>4, <1>9 DEF SameBody
        <5>2. QED
          BY <5>1, <4>3, <4>5, <1>11 DEF Passing
      <4>6. QED
        BY <4>4, <4>5, <1>11
    <3>6. Stays(heap', q, m, th)
      <4>1. CASE th = Root
        BY <4>1 DEF Stays
      <4>2. CASE th # Root
        <5>1. PICK x \in Cells, g \in 1..2 : heap[x].fields[g] = th /\ Spared(p, n, x)
          BY <4>2, <3>1 DEF Stays
        <5>2. x # c
          BY <5>1, <1>2, <1>4 DEF Spared
        <5>3. heap'[x].fields[g] = th
          BY <5>1, <5>2, <1>9
        <5>4. ASSUME NEW k \in 1..m, q[k].cell = x PROVE q[k].op \notin {"null", "free"}
          <6>1. CASE k \in 1..n - 1
            BY <6>1, <5>4, <5>1, <1>7, NewHeights DEF Spared
          <6>2. CASE k \in n..m
            BY <6>2, <1>11
          <6>3. QED
            BY <6>1, <6>2, <1>7, NewHeights
        <5>5. Spared(q, m, x)
          BY <5>4 DEF Spared
        <5>6. QED
          BY <5>3, <5>5 DEF Stays
      <4>3. QED
        BY <4>1, <4>2
    <3>7. heap'[th].kind = "thread"
      BY <3>1, <1>9 DEF SameBody
    <3>8. QED
      BY <3>4, <3>5, <3>6, <3>7 DEF th
  <2>3. QED
    BY <2>1, <2>2, <1>3, <1>7, ScopeKept
<1>23. status = "open" => heap'[Root].kind = "thread"
  BY <1>3, <1>9, CellsAssumption DEF SameBody
<1>24. HeapInv(heap', Listed', q, m, Objs, status)
  <2>1. m \in Nat /\ q \in [1..m -> TaskType]
    BY <1>7, NewHeights DEF Replaced
  <2>2. QED
    BY <2>1, <1>1, <1>3, <1>13, <1>14, <1>15, <1>16, <1>17, <1>18, <1>19, <1>20, <1>23 DEF HeapInv
<1>25. QED
  BY <1>1, <1>7, <1>24, WorkDone DEF q, m

\* A task that is done, in a heap that has changed in payloads and links only.
SameFrame(h, h2) ==
    \A x \in Cells : /\ h2[x].kind = h[x].kind /\ h2[x].marked = h[x].marked
                     /\ h2[x].open = h[x].open /\ h2[x].refs = h[x].refs
                     /\ \A g \in 1..2 : h2[x].fields[g] = h[x].fields[g]
\* A step that only takes its task off the stack keeps what is said of the
\* others.
LEMMA PopKeeps ==
    ASSUME NEW h, NEW h2, NEW ch, NEW p, NEW n, NEW q, NEW m, NEW objs, NEW st,
           HeapInv(h, ch, p, n, objs, st), Replaced(p, n, q, m, <<>>),
           p[n].op \in {"clear", "unchain", "hook", "closeouters", "reftable"}, SameFrame(h, h2)
    PROVE  /\ m = n - 1 /\ m \in Nat /\ q \in [1..m -> TaskType]
           /\ Exact(h2, q, m, objs, st) /\ Released(h2, q, m) /\ TasksOK(h2, q, m, st)
           /\ MarksOK(h2, q, m, objs) /\ ScopeOK(h2, q, m, st)
<1>1. /\ TasksOK(h, p, n, st) /\ Exact(h, p, n, objs, st) /\ Released(h, p, n)
      /\ MarksOK(h, p, n, objs) /\ ScopeOK(h, p, n, st) /\ n \in Nat
  BY DEF HeapInv
<1>2. m = n - 1 /\ n \in Nat \ {0} /\ m \in Nat /\ q \in [1..m -> TaskType] /\ Len(<<>>) = 0
  BY DEF Replaced
<1>3. \A op, x : NoneOf(<<>>, op, x)
  BY <1>2 DEF NoneOf
<1>4. Exact(h2, q, m, objs, st)
  <2>1. SUFFICES ASSUME NEW x \in Cells
                 PROVE  h2[x].refs = FieldRefs(h2, x) + Ind(x \in objs)
                           + Count(q, m, "drop", x) + Count(q, m, "advance", x)
                           + Ind(x = Root /\ st = "open") + Ind(h2[x].open # <<>>)
    BY DEF Exact
  <2>2. h[x].refs = FieldRefs(h, x) + Ind(x \in objs)
                    + Count(p, n, "drop", x) + Count(p, n, "advance", x)
                    + Ind(x = Root /\ st = "open") + Ind(h[x].open # <<>>)
    BY <1>1 DEF Exact
  <2>3. FieldRefs(h2, x) = FieldRefs(h, x)
    BY FieldRefsSame DEF SameFields, SameFrame
  <2>4. /\ Count(q, m, "drop", x) = Count(p, n, "drop", x) - Ind(Is(p[n], "drop", x))
        /\ Count(q, m, "advance", x) = Count(p, n, "advance", x) - Ind(Is(p[n], "advance", x))
    BY <1>3, CountNone
  <2>5. Ind(Is(p[n], "drop", x)) = 0 /\ Ind(Is(p[n], "advance", x)) = 0
    BY DEF Ind, Is
  <2>6. /\ Count(p, n, "drop", x) \in Nat /\ Count(p, n, "advance", x) \in Nat
    BY <1>2, CountTypes
  <2>7. QED
    BY <2>2, <2>3, <2>4, <2>5, <2>6 DEF SameFrame
<1>5. Released(h2, q, m)
  <2>1. SUFFICES ASSUME NEW x \in Cells
                 PROVE  Count(q, m, "free", x) =
                          Ind(h2[x].kind # "free" /\ h2[x].refs = 0 /\ ~h2[x].marked)
    BY DEF Released
  <2>2. Count(p, n, "free", x) = Ind(h[x].kind # "free" /\ h[x].refs = 0 /\ ~h[x].marked)
    BY <1>1 DEF Released
  <2>3. Count(q, m, "free", x) = Count(p, n, "free", x) - Ind(Is(p[n], "free", x))
    BY <1>3, CountNone
  <2>4. Ind(Is(p[n], "free", x)) = 0
    BY DEF Ind, Is
  <2>5. QED
    BY <2>2, <2>3, <2>4 DEF SameFrame, Ind
<1>6. TasksOK(h2, q, m, st)
  <2>1. \A k \in n..m : FALSE
    BY <1>2
  <2>2. \A x \in Cells : h2[x].marked => h[x].marked
    BY DEF SameFrame
  <2>3. QED
    BY <2>1, <2>2, <1>1, TasksKept
<1>7. MarksOK(h2, q, m, objs)
  <2>1. n \in 1..n
    BY <1>2
  <2>2. p[n].ending # "unmark" /\ p[n].op # "unmark"
    BY <1>1, <2>1 DEF TasksOK, TaskOK
  <2>3. Marking(p, n) => Marking(q, m)
    BY <2>2, MarkingKept
  <2>4. QED
    BY <2>3, <1>1, MarksKept DEF SameFrame
<1>8. ScopeOK(h2, q, m, st)
  <2>1. CASE p[n].op \notin {"unchain", "clear"}
    BY <2>1, <1>1, <1>2, ScopeNone
  <2>2. CASE p[n].op \in {"unchain", "clear"}
    <3>1. n = 1 => m = 0 \/ q[1].op # "closeouters"
      BY <1>2
    <3>2. ASSUME p[1].op = "closeouters", n > 1
          PROVE  /\ h2[p[1].cell].kind = "thread" /\ Stays(h2, q, m, p[1].cell)
                 /\ \A k \in 2..n - 1 : Passing(h2, p[1].cell, p[k])
                 /\ \A k \in n..m : Passing(h2, p[1].cell, q[k])
      <4> DEFINE th == p[1].cell
      <4>1. /\ th \in Cells /\ h[th].kind = "thread" /\ Stays(h, p, n, th)
            /\ \A k \in 2..n : /\ Passing(h, th, p[k]) /\ p[k] \in TaskType
                               /\ p[k].cell # None /\ p[k].cell \in Cells
        BY <3>2, <1>2, ScopeThread
      <4> HIDE DEF th
      <4>2. ASSUME NEW k \in 2..n - 1 PROVE Passing(h2, th, p[k])
        <5>1. k \in 2..n
          BY <1>2
        <5>2. QED
          BY <5>1, <4>1, PassingSame DEF SameFrame
      <4>3. \A k \in n..m : FALSE
        BY <1>2
      <4>4. ASSUME NEW x \in Cells, Spared(p, n, x) PROVE Spared(q, m, x)
        <5>1. \A k \in 1..m : k \in 1..n /\ q[k] = p[k]
          BY <1>2, NewHeights
        <5>2. QED
          BY <5>1, <4>4 DEF Spared
      <4>5. Stays(h2, q, m, th)
        BY <4>1, <4>4 DEF Stays, SameFrame
      <4>6. QED
        BY <4>1, <4>2, <4>3, <4>5 DEF th, SameFrame
    <3>3. QED
      BY <3>1, <3>2, <1>1, ScopeKept
  <2>3. QED
    BY <2>1, <2>2
<1>9. QED
  BY <1>2, <1>4, <1>5, <1>6, <1>7, <1>8

\* The end of __ObjRelease.
LEMMA ClearFieldKeeps ==
    ASSUME IInv, ClearField
    PROVE  IInv'
<1> DEFINE p == Pile(work)
           n == Len(work)
           q == Pile(work')
           m == Len(work')
<1>1. /\ work # <<>> /\ Head(work).op = "clear" /\ heap' = heap
      /\ work' = <<>> \o Tail(work)
      /\ UNCHANGED <<lists, Listed, table, held, leaked, uses, ops, status>>
  BY ListsSame DEF ClearField, Doing, Then
<1>2. /\ n \in Nat \ {0} /\ p[n] = Head(work) /\ HeapInv(heap, Listed, p, n, Objs, status)
  BY <1>1, WorkTop
<1>3. /\ Shape(heap) /\ ChainOK(heap, Listed) /\ FreesOK(heap, Listed, p, n)
      /\ p \in [1..n -> TaskType]
      /\ Objs \subseteq Cells /\ (status = "open" => heap[Root].kind = "thread")
  BY <1>2 DEF HeapInv
<1>4. <<>> \in Seq(TaskType) /\ Len(<<>>) = 0
  OBVIOUS
<1>5. work' \in Seq(TaskType) /\ Replaced(p, n, q, m, <<>>)
  BY <1>1, <1>4, WorkSetup
<1>6. p[n].op = "clear"
  BY <1>1, <1>2, Zenon
<1> HIDE DEF p, n, q, m
<1>7. SameFrame(heap, heap')
  BY <1>1 DEF SameFrame
<1>8. /\ m = n - 1 /\ m \in Nat /\ q \in [1..m -> TaskType]
      /\ Exact(heap', q, m, Objs, status) /\ Released(heap', q, m) /\ TasksOK(heap', q, m, status)
      /\ MarksOK(heap', q, m, Objs) /\ ScopeOK(heap', q, m, status)
  BY <1>2, <1>5, <1>6, <1>7, PopKeeps
<1>9. FreesOK(heap', Listed', q, m)
  <2>1. \A k \in n..m : FALSE
    BY <1>2, <1>8
  <2>2. ASSUME NEW k \in 1..n - 1, p[k].op = "free"
        PROVE  Settles(heap, Listed, heap', Listed', p[n], q, n, p[k].cell)
    BY <1>1, <1>2, <1>6 DEF Settles, Is
  <2>3. QED
    BY <2>1, <2>2, <1>3, <1>5, <1>6, FreesKept
<1>10. HeapInv(heap', Listed', q, m, Objs, status)
  BY <1>1, <1>3, <1>8, <1>9 DEF HeapInv
<1>11. QED
  BY <1>1, <1>5, <1>10, WorkDone DEF q, m

\* REMOVE_FROM_CHAIN.
LEMMA UnchainKeeps ==
    ASSUME IInv, Unchain
    PROVE  IInv'
<1> DEFINE c == Here
           p == Pile(work)
           n == Len(work)
           q == Pile(work')
           m == Len(work')
<1> DEFINE turn == [x \in Cells |-> 0]
<1>a. turn \in [Cells -> Nat]
  OBVIOUS
<1>b. ListsOK /\ c \in Cells \cup {None}
  <2>1. work # <<>> /\ work \in Seq(TaskType) /\ ListsOK
    BY DEF Unchain, Doing, IInv, TypeInv
  <2>2. Head(work) \in TaskType
    BY <2>1
  <2>3. QED
    BY <2>1, <2>2 DEF TaskType, Here
<1> HIDE DEF turn
<1>1. /\ work # <<>> /\ Head(work).op = "unchain" /\ heap' = heap
      /\ Listed' = (IF heap[c].marked THEN Listed ELSE Listed \ {c})
      /\ work' = <<>> \o Tail(work) /\ UNCHANGED <<table, held, leaked, uses, ops, status>>
      /\ UNCHANGED lists \/ ListsOK'
  <2>1. UNCHANGED lists => Listed' = Listed
    BY ListsSame
  <2>2. RemoveFromChain({c}, turn) => ListsOK' /\ Listed' = Listed \ {c}
    BY <1>a, <1>b, ChainLeft
  <2>3. IF heap[c].marked THEN UNCHANGED lists ELSE RemoveFromChain({c}, turn)
    BY DEF Unchain, turn
  <2>4. Listed' = (IF heap[c].marked THEN Listed ELSE Listed \ {c}) /\ (UNCHANGED lists \/ ListsOK')
    BY <2>1, <2>2, <2>3
  <2>5. QED
    BY <2>4 DEF Unchain, Doing, Then, Here
<1>2. /\ n \in Nat \ {0} /\ p[n] = Head(work) /\ HeapInv(heap, Listed, p, n, Objs, status)
      /\ Referred(heap, p, n, Objs, status) /\ TaskOK(heap, p, n, status, n) /\ c = p[n].cell
      /\ p[n] \in TaskType /\ (p[n].op \in CellOps => c \in Cells /\ heap[c].kind # "free")
  BY <1>1, WorkTop
<1>3. /\ Shape(heap) /\ ChainOK(heap, Listed) /\ Exact(heap, p, n, Objs, status)
      /\ Released(heap, p, n) /\ TasksOK(heap, p, n, status) /\ FreesOK(heap, Listed, p, n)
      /\ MarksOK(heap, p, n, Objs) /\ ScopeOK(heap, p, n, status) /\ p \in [1..n -> TaskType]
      /\ Objs \subseteq Cells /\ (status = "open" => heap[Root].kind = "thread")
  BY <1>2 DEF HeapInv
<1>4. <<>> \in Seq(TaskType) /\ Len(<<>>) = 0
  OBVIOUS
<1>5. work' \in Seq(TaskType) /\ Replaced(p, n, q, m, <<>>)
  BY <1>1, <1>4, WorkSetup
<1>6. p[n].op = "unchain"
  BY <1>1, <1>2, Zenon
<1> HIDE DEF c, p, n, q, m
<1>7. SameFrame(heap, heap')
  BY <1>1 DEF SameFrame
<1>8. /\ m = n - 1 /\ m \in Nat /\ q \in [1..m -> TaskType]
      /\ Exact(heap', q, m, Objs, status) /\ Released(heap', q, m) /\ TasksOK(heap', q, m, status)
      /\ MarksOK(heap', q, m, Objs) /\ ScopeOK(heap', q, m, status)
  BY <1>2, <1>5, <1>6, <1>7, PopKeeps
<1>9. ChainOK(heap', Listed')
  BY <1>1, <1>3 DEF ChainOK
<1>10. FreesOK(heap', Listed', q, m)
  <2>1. \A k \in n..m : FALSE
    BY <1>2, <1>8
  <2>2. ASSUME NEW k \in 1..n - 1, p[k].op = "free"
        PROVE  Settles(heap, Listed, heap', Listed', p[n], q, n, p[k].cell)
    <3>1. p[k].cell \in Cells /\ ~heap[p[k].cell].marked
      BY <2>2, <1>2 DEF Referred
    <3>2. QED
      BY <3>1, <1>1, <1>2, <1>6 DEF Settles, Is
  <2>3. QED
    BY <2>1, <2>2, <1>3, <1>5, <1>6, FreesKept
<1>11. HeapInv(heap', Listed', q, m, Objs, status)
  BY <1>1, <1>3, <1>8, <1>9, <1>10 DEF HeapInv
<1>12. QED
  BY <1>1, <1>5, <1>11, WorkDone DEF q, m

\* The release hook finds the payload, and drops it.
LEMMA RunHookKeeps ==
    ASSUME IInv, RunHook
    PROVE  IInv'
<1> DEFINE c == Here
           p == Pile(work)
           n == Len(work)
           q == Pile(work')
           m == Len(work')
           box == IF heap[c].box = "full" THEN "dropped" ELSE "twice"
<1>1. /\ work # <<>> /\ Head(work).op = "hook" /\ heap' = [heap EXCEPT ![c].box = box]
      /\ work' = <<>> \o Tail(work) /\ UNCHANGED <<lists, Listed, table, held, leaked, uses, ops, status>>
  BY ListsSame DEF RunHook, Doing, Then, Here
<1>2. /\ n \in Nat \ {0} /\ p[n] = Head(work) /\ HeapInv(heap, Listed, p, n, Objs, status)
      /\ Referred(heap, p, n, Objs, status) /\ TaskOK(heap, p, n, status, n) /\ c = p[n].cell
      /\ p[n] \in TaskType /\ (p[n].op \in CellOps => c \in Cells /\ heap[c].kind # "free")
  BY <1>1, WorkTop
<1>3. /\ Shape(heap) /\ ChainOK(heap, Listed) /\ Exact(heap, p, n, Objs, status)
      /\ Released(heap, p, n) /\ TasksOK(heap, p, n, status) /\ FreesOK(heap, Listed, p, n)
      /\ MarksOK(heap, p, n, Objs) /\ ScopeOK(heap, p, n, status) /\ p \in [1..n -> TaskType]
      /\ Objs \subseteq Cells /\ (status = "open" => heap[Root].kind = "thread")
  BY <1>2 DEF HeapInv
<1>4. <<>> \in Seq(TaskType) /\ Len(<<>>) = 0
  OBVIOUS
<1>5. work' \in Seq(TaskType) /\ Replaced(p, n, q, m, <<>>)
  BY <1>1, <1>4, WorkSetup
<1>6. p[n].op = "hook" /\ c \in Cells
  <2>1. p[n].op = "hook"
    BY <1>1, <1>2, Zenon
  <2>2. p[n].op \in CellOps
    BY <2>1 DEF CellOps
  <2>3. QED
    BY <2>1, <2>2, <1>2
<1> HIDE DEF c, p, n, q, m
<1>7. heap[c].box = "full" /\ heap[c].refs = 0 /\ heap[c].kind = "userdata"
  <2>1. heap[c].box = "full" /\ \E j \in 1..n - 1 : Is(p[j], "free", c)
    BY <1>2, <1>6 DEF TaskOK
  <2>2. PICK j \in 1..n - 1 : Is(p[j], "free", c)
    BY <2>1
  <2>3. j \in 1..n /\ p[j].op = "free" /\ p[j].cell = c
    BY <2>2, <1>2 DEF Is
  <2>4. heap[c].refs = 0
    BY <2>3, <1>2 DEF Referred
  <2>5. CellOK(heap, c)
    BY <1>3, <1>6 DEF Shape
  <2>6. QED
    BY <2>1, <2>4, <2>5 DEF CellOK
<1>8. /\ heap' \in [Cells -> Cell]
      /\ \A x \in Cells :
            /\ heap'[x].kind = heap[x].kind /\ heap'[x].marked = heap[x].marked
            /\ heap'[x].open = heap[x].open /\ heap'[x].refs = heap[x].refs
            /\ heap'[x].fields = heap[x].fields /\ heap'[x].link = heap[x].link
            /\ heap'[x].box = IF x = c THEN "dropped" ELSE heap[x].box
  <2> DEFINE new == [heap[c] EXCEPT !.box = "dropped"]
  <2>1. heap \in [Cells -> Cell] /\ heap[c] \in Cell
    BY <1>3, <1>6 DEF Shape
  <2>2. heap' = [heap EXCEPT ![c] = new]
    BY <1>1, <1>7, <2>1
  <2>3. /\ new \in Cell /\ new.refs = heap[c].refs /\ new.fields = heap[c].fields
        /\ new.kind = heap[c].kind /\ new.marked = heap[c].marked /\ new.link = heap[c].link
        /\ new.open = heap[c].open /\ new.box = "dropped"
    BY <2>1 DEF Cell
  <2> HIDE DEF new
  <2>4. QED
    BY <1>6, <2>1, <2>2, <2>3
<1> HIDE DEF box
<1>9. SameFrame(heap, heap')
  BY <1>8 DEF SameFrame
<1>10. /\ m = n - 1 /\ m \in Nat /\ q \in [1..m -> TaskType]
       /\ Exact(heap', q, m, Objs, status) /\ Released(heap', q, m) /\ TasksOK(heap', q, m, status)
       /\ MarksOK(heap', q, m, Objs) /\ ScopeOK(heap', q, m, status)
  BY <1>2, <1>5, <1>6, <1>9, PopKeeps
<1>11. Shape(heap')
  <2>1. ASSUME NEW x \in Cells PROVE CellOK(heap', x)
    <3>1. CellOK(heap, x)
      BY <1>3 DEF Shape
    <3>2. heap[x].link # None => heap[x].link \in Cells
      BY <1>3, CellTypes
    <3>3. heap[x].open # <<>> => heap[x].open[1] \in Cells
      BY <1>3, CellTypes
    <3>4. QED
      BY <3>1, <3>2, <3>3, <1>7, <1>8 DEF CellOK
  <2>2. QED
    BY <2>1, <1>8 DEF Shape
<1>12. ChainOK(heap', Listed)
  BY <1>3, <1>8 DEF ChainOK
<1>13. FreesOK(heap', Listed, q, m)
  <2>1. \A k \in n..m : FALSE
    BY <1>2, <1>10
  <2>2. ASSUME NEW k \in 1..n - 1, p[k].op = "free"
        PROVE  Settles(heap, Listed, heap', Listed, p[n], q, n, p[k].cell)
    <3>1. p[k].cell \in Cells
      BY <2>2, <1>2 DEF Referred
    <3>2. QED
      BY <3>1, <1>8, <1>2, <1>6 DEF Settles, Is
  <2>3. QED
    BY <2>1, <2>2, <1>3, <1>5, <1>6, FreesKept
<1>14. status = "open" => heap'[Root].kind = "thread"
  BY <1>3, <1>8, CellsAssumption
<1>15. HeapInv(heap', Listed', q, m, Objs, status)
  BY <1>1, <1>3, <1>10, <1>11, <1>12, <1>13, <1>14 DEF HeapInv
<1>16. QED
  BY <1>1, <1>5, <1>15, WorkDone DEF q, m

\* No pending task is on a cell whose block is next to go.
LEMMA FreeAlone ==
    ASSUME NEW h, NEW ch, NEW p, NEW n, NEW objs, NEW st, HeapInv(h, ch, p, n, objs, st),
           n > 0, p[n].op = "free"
    PROVE  \A k \in 1..n - 1 : p[k].op \in {"drop", "advance", "free", "null", "clear", "unchain", "hook"}
                               => p[k].cell # p[n].cell
<1>1. n \in Nat \ {0} /\ n \in 1..n /\ TasksOK(h, p, n, st) /\ Referred(h, p, n, objs, st)
  BY InvReferred DEF HeapInv
<1> DEFINE c == p[n].cell
<1>2. h[c].refs = 0 /\ Count(p, n, "free", c) = 1
  BY <1>1 DEF Referred
<1>3. Count(p, n - 1, "free", c) = 0
  <2>1. Ind(Is(p[n], "free", c)) = 1
    BY DEF Ind, Is
  <2>2. QED
    BY <1>1, <1>2, <2>1, CountPop
<1>4. ASSUME NEW k \in 1..n - 1, p[k].op \in {"drop", "advance", "free"} PROVE p[k].cell # c
  <2>1. k \in 1..n /\ n - 1 \in Nat
    BY <1>1
  <2>2. CASE p[k].op = "free"
    <3>1. p[k].cell = c => Is(p[k], "free", c)
      BY <2>2 DEF Is
    <3>2. QED
      BY <3>1, <2>1, <1>3, CountPositive
  <2>3. CASE p[k].op # "free"
    BY <2>1, <2>3, <1>1, <1>2, <1>4 DEF Referred
  <2>4. QED
    BY <2>2, <2>3
<1>5. ASSUME NEW k \in 1..n - 1, p[k].op \in {"null", "clear", "unchain", "hook"} PROVE p[k].cell # c
  <2>1. k \in 1..n
    BY <1>1
  <2>2. Kept(p, k)
    BY <2>1, <1>1, <1>5 DEF TasksOK, TaskOK
  <2>3. PICK j \in 1..k - 1 : p[j].cell = p[k].cell /\ p[j].op \in {"free", "advance", "drop"}
    BY <2>2 DEF Kept
  <2>4. j \in 1..n - 1
    BY <1>1
  <2>5. QED
    BY <2>3, <2>4, <1>4
<1>6. QED
  BY <1>4, <1>5

\* The heap without the cell c, which nothing refers to.
IsFreed(h, h2, c) ==
    /\ h2 \in [Cells -> Cell]
    /\ \A x \in Cells :
          /\ h2[x].kind = (IF x = c THEN "free" ELSE h[x].kind) /\ h2[x].marked = h[x].marked
          /\ h2[x].open = h[x].open /\ h2[x].refs = h[x].refs
          /\ \A g \in 1..2 : h2[x].fields[g] = h[x].fields[g]
          /\ h2[x].link = (IF x = c \/ x = h[c].link THEN None ELSE h[x].link)
          /\ h2[x].box = (IF x = c THEN "none" ELSE h[x].box)

\* The heap after a free, its weak reference unlinked.
LEMMA FreedHeap ==
    ASSUME NEW h, Shape(h), NEW c \in Cells, h[c].refs = 0, ~h[c].marked, h[c].open = <<>>,
           h[c].kind # "free", \A f \in 1..2 : h[c].fields[f] = None, h[c].box # "full",
           NEW h2,
           h2 = [Unlinked(h, c) EXCEPT
                   ![c] = [NoCell EXCEPT !.box = IF h[c].box \in {"full", "twice"} THEN "leaked" ELSE "none"]]
    PROVE  IsFreed(h, h2, c)
<1> DEFINE l == h[c].link
           hl == Unlinked(h, c)
           new == [NoCell EXCEPT !.box = IF h[c].box \in {"full", "twice"} THEN "leaked" ELSE "none"]
<1>1. h \in [Cells -> Cell] /\ CellOK(h, c) /\ l \in Cells \cup {None}
  BY CellTypes DEF Shape
<1>2. h[c].box \notin {"full", "twice"}
  BY <1>1 DEF CellOK
<1>3. l # c
  BY <1>1, NoneAssumption DEF CellOK
<1>4. new = [NoCell EXCEPT !.box = "none"]
  BY <1>2
<1>5. /\ NoCell \in Cell /\ NoCell.kind = "free" /\ NoCell.refs = 0 /\ NoCell.marked = FALSE
      /\ NoCell.link = None /\ NoCell.open = <<>> /\ NoCell.fields[1] = None /\ NoCell.fields[2] = None
  BY DEF NoCell, Cell
<1> DEFINE none == NoCell
<1> HIDE DEF none, new, l, hl
<1>6. /\ new \in Cell /\ new.kind = "free" /\ new.refs = 0 /\ new.marked = FALSE /\ new.link = None
      /\ new.open = <<>> /\ new.box = "none" /\ new.fields[1] = None /\ new.fields[2] = None
  <2>1. new = [none EXCEPT !.box = "none"]
    BY <1>4 DEF none
  <2>2. /\ none \in Cell /\ none.kind = "free" /\ none.refs = 0 /\ none.marked = FALSE
        /\ none.link = None /\ none.open = <<>> /\ none.fields[1] = None /\ none.fields[2] = None
    BY <1>5 DEF none
  <2>3. QED
    BY <2>1, <2>2 DEF Cell
<1>7. /\ hl \in [Cells -> Cell]
      /\ \A x \in Cells : /\ hl[x].kind = h[x].kind /\ hl[x].marked = h[x].marked
                          /\ hl[x].open = h[x].open /\ hl[x].refs = h[x].refs
                          /\ hl[x].fields = h[x].fields /\ hl[x].box = h[x].box
                          /\ hl[x].link = IF x = l THEN None ELSE h[x].link
  <2>1. CASE l = None
    BY <2>1, <1>1, NoneAssumption DEF Unlinked, hl, l
  <2>2. CASE l # None
    <3> DEFINE nl == [h[l] EXCEPT !.link = None]
    <3>1. l \in Cells /\ h[l] \in Cell
      BY <2>2, <1>1
    <3>2. hl = [h EXCEPT ![l] = nl]
      BY <2>2, <1>1, <3>1 DEF Unlinked, hl, l
    <3>3. /\ nl \in Cell /\ nl.kind = h[l].kind /\ nl.marked = h[l].marked /\ nl.open = h[l].open
          /\ nl.refs = h[l].refs /\ nl.fields = h[l].fields /\ nl.box = h[l].box /\ nl.link = None
      BY <3>1 DEF Cell
    <3> HIDE DEF nl
    <3>4. QED
      BY <1>1, <3>1, <3>2, <3>3
  <2>3. QED
    BY <2>1, <2>2
<1>8. h2 = [hl EXCEPT ![c] = new]
  BY DEF hl, new
<1>9. h2 \in [Cells -> Cell] /\ \A x \in Cells : h2[x] = IF x = c THEN new ELSE hl[x]
  BY <1>6, <1>7, <1>8
<1>10. ASSUME NEW x \in Cells
       PROVE  /\ h2[x].kind = (IF x = c THEN "free" ELSE h[x].kind) /\ h2[x].marked = h[x].marked
              /\ h2[x].open = h[x].open /\ h2[x].refs = h[x].refs
              /\ \A g \in 1..2 : h2[x].fields[g] = h[x].fields[g]
              /\ h2[x].link = (IF x = c \/ x = l THEN None ELSE h[x].link)
              /\ h2[x].box = (IF x = c THEN "none" ELSE h[x].box)
  <2>1. CASE x = c
    <3>1. h2[x] = new
      BY <2>1, <1>9
    <3>2. h[c].marked = FALSE
      BY CellTypes
    <3>3. \A g \in 1..2 : new.fields[g] = None
      BY <1>6
    <3>4. QED
      BY <2>1, <3>1, <3>2, <3>3, <1>6
  <2>2. CASE x # c
    <3>1. h2[x] = hl[x]
      BY <2>2, <1>9
    <3>2. QED
      BY <2>2, <3>1, <1>7
  <2>3. QED
    BY <2>1, <2>2
<1>11. QED
  BY <1>9, <1>10 DEF IsFreed, l

\* The end of a block: nothing refers to it, it has left the chain, its hook has
\* run and its outers are closed.
LEMMA FreeCellKeeps ==
    ASSUME IInv, FreeCell
    PROVE  IInv'
<1> DEFINE c == Here
           p == Pile(work)
           n == Len(work)
           q == Pile(work')
           m == Len(work')
<1>1. /\ work # <<>> /\ Head(work).op = "free"
      /\ heap' = [Unlinked(heap, c) EXCEPT
                    ![c] = [NoCell EXCEPT !.box = IF heap[c].box \in {"full", "twice"} THEN "leaked" ELSE "none"]]
      /\ work' = <<>> \o Tail(work) /\ UNCHANGED <<lists, Listed, table, held, leaked, uses, ops, status>>
  BY ListsSame DEF FreeCell, Doing, Then, Here
<1>2. /\ n \in Nat \ {0} /\ p[n] = Head(work) /\ HeapInv(heap, Listed, p, n, Objs, status)
      /\ Referred(heap, p, n, Objs, status) /\ TaskOK(heap, p, n, status, n) /\ c = p[n].cell
      /\ p[n] \in TaskType /\ (p[n].op \in CellOps => c \in Cells /\ heap[c].kind # "free")
  BY <1>1, WorkTop
<1>3. /\ Shape(heap) /\ ChainOK(heap, Listed) /\ Exact(heap, p, n, Objs, status)
      /\ Released(heap, p, n) /\ TasksOK(heap, p, n, status) /\ FreesOK(heap, Listed, p, n)
      /\ MarksOK(heap, p, n, Objs) /\ ScopeOK(heap, p, n, status) /\ p \in [1..n -> TaskType]
      /\ Objs \subseteq Cells /\ (status = "open" => heap[Root].kind = "thread")
  BY <1>2 DEF HeapInv
<1>4. <<>> \in Seq(TaskType) /\ Len(<<>>) = 0
  OBVIOUS
<1>5. work' \in Seq(TaskType) /\ Replaced(p, n, q, m, <<>>)
  BY <1>1, <1>4, WorkSetup
<1>6. p[n].op = "free" /\ n \in 1..n
  <2>1. p[n].op = "free"
    BY <1>1, <1>2, Zenon
  <2>2. QED
    BY <2>1, <1>2
<1> HIDE DEF c, p, n, q, m
<1>7. /\ c \in Cells /\ heap[c].refs = 0 /\ ~heap[c].marked /\ heap[c].kind # "free"
      /\ heap[c].open = <<>>
  BY <1>2, <1>6 DEF Referred
<1>8. /\ \A f \in 1..2 : heap[c].fields[f] = None
      /\ c \notin Listed /\ heap[c].box # "full"
      /\ \A o \in Cells : heap[o].open # <<>> => heap[o].open[1] # c
  <2>1. \A op, f : ~Before(p, n, n, op, f)
    BY <1>2 DEF Before
  <2>2. FreeOK(heap, Listed, p, n, n)
    BY <1>3, <1>6 DEF FreesOK
  <2>3. QED
    BY <1>2, <2>1, <2>2 DEF FreeOK
<1>9. IsFreed(heap, heap', c)
  BY <1>1, <1>3, <1>7, <1>8, FreedHeap
<1>10. /\ heap' \in [Cells -> Cell]
       /\ \A x \in Cells :
            /\ heap'[x].kind = (IF x = c THEN "free" ELSE heap[x].kind)
            /\ heap'[x].marked = heap[x].marked
            /\ heap'[x].open = heap[x].open /\ heap'[x].refs = heap[x].refs
            /\ \A g \in 1..2 : heap'[x].fields[g] = heap[x].fields[g]
            /\ heap'[x].link = (IF x = c \/ x = heap[c].link THEN None ELSE heap[x].link)
            /\ heap'[x].box = (IF x = c THEN "none" ELSE heap[x].box)
  BY <1>9 DEF IsFreed
<1>11. m = n - 1 /\ m \in Nat /\ q \in [1..m -> TaskType] /\ \A op, x : NoneOf(<<>>, op, x)
  BY <1>2, <1>4, <1>5 DEF Replaced, NoneOf
<1>12. Exact(heap', q, m, Objs, status)
  <2>1. SUFFICES ASSUME NEW x \in Cells
                 PROVE  heap'[x].refs = FieldRefs(heap', x) + Ind(x \in Objs)
                           + Count(q, m, "drop", x) + Count(q, m, "advance", x)
                           + Ind(x = Root /\ status = "open") + Ind(heap'[x].open # <<>>)
    BY DEF Exact
  <2>2. heap[x].refs = FieldRefs(heap, x) + Ind(x \in Objs)
                       + Count(p, n, "drop", x) + Count(p, n, "advance", x)
                       + Ind(x = Root /\ status = "open") + Ind(heap[x].open # <<>>)
    BY <1>3 DEF Exact
  <2>3. /\ FieldRefs(heap, x) \in Nat /\ Count(p, n, "drop", x) \in Nat
        /\ Count(p, n, "advance", x) \in Nat
    BY <1>2, CountTypes
  <2>4. FieldRefs(heap', x) = FieldRefs(heap, x)
    BY <1>10, FieldRefsSame DEF SameFields
  <2>5. /\ Count(q, m, "drop", x) = Count(p, n, "drop", x) - Ind(Is(p[n], "drop", x))
        /\ Count(q, m, "advance", x) = Count(p, n, "advance", x) - Ind(Is(p[n], "advance", x))
    BY <1>5, <1>11, CountNone
  <2>6. Ind(Is(p[n], "drop", x)) = 0 /\ Ind(Is(p[n], "advance", x)) = 0
    BY <1>6 DEF Ind, Is
  <2>7. heap'[x].refs = heap[x].refs /\ heap'[x].open = heap[x].open
    BY <1>10
  <2>8. QED
    BY <2>2, <2>3, <2>4, <2>5, <2>6, <2>7
<1>13. Released(heap', q, m)
  <2>1. SUFFICES ASSUME NEW x \in Cells
                 PROVE  Count(q, m, "free", x) =
                          Ind(heap'[x].kind # "free" /\ heap'[x].refs = 0 /\ ~heap'[x].marked)
    BY DEF Released
  <2>2. Count(p, n, "free", x) = Ind(heap[x].kind # "free" /\ heap[x].refs = 0 /\ ~heap[x].marked)
    BY <1>3 DEF Released
  <2>3. Count(q, m, "free", x) = Count(p, n, "free", x) - Ind(Is(p[n], "free", x))
    BY <1>5, <1>11, CountNone
  <2>4. Ind(Is(p[n], "free", x)) = Ind(x = c)
    BY <1>2, <1>6 DEF Ind, Is
  <2>5. QED
    BY <2>2, <2>3, <2>4, <1>7, <1>10 DEF Ind
<1>14. TasksOK(heap', q, m, status)
  <2>1. \A k \in n..m : FALSE
    BY <1>2, <1>11
  <2>2. QED
    BY <2>1, <1>3, <1>5, <1>10, TasksKept
<1>15. FreesOK(heap', Listed, q, m)
  <2>1. \A k \in n..m : FALSE
    BY <1>2, <1>11
  <2>2. ASSUME NEW k \in 1..n - 1, p[k].op = "free"
        PROVE  Settles(heap, Listed, heap', Listed, p[n], q, n, p[k].cell)
    <3>1. p[k].cell \in Cells
      BY <2>2, <1>2 DEF Referred
    <3>2. QED
      BY <3>1, <1>10, <1>6 DEF Settles, Is
  <2>3. QED
    BY <2>1, <2>2, <1>3, <1>5, <1>6, FreesKept
<1>16. MarksOK(heap', q, m, Objs)
  <2>1. Marking(p, n) => Marking(q, m)
    BY <1>2, <1>6, <1>5, MarkingKept DEF TaskOK
  <2>2. QED
    BY <2>1, <1>3, <1>5, <1>10, MarksKept
<1>17. ScopeOK(heap', q, m, status)
  <2>1. n = 1 => m = 0 \/ q[1].op # "closeouters"
    BY <1>11
  <2>2. ASSUME p[1].op = "closeouters", n > 1
        PROVE  /\ heap'[p[1].cell].kind = "thread" /\ Stays(heap', q, m, p[1].cell)
               /\ \A k \in 2..n - 1 : Passing(heap', p[1].cell, p[k])
               /\ \A k \in n..m : Passing(heap', p[1].cell, q[k])
    <3> DEFINE th == p[1].cell
    <3>1. /\ th \in Cells /\ heap[th].kind = "thread" /\ Stays(heap, p, n, th)
          /\ \A k \in 2..n : /\ Passing(heap, th, p[k]) /\ p[k] \in TaskType
                             /\ p[k].cell # None /\ p[k].cell \in Cells
      BY <2>2, <1>2, ScopeThread
    <3> HIDE DEF th
    <3>2. th # c
      <4>1. n \in 2..n
        BY <1>2, <2>2
      <4>2. heap[c].kind = "outer"
        BY <4>1, <3>1, <1>2, <1>6 DEF Passing
      <4>3. QED
        BY <3>1, <4>2
    <3>3. ASSUME NEW k \in 2..n - 1 PROVE Passing(heap', th, p[k])
      <4>1. k \in 2..n /\ k \in 1..n - 1
        BY <1>2
      <4>2. Passing(heap, th, p[k]) /\ p[k] \in TaskType /\ p[k].cell # None /\ p[k].cell \in Cells
        BY <4>1, <3>1
      <4>3. p[k].op \in {"drop", "unchain", "null", "clear", "free"}
        BY <4>2 DEF Passing
      <4>4. p[k].cell # c
        BY <4>1, <4>3, <1>2, <1>6, FreeAlone
      <4>5. /\ heap'[p[k].cell].kind = heap[p[k].cell].kind
            /\ heap'[p[k].cell].open = heap[p[k].cell].open
            /\ heap'[p[k].cell].fields[2] \in {heap[p[k].cell].fields[2], None}
        BY <4>2, <4>4, <1>10
      <4>6. \A g \in 1..2 : heap'[th].fields[g] = heap[th].fields[g]
        BY <3>1, <1>10
      <4>7. QED
        BY <4>2, <4>5, <4>6, <3>1, PassingKept
    <3>4. \A k \in n..m : FALSE
      BY <1>2, <1>11
    <3>5. ASSUME NEW x \in Cells, Spared(p, n, x) PROVE Spared(q, m, x)
      <4>1. \A k \in 1..m : k \in 1..n /\ q[k] = p[k]
        BY <1>2, <1>5, <1>11, NewHeights
      <4>2. QED
        BY <4>1, <3>5 DEF Spared
    <3>6. Stays(heap', q, m, th)
      BY <3>1, <3>5, <1>10 DEF Stays
    <3>7. heap'[th].kind = "thread"
      BY <3>1, <3>2, <1>10
    <3>8. QED
      BY <3>3, <3>4, <3>6, <3>7 DEF th
  <2>3. QED
    BY <2>1, <2>2, <1>3, <1>5, ScopeKept
<1>18. Shape(heap')
  <2>1. ASSUME NEW x \in Cells PROVE CellOK(heap', x)
    <3>1. CellOK(heap, x) /\ CellOK(heap, c)
      BY <1>3, <1>7 DEF Shape
    <3>2. heap[x].link # None => heap[x].link \in Cells
      BY <1>3, CellTypes
    <3>3. heap[x].open # <<>> => heap[x].open[1] \in Cells /\ heap[x].open[1] # c
      BY <1>3, <1>8, CellTypes
    <3>4. CASE x = c
      BY <3>4, <1>7, <1>8, <1>10 DEF CellOK
    <3>5. CASE x # c
      <4>1. heap'[x].link # None => /\ heap'[x].link = heap[x].link
                                    /\ heap[x].link # c /\ heap[x].link # heap[c].link
        <5>1. SUFFICES ASSUME heap'[x].link # None
                       PROVE  /\ heap'[x].link = heap[x].link
                              /\ heap[x].link # c /\ heap[x].link # heap[c].link
          OBVIOUS
        <5>2. heap'[x].link = heap[x].link /\ x # heap[c].link
          BY <5>1, <3>5, <1>10
        <5>3. heap[heap[x].link].link = x
          BY <3>1, <5>1, <5>2 DEF CellOK
        <5>4. heap[c].link # None => heap[heap[c].link].link = c
          BY <3>1 DEF CellOK
        <5>5. QED
          BY <5>1, <5>2, <5>3, <5>4, <3>5
      <4>2. heap'[x].link # None => /\ heap'[heap'[x].link].link = x
                                    /\ (heap'[x].kind = "weakref") # (heap'[heap'[x].link].kind = "weakref")
        BY <4>1, <3>1, <3>2, <3>5, <1>10 DEF CellOK
      <4>3. heap'[x].open # <<>> => /\ heap'[x].kind = "outer" /\ heap'[x].fields[2] = None
                                    /\ heap'[heap'[x].open[1]].kind = "thread"
        BY <3>1, <3>3, <3>5, <1>10 DEF CellOK
      <4>4. QED
        BY <4>2, <4>3, <3>1, <3>5, <1>10 DEF CellOK
    <3>6. QED
      BY <3>4, <3>5
  <2>2. QED
    BY <2>1, <1>10 DEF Shape
<1>19. ChainOK(heap', Listed)
  BY <1>3, <1>8, <1>10 DEF ChainOK
<1>20. status = "open" => heap'[Root].kind = "thread"
  BY <1>2, <1>3, <1>7, <1>10, CellsAssumption DEF Referred
<1>21. HeapInv(heap', Listed', q, m, Objs, status)
  BY <1>1, <1>3, <1>11, <1>12, <1>13, <1>14, <1>15, <1>16, <1>17, <1>18, <1>19, <1>20 DEF HeapInv
<1>22. QED
  BY <1>1, <1>5, <1>21, WorkDone DEF q, m
\* An outer that is closed takes the value of its slot.
Shut(h, o, v) == [h EXCEPT ![o].fields[2] = v, ![o].open = <<>>]
IsShut(h, h2, o, v) ==
    /\ h2 \in [Cells -> Cell]
    /\ \A x \in Cells :
          /\ h2[x].kind = h[x].kind /\ h2[x].marked = h[x].marked /\ h2[x].link = h[x].link
          /\ h2[x].box = h[x].box /\ h2[x].refs = h[x].refs
          /\ h2[x].open = IF x = o THEN <<>> ELSE h[x].open
          /\ \A g \in 1..2 : h2[x].fields[g] = IF x = o /\ g = 2 THEN v ELSE h[x].fields[g]
\* The heap after an outer took over its variable.
LEMMA OuterShut ==
    ASSUME NEW h \in [Cells -> Cell], NEW o \in Cells, NEW v \in Cells \cup {None}
    PROVE  IsShut(h, Shut(h, o, v), o, v)
<1>1. h[o] \in Cell /\ h[o].fields \in [1..2 -> Cells \cup {None}]
  BY DEF Cell
<1> DEFINE fs == [h[o].fields EXCEPT ![2] = v]
           new == [h[o] EXCEPT !.fields = fs, !.open = <<>>]
           h2 == Shut(h, o, v)
<1>2. fs \in [1..2 -> Cells \cup {None}] /\ \A g \in 1..2 : fs[g] = IF g = 2 THEN v ELSE h[o].fields[g]
  BY <1>1
<1>3. h2 = [h EXCEPT ![o] = new]
  BY <1>1 DEF Shut
<1> HIDE DEF fs
<1>4. /\ new \in Cell /\ new.refs = h[o].refs /\ new.fields = fs /\ new.kind = h[o].kind
      /\ new.marked = h[o].marked /\ new.link = h[o].link /\ new.open = <<>>
      /\ new.box = h[o].box
  BY <1>1, <1>2 DEF Cell
<1> HIDE DEF new, h2
<1>5. IsShut(h, h2, o, v)
  BY <1>2, <1>3, <1>4 DEF IsShut
<1>6. QED
  BY <1>5 DEF h2

\* CloseOuters with nothing left to close.
LEMMA CloseOutersEnds ==
    ASSUME IInv, CloseOuters, OpenOuters(Here) = {}
    PROVE  IInv'
<1> DEFINE c == Here
           p == Pile(work)
           n == Len(work)
           q == Pile(work')
           m == Len(work')
<1>1. /\ work # <<>> /\ Head(work).op = "closeouters" /\ heap' = heap
      /\ work' = <<>> \o Tail(work) /\ UNCHANGED <<lists, Listed, table, held, leaked, uses, ops, status>>
  BY ListsSame DEF CloseOuters, Doing, Then, Here
<1>2. /\ n \in Nat \ {0} /\ p[n] = Head(work) /\ HeapInv(heap, Listed, p, n, Objs, status)
      /\ Referred(heap, p, n, Objs, status) /\ TaskOK(heap, p, n, status, n) /\ c = p[n].cell
      /\ p[n] \in TaskType /\ (p[n].op \in CellOps => c \in Cells /\ heap[c].kind # "free")
  BY <1>1, WorkTop
<1>3. /\ Shape(heap) /\ ChainOK(heap, Listed) /\ Exact(heap, p, n, Objs, status)
      /\ Released(heap, p, n) /\ TasksOK(heap, p, n, status) /\ FreesOK(heap, Listed, p, n)
      /\ MarksOK(heap, p, n, Objs) /\ ScopeOK(heap, p, n, status) /\ p \in [1..n -> TaskType]
      /\ Objs \subseteq Cells /\ (status = "open" => heap[Root].kind = "thread")
  BY <1>2 DEF HeapInv
<1>4. <<>> \in Seq(TaskType) /\ Len(<<>>) = 0
  OBVIOUS
<1>5. work' \in Seq(TaskType) /\ Replaced(p, n, q, m, <<>>)
  BY <1>1, <1>4, WorkSetup
<1>6. p[n].op = "closeouters"
  BY <1>1, <1>2, Zenon
<1>7. ASSUME NEW o \in Cells, heap[o].open # <<>> PROVE heap[o].open[1] # c
  <2>1. heap[o].kind = "outer"
    BY <1>3, <1>7 DEF Shape, CellOK
  <2>2. QED
    BY <2>1, <1>7 DEF OpenOuters, Live
<1> HIDE DEF c, p, n, q, m
<1>8. SameFrame(heap, heap')
  BY <1>1 DEF SameFrame
<1>9. /\ m = n - 1 /\ m \in Nat /\ q \in [1..m -> TaskType]
      /\ Exact(heap', q, m, Objs, status) /\ Released(heap', q, m) /\ TasksOK(heap', q, m, status)
      /\ MarksOK(heap', q, m, Objs) /\ ScopeOK(heap', q, m, status)
  BY <1>2, <1>5, <1>6, <1>8, PopKeeps
<1>10. FreesOK(heap', Listed', q, m)
  <2>1. \A k \in n..m : FALSE
    BY <1>2, <1>9
  <2>2. ASSUME NEW k \in 1..n - 1, p[k].op = "free"
        PROVE  Settles(heap, Listed, heap', Listed', p[n], q, n, p[k].cell)
    <3>1. p[k].cell \in Cells
      BY <2>2, <1>2 DEF Referred
    <3>2. QED
      BY <3>1, <1>1, <1>2, <1>6, <1>7 DEF Settles, Is
  <2>3. \A o \in Cells : heap'[o].open # <<>> => heap'[o].open[1] # p[n].cell
    BY <1>1, <1>2, <1>7
  <2>4. QED
    BY <2>1, <2>2, <2>3, <1>3, <1>5, FreesKept
<1>11. HeapInv(heap', Listed', q, m, Objs, status)
  BY <1>1, <1>3, <1>9, <1>10 DEF HeapInv
<1>12. QED
  BY <1>1, <1>5, <1>11, WorkDone DEF q, m
\* A task that gives way to a drop of o and then to t.
DropsFirst(ts, o) ==
    Len(ts) = 2 /\ IsTask(ts[1], "drop", o) /\ ts[2].op \notin {"drop", "advance", "free"}
OneDrop(p, n, q, m, ts, o) ==
    /\ m = n + 1 /\ m \in Nat /\ q[n] = ts[2] /\ q[n + 1] = ts[1]
    /\ \A k \in n..m : k = n \/ k = n + 1
    /\ \A x : /\ Count(q, m, "drop", x) = Count(p, n, "drop", x) + Ind(x = o)
             /\ Count(q, m, "advance", x) = Count(p, n, "advance", x)
             /\ Count(q, m, "free", x) = Count(p, n, "free", x)
\* Closing an outer: one release comes on top of what is left to do.
LEMMA DropThen ==
    ASSUME NEW p, NEW n, NEW q, NEW m, NEW ts, NEW o, Replaced(p, n, q, m, ts), DropsFirst(ts, o),
           p[n].op \notin {"drop", "advance", "free"}
    PROVE  OneDrop(p, n, q, m, ts, o)
<1> DEFINE td == ts[1]
           t == ts[2]
<1>0. Len(ts) = 2 /\ IsTask(td, "drop", o) /\ t.op \notin {"drop", "advance", "free"}
  BY DEF DropsFirst
<1> HIDE DEF td, t
<1>1. n \in Nat \ {0}
  BY DEF Replaced
<1>2. m = n + 1 /\ m \in Nat /\ q[n] = t /\ q[n + 1] = td
  <2>1. m = n - 1 + Len(ts) /\ \A j \in 1..Len(ts) : q[n + Len(ts) - j] = ts[j]
    BY DEF Replaced
  <2>2. m = n + 1 /\ m \in Nat
    BY <2>1, <1>0, <1>1
  <2>3. q[n + 2 - 1] = td /\ q[n + 2 - 2] = t
    BY <2>1, <1>0 DEF td, t
  <2>4. n + 2 - 1 = n + 1 /\ n + 2 - 2 = n
    BY <1>1
  <2>5. QED
    BY <2>2, <2>3, <2>4
<1>3. \A k \in n..m : k = n \/ k = n + 1
  BY <1>1, <1>2
<1>4. ASSUME NEW x
      PROVE  /\ Count(q, m, "drop", x) = Count(p, n, "drop", x) + Ind(x = o)
             /\ Count(q, m, "advance", x) = Count(p, n, "advance", x)
             /\ Count(q, m, "free", x) = Count(p, n, "free", x)
  <2>1. Ind(Is(p[n], "drop", x)) = 0 /\ Ind(Is(p[n], "advance", x)) = 0 /\ Ind(Is(p[n], "free", x)) = 0
    BY DEF Ind, Is
  <2>2. Count(p, n, "drop", x) \in Nat /\ Count(p, n, "advance", x) \in Nat /\ Count(p, n, "free", x) \in Nat
    BY <1>1, TasksFinite
  <2>3. /\ \A y : Is(td, "drop", y) <=> y = o
        /\ \A y : ~Is(t, "drop", y) /\ ~Is(td, "advance", y) /\ ~Is(t, "advance", y)
                  /\ ~Is(td, "free", y) /\ ~Is(t, "free", y)
    BY <1>0 DEF IsTask, Is
  <2>4. \A j \in 1..Len(ts) : (j = 1 /\ ts[j] = td) \/ (j = 2 /\ ts[j] = t)
    <3>1. \A j \in 1..2 : j = 1 \/ j = 2
      OBVIOUS
    <3>2. QED
      BY <3>1, <1>0 DEF td, t
  <2>5. NoneOf(ts, "advance", x) /\ NoneOf(ts, "free", x)
    BY <2>3, <2>4 DEF NoneOf
  <2>6. x # o => NoneOf(ts, "drop", x)
    BY <2>3, <2>4 DEF NoneOf
  <2>7. x = o => OneOf(ts, "drop", x, 1)
    BY <2>3, <2>4, <1>0 DEF OneOf
  <2>8. Count(q, m, "advance", x) = Count(p, n, "advance", x) - Ind(Is(p[n], "advance", x))
    BY <2>5, CountNone
  <2>9. Count(q, m, "free", x) = Count(p, n, "free", x) - Ind(Is(p[n], "free", x))
    BY <2>5, CountNone
  <2>10. CASE x = o
    <3>1. Count(q, m, "drop", x) = Count(p, n, "drop", x) - Ind(Is(p[n], "drop", x)) + 1
      BY <2>10, <2>7, CountOneMore
    <3>2. QED
      BY <3>1, <2>1, <2>2, <2>8, <2>9, <2>10 DEF Ind
  <2>11. CASE x # o
    <3>1. Count(q, m, "drop", x) = Count(p, n, "drop", x) - Ind(Is(p[n], "drop", x))
      BY <2>11, <2>6, CountNone
    <3>2. QED
      BY <3>1, <2>1, <2>2, <2>8, <2>9, <2>11 DEF Ind
  <2>12. QED
    BY <2>10, <2>11
<1>5. QED
  BY <1>2, <1>3, <1>4 DEF OneDrop, td, t

\* CloseOuters with an outer to close.
LEMMA CloseOutersCloses ==
    ASSUME IInv, CloseOuters, OpenOuters(Here) # {}
    PROVE  IInv'
<1> DEFINE c == Here
           p == Pile(work)
           n == Len(work)
           q == Pile(work')
           m == Len(work')
           o == CHOOSE x \in OpenOuters(c) :
                    \A y \in OpenOuters(c) : heap[y].open[2] <= heap[x].open[2]
           v == heap[c].fields[heap[o].open[2]]
           td == Task("drop", o)
           tc == Task("closeouters", c)
           ts == <<td, tc>>
<1>1. /\ work # <<>> /\ Head(work).op = "closeouters" /\ heap' = AddRefTo(Shut(heap, o, v), v)
      /\ work' = ts \o Tail(work) /\ UNCHANGED <<lists, Listed, table, held, leaked, uses, ops, status>>
  BY ListsSame DEF CloseOuters, Doing, Then, Here, Shut
<1>2. /\ n \in Nat \ {0} /\ p[n] = Head(work) /\ HeapInv(heap, Listed, p, n, Objs, status)
      /\ Referred(heap, p, n, Objs, status) /\ TaskOK(heap, p, n, status, n) /\ c = p[n].cell
      /\ p[n] \in TaskType /\ (p[n].op \in CellOps => c \in Cells /\ heap[c].kind # "free")
  BY <1>1, WorkTop
<1>3. /\ Shape(heap) /\ ChainOK(heap, Listed) /\ Exact(heap, p, n, Objs, status)
      /\ Released(heap, p, n) /\ TasksOK(heap, p, n, status) /\ FreesOK(heap, Listed, p, n)
      /\ MarksOK(heap, p, n, Objs) /\ ScopeOK(heap, p, n, status) /\ p \in [1..n -> TaskType]
      /\ Objs \subseteq Cells /\ (status = "open" => heap[Root].kind = "thread")
  BY <1>2 DEF HeapInv
<1>4. p[n].op = "closeouters" /\ c \in Cells /\ n \in 1..n
  <2>1. p[n].op = "closeouters"
    BY <1>1, <1>2, Zenon
  <2>2. p[n].op \in CellOps
    BY <2>1 DEF CellOps
  <2>3. QED
    BY <2>1, <2>2, <1>2
<1>5. o \in OpenOuters(c)
  <2>1. \A x \in OpenOuters(c) : heap[x].open[2] \in 1..2
    <3>1. ASSUME NEW x \in OpenOuters(c) PROVE heap[x].open[2] \in 1..2
      <4>1. x \in Cells /\ heap[x].open # <<>>
        BY DEF OpenOuters, Live
      <4>2. QED
        BY <4>1, <1>3, CellTypes
    <3>2. QED
      BY <3>1
  <2>2. \E x \in OpenOuters(c) : \A y \in OpenOuters(c) : heap[y].open[2] <= heap[x].open[2]
    <3>1. CASE \E x \in OpenOuters(c) : heap[x].open[2] = 2
      BY <3>1, <2>1
    <3>2. CASE \A x \in OpenOuters(c) : heap[x].open[2] # 2
      <4>1. \A x \in OpenOuters(c) : heap[x].open[2] = 1
        BY <3>2, <2>1
      <4>2. QED
        BY <4>1
    <3>3. QED
      BY <3>1, <3>2
  <2>3. QED
    BY <2>2
<1> HIDE DEF o
<1>6. /\ o \in Cells /\ heap[o].kind = "outer" /\ heap[o].open # <<>> /\ heap[o].open[1] = c
      /\ heap[o].open[2] \in 1..2 /\ heap[o].fields[2] = None /\ heap[o].refs > 0
      /\ heap[c].kind = "thread" /\ o # c
  <2>1. o \in Cells /\ heap[o].kind = "outer" /\ heap[o].open # <<>> /\ heap[o].open[1] = c
    BY <1>5 DEF OpenOuters, Live
  <2>2. CellOK(heap, o)
    BY <2>1, <1>3 DEF Shape
  <2>3. heap[o].open[2] \in 1..2
    BY <2>1, <1>3, CellTypes
  <2>4. heap[o].fields[2] = None /\ heap[c].kind = "thread"
    BY <2>1, <2>2 DEF CellOK
  <2>5. heap[o].refs > 0
    BY <2>1, <1>2 DEF Referred
  <2>6. QED
    BY <2>1, <2>3, <2>4, <2>5
<1>7. v \in Cells \cup {None} /\ (v # None => v \in Cells /\ heap[v].refs > 0)
  <2>1. v \in Cells \cup {None}
    BY <1>3, <1>4, <1>6, CellTypes
  <2>2. QED
    BY <2>1, <1>2, <1>4, <1>6 DEF Referred
<1>8. IsTask(td, "drop", o) /\ IsTask(tc, "closeouters", c)
  BY <1>4, <1>6, TaskFacts DEF CellOps
<1> HIDE DEF td, tc, c, p, n, q, m, v
<1>9. ts \in Seq(TaskType) /\ Len(ts) = 2 /\ ts[1] = td /\ ts[2] = tc
  <2>1. td \in TaskType /\ tc \in TaskType
    BY <1>8 DEF IsTask
  <2>2. QED
    BY <2>1
<1> HIDE DEF ts
<1>10. work' \in Seq(TaskType) /\ Replaced(p, n, q, m, ts)
  BY <1>1, <1>9, WorkSetup DEF p, q, n, m
<1>11. /\ m = n + 1 /\ m \in Nat /\ q[n] = tc /\ q[n + 1] = td
       /\ \A k \in n..m : k = n \/ k = n + 1
       /\ \A x : /\ Count(q, m, "drop", x) = Count(p, n, "drop", x) + Ind(x = o)
                /\ Count(q, m, "advance", x) = Count(p, n, "advance", x)
                /\ Count(q, m, "free", x) = Count(p, n, "free", x)
  <2>1. p[n].op \notin {"drop", "advance", "free"}
    BY <1>4
  <2>2. DropsFirst(ts, o)
    BY <1>8, <1>9 DEF DropsFirst, IsTask
  <2>3. OneDrop(p, n, q, m, ts, o)
    BY <2>1, <2>2, <1>10, DropThen
  <2>4. QED
    BY <2>3, <1>9 DEF OneDrop
<1>12. /\ heap' \in [Cells -> Cell]
       /\ \A x \in Cells :
             /\ heap'[x].kind = heap[x].kind /\ heap'[x].marked = heap[x].marked
             /\ heap'[x].link = heap[x].link /\ heap'[x].box = heap[x].box
             /\ heap'[x].refs = heap[x].refs + Ind(x = v)
             /\ heap'[x].open = (IF x = o THEN <<>> ELSE heap[x].open)
             /\ \A g \in 1..2 : heap'[x].fields[g] = IF x = o /\ g = 2 THEN v ELSE heap[x].fields[g]
  <2> DEFINE h1 == Shut(heap, o, v)
  <2>1. IsShut(heap, h1, o, v)
    BY <1>3, <1>6, <1>7, OuterShut DEF Shape
  <2> HIDE DEF h1
  <2>2. Counted(h1, heap', v)
    BY <2>1, <1>1, <1>7, AddRefToCounts DEF IsShut, h1
  <2>3. QED
    BY <2>1, <2>2 DEF IsShut, Counted, SameBody
<1>13. \A x \in Cells : heap[x].refs \in Nat /\ (heap'[x].refs = 0 <=> heap[x].refs = 0)
  <2>1. SUFFICES ASSUME NEW x \in Cells PROVE heap[x].refs \in Nat /\ (heap'[x].refs = 0 <=> heap[x].refs = 0)
    OBVIOUS
  <2>2. heap[x].refs \in Nat
    BY <1>3, CellTypes
  <2>3. heap'[x].refs = heap[x].refs + Ind(x = v)
    BY <1>12
  <2>4. x = v => heap[x].refs > 0
    BY <1>7, NoneAssumption
  <2>5. QED
    BY <2>2, <2>3, <2>4 DEF Ind
<1>15. Shape(heap')
  <2>1. ASSUME NEW x \in Cells PROVE CellOK(heap', x)
    <3>1. CellOK(heap, x)
      BY <1>3 DEF Shape
    <3>2. heap[x].link # None => heap[x].link \in Cells
      BY <1>3, CellTypes
    <3>3. heap[x].open # <<>> => heap[x].open[1] \in Cells
      BY <1>3, CellTypes
    <3>4. x = o => heap'[x].open = <<>>
      BY <1>12
    <3>5. x # o => \A g \in 1..2 : heap'[x].fields[g] = heap[x].fields[g]
      BY <1>12
    <3>6. x = o => heap'[x].kind = "outer" /\ heap'[x].fields[1] = heap[x].fields[1]
      BY <1>6, <1>12
    <3>7. /\ heap'[x].kind = heap[x].kind /\ heap'[x].marked = heap[x].marked
          /\ heap'[x].link = heap[x].link /\ heap'[x].box = heap[x].box
          /\ heap'[x].open # <<>> => x # o /\ heap'[x].open = heap[x].open
          /\ heap'[x].refs = 0 <=> heap[x].refs = 0
      BY <1>12, <1>13
    <3>8. heap[x].link # None => /\ heap'[heap[x].link].link = heap[heap[x].link].link
                                 /\ heap'[heap[x].link].kind = heap[heap[x].link].kind
      BY <3>2, <1>12
    <3>9. heap[x].open # <<>> => heap'[heap[x].open[1]].kind = heap[heap[x].open[1]].kind
      BY <3>3, <1>12
    <3>10. heap[x].kind = "free" => heap'[x].open = <<>> /\ x # o
      BY <3>1, <3>7, <1>6 DEF CellOK
    <3>11. QED
      BY <3>1, <3>5, <3>6, <3>7, <3>8, <3>9, <3>10 DEF CellOK
  <2>2. QED
    BY <2>1, <1>12 DEF Shape
<1>16. ChainOK(heap', Listed)
  BY <1>3, <1>12 DEF ChainOK
<1>18. Exact(heap', q, m, Objs, status)
  <2>1. SUFFICES ASSUME NEW x \in Cells
                 PROVE  heap'[x].refs = FieldRefs(heap', x) + Ind(x \in Objs)
                           + Count(q, m, "drop", x) + Count(q, m, "advance", x)
                           + Ind(x = Root /\ status = "open") + Ind(heap'[x].open # <<>>)
    BY DEF Exact
  <2>2. heap[x].refs = FieldRefs(heap, x) + Ind(x \in Objs)
                       + Count(p, n, "drop", x) + Count(p, n, "advance", x)
                       + Ind(x = Root /\ status = "open") + Ind(heap[x].open # <<>>)
    BY <1>3 DEF Exact
  <2>3. /\ FieldRefs(heap, x) \in Nat /\ Count(p, n, "drop", x) \in Nat
        /\ Count(p, n, "advance", x) \in Nat
    BY <1>2, CountTypes
  <2>4. FieldRefs(heap', x) = FieldRefs(heap, x) - Ind(None = x) + Ind(v = x)
    <3>1. OneField(heap, heap', o, 2)
      BY <1>6, <1>12 DEF OneField
    <3>2. heap'[o].fields[2] = v /\ heap[o].fields[2] = None
      BY <1>6, <1>12
    <3>3. QED
      BY <3>1, <3>2, FieldRefsStored
  <2>5. Ind(None = x) = 0 /\ Ind(v = x) = Ind(x = v) /\ Ind(x = v) \in Nat
    BY NoneAssumption DEF Ind
  <2>6. heap'[x].refs = heap[x].refs + Ind(x = v)
    BY <1>12
  <2>7. Ind(heap'[x].open # <<>>) = Ind(heap[x].open # <<>>) - Ind(x = o)
    BY <1>6, <1>12 DEF Ind
  <2>8. /\ Count(q, m, "drop", x) = Count(p, n, "drop", x) + Ind(x = o)
        /\ Count(q, m, "advance", x) = Count(p, n, "advance", x)
    BY <1>11
  <2>9. Ind(x = o) \in Nat /\ Ind(x \in Objs) \in Nat /\ Ind(x = Root /\ status = "open") \in Nat
        /\ Ind(heap[x].open # <<>>) \in Nat
    BY DEF Ind
  <2>10. QED
    BY SMTT(30), <2>2, <2>3, <2>4, <2>5, <2>6, <2>7, <2>8, <2>9
<1>19. Released(heap', q, m)
  <2>1. SUFFICES ASSUME NEW x \in Cells
                 PROVE  Count(q, m, "free", x) =
                          Ind(heap'[x].kind # "free" /\ heap'[x].refs = 0 /\ ~heap'[x].marked)
    BY DEF Released
  <2>2. Count(p, n, "free", x) = Ind(heap[x].kind # "free" /\ heap[x].refs = 0 /\ ~heap[x].marked)
    BY <1>3 DEF Released
  <2>3. QED
    BY <2>2, <1>12, <1>13, <1>11
<1>20. TasksOK(heap', q, m, status)
  <2>1. TaskOK(heap', q, m, status, n)
    <3>1. Kept(p, n) => Kept(q, n)
      <4>1. \A j \in 1..n - 1 : q[j] = p[j]
        BY <1>10, NewHeights
      <4>2. q[n].cell = p[n].cell
        BY <1>2, <1>8, <1>11 DEF IsTask
      <4>3. QED
        BY <4>1, <4>2 DEF Kept
    <3>2. Kept(p, n) \/ n = 1
      BY <1>2, <1>4 DEF TaskOK
    <3>3. q[n].op = "closeouters" /\ q[n].cell = c /\ q[n].ending = "" /\ c # None
      BY <1>4, <1>8, <1>11, NoneAssumption DEF IsTask
    <3>4. QED
      BY <3>1, <3>2, <3>3 DEF TaskOK, CellOps
  <2>2. TaskOK(heap', q, m, status, n + 1)
    <3>1. q[n + 1].op = "drop" /\ q[n + 1].cell = o /\ q[n + 1].ending = "" /\ o # None
      BY <1>6, <1>8, <1>11, NoneAssumption DEF IsTask
    <3>2. QED
      BY <3>1 DEF TaskOK, CellOps
  <2>3. \A k \in n..m : TaskOK(heap', q, m, status, k)
    BY <2>1, <2>2, <1>11
  <2>4. \A x \in Cells : heap'[x].marked => heap[x].marked
    BY <1>12
  <2>5. QED
    BY <2>3, <2>4, <1>3, <1>10, TasksKept
<1>21. FreesOK(heap', Listed, q, m)
  <2>1. ASSUME NEW k \in n..m, q[k].op = "free" PROVE FreeOK(heap', Listed, q, m, k)
    BY <2>1, <1>11, <1>8 DEF IsTask
  <2>2. ASSUME NEW k \in 1..n - 1, p[k].op = "free"
        PROVE  Settles(heap, Listed, heap', Listed, p[n], q, n, p[k].cell)
    <3> DEFINE z == p[k].cell
    <3>1. z \in Cells /\ heap[z].refs = 0
      BY <2>2, <1>2 DEF Referred
    <3>2. z # o
      BY <3>1, <1>6
    <3>3. Is(p[n], "closeouters", z) => Is(q[n], "closeouters", z) /\ q[n].field = 0
      BY <1>2, <1>8, <1>11 DEF Is, IsTask
    <3>4. ~Is(p[n], "null", z) /\ ~Is(p[n], "unchain", z) /\ ~Is(p[n], "hook", z)
      BY <1>4 DEF Is
    <3> HIDE DEF z
    <3>5. Settles(heap, Listed, heap', Listed, p[n], q, n, z)
      BY <3>1, <3>2, <3>3, <3>4, <1>12 DEF Settles
    <3>6. QED
      BY <3>5 DEF z
  <2>3. Len(ts) > 0
    BY <1>9
  <2>4. FreesOK(heap, Listed, p, n)
    BY <1>3
  <2>5. QED
    BY <2>1, <2>2, <2>3, <2>4, <1>10, FreesKept
<1>22. MarksOK(heap', q, m, Objs)
  <2>1. Marking(p, n) => Marking(q, m)
    <3>1. p[n].op # "unmark" /\ p[n].ending # "unmark"
      BY <1>2, <1>4 DEF TaskOK
    <3>2. QED
      BY <3>1, <1>10, MarkingKept
  <2>2. \A x \in Cells : heap[x].marked => \A g \in 1..2 : heap[x].fields[g] = None \/ heap'[x].fields[g] = heap[x].fields[g]
    BY <1>6, <1>12
  <2>3. \A x \in Cells : heap'[x].marked = heap[x].marked
    BY <1>12
  <2>4. QED
    BY <2>1, <2>2, <2>3, <1>3, <1>10, MarksKept
<1>23. ScopeOK(heap', q, m, status)
  <2>1. CASE n = 1
    <3>1. q[1] = tc /\ q[2] = td /\ m = 2
      BY <2>1, <1>11
    <3>2. q[1].op = "closeouters" /\ q[1].cell = c /\ q[2].op = "drop" /\ q[2].cell = o
      BY <3>1, <1>8 DEF IsTask
    <3>3. status = "open" /\ Stays(heap, p, 1, c)
      BY <2>1, <1>2, <1>3, <1>4 DEF ScopeOK
    <3>4. heap'[c].kind = "thread"
      BY <1>4, <1>6, <1>12
    <3>5. Stays(heap', q, m, c)
      <4>1. CASE c = Root
        BY <4>1 DEF Stays
      <4>2. CASE c # Root
        <5>1. PICK x \in Cells, g \in 1..2 : heap[x].fields[g] = c
          BY <4>2, <3>3 DEF Stays
        <5>2. c # None
          BY <1>4, NoneAssumption
        <5>3. ~(x = o /\ g = 2)
          BY <5>1, <5>2, <1>6
        <5>4. heap'[x].fields[g] = c
          BY <5>1, <5>3, <1>12
        <5>5. \A k \in 1..m : k = 1 \/ k = 2
          BY <3>1
        <5>6. Spared(q, m, x)
          BY <3>2, <5>5 DEF Spared
        <5>7. QED
          BY <5>4, <5>6 DEF Stays
      <4>3. QED
        BY <4>1, <4>2
    <3>6. Passing(heap', c, q[2])
      <4>1. heap'[c].fields[heap[o].open[2]] = v
        BY <1>4, <1>6, <1>12 DEF v
      <4>2. InStack(heap', c, v)
        BY <4>1, <1>6 DEF InStack
      <4>3. heap'[o].kind = "outer" /\ heap'[o].open = <<>> /\ heap'[o].fields[2] = v
        BY <1>6, <1>12
      <4>4. QED
        BY <4>2, <4>3, <3>2 DEF Passing
    <3>7. \A k \in 2..m : k = 2
      BY <3>1
    <3>8. QED
      BY <3>2, <3>3, <3>4, <3>5, <3>6, <3>7 DEF ScopeOK
  <2>2. CASE n # 1
    BY <2>2, <1>3, <1>4, <1>10, ScopeNone
  <2>3. QED
    BY <2>1, <2>2
<1>24. status = "open" => heap'[Root].kind = "thread"
  BY <1>3, <1>12, CellsAssumption
<1>25. HeapInv(heap', Listed', q, m, Objs, status)
  <2>1. m \in Nat /\ q \in [1..m -> TaskType]
    BY <1>10, <1>11 DEF Replaced
  <2>2. QED
    BY <2>1, <1>1, <1>3, <1>15, <1>16, <1>18, <1>19, <1>20, <1>21, <1>22, <1>23, <1>24 DEF HeapInv
<1>26. QED
  BY <1>1, <1>10, <1>25, WorkDone DEF q, m
-----------------------------------------------------------------------------
(* The loop of the collector.                                              *)

\* A task that is alone of its kind.
LEMMA CountLone ==
    ASSUME NEW q, NEW m \in Nat, NEW op, NEW c, NEW j,
           \A k \in 1..m : k # j => ~Is(q[k], op, c)
    PROVE  Count(q, m, op, c) = Ind(j \in 1..m /\ Is(q[j], op, c))
<1> DEFINE A == TasksOf(q, 0, op, c)
           B == TasksOf(q, m, op, c)
<1>1. A = {}
  BY DEF TasksOf
<1>2. IsFiniteSet(A) /\ Cardinality(A) = 0
  BY <1>1, FS_EmptySet
<1>3. \A k : k # j => (k \in A <=> k \in B)
  BY <1>1 DEF TasksOf
<1>4. Ind(j \in A) = 0
  BY <1>1 DEF Ind
<1>5. j \in B <=> j \in 1..m /\ Is(q[j], op, c)
  BY DEF TasksOf
<1> HIDE DEF A, B
<1>6. Cardinality(B) = Cardinality(A) - Ind(j \in A) + Ind(j \in B)
  BY <1>2, <1>3, CountSwap
<1>7. Ind(j \in B) = Ind(j \in 1..m /\ Is(q[j], op, c))
  BY <1>5 DEF Ind
<1>8. Ind(j \in B) \in Nat
  BY DEF Ind
<1>9. QED
  BY <1>2, <1>4, <1>6, <1>7, <1>8, TasksFinite DEF B

\* An empty stack has no tasks.
LEMMA CountNil ==
    ASSUME NEW q, NEW op, NEW c
    PROVE  Count(q, 0, op, c) = 0
<1>1. \A k \in 1..0 : k # 0 => ~Is(q[k], op, c)
  OBVIOUS
<1>2. Count(q, 0, op, c) = Ind(0 \in 1..0 /\ Is(q[0], op, c))
  BY <1>1, CountLone
<1>3. QED
  BY <1>2 DEF Ind

\* The pile of a turn of the loop: the pin d of the last object is dropped, x is
\* finalized, and the loop goes on; or there is no x and the loop ends.
SweepPile(q, m, x, e, d) ==
    /\ m \in Nat \ {0} /\ q \in [1..m -> TaskType]
    /\ x = None => q[1].op = e /\ q[1].cell = None /\ q[1].ending = ""
    /\ x # None => q[1].op = "advance" /\ q[1].cell = x /\ q[1].ending = e
    /\ \A k \in 2..m : \/ k = m /\ d # None /\ IsTask(q[k], "drop", d)
                       \/ x # None /\ ClearsOnly(q[k], x)
    /\ d # None => m >= 2 /\ IsTask(q[m], "drop", d)

\* What every heap without a pending release satisfies; d has a pin.
Settled(h, objs, st, d) ==
    \A c \in Cells :
        /\ h[c].refs = FieldRefs(h, c) + Ind(c \in objs) + Ind(c = d)
                       + Ind(c = Root /\ st = "open") + Ind(h[c].open # <<>>)
        /\ h[c].kind # "free" /\ ~h[c].marked => h[c].refs > 0

\* At a turn of a sweep the next object is held by the sweep and the last one
\* is released.
LEMMA SweepHeap ==
    ASSUME NEW h, NEW h2, NEW ch, NEW objs, NEW st, NEW d \in Cells \cup {None},
           NEW e \in {"unmark", "closed"}, NEW x \in ch \cup {None}, NEW q, NEW m,
           Shape(h), ChainOK(h, ch), objs \subseteq Cells, st = "open" => h[Root].kind = "thread",
           Settled(h, objs, st, d), Counted(h, h2, x), SweepPile(q, m, x, e, d),
           e = "unmark" <=> st = "open",
           \A c \in Cells : h[c].marked => e = "unmark" /\ Anchored(h, objs, c)
    PROVE  HeapInv(h2, ch, q, m, objs, st)
<1>0. m \in Nat \ {0}
  BY DEF SweepPile
<1>1. /\ m \in Nat \ {0} /\ q \in [1..m -> TaskType] /\ 1 \in 1..m
      /\ x = None => q[1].op = e /\ q[1].cell = None /\ q[1].ending = ""
      /\ x # None => q[1].op = "advance" /\ q[1].cell = x /\ q[1].ending = e
      /\ d # None => m >= 2 /\ IsTask(q[m], "drop", d)
  <2>1. m \in Nat \ {0}
    BY DEF SweepPile
  <2>2. 1 \in 1..m
    BY <2>1
  <2>3. QED
    BY <2>1, <2>2, Zenon DEF SweepPile
<1>2. /\ h2 \in [Cells -> Cell]
      /\ \A c \in Cells : /\ h2[c].kind = h[c].kind /\ h2[c].marked = h[c].marked
                          /\ h2[c].link = h[c].link /\ h2[c].open = h[c].open
                          /\ h2[c].box = h[c].box /\ h2[c].fields = h[c].fields
                          /\ h2[c].refs = h[c].refs + Ind(c = x)
  BY DEF Counted, SameBody
<1>3. x # None => x \in Cells /\ h[x].kind \in Kinds /\ ~h[x].marked /\ h[x].refs > 0
  <2>1. x # None => x \in Cells /\ h[x].kind \in Kinds /\ ~h[x].marked
    BY DEF ChainOK
  <2>2. QED
    BY <2>1 DEF Settled, Kinds
<1>4. ASSUME NEW k \in 2..m
      PROVE  \/ k = m /\ d # None /\ q[k].op = "drop" /\ q[k].cell = d /\ q[k].ending = ""
             \/ /\ x # None /\ q[k].cell = x /\ q[k].ending = ""
                /\ q[k].op = "closeouters" \/ (q[k].op = "null" /\ q[k].field \in 1..2)
  BY DEF SweepPile, IsTask, ClearsOnly
<1>5. \A k \in 1..m : k # 1 => k \in 2..m
  OBVIOUS
<1>6. Shape(h2)
  <2>1. ASSUME NEW c \in Cells, h[c].kind = "free" \/ h[c].box = "dropped" PROVE h2[c].refs = 0
    <3>1. CellOK(h, c)
      BY DEF Shape
    <3>2. h[c].refs = 0
      BY <2>1, <3>1 DEF CellOK
    <3>3. c # x
      BY <3>2, <1>3, NoneAssumption
    <3>4. QED
      BY <3>2, <3>3, <1>2 DEF Ind
  <2>2. \A c \in Cells : \A f \in 1..2 : h2[c].fields[f] = h[c].fields[f]
    BY <1>2
  <2>3. Evolves(h, h2)
    BY <2>1, <2>2, <1>2 DEF Evolves, SameBody
  <2>4. QED
    BY <2>3, ShapeKept
<1>7. ChainOK(h2, ch)
  BY <1>2 DEF ChainOK
<1>8. ASSUME NEW c \in Cells
      PROVE  /\ Count(q, m, "drop", c) = Ind(c = d) /\ Count(q, m, "advance", c) = Ind(c = x)
             /\ Count(q, m, "free", c) = 0
  <2>1. \A k \in 1..m : k # m => ~Is(q[k], "drop", c)
    <3>1. SUFFICES ASSUME NEW k \in 1..m, k # m, q[k].op = "drop" PROVE FALSE
      BY DEF Is
    <3>2. k # 1
      BY <3>1, <1>1
    <3>3. QED
      BY <3>1, <3>2, <1>4, <1>5
  <2>2. m \in 1..m /\ Is(q[m], "drop", c) <=> c = d
    <3>1. CASE d = None
      <4>1. q[m].op # "drop"
        <5>1. CASE m = 1
          BY <5>1, <1>1
        <5>2. CASE m # 1
          <6>1. m \in 2..m
            BY <5>2, <1>0
          <6>2. QED
            BY <6>1, <3>1, <1>4
        <5>3. QED
          BY <5>1, <5>2
      <4>2. c # None
        BY NoneAssumption
      <4>3. QED
        BY <3>1, <4>1, <4>2 DEF Is
    <3>2. CASE d # None
      <4>1. m \in 1..m
        BY <1>0
      <4>2. q[m].op = "drop" /\ q[m].cell = d
        BY <3>2, <1>1 DEF IsTask
      <4>3. QED
        BY <4>1, <4>2 DEF Is
    <3>3. QED
      BY <3>1, <3>2
  <2>3. Count(q, m, "drop", c) = Ind(m \in 1..m /\ Is(q[m], "drop", c))
    BY <2>1, <1>1, CountLone
  <2>4. \A k \in 1..m : k # 1 => ~Is(q[k], "advance", c)
    BY <1>4, <1>5 DEF Is
  <2>5. 1 \in 1..m /\ Is(q[1], "advance", c) <=> c = x
    BY <1>1, NoneAssumption DEF Is
  <2>6. Count(q, m, "advance", c) = Ind(1 \in 1..m /\ Is(q[1], "advance", c))
    BY <2>4, <1>1, CountLone
  <2>7. \A k \in 1..m : ~Is(q[k], "free", c)
    <3>1. ~Is(q[1], "free", c)
      BY <1>1 DEF Is
    <3>2. QED
      BY <3>1, <1>4, <1>5 DEF Is
  <2>8. Count(q, m, "free", c) = Ind(1 \in 1..m /\ Is(q[1], "free", c))
    BY <2>7, <1>1, CountLone
  <2>9. ~Is(q[1], "free", c)
    BY <2>7, <1>1
  <2>10. QED
    BY <2>2, <2>3, <2>5, <2>6, <2>8, <2>9 DEF Ind
<1>9. Exact(h2, q, m, objs, st)
  <2>1. SUFFICES ASSUME NEW c \in Cells
                 PROVE  h2[c].refs = FieldRefs(h2, c) + Ind(c \in objs)
                           + Count(q, m, "drop", c) + Count(q, m, "advance", c)
                           + Ind(c = Root /\ st = "open") + Ind(h2[c].open # <<>>)
    BY DEF Exact
  <2>2. h[c].refs = FieldRefs(h, c) + Ind(c \in objs) + Ind(c = d)
                    + Ind(c = Root /\ st = "open") + Ind(h[c].open # <<>>)
    BY DEF Settled
  <2>3. SameFields(h, h2)
    BY <1>2 DEF SameFields
  <2>4. FieldRefs(h2, c) = FieldRefs(h, c) /\ FieldRefs(h, c) \in Nat
    BY <2>3, FieldRefsSame, HoldersFinite
  <2>5. h2[c].refs = h[c].refs + Ind(c = x) /\ h2[c].open = h[c].open
    BY <1>2
  <2>6. Ind(c = x) \in Nat /\ Ind(c = d) \in Nat /\ Ind(c \in objs) \in Nat
        /\ Ind(c = Root /\ st = "open") \in Nat /\ Ind(h[c].open # <<>>) \in Nat
    BY DEF Ind
  <2>7. Count(q, m, "drop", c) = Ind(c = d) /\ Count(q, m, "advance", c) = Ind(c = x)
    BY <1>8
  <2>8. QED
    BY <2>2, <2>4, <2>5, <2>6, <2>7
<1>10. Released(h2, q, m)
  <2>1. SUFFICES ASSUME NEW c \in Cells
                 PROVE  Count(q, m, "free", c) = Ind(h2[c].kind # "free" /\ h2[c].refs = 0 /\ ~h2[c].marked)
    BY DEF Released
  <2>2. h[c].refs \in Nat /\ h2[c].refs = h[c].refs + Ind(c = x) /\ Ind(c = x) \in Nat
    BY <1>2, CellTypes DEF Ind
  <2>3. h2[c].kind # "free" /\ ~h2[c].marked => h[c].refs > 0
    BY <1>2 DEF Settled
  <2>4. ~(h2[c].kind # "free" /\ h2[c].refs = 0 /\ ~h2[c].marked)
    BY <2>2, <2>3
  <2>5. QED
    BY <2>4, <1>8 DEF Ind
<1>11. TasksOK(h2, q, m, st)
  <2>1. TaskOK(h2, q, m, st, 1)
    BY <1>1, <1>3, NoneAssumption DEF TaskOK, CellOps
  <2>2. ASSUME NEW k \in 2..m PROVE TaskOK(h2, q, m, st, k)
    <3>1. CASE q[k].op = "drop" /\ q[k].cell = d /\ d # None /\ q[k].ending = ""
      BY <3>1 DEF TaskOK, CellOps
    <3>2. CASE /\ x # None /\ q[k].cell = x /\ q[k].ending = ""
               /\ q[k].op = "closeouters" \/ (q[k].op = "null" /\ q[k].field \in 1..2)
      <4>1. Kept(q, k)
        <5>1. 1 \in 1..k - 1
          OBVIOUS
        <5>2. QED
          BY <5>1, <3>2, <1>1 DEF Kept
      <4>2. ~h2[q[k].cell].marked
        BY <3>2, <1>2, <1>3
      <4>3. Written(q, k)
        <5>1. ASSUME NEW j \in 1..k - 1 PROVE q[j].op # "clear"
          <6>1. j \in 1..m
            BY <1>0
          <6>2. CASE j = 1
            BY <6>2, <1>1
          <6>3. CASE j # 1
            BY <6>1, <6>3, <1>4, <1>5
          <6>4. QED
            BY <6>2, <6>3
        <5>2. QED
          BY <5>1 DEF Written, Is
      <4>4. QED
        BY <3>2, <4>1, <4>2, <4>3 DEF TaskOK, CellOps
    <3>3. QED
      BY <3>1, <3>2, <1>4
  <2>3. QED
    BY <2>1, <2>2, <1>5 DEF TasksOK
<1>12. FreesOK(h2, ch, q, m)
  <2>1. \A k \in 1..m : q[k].op # "free"
    <3>1. q[1].op # "free"
      BY <1>1
    <3>2. QED
      BY <3>1, <1>4, <1>5
  <2>2. QED
    BY <2>1 DEF FreesOK
<1>13. MarksOK(h2, q, m, objs)
  <2>1. SUFFICES ASSUME NEW c \in Cells, h2[c].marked PROVE Marking(q, m) /\ Anchored(h2, objs, c)
    BY DEF MarksOK
  <2>2. e = "unmark" /\ Anchored(h, objs, c)
    BY <2>1, <1>2
  <2>3. Marking(q, m)
    <3>1. m > 0
      BY <1>0
    <3>2. q[1].op = "unmark" \/ q[1].ending = "unmark"
      BY <2>2, <1>1, Zenon
    <3>3. QED
      BY <3>1, <3>2 DEF Marking
  <2>4. Anchored(h2, objs, c)
    BY <2>2, <1>2 DEF Anchored
  <2>5. QED
    BY <2>3, <2>4
<1>14. ScopeOK(h2, q, m, st)
  BY <1>1 DEF ScopeOK
<1>15. st = "open" => h2[Root].kind = "thread"
  BY <1>2, CellsAssumption
<1>16. QED
  BY <1>1, <1>6, <1>7, <1>9, <1>10, <1>11, <1>12, <1>13, <1>14, <1>15 DEF HeapInv
\* ts, read from its end.
Piled(q, m, ts) == m = Len(ts) /\ q \in [1..m -> TaskType] /\ \A k \in 1..m : q[k] = ts[m + 1 - k]

TurnTasks(d, F, t) == Drop(d) \o F \o <<t>>
\* The tasks of a turn of the sweep.
LEMMA TurnPiled ==
    ASSUME NEW x \in Cells, NEW F, Finalizes(F, x), NEW d \in Cells \cup {None},
           NEW S \in SUBSET Cells, NEW e \in {"unmark", "closed"}
    PROVE  /\ TurnTasks(d, F, NextTask(x, S, e)) \in Seq(TaskType)
           /\ \A q, m : Piled(q, m, TurnTasks(d, F, NextTask(x, S, e))) => SweepPile(q, m, x, e, d)
<1> DEFINE t == NextTask(x, S, e)
           y == <<t>>
           u == Drop(d)
           a == u \o F
           ts == a \o y
<1>1. IsNext(t, x, S, e)
  BY NextFacts
<1>2. t \in TaskType /\ t.op = "advance" /\ t.cell = x /\ t.ending = e
  BY <1>1 DEF IsNext
<1> HIDE DEF t
<1>3. y \in Seq(TaskType) /\ Len(y) = 1 /\ y[1] = t
  BY <1>2
<1>4. u \in Seq(TaskType) /\ Len(u) = Ind(d # None) /\ (d # None => IsTask(u[1], "drop", d))
  BY DropShape
<1>5. F \in Seq(TaskType) /\ Len(F) \in 1..3 /\ \A j \in 1..Len(F) : ClearsOnly(F[j], x)
  BY DEF Finalizes
<1> HIDE DEF y, u
<1>6. /\ a \in Seq(TaskType) /\ Len(a) = Len(u) + Len(F)
      /\ \A i \in 1..Len(u) + Len(F) : a[i] = IF i <= Len(u) THEN u[i] ELSE F[i - Len(u)]
  BY <1>4, <1>5, ConcatProperties
<1> HIDE DEF a
<1>7. /\ ts \in Seq(TaskType) /\ Len(ts) = Len(a) + Len(y)
      /\ \A i \in 1..Len(a) + Len(y) : ts[i] = IF i <= Len(a) THEN a[i] ELSE y[i - Len(a)]
  <2>1. a \in Seq(TaskType) /\ y \in Seq(TaskType)
    BY <1>3, <1>6
  <2>2. QED
    BY <2>1, ConcatProperties
<1> HIDE DEF ts
<1>8. TurnTasks(d, F, t) = ts
  BY DEF TurnTasks, ts, a, u, y
<1> DEFINE lu == Len(u)
           lf == Len(F)
<1>9. /\ lu \in 0..1 /\ (lu = 1 <=> d # None) /\ lf \in 1..3
      /\ Len(ts) = lu + lf + 1 /\ Len(a) = lu + lf
  BY <1>3, <1>4, <1>5, <1>6, <1>7 DEF Ind
<1>10. ts[lu + lf + 1] = t
  <2>1. lu + lf + 1 \in 1..Len(a) + Len(y) /\ ~(lu + lf + 1 <= Len(a)) /\ lu + lf + 1 - Len(a) = 1
    BY <1>9, <1>3
  <2>2. QED
    BY <2>1, <1>7, <1>3
<1>11. ASSUME NEW i \in 1..lu + lf
       PROVE  ts[i] = IF i <= lu THEN u[i] ELSE F[i - lu]
  <2>1. i \in 1..Len(a) + Len(y) /\ i <= Len(a) /\ i \in 1..Len(u) + Len(F)
    BY <1>9, <1>3
  <2>2. ts[i] = a[i]
    BY <2>1, <1>7
  <2>3. QED
    BY <2>1, <2>2, <1>6
<1> HIDE DEF lu, lf
<1>12. ASSUME NEW q, NEW m, Piled(q, m, ts) PROVE SweepPile(q, m, x, e, d)
  <2>1. m = lu + lf + 1 /\ q \in [1..m -> TaskType] /\ \A k \in 1..m : q[k] = ts[m + 1 - k]
    BY <1>9, <1>12 DEF Piled
  <2>2. m \in Nat \ {0} /\ 1 \in 1..m /\ m + 1 - 1 = lu + lf + 1 /\ m >= 2 /\ m \in 1..m
        /\ m + 1 - m = 1 /\ 1 \in 1..lu + lf
    BY <2>1, <1>9
  <2>3. q[1] = t
    BY <2>1, <2>2, <1>10
  <2>4. ASSUME NEW k \in 2..m
        PROVE  \/ k = m /\ d # None /\ IsTask(q[k], "drop", d)
               \/ x # None /\ ClearsOnly(q[k], x)
    <3>1. k \in 1..m /\ m + 1 - k \in 1..lu + lf
      BY <2>1, <1>9
    <3> DEFINE i == m + 1 - k
    <3>2. q[k] = IF i <= lu THEN u[i] ELSE F[i - lu]
      BY <2>1, <3>1, <1>11
    <3>3. CASE i <= lu
      <4>1. i = 1 /\ lu = 1 /\ k = m
        BY <3>1, <3>3, <1>9, <2>1
      <4>2. QED
        BY <4>1, <3>2, <3>3, <1>9, <1>4
    <3>4. CASE ~(i <= lu)
      <4>1. i - lu \in 1..lf
        BY <3>1, <3>4, <1>9, <2>1
      <4>2. QED
        BY <4>1, <3>2, <3>4, <1>5, NoneAssumption DEF lf
    <3>5. QED
      BY <3>3, <3>4
  <2>5. ASSUME d # None PROVE IsTask(q[m], "drop", d)
    <3>1. lu = 1 /\ q[m] = ts[1]
      BY <2>5, <2>1, <2>2, <1>9
    <3>2. ts[1] = u[1]
      BY <3>1, <2>2, <1>11
    <3>3. QED
      BY <3>1, <3>2, <2>5, <1>4
  <2>6. q[1].op = "advance" /\ q[1].cell = x /\ q[1].ending = e
    BY <2>3, <1>2
  <2>7. x # None
    BY NoneAssumption
  <2>8. QED
    BY <2>1, <2>2, <2>4, <2>5, <2>6, <2>7 DEF SweepPile
<1>13. QED
  BY <1>7, <1>8, <1>12 DEF t

EndTasks(d, t) == Drop(d) \o <<t>>
\* The tasks at the end of the sweep.
LEMMA EndPiled ==
    ASSUME NEW d \in Cells \cup {None}, NEW e \in {"unmark", "closed"}
    PROVE  /\ EndTasks(d, Task(e, None)) \in Seq(TaskType)
           /\ \A q, m : Piled(q, m, EndTasks(d, Task(e, None))) => SweepPile(q, m, None, e, d)
<1> DEFINE t == Task(e, None)
           y == <<t>>
           u == Drop(d)
           ts == u \o y
<1>1. IsTask(t, e, None)
  BY TaskFacts DEF LoneOps
<1>2. t \in TaskType /\ t.op = e /\ t.cell = None /\ t.ending = ""
  BY <1>1 DEF IsTask
<1> HIDE DEF t
<1>3. y \in Seq(TaskType) /\ Len(y) = 1 /\ y[1] = t
  <2>1. t \in TaskType
    BY <1>2
  <2>2. QED
    BY <2>1
<1>4. u \in Seq(TaskType) /\ Len(u) = Ind(d # None) /\ (d # None => IsTask(u[1], "drop", d))
  BY DropShape
<1> HIDE DEF y, u
<1>5. /\ ts \in Seq(TaskType) /\ Len(ts) = Len(u) + Len(y)
      /\ \A i \in 1..Len(u) + Len(y) : ts[i] = IF i <= Len(u) THEN u[i] ELSE y[i - Len(u)]
  BY <1>3, <1>4, ConcatProperties
<1> HIDE DEF ts
<1>6. EndTasks(d, t) = ts
  BY DEF EndTasks, ts, u, y
<1> DEFINE lu == Len(u)
<1>7. lu \in 0..1 /\ (lu = 1 <=> d # None) /\ Len(ts) = lu + 1
  BY <1>3, <1>4, <1>5 DEF Ind
<1>8. ts[lu + 1] = t
  <2>1. lu + 1 \in 1..Len(u) + Len(y) /\ ~(lu + 1 <= Len(u)) /\ lu + 1 - Len(u) = 1
    BY <1>7, <1>3
  <2>2. QED
    BY <2>1, <1>5, <1>3
<1>9. lu = 1 => ts[1] = u[1]
  BY <1>3, <1>5, <1>7
<1> HIDE DEF lu
<1>10. ASSUME NEW q, NEW m, Piled(q, m, ts) PROVE SweepPile(q, m, None, e, d)
  <2>1. m = lu + 1 /\ q \in [1..m -> TaskType] /\ \A k \in 1..m : q[k] = ts[m + 1 - k]
    BY <1>7, <1>10 DEF Piled
  <2>2. m \in Nat \ {0} /\ 1 \in 1..m /\ m + 1 - 1 = lu + 1 /\ m \in 1..m /\ m + 1 - m = 1
    BY <2>1, <1>7
  <2>3. q[1] = t
    BY <2>1, <2>2, <1>8
  <2>4. ASSUME d # None PROVE m >= 2 /\ IsTask(q[m], "drop", d)
    <3>1. lu = 1 /\ q[m] = ts[1] /\ m = 2
      BY <2>4, <2>1, <2>2, <1>7
    <3>2. QED
      BY <3>1, <2>4, <1>4, <1>9
  <2>5. ASSUME NEW k \in 2..m PROVE k = m /\ d # None
    BY <2>1, <1>7
  <2>6. q[1].op = e /\ q[1].cell = None /\ q[1].ending = ""
    BY <2>3, <1>2
  <2>7. QED
    BY <2>1, <2>2, <2>4, <2>5, <2>6 DEF SweepPile
<1>11. QED
  BY <1>5, <1>6, <1>10 DEF t

\* The last task of a pile is replaced: what is pending is new.
LEMMA LastReplaced ==
    ASSUME NEW p, NEW q, NEW m, NEW ts, Replaced(p, 1, q, m, ts)
    PROVE  Piled(q, m, ts)
<1>1. Len(ts) \in Nat /\ m = 1 - 1 + Len(ts) /\ q \in [1..m -> TaskType]
      /\ \A j \in 1..Len(ts) : q[1 + Len(ts) - j] = ts[j]
  BY DEF Replaced
<1>2. m = Len(ts)
  BY <1>1
<1>3. ASSUME NEW k \in 1..m PROVE q[k] = ts[m + 1 - k]
  <2>1. m + 1 - k \in 1..Len(ts) /\ 1 + Len(ts) - (m + 1 - k) = k
    BY <1>1, <1>2
  <2>2. q[1 + Len(ts) - (m + 1 - k)] = ts[m + 1 - k]
    BY <2>1, <1>1
  <2>3. QED
    BY <2>1, <2>2
<1>4. QED
  BY <1>1, <1>2, <1>3 DEF Piled
\* Between two turns nothing but the pin of the last object is pending.
LEMMA LastSettled ==
    ASSUME NEW h, NEW ch, NEW p, NEW objs, NEW st, NEW d, HeapInv(h, ch, p, 1, objs, st),
           p[1].op \in {"sweepall", "advance", "unmark", "closed"},
           d = IF p[1].op = "advance" THEN p[1].cell ELSE None
    PROVE  Settled(h, objs, st, d)
<1>1. /\ Shape(h) /\ Exact(h, p, 1, objs, st) /\ Released(h, p, 1)
  BY DEF HeapInv
<1>2. SUFFICES ASSUME NEW c \in Cells
               PROVE  /\ h[c].refs = FieldRefs(h, c) + Ind(c \in objs) + Ind(c = d)
                                     + Ind(c = Root /\ st = "open") + Ind(h[c].open # <<>>)
                      /\ h[c].kind # "free" /\ ~h[c].marked => h[c].refs > 0
  BY DEF Settled
<1>3. ASSUME NEW op PROVE Count(p, 1, op, c) = Ind(Is(p[1], op, c))
  <2>1. \A k \in 1..1 : k # 1 => ~Is(p[k], op, c)
    OBVIOUS
  <2>2. Count(p, 1, op, c) = Ind(1 \in 1..1 /\ Is(p[1], op, c))
    BY <2>1, CountLone
  <2>3. (1 \in 1..1 /\ Is(p[1], op, c)) <=> Is(p[1], op, c)
    OBVIOUS
  <2>4. QED
    BY <2>2, <2>3 DEF Ind
<1>4. Count(p, 1, "drop", c) = 0 /\ Count(p, 1, "advance", c) = Ind(c = d) /\ Count(p, 1, "free", c) = 0
  <2>1. ~Is(p[1], "drop", c) /\ ~Is(p[1], "free", c) /\ (Is(p[1], "advance", c) <=> c = d)
    BY NoneAssumption DEF Is
  <2>2. QED
    BY <2>1, <1>3 DEF Ind
<1>5. h[c].refs = FieldRefs(h, c) + Ind(c \in objs)
                  + Count(p, 1, "drop", c) + Count(p, 1, "advance", c)
                  + Ind(c = Root /\ st = "open") + Ind(h[c].open # <<>>)
  BY <1>1 DEF Exact
<1>6. FieldRefs(h, c) \in Nat /\ h[c].refs \in Nat
  BY <1>1, HoldersFinite, CellTypes
<1>7. h[c].refs = FieldRefs(h, c) + Ind(c \in objs) + Ind(c = d)
                  + Ind(c = Root /\ st = "open") + Ind(h[c].open # <<>>)
  BY <1>4, <1>5, <1>6 DEF Ind
<1>8. Count(p, 1, "free", c) = Ind(h[c].kind # "free" /\ h[c].refs = 0 /\ ~h[c].marked)
  BY <1>1 DEF Released
<1>9. h[c].kind # "free" /\ ~h[c].marked => h[c].refs > 0
  BY <1>4, <1>6, <1>8 DEF Ind
<1>10. QED
  BY <1>7, <1>9

\* One turn of the loop over _gc_chain.
LEMMA SweepKeeps ==
    ASSUME IInv, work # <<>>, Head(work).op \in {"sweepall", "advance"},
           NEW todo, NEW e \in {"unmark", "closed"},
           NEW d, d = IF Head(work).op = "advance" THEN Here ELSE None,
           Head(work).op = "advance" => e = Head(work).ending,
           Head(work).op = "sweepall" => e = "closed",
           Sweep(todo, e, Drop(d)), UNCHANGED <<lists, Listed, table, held, leaked, uses, ops, status>>,
           todo \in SUBSET Cells
    PROVE  IInv'
<1> DEFINE c == Here
           p == Pile(work)
           n == Len(work)
           q == Pile(work')
           m == Len(work')
<1>1. work # <<>>
  OBVIOUS
<1>2. /\ n \in Nat \ {0} /\ p[n] = Head(work) /\ HeapInv(heap, Listed, p, n, Objs, status)
      /\ Referred(heap, p, n, Objs, status) /\ TaskOK(heap, p, n, status, n) /\ c = p[n].cell
      /\ p[n] \in TaskType /\ (p[n].op \in CellOps => c \in Cells /\ heap[c].kind # "free")
  BY <1>1, WorkTop
<1>3. /\ Shape(heap) /\ ChainOK(heap, Listed) /\ Exact(heap, p, n, Objs, status)
      /\ Released(heap, p, n) /\ TasksOK(heap, p, n, status) /\ FreesOK(heap, Listed, p, n)
      /\ MarksOK(heap, p, n, Objs) /\ ScopeOK(heap, p, n, status) /\ p \in [1..n -> TaskType]
      /\ Objs \subseteq Cells /\ (status = "open" => heap[Root].kind = "thread")
  BY <1>2 DEF HeapInv
<1>4. p[n].op = Head(work).op /\ p[n].ending = Head(work).ending
  BY <1>2, Zenon
<1>5. n = 1
  <2>1. p[n].op \in {"sweepall", "advance", "unmark", "closed"}
    BY <1>4
  <2>2. QED
    BY <2>1, <1>2 DEF TaskOK
<1>6. d \in Cells \cup {None} /\ d = IF p[1].op = "advance" THEN p[1].cell ELSE None
  <2>1. p[n].op = "advance" => c \in Cells
    BY <1>2 DEF CellOps
  <2>2. d = IF p[n].op = "advance" THEN c ELSE None
    BY <1>4
  <2>3. QED
    BY <2>1, <2>2, <1>2, <1>5
<1>7. e = "unmark" <=> status = "open"
  BY <1>2, <1>4 DEF TaskOK
<1>8. \A x \in Cells : heap[x].marked => e = "unmark" /\ Anchored(heap, Objs, x)
  <2>1. SUFFICES ASSUME NEW x \in Cells, heap[x].marked PROVE e = "unmark" /\ Anchored(heap, Objs, x)
    OBVIOUS
  <2>2. Marking(p, n) /\ Anchored(heap, Objs, x)
    BY <2>1, <1>3 DEF MarksOK
  <2>3. p[n].op = "unmark" \/ p[n].ending = "unmark"
    BY <2>2, <1>5 DEF Marking
  <2>4. p[n].ending = "unmark" /\ p[n].op = "advance"
    BY <2>3, <1>2, <1>4 DEF TaskOK
  <2>5. QED
    BY <2>2, <2>4, <1>4
<1>9. Settled(heap, Objs, status, d)
  <2>1. HeapInv(heap, Listed, p, 1, Objs, status)
    BY <1>2, <1>5
  <2>2. p[1].op \in {"sweepall", "advance", "unmark", "closed"}
    BY <1>4, <1>5
  <2> HIDE DEF p, n
  <2>3. QED
    BY <2>1, <2>2, <1>6, LastSettled
<1>10. heap \in [Cells -> Cell]
  BY <1>3 DEF Shape
<1>11. ASSUME NEW x \in Listed \cup {None}, NEW ts \in Seq(TaskType), work' = ts \o Tail(work),
              Counted(heap, heap', x), \A q2, m2 : Piled(q2, m2, ts) => SweepPile(q2, m2, x, e, d)
       PROVE  IInv'
  <2>1. work' \in Seq(TaskType) /\ Replaced(p, n, q, m, ts)
    BY <1>11, WorkSetup
  <2> HIDE DEF p, n, q, m
  <2>2. Piled(q, m, ts)
    BY <2>1, <1>5, LastReplaced
  <2>3. SweepPile(q, m, x, e, d)
    BY <2>2, <1>11
  <2>4. HeapInv(heap', Listed, q, m, Objs, status)
    BY <2>3, <1>3, <1>6, <1>7, <1>8, <1>9, <1>11, SweepHeap
  <2>5. HeapInv(heap', Listed', q, m, Objs, status)
    BY <2>4
  <2>6. QED
    BY <2>1, <2>5, WorkDone DEF q, m
<1>12. CASE todo \cap Listed = {}
  <2> DEFINE ts == EndTasks(d, Task(e, None))
  <2>1. heap' = heap /\ work' = ts \o Tail(work)
    BY <1>12 DEF Sweep, Then, EndTasks
  <2>2. ts \in Seq(TaskType) /\ \A q2, m2 : Piled(q2, m2, ts) => SweepPile(q2, m2, None, e, d)
    BY <1>6, EndPiled
  <2>3. Counted(heap, heap', None)
    BY <2>1, <1>10, AddRefToCounts DEF AddRefTo
  <2> HIDE DEF ts
  <2>4. QED
    BY <2>1, <2>2, <2>3, <1>11
<1>13. CASE todo \cap Listed # {}
  <2>1. PICK x \in todo \cap Listed :
            /\ heap' = AddRefTo(heap, x)
            /\ work' = TurnTasks(d, FinalizeTasks(x), NextTask(x, todo \ {x}, e)) \o Tail(work)
    BY <1>13 DEF Sweep, Then, TurnTasks, Pinned
  <2>2. x \in Cells /\ heap[x].kind \in Kinds
    BY <1>3 DEF ChainOK
  <2> DEFINE F == FinalizeTasks(x)
             S == todo \ {x}
             ts == TurnTasks(d, F, NextTask(x, S, e))
  <2>3. Finalizes(F, x) /\ S \in SUBSET Cells
    BY <2>2, FinalizeShape
  <2> HIDE DEF F, S
  <2>4. ts \in Seq(TaskType) /\ \A q2, m2 : Piled(q2, m2, ts) => SweepPile(q2, m2, x, e, d)
    BY <2>2, <2>3, <1>6, TurnPiled
  <2>5. work' = ts \o Tail(work)
    BY <2>1 DEF F, S
  <2>6. Counted(heap, heap', x)
    BY <2>1, <2>2, <1>10, AddRefToCounts
  <2> HIDE DEF ts
  <2>7. QED
    BY <2>4, <2>5, <2>6, <1>11
<1>14. QED
  BY <1>12, <1>13

\* The loops of ~SQSharedState and CollectGarbage.
LEMMA StartSweepKeeps ==
    ASSUME IInv, StartSweep
    PROVE  IInv'
<1>1. /\ work # <<>> /\ Head(work).op = "sweepall" /\ Sweep(chain, "closed", <<>>)
      /\ UNCHANGED <<lists, Listed, table, held, leaked, uses, ops, status>>
  BY ListsSame DEF StartSweep, Doing
<1>2. Drop(None) = <<>>
  BY DEF Drop
<1>3. chain \in SUBSET Cells
  BY DEF IInv, TypeInv, ListsOK, Lists
<1>4. Sweep(chain, "closed", Drop(None))
  BY <1>1, <1>2
<1>5. None = IF Head(work).op = "advance" THEN Here ELSE None
  BY <1>1
<1>6. QED
  BY <1>1, <1>3, <1>4, <1>5, SweepKeeps

\* A turn of the sweep of CollectGarbage or ~SQSharedState.
LEMMA AdvanceKeeps ==
    ASSUME IInv, Advance
    PROVE  IInv'
<1> DEFINE t == Head(work)
<1>1. /\ work # <<>> /\ t.op = "advance" /\ Sweep(t.todo, t.ending, <<Task("drop", Here)>>)
      /\ UNCHANGED <<lists, Listed, table, held, leaked, uses, ops, status>>
  BY ListsSame DEF Advance, Doing
<1>2. /\ t \in TaskType /\ TaskOK(heap, Pile(work), Len(work), status, Len(work))
      /\ Pile(work)[Len(work)] = t /\ (t.op \in CellOps => Here \in Cells)
  BY <1>1, WorkTop
<1>3. Here \in Cells
  BY <1>1, <1>2 DEF CellOps
<1>4. t.todo \in SUBSET Cells /\ t.ending \in {"", "unmark", "closed"}
  BY <1>2 DEF TaskType
<1>5. t.ending # ""
  BY <1>1, <1>2, Zenon DEF TaskOK
<1>6. Drop(Here) = <<Task("drop", Here)>>
  BY <1>3, NoneAssumption DEF Drop
<1>7. Sweep(t.todo, t.ending, Drop(Here))
  BY <1>1, <1>6
<1>8. Here = IF t.op = "advance" THEN Here ELSE None
  BY <1>1
<1>9. t.ending \in {"unmark", "closed"}
  BY <1>4, <1>5
<1> HIDE DEF t
<1>10. t = Head(work)
  BY DEF t
<1>11. QED
  BY <1>1, <1>4, <1>7, <1>8, <1>9, <1>10, SweepKeeps
\* An empty pile, and a heap that nothing is pending in.
LEMMA IdleHeap ==
    ASSUME NEW h, NEW ch, NEW q, NEW objs, NEW st, q \in [1..0 -> TaskType],
           Shape(h), ChainOK(h, ch), objs \subseteq Cells, st = "open" => h[Root].kind = "thread",
           Settled(h, objs, st, None), \A c \in Cells : ~h[c].marked
    PROVE  HeapInv(h, ch, q, 0, objs, st)
<1>1. \A k \in 1..0 : FALSE
  OBVIOUS
<1>2. Exact(h, q, 0, objs, st)
  <2>1. SUFFICES ASSUME NEW c \in Cells
                 PROVE  h[c].refs = FieldRefs(h, c) + Ind(c \in objs)
                           + Count(q, 0, "drop", c) + Count(q, 0, "advance", c)
                           + Ind(c = Root /\ st = "open") + Ind(h[c].open # <<>>)
    BY DEF Exact
  <2>2. h[c].refs = FieldRefs(h, c) + Ind(c \in objs) + Ind(c = None)
                    + Ind(c = Root /\ st = "open") + Ind(h[c].open # <<>>)
    BY DEF Settled
  <2>3. Ind(c = None) = 0
    BY NoneAssumption DEF Ind
  <2>4. Count(q, 0, "drop", c) = 0 /\ Count(q, 0, "advance", c) = 0
    BY CountNil
  <2>5. FieldRefs(h, c) \in Nat /\ Ind(c \in objs) \in Nat
        /\ Ind(c = Root /\ st = "open") \in Nat /\ Ind(h[c].open # <<>>) \in Nat
    BY HoldersFinite DEF Ind
  <2>6. QED
    BY <2>2, <2>3, <2>4, <2>5
<1>3. Released(h, q, 0)
  <2>1. SUFFICES ASSUME NEW c \in Cells
                 PROVE  Count(q, 0, "free", c) = Ind(h[c].kind # "free" /\ h[c].refs = 0 /\ ~h[c].marked)
    BY DEF Released
  <2>2. h[c].kind # "free" => h[c].refs > 0
    BY DEF Settled
  <2>3. QED
    BY <2>2, CountNil DEF Ind
<1>4. TasksOK(h, q, 0, st) /\ FreesOK(h, ch, q, 0) /\ MarksOK(h, q, 0, objs) /\ ScopeOK(h, q, 0, st)
  BY <1>1 DEF TasksOK, FreesOK, MarksOK, ScopeOK
<1>5. QED
  BY <1>2, <1>3, <1>4 DEF HeapInv

\* A marked object has a reference while the VM is open.
LEMMA MarkedReferred ==
    ASSUME NEW h, NEW objs, NEW st, NEW d, Shape(h), Settled(h, objs, st, d), st = "open",
           NEW c \in Cells, Anchored(h, objs, c)
    PROVE  h[c].refs > 0
<1>1. h[c].refs = FieldRefs(h, c) + Ind(c \in objs) + Ind(c = d)
                  + Ind(c = Root /\ st = "open") + Ind(h[c].open # <<>>)
  BY DEF Settled
<1>2. FieldRefs(h, c) \in Nat /\ Ind(c \in objs) \in Nat /\ Ind(c = d) \in Nat
      /\ Ind(c = Root /\ st = "open") \in Nat /\ Ind(h[c].open # <<>>) \in Nat
  BY HoldersFinite DEF Ind
<1>3. FieldRefs(h, c) > 0 \/ Ind(c \in objs) = 1 \/ Ind(c = Root /\ st = "open") = 1
  BY FieldRefsPositive DEF Anchored, Ind
<1>4. QED
  BY <1>1, <1>2, <1>3

\* The end of a collection.
LEMMA UnmarkKeeps ==
    ASSUME IInv, Unmark
    PROVE  IInv'
<1> DEFINE c == Here
           p == Pile(work)
           n == Len(work)
           q == Pile(work')
           m == Len(work')
<1>1. /\ work # <<>> /\ Head(work).op = "unmark"
      /\ Listed' = Listed \cup {x \in Live : heap[x].marked}
      /\ heap' = [x \in Cells |-> [heap[x] EXCEPT !.marked = FALSE]]
      /\ work' = <<>> \o Tail(work) /\ UNCHANGED <<table, held, leaked, uses, ops, status>>
      /\ ListsOK'
  <2>1. /\ chain' = {x \in Live : heap[x].marked} /\ lost' = Lists \ {{}} /\ place' = place
        /\ ListsOK
    BY DEF Unmark, IInv, TypeInv
  <2>2. ListsOK' /\ Listed' = Listed \cup {x \in Live : heap[x].marked}
    BY <2>1 DEF ListsOK, Listed, Lists, Live
  <2>3. QED
    BY <2>2 DEF Unmark, Doing, Then
<1>2. /\ n \in Nat \ {0} /\ p[n] = Head(work) /\ HeapInv(heap, Listed, p, n, Objs, status)
      /\ Referred(heap, p, n, Objs, status) /\ TaskOK(heap, p, n, status, n) /\ c = p[n].cell
      /\ p[n] \in TaskType /\ (p[n].op \in CellOps => c \in Cells /\ heap[c].kind # "free")
  BY <1>1, WorkTop
<1>3. /\ Shape(heap) /\ ChainOK(heap, Listed) /\ Exact(heap, p, n, Objs, status)
      /\ Released(heap, p, n) /\ TasksOK(heap, p, n, status) /\ FreesOK(heap, Listed, p, n)
      /\ MarksOK(heap, p, n, Objs) /\ ScopeOK(heap, p, n, status) /\ p \in [1..n -> TaskType]
      /\ Objs \subseteq Cells /\ (status = "open" => heap[Root].kind = "thread")
  BY <1>2 DEF HeapInv
<1>4. <<>> \in Seq(TaskType) /\ Len(<<>>) = 0
  OBVIOUS
<1>5. work' \in Seq(TaskType) /\ Replaced(p, n, q, m, <<>>)
  BY <1>1, <1>4, WorkSetup
<1>6. p[n].op = "unmark"
  BY <1>1, <1>2, Zenon
<1>7. n = 1 /\ status = "open"
  BY <1>2, <1>6 DEF TaskOK
<1> HIDE DEF c, p, n, q, m
<1>8. Settled(heap, Objs, status, None)
  <2>1. HeapInv(heap, Listed, p, 1, Objs, status)
    BY <1>2, <1>7
  <2>2. p[1].op = "unmark"
    BY <1>6, <1>7
  <2>3. None = IF p[1].op = "advance" THEN p[1].cell ELSE None
    BY <2>2
  <2>4. QED
    BY <2>1, <2>2, <2>3, LastSettled
<1>9. m = 0 /\ q \in [1..0 -> TaskType]
  <2>1. m = n - 1 + Len(<<>>) /\ q \in [1..m -> TaskType]
    BY <1>5 DEF Replaced
  <2>2. m = 0
    BY <2>1, <1>4, <1>7
  <2>3. QED
    BY <2>1, <2>2
<1>10. /\ heap' \in [Cells -> Cell]
       /\ \A x \in Cells :
             /\ heap'[x].kind = heap[x].kind /\ ~heap'[x].marked /\ heap'[x].link = heap[x].link
             /\ heap'[x].open = heap[x].open /\ heap'[x].refs = heap[x].refs
             /\ heap'[x].fields = heap[x].fields /\ heap'[x].box = heap[x].box
  <2>1. ASSUME NEW x \in Cells
        PROVE  /\ heap'[x] \in Cell
               /\ heap'[x].kind = heap[x].kind /\ ~heap'[x].marked /\ heap'[x].link = heap[x].link
               /\ heap'[x].open = heap[x].open /\ heap'[x].refs = heap[x].refs
               /\ heap'[x].fields = heap[x].fields /\ heap'[x].box = heap[x].box
    <3>1. heap[x] \in Cell
      BY <1>3 DEF Shape
    <3>2. heap'[x] = [heap[x] EXCEPT !.marked = FALSE]
      BY <1>1
    <3>3. QED
      BY <3>1, <3>2 DEF Cell
  <2>2. heap' = [x \in Cells |-> heap'[x]]
    BY <1>1
  <2>3. QED
    BY <2>1, <2>2
<1>11. Shape(heap')
  <2>1. ASSUME NEW x \in Cells PROVE CellOK(heap', x)
    <3>1. CellOK(heap, x)
      BY <1>3 DEF Shape
    <3>2. heap[x].link # None => heap[x].link \in Cells
      BY <1>3, CellTypes
    <3>3. heap[x].open # <<>> => heap[x].open[1] \in Cells
      BY <1>3, CellTypes
    <3>4. QED
      BY <3>1, <3>2, <3>3, <1>10 DEF CellOK
  <2>2. QED
    BY <2>1, <1>10 DEF Shape
<1>12. ChainOK(heap', Listed')
  <2>1. ASSUME NEW x \in Listed' PROVE x \in Cells /\ heap'[x].kind \in Kinds /\ ~heap'[x].marked
    <3>1. x \in Cells /\ (heap[x].kind \in Kinds \/ (heap[x].marked /\ heap[x].kind # "free"))
      BY <1>1, <1>3 DEF Live, ChainOK
    <3>2. heap[x].marked => heap[x].kind # "weakref"
      BY <3>1, <1>3 DEF Shape, CellOK
    <3>3. heap[x].kind \in Kinds \cup {"weakref", "free"}
      BY <3>1, <1>3, CellTypes
    <3>4. QED
      BY <3>1, <3>2, <3>3, <1>10
  <2>2. QED
    BY <2>1 DEF ChainOK
<1>13. Settled(heap', Objs, status, None)
  <2>1. SUFFICES ASSUME NEW x \in Cells
                 PROVE  /\ heap'[x].refs = FieldRefs(heap', x) + Ind(x \in Objs) + Ind(x = None)
                             + Ind(x = Root /\ status = "open") + Ind(heap'[x].open # <<>>)
                        /\ heap'[x].kind # "free" /\ ~heap'[x].marked => heap'[x].refs > 0
    BY DEF Settled
  <2>2. /\ heap[x].refs = FieldRefs(heap, x) + Ind(x \in Objs) + Ind(x = None)
                          + Ind(x = Root /\ status = "open") + Ind(heap[x].open # <<>>)
        /\ heap[x].kind # "free" /\ ~heap[x].marked => heap[x].refs > 0
    BY <1>8 DEF Settled
  <2>3. SameFields(heap, heap')
    BY <1>10 DEF SameFields
  <2>4. FieldRefs(heap', x) = FieldRefs(heap, x)
    BY <2>3, FieldRefsSame
  <2>5. heap[x].marked => heap[x].refs > 0
    <3>1. ASSUME heap[x].marked PROVE heap[x].refs > 0
      <4>1. Anchored(heap, Objs, x)
        BY <3>1, <1>3 DEF MarksOK
      <4>2. QED
        BY <4>1, <1>3, <1>7, <1>8, MarkedReferred
    <3>2. QED
      BY <3>1
  <2>6. QED
    BY <2>2, <2>4, <2>5, <1>10
<1>14. status = "open" => heap'[Root].kind = "thread"
  BY <1>3, <1>10, CellsAssumption
<1>15. HeapInv(heap', Listed', q, m, Objs, status)
  BY <1>3, <1>9, <1>10, <1>11, <1>12, <1>13, <1>14, IdleHeap
<1>16. QED
  BY <1>1, <1>5, <1>15, WorkDone DEF q, m

\* sq_close has returned.
LEMMA ClosedKeeps ==
    ASSUME IInv, Closed
    PROVE  IInv'
<1> DEFINE c == Here
           p == Pile(work)
           n == Len(work)
           q == Pile(work')
           m == Len(work')
<1>1. /\ work # <<>> /\ Head(work).op = "closed" /\ status' = "closed"
      /\ work' = <<>> \o Tail(work) /\ UNCHANGED <<heap, lists, Listed, table, held, leaked, uses, ops>>
  BY ListsSame DEF Closed, Doing, Then
<1>2. /\ n \in Nat \ {0} /\ p[n] = Head(work) /\ HeapInv(heap, Listed, p, n, Objs, status)
      /\ Referred(heap, p, n, Objs, status) /\ TaskOK(heap, p, n, status, n) /\ c = p[n].cell
      /\ p[n] \in TaskType /\ (p[n].op \in CellOps => c \in Cells /\ heap[c].kind # "free")
  BY <1>1, WorkTop
<1>3. /\ Shape(heap) /\ ChainOK(heap, Listed) /\ Exact(heap, p, n, Objs, status)
      /\ Released(heap, p, n) /\ TasksOK(heap, p, n, status) /\ FreesOK(heap, Listed, p, n)
      /\ MarksOK(heap, p, n, Objs) /\ ScopeOK(heap, p, n, status) /\ p \in [1..n -> TaskType]
      /\ Objs \subseteq Cells /\ (status = "open" => heap[Root].kind = "thread")
  BY <1>2 DEF HeapInv
<1>4. <<>> \in Seq(TaskType) /\ Len(<<>>) = 0
  OBVIOUS
<1>5. work' \in Seq(TaskType) /\ Replaced(p, n, q, m, <<>>)
  BY <1>1, <1>4, WorkSetup
<1>6. p[n].op = "closed"
  BY <1>1, <1>2, Zenon
<1>7. n = 1 /\ status # "open" /\ p[n].ending = ""
  BY <1>2, <1>6 DEF TaskOK
<1> HIDE DEF c, p, n, q, m
<1>8. Settled(heap, Objs, status, None)
  <2>1. HeapInv(heap, Listed, p, 1, Objs, status)
    BY <1>2, <1>7
  <2>2. p[1].op = "closed"
    BY <1>6, <1>7
  <2>3. None = IF p[1].op = "advance" THEN p[1].cell ELSE None
    BY <2>2
  <2>4. QED
    BY <2>1, <2>2, <2>3, LastSettled
<1>9. m = 0 /\ q \in [1..0 -> TaskType]
  <2>1. m = n - 1 + Len(<<>>) /\ q \in [1..m -> TaskType]
    BY <1>5 DEF Replaced
  <2>2. n = 1
    BY <1>7
  <2>3. m = 0
    BY <2>1, <2>2, <1>4
  <2>4. QED
    BY <2>1, <2>3
<1>10. \A x \in Cells : ~heap[x].marked
  BY <1>3, <1>6, <1>7 DEF MarksOK, Marking
<1>11. Settled(heap, Objs, "closed", None)
  <2>1. \A x : Ind(x = Root /\ status = "open") = Ind(x = Root /\ "closed" = "open")
    BY <1>7 DEF Ind
  <2>2. QED
    BY <2>1, <1>8 DEF Settled
<1>12. HeapInv(heap, Listed, q, m, Objs, "closed")
  BY <1>3, <1>9, <1>10, <1>11, IdleHeap
<1>13. Nodes' = Nodes /\ Objs' = Objs /\ Slots' = Slots
  BY <1>1 DEF Nodes, Objs, Slots
<1>14. TypeInv' /\ TableOK' /\ HandlesInv'
  <2>1. TypeInv'
    BY <1>1, <1>5 DEF IInv, TypeInv, ListsOK, Lists, lists
  <2>2. TableOK'
    BY <1>1, <1>13 DEF IInv, TableOK
  <2>3. HandlesInv'
    BY <1>1, <1>7, <1>13 DEF IInv, HandlesInv
  <2>4. QED
    BY <2>1, <2>2, <2>3
<1>15. HeapInv(heap', Listed', q, m, Objs', status')
  BY <1>1, <1>12, <1>13
<1>16. QED
  BY <1>14, <1>15 DEF IInv, q, m
\* The node x leaves the table.
LEMMA NodeRemoved ==
    ASSUME TableOK, NEW x \in Nodes, table' = [b \in DOMAIN table |-> table[b] \ {x}]
    PROVE  TableOK' /\ Nodes' = Nodes \ {x} /\ Objs' = Objs \ {x.obj} /\ x.obj \in Objs /\ x.obj \in Cells
<1>1. PICK m \in Nat \ {0} : table \in [Buckets(m) -> SUBSET [obj : Cells, refs : Nat]]
  BY DEF TableOK
<1>2. DOMAIN table = Buckets(m) /\ DOMAIN table' = Buckets(m)
  BY <1>1
<1>3. \A b \in Buckets(m) : table'[b] = table[b] \ {x}
  BY <1>2
<1>4. Nodes' = Nodes \ {x}
  BY <1>2, <1>3 DEF Nodes
<1>5. Slots' = Slots
  BY <1>2 DEF Slots
<1>6. table' \in [Buckets(m) -> SUBSET [obj : Cells, refs : Nat]]
  BY <1>1, <1>2
<1>7. TableOK'
  <2>1. ASSUME NEW b \in DOMAIN table', NEW y \in table'[b] PROVE Bucket(y.obj, Slots') = b
    BY <1>2, <1>3, <1>5 DEF TableOK
  <2>2. \A y, z \in Nodes' : y.obj = z.obj => y = z
    BY <1>4 DEF TableOK
  <2>3. \A b \in DOMAIN table' : \A y \in table'[b] : Bucket(y.obj, Slots') = b
    BY <2>1
  <2>4. \E k \in Nat \ {0} : table' \in [Buckets(k) -> SUBSET [obj : Cells, refs : Nat]]
    BY <1>6
  <2>5. QED
    BY <2>2, <2>3, <2>4 DEF TableOK
<1>8. x.obj \in Objs /\ x.obj \in Cells
  BY <1>1 DEF Objs, Nodes
<1>9. Objs' = {y.obj : y \in Nodes'}
  BY DEF Objs
<1>10. Objs' = Objs \ {x.obj}
  BY <1>4, <1>9 DEF Objs, TableOK
<1>11. QED
  BY <1>4, <1>7, <1>8, <1>10

\* RefTable::Finalize with a node left.
LEMMA FinalizeTableTakes ==
    ASSUME IInv, FinalizeTable, Nodes # {}
    PROVE  IInv'
<1> DEFINE c == Here
           p == Pile(work)
           n == Len(work)
           q == Pile(work')
           m == Len(work')
<1>1. /\ work # <<>> /\ Head(work).op = "reftable"
      /\ UNCHANGED <<heap, lists, Listed, held, leaked, uses, ops, status>>
  BY ListsSame DEF FinalizeTable, Doing
<1>a. PICK x \in Nodes : /\ table' = [b \in DOMAIN table |-> table[b] \ {x}]
                         /\ work' = (Drop(x.obj) \o <<Task("reftable", None)>>) \o Tail(work)
  BY DEF FinalizeTable, Then
<1>2. /\ n \in Nat \ {0} /\ p[n] = Head(work) /\ HeapInv(heap, Listed, p, n, Objs, status)
      /\ Referred(heap, p, n, Objs, status) /\ TaskOK(heap, p, n, status, n) /\ c = p[n].cell
      /\ p[n] \in TaskType /\ (p[n].op \in CellOps => c \in Cells /\ heap[c].kind # "free")
  BY <1>1, WorkTop
<1>3. /\ Shape(heap) /\ ChainOK(heap, Listed) /\ Exact(heap, p, n, Objs, status)
      /\ Released(heap, p, n) /\ TasksOK(heap, p, n, status) /\ FreesOK(heap, Listed, p, n)
      /\ MarksOK(heap, p, n, Objs) /\ ScopeOK(heap, p, n, status) /\ p \in [1..n -> TaskType]
      /\ Objs \subseteq Cells /\ (status = "open" => heap[Root].kind = "thread")
  BY <1>2 DEF HeapInv
<1>4. p[n].op = "reftable"
  BY <1>1, <1>2, Zenon
<1>5. TableOK' /\ Nodes' = Nodes \ {x} /\ Objs' = Objs \ {x.obj} /\ x.obj \in Objs /\ x.obj \in Cells
  BY <1>a, NodeRemoved DEF IInv
<1>6. status # "open" /\ \A y \in Cells : ~heap[y].marked
  <2>1. status # "open"
    BY <1>2, <1>4 DEF TaskOK
  <2>2. ~Marking(p, n)
    <3>1. SUFFICES ASSUME Marking(p, n) PROVE FALSE
      OBVIOUS
    <3>2. 1 \in 1..n
      BY <1>2
    <3>3. TaskOK(heap, p, n, status, 1)
      BY <3>2, <1>3 DEF TasksOK
    <3>4. p[1].op = "unmark" \/ p[1].ending = "unmark"
      BY <3>1 DEF Marking
    <3>5. QED
      BY <3>3, <3>4, <2>1 DEF TaskOK
  <2>3. QED
    BY <2>1, <2>2, <1>3 DEF MarksOK
<1> DEFINE o == x.obj
           td == Task("drop", o)
           tr == Task("reftable", None)
           ts == <<td>> \o <<tr>>
<1>7. IsTask(td, "drop", o) /\ IsTask(tr, "reftable", None)
  BY <1>5, TaskFacts DEF CellOps, LoneOps
<1>8. work' = ts \o Tail(work)
  <2>1. Drop(o) = <<td>>
    BY <1>5, NoneAssumption DEF Drop
  <2>2. QED
    BY <1>a, <2>1
<1> HIDE DEF o, td, tr, c, p, n, q, m
<1>9. ts \in Seq(TaskType) /\ Len(ts) = 2 /\ ts[1] = td /\ ts[2] = tr
  <2>1. td \in TaskType /\ tr \in TaskType
    BY <1>7 DEF IsTask
  <2>2. QED
    BY <2>1
<1> HIDE DEF ts
<1>10. work' \in Seq(TaskType) /\ Replaced(p, n, q, m, ts)
  BY <1>1, <1>8, <1>9, WorkSetup DEF p, q, n, m
<1>11. /\ m = n + 1 /\ m \in Nat /\ q[n] = tr /\ q[n + 1] = td
       /\ \A k \in n..m : k = n \/ k = n + 1
       /\ \A y : /\ Count(q, m, "drop", y) = Count(p, n, "drop", y) + Ind(y = o)
                 /\ Count(q, m, "advance", y) = Count(p, n, "advance", y)
                 /\ Count(q, m, "free", y) = Count(p, n, "free", y)
  <2>1. p[n].op \notin {"drop", "advance", "free"}
    BY <1>4
  <2>2. DropsFirst(ts, o)
    BY <1>7, <1>9 DEF DropsFirst, IsTask
  <2>3. OneDrop(p, n, q, m, ts, o)
    BY <2>1, <2>2, <1>10, DropThen
  <2>4. QED
    BY <2>3, <1>9 DEF OneDrop
<1> DEFINE objs == Objs \ {o}
<1>12. Exact(heap, q, m, objs, status)
  <2>1. SUFFICES ASSUME NEW y \in Cells
                 PROVE  heap[y].refs = FieldRefs(heap, y) + Ind(y \in objs)
                           + Count(q, m, "drop", y) + Count(q, m, "advance", y)
                           + Ind(y = Root /\ status = "open") + Ind(heap[y].open # <<>>)
    BY DEF Exact
  <2>2. heap[y].refs = FieldRefs(heap, y) + Ind(y \in Objs)
                       + Count(p, n, "drop", y) + Count(p, n, "advance", y)
                       + Ind(y = Root /\ status = "open") + Ind(heap[y].open # <<>>)
    BY <1>3 DEF Exact
  <2>3. /\ FieldRefs(heap, y) \in Nat /\ Count(p, n, "drop", y) \in Nat
        /\ Count(p, n, "advance", y) \in Nat
    BY <1>2, CountTypes
  <2>4. Ind(y \in Objs) = Ind(y \in objs) + Ind(y = o)
    BY <1>5 DEF Ind, o
  <2>5. Ind(y \in objs) \in Nat /\ Ind(y = o) \in Nat /\ Ind(y = Root /\ status = "open") \in Nat
        /\ Ind(heap[y].open # <<>>) \in Nat
    BY DEF Ind
  <2>6. Count(q, m, "drop", y) = Count(p, n, "drop", y) + Ind(y = o)
        /\ Count(q, m, "advance", y) = Count(p, n, "advance", y)
    BY <1>11
  <2>7. QED
    BY <2>2, <2>3, <2>4, <2>5, <2>6
<1>13. Released(heap, q, m)
  BY <1>3, <1>11 DEF Released
<1>14. TasksOK(heap, q, m, status)
  <2>1. TaskOK(heap, q, m, status, n)
    <3>1. q[n].op = "reftable" /\ q[n].cell = None /\ q[n].ending = ""
      BY <1>7, <1>11 DEF IsTask
    <3>2. QED
      BY <3>1, <1>6 DEF TaskOK, CellOps
  <2>2. TaskOK(heap, q, m, status, n + 1)
    <3>1. q[n + 1].op = "drop" /\ q[n + 1].cell = o /\ q[n + 1].ending = "" /\ o # None
      BY <1>5, <1>7, <1>11, NoneAssumption DEF IsTask, o
    <3>2. QED
      BY <3>1 DEF TaskOK, CellOps
  <2>3. \A k \in n..m : TaskOK(heap, q, m, status, k)
    BY <2>1, <2>2, <1>11
  <2>4. QED
    BY <2>3, <1>3, <1>10, TasksKept
<1>15. FreesOK(heap, Listed, q, m)
  <2>1. ASSUME NEW k \in n..m, q[k].op = "free" PROVE FreeOK(heap, Listed, q, m, k)
    BY <2>1, <1>11, <1>7 DEF IsTask
  <2>2. ASSUME NEW k \in 1..n - 1, p[k].op = "free"
        PROVE  Settles(heap, Listed, heap, Listed, p[n], q, n, p[k].cell)
    BY <1>4 DEF Settles, Is
  <2>3. FreesOK(heap, Listed, p, n)
    BY <1>3
  <2>4. p[n].op # "closeouters"
    BY <1>4
  <2>5. QED
    BY <2>1, <2>2, <2>3, <2>4, <1>10, FreesKept
<1>16. MarksOK(heap, q, m, objs)
  BY <1>6 DEF MarksOK
<1>17. ScopeOK(heap, q, m, status)
  <2>1. q[n].op = "reftable"
    BY <1>7, <1>11 DEF IsTask
  <2>2. p[n].op \notin {"drop", "unchain", "null", "clear", "free"}
    BY <1>4
  <2>3. n = 1 => q[1].op # "closeouters"
    BY <2>1
  <2>4. QED
    BY <2>2, <2>3, <1>3, <1>10, ScopeNone
<1>18. HeapInv(heap, Listed, q, m, objs, status)
  <2>1. m \in Nat /\ q \in [1..m -> TaskType]
    BY <1>10, <1>11 DEF Replaced
  <2>2. objs \subseteq Cells
    BY <1>3
  <2>3. QED
    BY <2>1, <2>2, <1>3, <1>12, <1>13, <1>14, <1>15, <1>16, <1>17 DEF HeapInv
<1>19. TypeInv' /\ HandlesInv'
  <2>1. TypeInv'
    BY <1>1, <1>10 DEF IInv, TypeInv, ListsOK, Lists, lists
  <2>2. HandlesInv'
    BY <1>1, <1>6 DEF IInv, HandlesInv
  <2>3. QED
    BY <2>1, <2>2
<1>20. HeapInv(heap', Listed', q, m, Objs', status')
  BY <1>1, <1>5, <1>18 DEF o
<1>21. QED
  BY <1>5, <1>19, <1>20 DEF IInv, q, m

\* RefTable::Finalize of an empty table.
LEMMA FinalizeTableEnds ==
    ASSUME IInv, FinalizeTable, Nodes = {}
    PROVE  IInv'
<1> DEFINE c == Here
           p == Pile(work)
           n == Len(work)
           q == Pile(work')
           m == Len(work')
<1>1. /\ work # <<>> /\ Head(work).op = "reftable" /\ table' = table
      /\ work' = <<>> \o Tail(work) /\ UNCHANGED <<heap, lists, Listed, held, leaked, uses, ops, status>>
  BY ListsSame DEF FinalizeTable, Doing, Then
<1>2. /\ n \in Nat \ {0} /\ p[n] = Head(work) /\ HeapInv(heap, Listed, p, n, Objs, status)
      /\ Referred(heap, p, n, Objs, status) /\ TaskOK(heap, p, n, status, n) /\ c = p[n].cell
      /\ p[n] \in TaskType /\ (p[n].op \in CellOps => c \in Cells /\ heap[c].kind # "free")
  BY <1>1, WorkTop
<1>3. /\ Shape(heap) /\ ChainOK(heap, Listed) /\ Exact(heap, p, n, Objs, status)
      /\ Released(heap, p, n) /\ TasksOK(heap, p, n, status) /\ FreesOK(heap, Listed, p, n)
      /\ MarksOK(heap, p, n, Objs) /\ ScopeOK(heap, p, n, status) /\ p \in [1..n -> TaskType]
      /\ Objs \subseteq Cells /\ (status = "open" => heap[Root].kind = "thread")
  BY <1>2 DEF HeapInv
<1>4. <<>> \in Seq(TaskType) /\ Len(<<>>) = 0
  OBVIOUS
<1>5. work' \in Seq(TaskType) /\ Replaced(p, n, q, m, <<>>)
  BY <1>1, <1>4, WorkSetup
<1>6. p[n].op = "reftable"
  BY <1>1, <1>2, Zenon
<1> HIDE DEF c, p, n, q, m
<1>7. SameFrame(heap, heap')
  BY <1>1 DEF SameFrame
<1>8. /\ m = n - 1 /\ m \in Nat /\ q \in [1..m -> TaskType]
      /\ Exact(heap', q, m, Objs, status) /\ Released(heap', q, m) /\ TasksOK(heap', q, m, status)
      /\ MarksOK(heap', q, m, Objs) /\ ScopeOK(heap', q, m, status)
  BY <1>2, <1>5, <1>6, <1>7, PopKeeps
<1>9. FreesOK(heap', Listed', q, m)
  <2>1. \A k \in n..m : FALSE
    BY <1>2, <1>8
  <2>2. ASSUME NEW k \in 1..n - 1, p[k].op = "free"
        PROVE  Settles(heap, Listed, heap', Listed', p[n], q, n, p[k].cell)
    BY <1>1, <1>6 DEF Settles, Is
  <2>3. QED
    BY <2>1, <2>2, <1>3, <1>5, <1>6, FreesKept
<1>10. HeapInv(heap', Listed', q, m, Objs, status)
  BY <1>1, <1>3, <1>8, <1>9 DEF HeapInv
<1>11. QED
  BY <1>1, <1>5, <1>10, WorkDone DEF q, m

\* Every step of a running release, sweep or close preserves the invariant.
LEMMA WorkKeeps ==
    ASSUME IInv, Work
    PROVE  IInv'
<1>1. CASE DropRef
  BY <1>1, DropRefKeeps
<1>2. CASE NullField
  BY <1>2, NullFieldKeeps
<1>3. CASE Unchain
  BY <1>3, UnchainKeeps
<1>4. CASE RunHook
  BY <1>4, RunHookKeeps
<1>5. CASE FreeCell
  BY <1>5, FreeCellKeeps
<1>6. CASE CloseOuters
  BY <1>6, CloseOutersEnds, CloseOutersCloses
<1>7. CASE StartSweep
  BY <1>7, StartSweepKeeps
<1>8. CASE Advance
  BY <1>8, AdvanceKeeps
<1>9. CASE Unmark
  BY <1>9, UnmarkKeeps
<1>10. CASE FinalizeTable
  BY <1>10, FinalizeTableEnds, FinalizeTableTakes
<1>11. CASE Closed
  BY <1>11, ClosedKeeps
<1>12. CASE ClearField
  BY <1>12, ClearFieldKeeps
<1>13. QED
  BY <1>1, <1>2, <1>3, <1>4, <1>5, <1>6, <1>7, <1>8, <1>9, <1>10, <1>11, <1>12 DEF Work
=============================================================================
