--------------------------- MODULE HeapSweepProofs ---------------------------
(***************************************************************************)
(* What a sweep leaves: a second inductive invariant of Heap, on top of    *)
(* the one of HeapProofs, for CollectsAll, SweepsGarbage and ClosesClean.  *)
(*                                                                         *)
(* The collector does not follow an open outer to the stack slot that it   *)
(* points to, and one that it has not reached stays in a list that         *)
(* _gc_chain does not head; the next RemoveFromChain of it takes _gc_chain *)
(* away from the objects that are in it.  The theorems about what a sweep  *)
(* finds are therefore about programs that do not combine captured         *)
(* variables with collectgarbage (Apart).  The one about what it spares    *)
(* does not need that: it is about programs that do not combine both with  *)
(* coroutines (Untangled).                                                 *)
(***************************************************************************)
EXTENDS HeapResults

Apart(us) == ~({"closure", "collect"} \subseteq us)
Untangled(us) == ~({"closure", "collect", "thread"} \subseteq us)

-----------------------------------------------------------------------------
(* The invariant, of a heap h, the objects ch that are in a list, a pile   *)
(* of tasks p of height n, the objects objs that have a node, a status st  *)
(* and the features us.                                                    *)

Pending(p, n, op, c) == \E k \in 1..n : Is(p[k], op, c)
Clearing(p, n, c, f) == \E k \in 1..n : Is(p[k], "null", c) /\ p[k].field = f

\* An outer is held by closures only, and has no handle and no weak reference;
\* the base of a class and the _base of a closure are classes.
FieldOK(h, x, f) ==
    h[x].fields[f] # None =>
        /\ h[h[x].fields[f]].kind = "outer" => h[x].kind = "closure" /\ f = 2
        /\ h[x].kind \in {"closure", "class"} /\ f = 1 => h[h[x].fields[f]].kind = "class"
OuterOK(h, objs, x) == h[x].kind = "outer" => h[x].link = None /\ x \notin objs
KindsOK(h, objs) == \A x \in Cells : OuterOK(h, objs, x) /\ \A f \in 1..2 : FieldOK(h, x, f)

\* The kinds of object there are follow from what the program uses.
UsesOK(h, p, n, us) ==
    /\ \A c \in Cells : /\ h[c].kind \in {"closure", "outer"} => "closure" \in us
                        /\ h[c].kind = "thread" => "thread" \in us \/ c = Root
    /\ Marking(p, n) => "collect" \in us

\* An object is in the chain, or the collector has reached it, or it is being
\* freed.  An outer may leave the chain: it is not reached through the list
\* that holds it.
Owed(h, us, c) == h[c].kind \in Kinds /\ (h[c].kind # "outer" \/ "collect" \notin us)
Covered(h, ch, p, n, us) ==
    \A c \in Cells : Owed(h, us, c) => c \in ch \/ h[c].marked \/ Pending(p, n, "free", c)
UnchainsOK(p, n) ==
    \A k \in 1..n : p[k].op = "unchain" => \E j \in 1..k - 1 : Is(p[j], "free", p[k].cell)

\* During a sweep a marked object leads to marked objects and weak references
\* only, and no marked thread loses its stack.
Lasts(h, v) == h[v].marked \/ h[v].kind = "weakref"
MarkedOK(h, p, n, objs) ==
    Marking(p, n) =>
        /\ h[Root].marked
        /\ \A c \in objs : Lasts(h, c)
        /\ \A c \in Cells, f \in 1..2 :
              h[c].marked /\ h[c].fields[f] # None => Lasts(h, h[c].fields[f])
        /\ \A k \in 1..n : p[k].op = "closeouters" => ~h[p[k].cell].marked

\* What Finalize empties; an object that has been finalized is empty or about
\* to be.
Emptied(k, f) == ~(k = "closure" /\ f = 1)
NoneOpen(h, c) == \A o \in Cells : h[o].open # <<>> => h[o].open[1] # c
Finalized(h, p, n, c) ==
    /\ \A f \in 1..2 : Emptied(h[c].kind, f) => h[c].fields[f] = None \/ Clearing(p, n, c, f)
    /\ NoneOpen(h, c) \/ Pending(p, n, "closeouters", c)

\* The sweep has finalized all objects that it has not still to do.
Sweeping(p, n) == n > 0 /\ p[1].op \in {"advance", "unmark", "closed"}
Swept(h, ch, p, n, c) ==
    \/ p[1].op = "advance" /\ c \in p[1].todo \cap ch
    \/ Pending(p, n, "free", c) \/ Finalized(h, p, n, c)
SweptOK(h, ch, p, n, us) ==
    Apart(us) /\ Sweeping(p, n) =>
        \A c \in Cells : h[c].kind \in Kinds \ {"outer"} /\ ~h[c].marked => Swept(h, ch, p, n, c)
PinOK(h, p, n) ==
    n > 0 /\ p[1].op = "advance" => h[p[1].cell].kind \in Kinds /\ ~h[p[1].cell].marked

\* ~SQSharedState has emptied the handle table, or will; and when it is over
\* nothing is left.
TableGone(p, n, objs, st) ==
    st # "open" => objs = {} \/ \E k \in 1..n : p[k].op = "reftable"
AllGone(h, ch, n, objs, st, us) ==
    Apart(us) /\ st = "closed" => n = 0 /\ ch = {} /\ objs = {} /\ \A c \in Cells : h[c].kind = "free"

SweepInv(h, ch, p, n, objs, st, us) ==
    /\ KindsOK(h, objs) /\ UsesOK(h, p, n, us)
    /\ Covered(h, ch, p, n, us) /\ UnchainsOK(p, n)
    /\ MarkedOK(h, p, n, objs) /\ SweptOK(h, ch, p, n, us) /\ PinOK(h, p, n)
    /\ TableGone(p, n, objs, st) /\ AllGone(h, ch, n, objs, st, us)
CInv == Untangled(uses) =>
            SweepInv(heap, Listed, Pile(work), Len(work), Objs, status, uses)

\* Every object that is in a list is in the one that _gc_chain heads.
LInv == Apart(uses) => lost = {}

-----------------------------------------------------------------------------
(* A step of a running call that is not a turn of a sweep.                 *)

\* Cells are freed or stay what they are, fields are cleared; an outer that is
\* closed takes a value from a stack, but not while a collection is running.
Poured(h, h2, x) ==
    /\ h[x].kind = "outer"
    /\ \E t \in Cells, g \in 1..2 : h[t].kind = "thread" /\ h[t].fields[g] = h2[x].fields[2]
CalmField(h, h2, p, n, x, f) ==
    \/ h2[x].fields[f] \in {h[x].fields[f], None}
    \/ f = 2 /\ ~Marking(p, n) /\ Poured(h, h2, x)
CalmCell(h, h2, x) ==
    /\ h2[x].kind \in {h[x].kind, "free"} /\ h2[x].marked = h[x].marked
    /\ h2[x].link \in {h[x].link, None} /\ h2[x].open \in {h[x].open, <<>>}
Calm(h, h2, p, n) ==
    \A x \in Cells : CalmCell(h, h2, x) /\ \A f \in 1..2 : CalmField(h, h2, p, n, x, f)

\* The new tasks do not sweep, unchain only what they free, and close the
\* outers of the cell at hand.
Turns == {"advance", "unmark", "closed", "sweepall"}
NewTaskOK(h, ts, t, j) ==
    /\ ts[j].op \notin Turns /\ ts[j].ending = ""
    /\ ts[j].op = "unchain" => \E i \in j + 1..Len(ts) : Is(ts[i], "free", ts[j].cell)
    /\ ts[j].op = "closeouters" =>
          ts[j].cell = t.cell /\ (t.op = "closeouters" \/ ~h[t.cell].marked)
NewTasksOK(h, ts, t) == \A j \in 1..Len(ts) : NewTaskOK(h, ts, t, j)

\* The step does what the task t on top of the pile says.
Done(h2, ch, ch2, q, m, n, objs, objs2, t) ==
    /\ t.op \notin Turns
    /\ t.op = "null" => h2[t.cell].fields[t.field] = None
    /\ t.op = "free" => h2[t.cell].kind = "free"
    /\ t.op = "closeouters" => NoneOpen(h2, t.cell) \/ (n <= m /\ Is(q[n], "closeouters", t.cell))
    /\ t.op = "reftable" => objs2 = {} \/ (n <= m /\ q[n].op = "reftable")
    /\ objs2 \subseteq objs
    /\ ch2 = ch \/ (t.op = "unchain" /\ ch2 = ch \ {t.cell})

\* What there is after a calm step, and what it refers to, was there before.
LEMMA CalmKinds ==
    ASSUME NEW h, NEW h2, NEW p, NEW n, NEW q, NEW m, NEW objs2, NEW st,
           Shape(h2), Calm(h, h2, p, n), Referred(h2, q, m, objs2, st)
    PROVE  /\ \A x \in Cells : h2[x].kind # "free" => h2[x].kind = h[x].kind
           /\ \A x \in Cells, f \in 1..2 : h2[x].fields[f] # None =>
                 /\ h2[x].kind = h[x].kind /\ h2[x].fields[f] \in Cells
                 /\ h2[h2[x].fields[f]].kind = h[h2[x].fields[f]].kind
           /\ \A x \in objs2 : x \in Cells /\ h2[x].kind = h[x].kind
<1>1. \A x \in Cells : h2[x].kind # "free" => h2[x].kind = h[x].kind
  BY DEF Calm, CalmCell
<1>2. \A x \in Cells : CellOK(h2, x)
  BY DEF Shape
<1>3. \A x \in Cells, f \in 1..2 : h2[x].fields[f] # None => h2[x].kind # "free"
  BY <1>2 DEF CellOK
<1>4. QED
  BY <1>1, <1>3 DEF Referred

\* A calm step keeps outers where they belong.
LEMMA CalmKindsOK ==
    ASSUME NEW h, NEW h2, NEW p, NEW n, NEW q, NEW m, NEW objs, NEW objs2, NEW st,
           Shape(h2), Calm(h, h2, p, n), Referred(h2, q, m, objs2, st),
           objs2 \subseteq objs, KindsOK(h, objs)
    PROVE  KindsOK(h2, objs2)
<1>1. /\ \A x \in Cells : h2[x].kind # "free" => h2[x].kind = h[x].kind
      /\ \A x \in Cells, f \in 1..2 : h2[x].fields[f] # None =>
            /\ h2[x].kind = h[x].kind /\ h2[x].fields[f] \in Cells
            /\ h2[h2[x].fields[f]].kind = h[h2[x].fields[f]].kind
  BY CalmKinds
<1>2. ASSUME NEW x \in Cells PROVE OuterOK(h2, objs2, x)
  BY <1>1, <1>2 DEF OuterOK, KindsOK, Calm, CalmCell
<1>3. ASSUME NEW x \in Cells, NEW f \in 1..2 PROVE FieldOK(h2, x, f)
  <2> DEFINE v == h2[x].fields[f]
  <2>1. FieldOK(h, x, f) /\ CalmField(h, h2, p, n, x, f)
    BY DEF KindsOK, Calm
  <2>2. CASE v \in {h[x].fields[f], None}
    BY <2>1, <2>2, <1>1 DEF FieldOK
  <2>3. CASE f = 2 /\ Poured(h, h2, x)
    <3>1. PICK t \in Cells, g \in 1..2 : h[t].kind = "thread" /\ h[t].fields[g] = v
      BY <2>3 DEF Poured
    <3>2. FieldOK(h, t, g)
      BY DEF KindsOK
    <3>3. v # None => h[v].kind # "outer"
      BY <3>1, <3>2 DEF FieldOK
    <3>4. QED
      BY <3>3, <2>3, <1>1 DEF FieldOK
  <2>4. QED
    BY <2>1, <2>2, <2>3 DEF CalmField
<1>4. QED
  BY <1>2, <1>3 DEF KindsOK

\* The lowest task is not replaced by one that sweeps.
LEMMA CalmBottom ==
    ASSUME NEW h, NEW p, NEW n, NEW q, NEW m, NEW ts, NEW t, Replaced(p, n, q, m, ts),
           NewTasksOK(h, ts, t)
    PROVE  /\ m > 0 /\ q[1].op \in Turns => n > 1 /\ q[1] = p[1]
           /\ Marking(q, m) => Marking(p, n) /\ n > 1 /\ q[1] = p[1]
           /\ Sweeping(q, m) => Sweeping(p, n) /\ n > 1 /\ q[1] = p[1]
<1>1. n \in Nat \ {0} /\ m \in Nat
  BY DEF Replaced
<1>2. CASE n > 1
  <2>1. 1 \in 1..n - 1
    BY <1>1, <1>2
  <2>2. q[1] = p[1]
    BY <2>1 DEF Replaced
  <2>3. QED
    BY <2>1, <2>2, <1>1, <1>2 DEF Marking, Sweeping
<1>3. CASE n = 1 /\ m > 0
  <2>1. 1 \in n..m
    BY <1>1, <1>3
  <2>2. n + Len(ts) - 1 \in 1..Len(ts) /\ q[1] = ts[n + Len(ts) - 1]
    BY <2>1, NewHeights
  <2>3. q[1].op \notin Turns /\ q[1].ending = ""
    BY <2>2 DEF NewTasksOK, NewTaskOK
  <2>4. QED
    BY <2>3 DEF Marking, Sweeping, Turns
<1>4. CASE ~(m > 0)
  BY <1>4 DEF Marking, Sweeping
<1>5. QED
  BY <1>1, <1>2, <1>3, <1>4

\* A pending task of a cell stays pending, unless it is the one at hand.
LEMMA PendingKept ==
    ASSUME NEW p, NEW n, NEW q, NEW m, NEW ts, Replaced(p, n, q, m, ts)
    PROVE  /\ \A op, c : Pending(p, n, op, c) => Pending(q, m, op, c) \/ Is(p[n], op, c)
           /\ \A c, f : Clearing(p, n, c, f) =>
                 Clearing(q, m, c, f) \/ (Is(p[n], "null", c) /\ p[n].field = f)
           /\ \A op, c : n <= m /\ Is(q[n], op, c) => Pending(q, m, op, c)
<1>1. n \in Nat \ {0} /\ m \in Nat /\ n - 1 \in Nat
  BY NewHeights
<1>2. \A k \in 1..n : k = n \/ (k \in 1..n - 1 /\ k \in 1..m /\ q[k] = p[k])
  BY <1>1, NewHeights
<1>3. n <= m => n \in 1..m
  BY <1>1
<1>4. QED
  BY <1>2, <1>3 DEF Pending, Clearing

\* Objects stay under the collector.
LEMMA CalmCovered ==
    ASSUME NEW h, NEW ch, NEW h2, NEW ch2, NEW p, NEW n, NEW q, NEW m, NEW ts,
           NEW objs, NEW objs2, NEW us,
           Replaced(p, n, q, m, ts), Calm(h, h2, p, n), NewTasksOK(h, ts, p[n]),
           Done(h2, ch, ch2, q, m, n, objs, objs2, p[n]),
           Covered(h, ch, p, n, us), UnchainsOK(p, n)
    PROVE  /\ Covered(h2, ch2, q, m, us) /\ UnchainsOK(q, m)
           /\ \A c \in Cells : c \in ch => c \in ch2 \/ Pending(q, m, "free", c)
           /\ \A c \in Cells : Pending(p, n, "free", c) =>
                 Pending(q, m, "free", c) \/ h2[c].kind = "free"
<1>1. /\ n \in Nat \ {0} /\ m \in Nat /\ n - 1 \in Nat /\ n \in 1..n
  BY NewHeights
<1>2. ASSUME NEW c \in Cells, c \in ch PROVE c \in ch2 \/ Pending(q, m, "free", c)
  <2>1. CASE ch2 = ch
    BY <2>1, <1>2
  <2>2. CASE p[n].op = "unchain" /\ ch2 = ch \ {p[n].cell}
    <3>1. CASE c = p[n].cell
      <4>1. PICK j \in 1..n - 1 : Is(p[j], "free", c)
        BY <3>1, <2>2, <1>1 DEF UnchainsOK
      <4>2. j \in 1..m /\ q[j] = p[j]
        BY <4>1, NewHeights
      <4>3. QED
        BY <4>1, <4>2 DEF Pending
    <3>2. QED
      BY <3>1, <2>2, <1>2
  <2>3. QED
    BY <2>1, <2>2 DEF Done
<1>3. ASSUME NEW c \in Cells, Pending(p, n, "free", c)
      PROVE  Pending(q, m, "free", c) \/ h2[c].kind = "free"
  <2>1. Pending(q, m, "free", c) \/ Is(p[n], "free", c)
    BY <1>3, PendingKept
  <2>2. QED
    BY <2>1 DEF Done, Is
<1>4. ASSUME NEW c \in Cells, Owed(h2, us, c)
      PROVE  c \in ch2 \/ h2[c].marked \/ Pending(q, m, "free", c)
  <2>1. h2[c].kind # "free" /\ h2[c].kind = h[c].kind /\ h2[c].marked = h[c].marked
    BY <1>4 DEF Calm, CalmCell, Owed, Kinds
  <2>2. Owed(h, us, c)
    BY <2>1, <1>4 DEF Owed
  <2>3. c \in ch \/ h[c].marked \/ Pending(p, n, "free", c)
    BY <2>2 DEF Covered
  <2>4. QED
    BY <2>1, <2>3, <1>2, <1>3
<1>5. ASSUME NEW k \in 1..m, q[k].op = "unchain" PROVE \E j \in 1..k - 1 : Is(q[j], "free", q[k].cell)
  <2>1. CASE k \in 1..n - 1
    <3>1. k \in 1..n /\ q[k] = p[k]
      BY <2>1, NewHeights
    <3>2. PICK j \in 1..k - 1 : Is(p[j], "free", p[k].cell)
      BY <3>1, <1>5 DEF UnchainsOK
    <3>3. j \in 1..n - 1
      BY <3>2, <2>1, <1>1
    <3>4. q[j] = p[j]
      BY <3>3, NewHeights
    <3>5. QED
      BY <3>1, <3>2, <3>4
  <2>2. CASE k \in n..m
    <3> DEFINE i == n + Len(ts) - k
    <3>1. i \in 1..Len(ts) /\ q[k] = ts[i] /\ Len(ts) \in Nat
      BY <2>2, NewHeights
    <3>2. PICK e \in i + 1..Len(ts) : Is(ts[e], "free", ts[i].cell)
      BY <3>1, <1>5 DEF NewTasksOK, NewTaskOK
    <3>3. n + Len(ts) - e \in 1..k - 1 /\ e \in 1..Len(ts)
      BY <3>1, <3>2, <1>1
    <3>4. q[n + Len(ts) - e] = ts[e]
      BY <3>3 DEF Replaced
    <3>5. QED
      BY <3>1, <3>2, <3>3, <3>4
  <2>3. QED
    BY <2>1, <2>2, NewHeights
<1>6. QED
  BY <1>2, <1>3, <1>4, <1>5 DEF Covered, UnchainsOK

\* What is marked leads to what is marked, as long as no marked thread loses
\* its stack.
LEMMA CalmMarked ==
    ASSUME NEW h, NEW ch, NEW h2, NEW ch2, NEW p, NEW n, NEW q, NEW m, NEW ts,
           NEW objs, NEW objs2, NEW st, Shape(h2),
           Replaced(p, n, q, m, ts), Calm(h, h2, p, n), NewTasksOK(h, ts, p[n]),
           Done(h2, ch, ch2, q, m, n, objs, objs2, p[n]),
           Referred(h2, q, m, objs2, st), MarkedOK(h, p, n, objs),
           \A k \in 1..m : q[k].op = "closeouters" => q[k].cell \in Cells
    PROVE  MarkedOK(h2, q, m, objs2)
<1> SUFFICES ASSUME Marking(q, m)
             PROVE  /\ h2[Root].marked
                    /\ \A c \in objs2 : Lasts(h2, c)
                    /\ \A c \in Cells, f \in 1..2 :
                          h2[c].marked /\ h2[c].fields[f] # None => Lasts(h2, h2[c].fields[f])
                    /\ \A k \in 1..m : q[k].op = "closeouters" => ~h2[q[k].cell].marked
  BY DEF MarkedOK
<1>1. Marking(p, n)
  BY CalmBottom
<1>2. /\ h[Root].marked
      /\ \A c \in objs : Lasts(h, c)
      /\ \A c \in Cells, f \in 1..2 :
            h[c].marked /\ h[c].fields[f] # None => Lasts(h, h[c].fields[f])
      /\ \A k \in 1..n : p[k].op = "closeouters" => ~h[p[k].cell].marked
  BY <1>1 DEF MarkedOK
<1>3. /\ \A x \in Cells : h2[x].kind # "free" => h2[x].kind = h[x].kind
      /\ \A x \in Cells, f \in 1..2 : h2[x].fields[f] # None =>
            /\ h2[x].kind = h[x].kind /\ h2[x].fields[f] \in Cells
            /\ h2[h2[x].fields[f]].kind = h[h2[x].fields[f]].kind
      /\ \A x \in objs2 : x \in Cells /\ h2[x].kind = h[x].kind
  BY CalmKinds
<1>4. \A x \in Cells : h2[x].marked = h[x].marked
  BY DEF Calm, CalmCell
<1>5. h2[Root].marked
  BY <1>2, <1>4, CellsAssumption
<1>6. ASSUME NEW c \in objs2 PROVE Lasts(h2, c)
  <2>1. c \in objs /\ c \in Cells /\ h2[c].kind = h[c].kind
    BY <1>3 DEF Done
  <2>2. QED
    BY <2>1, <1>2, <1>4 DEF Lasts
<1>7. ASSUME NEW c \in Cells, NEW f \in 1..2, h2[c].marked, h2[c].fields[f] # None
      PROVE  Lasts(h2, h2[c].fields[f])
  <2>1. h2[c].fields[f] = h[c].fields[f]
    BY <1>1, <1>7 DEF Calm, CalmField
  <2>2. QED
    BY <2>1, <1>2, <1>3, <1>4, <1>7 DEF Lasts
<1>8. ASSUME NEW k \in 1..m, q[k].op = "closeouters" PROVE ~h2[q[k].cell].marked
  <2>0. q[k].cell \in Cells
    BY <1>8
  <2>1. CASE k \in 1..n - 1
    <3>1. k \in 1..n /\ q[k] = p[k]
      BY <2>1, NewHeights
    <3>2. QED
      BY <3>1, <2>0, <1>2, <1>4, <1>8
  <2>2. CASE k \in n..m
    <3>1. n + Len(ts) - k \in 1..Len(ts) /\ q[k] = ts[n + Len(ts) - k] /\ n \in Nat \ {0}
      BY <2>2, NewHeights
    <3>2. q[k].cell = p[n].cell /\ (p[n].op = "closeouters" \/ ~h[p[n].cell].marked)
      BY <3>1, <1>8 DEF NewTasksOK, NewTaskOK
    <3>3. n \in 1..n
      BY <3>1
    <3>4. QED
      BY <3>2, <3>3, <2>0, <1>2, <1>4
  <2>3. QED
    BY <2>1, <2>2, NewHeights
<1>9. QED
  BY <1>5, <1>6, <1>7, <1>8

\* What has been finalized stays empty.
LEMMA CalmSwept ==
    ASSUME NEW h, NEW ch, NEW h2, NEW ch2, NEW p, NEW n, NEW q, NEW m, NEW ts,
           NEW objs, NEW objs2, NEW us,
           Replaced(p, n, q, m, ts), Calm(h, h2, p, n), NewTasksOK(h, ts, p[n]),
           Done(h2, ch, ch2, q, m, n, objs, objs2, p[n]),
           Covered(h, ch, p, n, us), UnchainsOK(p, n), SweptOK(h, ch, p, n, us)
    PROVE  SweptOK(h2, ch2, q, m, us)
<1> SUFFICES ASSUME Apart(us), Sweeping(q, m), NEW c \in Cells,
                    h2[c].kind \in Kinds \ {"outer"}, ~h2[c].marked
             PROVE  Swept(h2, ch2, q, m, c)
  BY DEF SweptOK
<1>1. Sweeping(p, n) /\ q[1] = p[1]
  BY CalmBottom
<1>2. h2[c].kind # "free" /\ h2[c].kind = h[c].kind /\ ~h[c].marked
  BY DEF Calm, CalmCell, Kinds
<1>3. Swept(h, ch, p, n, c)
  BY <1>1, <1>2 DEF SweptOK
<1>4. CASE p[1].op = "advance" /\ c \in p[1].todo \cap ch
  <2>1. c \in ch2 \/ Pending(q, m, "free", c)
    BY <1>4, CalmCovered
  <2>2. QED
    BY <2>1, <1>1, <1>4 DEF Swept
<1>5. CASE Pending(p, n, "free", c)
  <2>1. Pending(q, m, "free", c)
    <3>1. Pending(q, m, "free", c) \/ Is(p[n], "free", c)
      BY <1>5, PendingKept
    <3>2. QED
      BY <3>1, <1>2 DEF Done, Is
  <2>2. QED
    BY <2>1 DEF Swept
<1>6. CASE Finalized(h, p, n, c)
  <2>1. ASSUME NEW f \in 1..2, Emptied(h2[c].kind, f)
        PROVE  h2[c].fields[f] = None \/ Clearing(q, m, c, f)
    <3>1. h[c].fields[f] = None \/ Clearing(p, n, c, f)
      BY <2>1, <1>2, <1>6 DEF Finalized
    <3>2. CASE h[c].fields[f] = None
      <4>1. CalmField(h, h2, p, n, c, f)
        BY DEF Calm
      <4>2. QED
        BY <4>1, <3>2, <1>2 DEF CalmField, Poured
    <3>3. CASE Clearing(p, n, c, f)
      <4>1. Clearing(q, m, c, f) \/ (Is(p[n], "null", c) /\ p[n].field = f)
        BY <3>3, PendingKept
      <4>2. QED
        BY <4>1 DEF Done, Is
    <3>4. QED
      BY <3>1, <3>2, <3>3
  <2>2. NoneOpen(h2, c) \/ Pending(q, m, "closeouters", c)
    <3>1. CASE NoneOpen(h, c)
      <4>1. NoneOpen(h2, c)
        BY <3>1 DEF NoneOpen, Calm, CalmCell
      <4>2. QED
        BY <4>1
    <3>2. CASE Pending(p, n, "closeouters", c)
      <4>1. Pending(q, m, "closeouters", c) \/ Is(p[n], "closeouters", c)
        BY <3>2, PendingKept
      <4>2. QED
        BY <4>1, PendingKept DEF Done, Is
    <3>3. QED
      BY <3>1, <3>2, <1>6 DEF Finalized
  <2>3. QED
    BY <2>1, <2>2 DEF Swept, Finalized
<1>7. QED
  BY <1>3, <1>4, <1>5, <1>6 DEF Swept

\* A calm step keeps the invariant.
LEMMA CalmKeeps ==
    ASSUME NEW h, NEW ch, NEW h2, NEW ch2, NEW p, NEW n, NEW q, NEW m, NEW ts,
           NEW objs, NEW objs2, NEW st, NEW us,
           HeapInv(h, ch, p, n, objs, st), HeapInv(h2, ch2, q, m, objs2, st),
           Replaced(p, n, q, m, ts), Calm(h, h2, p, n), NewTasksOK(h, ts, p[n]),
           Done(h2, ch, ch2, q, m, n, objs, objs2, p[n]),
           SweepInv(h, ch, p, n, objs, st, us)
    PROVE  SweepInv(h2, ch2, q, m, objs2, st, us)
<1>1. /\ KindsOK(h, objs) /\ UsesOK(h, p, n, us)
      /\ Covered(h, ch, p, n, us) /\ UnchainsOK(p, n)
      /\ MarkedOK(h, p, n, objs) /\ SweptOK(h, ch, p, n, us) /\ PinOK(h, p, n)
      /\ TableGone(p, n, objs, st) /\ AllGone(h, ch, n, objs, st, us)
  BY DEF SweepInv
<1>2. Shape(h2) /\ Referred(h2, q, m, objs2, st) /\ m \in Nat /\ n \in Nat \ {0}
  BY InvReferred DEF HeapInv, Replaced
<1>3. objs2 \subseteq objs
  BY DEF Done
<1>4. KindsOK(h2, objs2)
  BY <1>1, <1>2, <1>3, CalmKindsOK
<1>5. UsesOK(h2, q, m, us)
  <2>1. \A x \in Cells : h2[x].kind \in {h[x].kind, "free"}
    BY DEF Calm, CalmCell
  <2>2. Marking(q, m) => Marking(p, n)
    BY CalmBottom
  <2>3. QED
    BY <2>1, <2>2, <1>1 DEF UsesOK
<1>6. Covered(h2, ch2, q, m, us) /\ UnchainsOK(q, m)
  BY <1>1, CalmCovered
<1>7. MarkedOK(h2, q, m, objs2)
  <2>1. \A k \in 1..m : q[k].op = "closeouters" => q[k].cell \in Cells
    BY TasksLive DEF LiveIn, CellOps
  <2>2. QED
    BY <2>1, <1>1, <1>2, CalmMarked
<1>8. SweptOK(h2, ch2, q, m, us)
  BY <1>1, CalmSwept
<1>9. PinOK(h2, q, m)
  <2>1. SUFFICES ASSUME m > 0, q[1].op = "advance"
                 PROVE  h2[q[1].cell].kind \in Kinds /\ ~h2[q[1].cell].marked
    BY DEF PinOK
  <2>2. n > 1 /\ q[1] = p[1]
    BY <2>1, CalmBottom DEF Turns
  <2>3. 1 \in 1..m
    BY <2>1, <1>2
  <2>4. q[1].cell \in Cells /\ h2[q[1].cell].kind # "free"
    BY <2>1, <2>3, <1>2 DEF Referred
  <2>5. h[q[1].cell].kind \in Kinds /\ ~h[q[1].cell].marked
    BY <2>1, <2>2, <1>1, <1>2 DEF PinOK
  <2>6. QED
    BY <2>4, <2>5 DEF Calm, CalmCell
<1>10. TableGone(q, m, objs2, st)
  <2>1. SUFFICES ASSUME st # "open", objs2 # {} PROVE \E k \in 1..m : q[k].op = "reftable"
    BY DEF TableGone
  <2>2. PICK k \in 1..n : p[k].op = "reftable"
    BY <2>1, <1>1, <1>3 DEF TableGone
  <2>3. CASE k \in 1..n - 1
    BY <2>2, <2>3, NewHeights
  <2>4. CASE k = n
    <3>1. n <= m /\ q[n].op = "reftable"
      BY <2>1, <2>2, <2>4 DEF Done
    <3>2. n \in 1..m
      BY <3>1, <1>2
    <3>3. QED
      BY <3>1, <3>2
  <2>5. k \in 1..n - 1 \/ k = n
    BY <1>2
  <2>6. QED
    BY <2>3, <2>4, <2>5
<1>11. AllGone(h2, ch2, m, objs2, st, us)
  BY <1>1, <1>2 DEF AllGone
<1>12. QED
  BY <1>4, <1>5, <1>6, <1>7, <1>8, <1>9, <1>10, <1>11 DEF SweepInv

\* The same, of the running call.
LEMMA CalmWork ==
    ASSUME IInv, IInv', CInv, work # <<>>, NEW ts \in Seq(TaskType), work' = ts \o Tail(work),
           UNCHANGED <<status, uses>>,
           Untangled(uses) => Calm(heap, heap', Pile(work), Len(work)),
           NewTasksOK(heap, ts, Head(work)),
           Done(heap', Listed, Listed', Pile(work'), Len(work'), Len(work), Objs, Objs', Head(work))
    PROVE  CInv'
<1> DEFINE p == Pile(work)
           n == Len(work)
           q == Pile(work')
           m == Len(work')
<1>1. /\ Replaced(p, n, q, m, ts) /\ p[n] = Head(work)
      /\ HeapInv(heap, Listed, p, n, Objs, status)
  BY WorkSetup
<1>2. HeapInv(heap, Listed, Pile(work), Len(work), Objs, status)'
  BY DEF IInv
<1>3. HeapInv(heap', Listed', q, m, Objs', status)
  BY <1>2
<1>4. ASSUME Untangled(uses) PROVE SweepInv(heap', Listed', q, m, Objs', status, uses)
  <2>1. SweepInv(heap, Listed, p, n, Objs, status, uses) /\ Calm(heap, heap', p, n)
    BY <1>4 DEF CInv
  <2>2. NewTasksOK(heap, ts, p[n]) /\ Done(heap', Listed, Listed', q, m, n, Objs, Objs', p[n])
    BY <1>1
  <2> HIDE DEF p, n, q, m
  <2>3. QED
    BY <2>1, <2>2, <1>1, <1>3, CalmKeeps
<1>5. QED
  BY <1>4 DEF CInv

\* A heap that differs in counts only.
LEMMA CalmRefs ==
    ASSUME NEW h, NEW h2, NEW p, NEW n,
           \A x \in Cells : SameBody(h, h2, x) /\ h2[x].fields = h[x].fields
    PROVE  Calm(h, h2, p, n)
  BY DEF Calm, CalmCell, CalmField, SameBody

\* Objects that have a node, when the table does not change.
LEMMA SameObjs ==
    ASSUME UNCHANGED table
    PROVE  Objs' = Objs
  BY DEF Objs, Nodes

\* __Release.
LEMMA DropRefSweeps ==
    ASSUME IInv, IInv', CInv, DropRef
    PROVE  CInv'
<1> DEFINE c == Here
           p == Pile(work)
           n == Len(work)
           left == heap[c].refs - 1
           gone == left = 0 /\ ~heap[c].marked
           ts == IF gone THEN ReleaseTasks(c) ELSE <<>>
<1>1. /\ work # <<>> /\ Head(work).op = "drop" /\ heap' = WithRefs(heap, c, left)
      /\ work' = ts \o Tail(work) /\ UNCHANGED <<lists, Listed, table, held, leaked, uses, ops, status>>
  BY ListsSame DEF DropRef, Doing, Then, WithRefs, Here
<1>2. /\ n \in Nat \ {0} /\ p[n] = Head(work) /\ HeapInv(heap, Listed, p, n, Objs, status)
      /\ Referred(heap, p, n, Objs, status) /\ c = p[n].cell
  BY <1>1, WorkTop
<1>3. Shape(heap)
  BY <1>2 DEF HeapInv
<1>4. n \in 1..n /\ p[n].op = "drop"
  BY <1>1, <1>2
<1>5. /\ c \in Cells /\ heap[c].refs > 0 /\ heap[c].refs \in Nat /\ left \in Nat
      /\ heap[c].kind \in Kinds \cup {"weakref"}
  <2>1. c \in Cells /\ heap[c].refs > 0 /\ heap[c].kind # "free"
    BY <1>2, <1>4 DEF Referred
  <2>2. heap[c].refs \in Nat /\ heap[c].kind \in Kinds \cup {"weakref", "free"}
    BY <2>1, <1>3, CellTypes
  <2>3. QED
    BY <2>1, <2>2
<1>6. gone => Releases(ts, heap[c].kind, c)
  BY <1>5, ReleaseShape
<1>7. ts \in Seq(TaskType) /\ (~gone => Len(ts) = 0)
  BY <1>6 DEF Releases
<1>8. RefsAre(heap, heap', c, left)
  BY <1>1, <1>3, <1>5, RefsAssigned DEF Shape
<1>9. Calm(heap, heap', p, n)
  BY <1>8, CalmRefs DEF RefsAre
<1>10. NewTasksOK(heap, ts, Head(work))
  <2>1. SUFFICES ASSUME NEW j \in 1..Len(ts) PROVE NewTaskOK(heap, ts, Head(work), j)
    BY DEF NewTasksOK
  <2>2. gone
    BY <1>7
  <2> HIDE DEF ts, c
  <2>3. Releases(ts, heap[c].kind, c) /\ IsTask(Task("free", c), "free", c)
    BY <2>2, <1>6, <1>5, TaskFacts DEF CellOps
  <2>4. Len(ts) \in Nat
    BY <1>7
  <2>5. CASE j = Len(ts)
    <3>1. ts[j].op = "free" /\ ts[j].ending = ""
      BY <2>3, <2>5 DEF Releases, IsTask
    <3>2. QED
      BY <3>1 DEF NewTaskOK, Turns
  <2>6. CASE j # Len(ts)
    <3>1. j \in 1..Len(ts) - 1 /\ Len(ts) \in j + 1..Len(ts)
      BY <2>4, <2>6
    <3>2. ReleasesOnly(ts[j], c) /\ Is(ts[Len(ts)], "free", c)
      BY <3>1, <2>3 DEF Releases, IsTask, Is
    <3>3. ~heap[Head(work).cell].marked /\ c = Head(work).cell
      BY <2>2, <1>2 DEF c
    <3>4. ts[j].op \notin Turns /\ ts[j].ending = "" /\ ts[j].cell = c
      BY <3>2 DEF ReleasesOnly, Turns
    <3>5. QED
      BY <3>1, <3>2, <3>3, <3>4 DEF NewTaskOK
  <2>7. QED
    BY <2>5, <2>6
<1>11. Objs' = Objs
  BY <1>1, SameObjs
<1>12. Done(heap', Listed, Listed', Pile(work'), Len(work'), n, Objs, Objs', Head(work))
  BY <1>1, <1>11 DEF Done, Turns
<1> HIDE DEF ts
<1>13. QED
  BY <1>1, <1>7, <1>9, <1>10, <1>12, CalmWork

\* A drop is all there is in Drop.
LEMMA DropOnly ==
    ASSUME NEW v \in Cells \cup {None}
    PROVE  /\ Drop(v) \in Seq(TaskType)
           /\ \A j \in 1..Len(Drop(v)) : Drop(v)[j].op = "drop" /\ Drop(v)[j].ending = ""
<1>1. /\ Drop(v) \in Seq(TaskType) /\ Len(Drop(v)) = Ind(v # None)
      /\ v # None => IsTask(Drop(v)[1], "drop", v)
  BY DropShape
<1>2. ASSUME NEW j \in 1..Len(Drop(v)) PROVE j = 1 /\ v # None
  BY <1>1 DEF Ind
<1>3. QED
  BY <1>1, <1>2 DEF IsTask

\* A drop and the end of an __ObjRelease are all there is in LetGo.
LEMMA LetsOnly ==
    ASSUME NEW ts, NEW c, NEW v, Lets(ts, c, v)
    PROVE  /\ ts \in Seq(TaskType)
           /\ \A j \in 1..Len(ts) : ts[j].op \in {"drop", "clear"} /\ ts[j].ending = ""
<1>1. ts \in Seq(TaskType) /\ Len(ts) \in {0, 1, 2} /\ (v = None => Len(ts) = 0)
  BY DEF Lets
<1>2. ASSUME NEW j \in 1..Len(ts) PROVE v # None /\ (j = 1 \/ (j = 2 /\ Len(ts) = 2))
  <2>1. CASE Len(ts) = 0
    BY <2>1
  <2>2. CASE Len(ts) = 1
    BY <2>2, <1>1
  <2>3. CASE Len(ts) = 2
    BY <2>3, <1>1
  <2>4. QED
    BY <1>1, <2>1, <2>2, <2>3
<1>3. v # None => ts[1].op = "drop" /\ ts[1].ending = ""
  BY DEF Lets, IsTask
<1>4. Len(ts) = 2 => ts[2].op = "clear" /\ ts[2].ending = ""
  BY DEF Lets, IsClear
<1>5. QED
  BY <1>1, <1>2, <1>3, <1>4

\* SQObjectPtr::Null, ~SQObjectPtr and __ObjRelease.
LEMMA NullFieldSweeps ==
    ASSUME IInv, IInv', CInv, NullField
    PROVE  CInv'
<1> DEFINE c == Here
           p == Pile(work)
           n == Len(work)
           f == Head(work).field
           v == heap[c].fields[f]
           ts == LetGo(c, f, v)
<1>1. /\ work # <<>> /\ Head(work).op = "null" /\ heap' = WithField(heap, c, f, None)
      /\ work' = ts \o Tail(work) /\ UNCHANGED <<lists, Listed, table, held, leaked, uses, ops, status>>
  <2>1. Doing("null")
    BY DEF NullField
  <2>2. Pointer(Here, Head(work).field) = v
    BY <2>1, PointerWritten
  <2>3. QED
    BY <2>2, ListsSame DEF NullField, Doing, Then, WithField, Here
<1>2. /\ p[n] = Head(work) /\ HeapInv(heap, Listed, p, n, Objs, status)
      /\ TaskOK(heap, p, n, status, n) /\ c = p[n].cell /\ c = Head(work).cell
      /\ (Head(work).op \in CellOps => c \in Cells)
  BY <1>1, WorkTop DEF Here
<1>3. f \in 1..2 /\ c \in Cells /\ Shape(heap)
  <2>1. p[n].op = "null" /\ f = p[n].field
    BY <1>1, <1>2, Zenon
  <2>2. f \in 1..2
    BY <2>1, <1>2 DEF TaskOK
  <2>3. QED
    BY <2>2, <1>1, <1>2 DEF CellOps, HeapInv
<1>4. v \in Cells \cup {None}
  BY <1>3, CellTypes
<1>5. FieldIs(heap, heap', c, f, None)
  BY <1>1, <1>3, FieldAssigned DEF Shape
<1>6. /\ ts \in Seq(TaskType)
      /\ \A j \in 1..Len(ts) : ts[j].op \in {"drop", "clear"} /\ ts[j].ending = ""
  BY <1>3, <1>4, LetGoShape, LetsOnly
<1> HIDE DEF ts, v
<1>7. NewTasksOK(heap, ts, Head(work))
  BY <1>6 DEF NewTasksOK, NewTaskOK, Turns
<1>8. Calm(heap, heap', p, n)
  BY <1>5 DEF Calm, CalmCell, CalmField, FieldIs, SameBody
<1>9. Objs' = Objs
  BY <1>1, SameObjs
<1>10. heap'[c].fields[f] = None
  BY <1>3, <1>5 DEF FieldIs
<1>11. Done(heap', Listed, Listed', Pile(work'), Len(work'), n, Objs, Objs', Head(work))
  BY <1>1, <1>2, <1>9, <1>10 DEF Done, Turns
<1>12. QED
  BY <1>1, <1>6, <1>7, <1>8, <1>11, CalmWork

\* No new tasks.
LEMMA NoTasks ==
    ASSUME NEW h, NEW t
    PROVE  <<>> \in Seq(TaskType) /\ NewTasksOK(h, <<>>, t)
<1>1. <<>> \in Seq(TaskType) /\ \A j \in 1..Len(<<>>) : FALSE
  OBVIOUS
<1>2. QED
  BY <1>1 DEF NewTasksOK

\* REMOVE_FROM_CHAIN: the block is being freed.
LEMMA UnchainSweeps ==
    ASSUME IInv, IInv', CInv, Unchain
    PROVE  CInv'
<1> DEFINE turn == [x \in Cells |-> 0]
<1>a. turn \in [Cells -> Nat] /\ ListsOK
  BY DEF IInv, TypeInv
<1> HIDE DEF turn
<1>1. /\ work # <<>> /\ Head(work).op = "unchain" /\ heap' = heap
      /\ Listed' \in {Listed, Listed \ {Head(work).cell}}
      /\ work' = <<>> \o Tail(work) /\ UNCHANGED <<table, held, leaked, uses, ops, status>>
  <2>1. UNCHANGED lists => Listed' = Listed
    BY ListsSame
  <2>2. RemoveFromChain({Here}, turn) => Listed' = Listed \ {Here}
    BY <1>a, ChainLeft
  <2>3. UNCHANGED lists \/ RemoveFromChain({Here}, turn)
    BY DEF Unchain, turn
  <2>4. Listed' \in {Listed, Listed \ {Here}}
    BY <2>1, <2>2, <2>3
  <2>5. QED
    BY <2>4 DEF Unchain, Doing, Then, Here
<1>2. Calm(heap, heap', Pile(work), Len(work))
  BY <1>1, CalmRefs DEF SameBody
<1>3. Objs' = Objs
  BY <1>1, SameObjs
<1>4. Done(heap', Listed, Listed', Pile(work'), Len(work'), Len(work), Objs, Objs', Head(work))
  BY <1>1, <1>3 DEF Done, Turns
<1>5. NewTasksOK(heap, <<>>, Head(work)) /\ <<>> \in Seq(TaskType)
  BY NoTasks
<1>6. QED
  BY <1>1, <1>2, <1>4, <1>5, CalmWork

\* The end of an __ObjRelease.
LEMMA ClearFieldSweeps ==
    ASSUME IInv, IInv', CInv, ClearField
    PROVE  CInv'
<1>1. /\ work # <<>> /\ Head(work).op = "clear" /\ heap' = heap /\ work' = <<>> \o Tail(work)
      /\ UNCHANGED <<heap, lists, Listed, table, held, leaked, uses, ops, status>>
  BY ListsSame DEF ClearField, Doing, Then
<1>2. Calm(heap, heap', Pile(work), Len(work))
  BY <1>1, CalmRefs DEF SameBody
<1>3. Objs' = Objs
  BY <1>1, SameObjs
<1>4. Done(heap', Listed, Listed', Pile(work'), Len(work'), Len(work), Objs, Objs', Head(work))
  BY <1>1, <1>3 DEF Done, Turns
<1>5. NewTasksOK(heap, <<>>, Head(work)) /\ <<>> \in Seq(TaskType)
  BY NoTasks
<1>6. QED
  BY <1>1, <1>2, <1>4, <1>5, CalmWork

\* The release hook.
LEMMA RunHookSweeps ==
    ASSUME IInv, IInv', CInv, RunHook
    PROVE  CInv'
<1> DEFINE c == Here
           box == IF heap[c].box = "full" THEN "dropped" ELSE "twice"
           new == [heap[c] EXCEPT !.box = box]
<1>1. /\ work # <<>> /\ Head(work).op = "hook" /\ heap' = [heap EXCEPT ![c] = new]
      /\ work' = <<>> \o Tail(work) /\ UNCHANGED <<lists, Listed, table, held, leaked, uses, ops, status>>
  BY ListsSame DEF RunHook, Doing, Then, Here
<1>2. c \in Cells /\ Shape(heap)
  <2>1. Head(work).op \in CellOps
    BY <1>1 DEF CellOps
  <2>2. QED
    BY <2>1, <1>1, WorkTop DEF HeapInv
<1>3. heap \in [Cells -> Cell] /\ heap[c] \in Cell
  BY <1>2 DEF Shape
<1>4. /\ new.kind = heap[c].kind /\ new.marked = heap[c].marked /\ new.link = heap[c].link
      /\ new.open = heap[c].open /\ new.fields = heap[c].fields
  BY <1>3 DEF Cell
<1> HIDE DEF c, new
<1>5. \A x \in Cells : heap'[x] = IF x = c THEN new ELSE heap[x]
  BY <1>1, <1>2, <1>3
<1>6. Calm(heap, heap', Pile(work), Len(work))
  BY <1>4, <1>5 DEF Calm, CalmCell, CalmField
<1>7. Objs' = Objs
  BY <1>1, SameObjs
<1>8. Done(heap', Listed, Listed', Pile(work'), Len(work'), Len(work), Objs, Objs', Head(work))
  BY <1>1, <1>7 DEF Done, Turns
<1>9. NewTasksOK(heap, <<>>, Head(work)) /\ <<>> \in Seq(TaskType)
  BY NoTasks
<1>10. QED
  BY <1>1, <1>6, <1>8, <1>9, CalmWork

\* The end of a block.
LEMMA FreeCellSweeps ==
    ASSUME IInv, IInv', CInv, FreeCell
    PROVE  CInv'
<1> DEFINE c == Here
           p == Pile(work)
           n == Len(work)
<1>1. /\ work # <<>> /\ Head(work).op = "free"
      /\ heap' = [Unlinked(heap, c) EXCEPT
                    ![c] = [NoCell EXCEPT !.box = IF heap[c].box \in {"full", "twice"} THEN "leaked" ELSE "none"]]
      /\ work' = <<>> \o Tail(work) /\ UNCHANGED <<lists, Listed, table, held, leaked, uses, ops, status>>
  BY ListsSame DEF FreeCell, Doing, Then, Here
<1>2. /\ n \in Nat \ {0} /\ p[n] = Head(work) /\ HeapInv(heap, Listed, p, n, Objs, status)
      /\ Referred(heap, p, n, Objs, status) /\ c = p[n].cell /\ c = Head(work).cell
  BY <1>1, WorkTop DEF Here
<1>3. Shape(heap) /\ FreesOK(heap, Listed, p, n)
  BY <1>2 DEF HeapInv
<1>4. p[n].op = "free" /\ n \in 1..n
  <2>1. p[n].op = "free"
    BY <1>1, <1>2, Zenon
  <2>2. QED
    BY <2>1, <1>2
<1> HIDE DEF c, p, n
<1>5. /\ c \in Cells /\ heap[c].refs = 0 /\ ~heap[c].marked /\ heap[c].kind # "free"
      /\ heap[c].open = <<>>
  BY <1>2, <1>4 DEF Referred
<1>6. (\A f \in 1..2 : heap[c].fields[f] = None) /\ heap[c].box # "full"
  <2>1. \A op, f : ~Before(p, n, n, op, f)
    BY <1>2 DEF Before
  <2>2. FreeOK(heap, Listed, p, n, n)
    BY <1>3, <1>4 DEF FreesOK
  <2>3. QED
    BY <1>2, <2>1, <2>2 DEF FreeOK
<1>7. IsFreed(heap, heap', c)
  BY <1>1, <1>3, <1>5, <1>6, FreedHeap
<1>8. Calm(heap, heap', p, n) /\ heap'[c].kind = "free"
  BY <1>5, <1>7 DEF Calm, CalmCell, CalmField, IsFreed
<1>9. Objs' = Objs
  BY <1>1, SameObjs
<1>10. Done(heap', Listed, Listed', Pile(work'), Len(work'), n, Objs, Objs', Head(work))
  BY <1>1, <1>2, <1>8, <1>9 DEF Done, Turns
<1>11. NewTasksOK(heap, <<>>, Head(work)) /\ <<>> \in Seq(TaskType)
  BY NoTasks
<1>12. QED
  BY <1>1, <1>8, <1>10, <1>11, CalmWork DEF p, n

\* CloseOuters with nothing left to close.
LEMMA CloseOutersStops ==
    ASSUME IInv, IInv', CInv, CloseOuters, OpenOuters(Here) = {}
    PROVE  CInv'
<1>1. /\ work # <<>> /\ Head(work).op = "closeouters" /\ heap' = heap
      /\ work' = <<>> \o Tail(work) /\ UNCHANGED <<lists, Listed, table, held, leaked, uses, ops, status>>
  BY ListsSame DEF CloseOuters, Doing, Then, Here
<1>2. Shape(heap) /\ Here = Head(work).cell
  BY <1>1, WorkTop DEF HeapInv, Here
<1>3. NoneOpen(heap', Head(work).cell)
  <2>1. ASSUME NEW o \in Cells, heap[o].open # <<>> PROVE heap[o].open[1] # Here
    <3>1. heap[o].kind = "outer"
      BY <1>2, <2>1 DEF Shape, CellOK
    <3>2. QED
      BY <3>1, <2>1 DEF OpenOuters, Live
  <2>2. QED
    BY <2>1, <1>1, <1>2 DEF NoneOpen
<1>4. Calm(heap, heap', Pile(work), Len(work))
  BY <1>1, CalmRefs DEF SameBody
<1>5. Objs' = Objs
  BY <1>1, SameObjs
<1>6. Done(heap', Listed, Listed', Pile(work'), Len(work'), Len(work), Objs, Objs', Head(work))
  BY <1>1, <1>3, <1>5 DEF Done, Turns
<1>7. NewTasksOK(heap, <<>>, Head(work)) /\ <<>> \in Seq(TaskType)
  BY NoTasks
<1>8. QED
  BY <1>1, <1>4, <1>6, <1>7, CalmWork

\* While a collection is running no outer is open on a thread that is to be
\* emptied.
LEMMA NoPouring ==
    ASSUME NEW h, NEW ch, NEW p, NEW n, NEW objs, NEW st, NEW us,
           SweepInv(h, ch, p, n, objs, st, us), Untangled(us), Marking(p, n),
           NEW k \in 1..n, p[k].op = "closeouters", h[p[k].cell].kind = "thread",
           p[k].cell \in Cells, NEW o \in Cells, h[o].kind = "outer"
    PROVE  FALSE
<1>1. UsesOK(h, p, n, us) /\ MarkedOK(h, p, n, objs)
  BY DEF SweepInv
<1>2. "collect" \in us /\ "closure" \in us /\ ("thread" \in us \/ p[k].cell = Root)
  BY <1>1 DEF UsesOK
<1>3. h[Root].marked /\ ~h[p[k].cell].marked
  BY <1>1 DEF MarkedOK
<1>4. QED
  BY <1>2, <1>3 DEF Untangled

\* CloseOuters with an outer to close.
LEMMA CloseOutersGoesOn ==
    ASSUME IInv, IInv', CInv, CloseOuters, OpenOuters(Here) # {}
    PROVE  CInv'
<1> DEFINE c == Here
           p == Pile(work)
           n == Len(work)
           q == Pile(work')
           m == Len(work')
           o == CHOOSE x \in OpenOuters(c) :
                    \A y \in OpenOuters(c) : heap[y].open[2] <= heap[x].open[2]
           v == heap[c].fields[heap[o].open[2]]
           td == Task("drop", o)
           tc == Task("closeouters", c)
           ts == <<td, tc>>
<1>1. /\ work # <<>> /\ Head(work).op = "closeouters" /\ heap' = AddRefTo(Shut(heap, o, v), v)
      /\ work' = ts \o Tail(work) /\ UNCHANGED <<lists, Listed, table, held, leaked, uses, ops, status>>
  BY ListsSame DEF CloseOuters, Doing, Then, Here, Shut
<1>2. /\ n \in Nat \ {0} /\ p[n] = Head(work) /\ HeapInv(heap, Listed, p, n, Objs, status)
      /\ c = p[n].cell /\ c = Head(work).cell /\ (p[n].op \in CellOps => c \in Cells)
  BY <1>1, WorkTop DEF Here
<1>3. Shape(heap)
  BY <1>2 DEF HeapInv
<1>4. p[n].op = "closeouters" /\ c \in Cells /\ n \in 1..n
  <2>1. p[n].op = "closeouters"
    BY <1>1, <1>2, Zenon
  <2>2. p[n].op \in CellOps
    BY <2>1 DEF CellOps
  <2>3. QED
    BY <2>1, <2>2, <1>2
<1>5. o \in OpenOuters(c)
  <2>1. \A x \in OpenOuters(c) : heap[x].open[2] \in 1..2
    <3>1. ASSUME NEW x \in OpenOuters(c) PROVE heap[x].open[2] \in 1..2
      <4>1. x \in Cells /\ heap[x].open # <<>>
        BY DEF OpenOuters, Live
      <4>2. QED
        BY <4>1, <1>3, CellTypes
    <3>2. QED
      BY <3>1
  <2>2. \E x \in OpenOuters(c) : \A y \in OpenOuters(c) : heap[y].open[2] <= heap[x].open[2]
    <3>1. CASE \E x \in OpenOuters(c) : heap[x].open[2] = 2
      BY <3>1, <2>1
    <3>2. CASE \A x \in OpenOuters(c) : heap[x].open[2] # 2
      <4>1. \A x \in OpenOuters(c) : heap[x].open[2] = 1
        BY <3>2, <2>1
      <4>2. QED
        BY <4>1
    <3>3. QED
      BY <3>1, <3>2
  <2>3. QED
    BY <2>2
<1> HIDE DEF o
<1>6. /\ o \in Cells /\ heap[o].kind = "outer" /\ heap[o].open # <<>> /\ heap[o].open[1] = c
      /\ heap[o].open[2] \in 1..2 /\ heap[c].kind = "thread"
  <2>1. o \in Cells /\ heap[o].kind = "outer" /\ heap[o].open # <<>> /\ heap[o].open[1] = c
    BY <1>5 DEF OpenOuters, Live
  <2>2. CellOK(heap, o)
    BY <2>1, <1>3 DEF Shape
  <2>3. heap[o].open[2] \in 1..2
    BY <2>1, <1>3, CellTypes
  <2>4. heap[c].kind = "thread"
    BY <2>1, <2>2 DEF CellOK
  <2>5. QED
    BY <2>1, <2>3, <2>4
<1>7. v \in Cells \cup {None}
  BY <1>3, <1>4, <1>6, CellTypes
<1>8. IsTask(td, "drop", o) /\ IsTask(tc, "closeouters", c)
  BY <1>4, <1>6, TaskFacts DEF CellOps
<1> HIDE DEF td, tc
<1>9. ts \in Seq(TaskType) /\ Len(ts) = 2 /\ ts[1] = td /\ ts[2] = tc
  <2>1. td \in TaskType /\ tc \in TaskType
    BY <1>8 DEF IsTask
  <2>2. QED
    BY <2>1
<1> HIDE DEF ts
<1>10. Replaced(p, n, q, m, ts)
  BY <1>1, <1>9, WorkSetup
<1> HIDE DEF c, p, n, q, m
<1>11. n <= m /\ q[n] = tc
  <2>1. m = n + 1
    BY <1>2, <1>9, <1>10 DEF Replaced
  <2>2. 2 \in 1..Len(ts) /\ n + Len(ts) - 2 = n
    BY <1>2, <1>9
  <2>3. q[n] = ts[2]
    BY <2>2, <1>10 DEF Replaced
  <2>4. QED
    BY <2>1, <2>3, <1>2, <1>9
<1>12. NewTasksOK(heap, ts, Head(work))
  <2>1. \A j \in 1..Len(ts) : j = 1 \/ j = 2
    BY <1>9
  <2>2. NewTaskOK(heap, ts, Head(work), 1)
    BY <1>8, <1>9 DEF NewTaskOK, IsTask, Turns
  <2>3. NewTaskOK(heap, ts, Head(work), 2)
    BY <1>1, <1>2, <1>8, <1>9 DEF NewTaskOK, IsTask, Turns
  <2>4. QED
    BY <2>1, <2>2, <2>3 DEF NewTasksOK
<1>13. ASSUME Untangled(uses) PROVE Calm(heap, heap', p, n)
  <2> DEFINE h == Shut(heap, o, v)
  <2>1. IsShut(heap, h, o, v)
    BY <1>3, <1>6, <1>7, OuterShut DEF Shape
  <2>2. h \in [Cells -> Cell]
    BY <2>1 DEF IsShut
  <2>3. Counted(h, heap', v)
    <3> HIDE DEF h, v
    <3>1. heap' = AddRefTo(h, v)
      BY <1>1 DEF h
    <3>2. QED
      BY <3>1, <2>2, <1>7, AddRefToCounts
  <2> HIDE DEF h
  <2>4. ~Marking(p, n)
    <3>1. SweepInv(heap, Listed, p, n, Objs, status, uses)
      BY <1>13 DEF CInv, p, n
    <3>2. QED
      BY <3>1, <1>2, <1>4, <1>6, <1>13, NoPouring
  <2>5. ASSUME NEW x \in Cells
        PROVE  /\ CalmCell(heap, heap', x)
               /\ \A f \in 1..2 : heap'[x].fields[f] = IF x = o /\ f = 2 THEN v ELSE heap[x].fields[f]
    <3>1. SameBody(h, heap', x) /\ heap'[x].fields = h[x].fields
      BY <2>3 DEF Counted
    <3>2. /\ h[x].kind = heap[x].kind /\ h[x].marked = heap[x].marked /\ h[x].link = heap[x].link
          /\ h[x].open = (IF x = o THEN <<>> ELSE heap[x].open)
          /\ \A g \in 1..2 : h[x].fields[g] = IF x = o /\ g = 2 THEN v ELSE heap[x].fields[g]
      BY <2>1 DEF IsShut
    <3>3. QED
      BY <3>1, <3>2 DEF CalmCell, SameBody
  <2>6. ASSUME NEW x \in Cells, NEW f \in 1..2 PROVE CalmField(heap, heap', p, n, x, f)
    <3>1. CASE x = o /\ f = 2
      <4>1. heap'[o].fields[2] = heap[c].fields[heap[o].open[2]]
        BY <3>1, <2>5 DEF v
      <4>2. Poured(heap, heap', o)
        BY <4>1, <1>4, <1>6 DEF Poured
      <4>3. QED
        BY <4>2, <3>1, <2>4 DEF CalmField
    <3>2. CASE ~(x = o /\ f = 2)
      BY <3>2, <2>5 DEF CalmField
    <3>3. QED
      BY <3>1, <3>2
  <2>7. QED
    BY <2>5, <2>6 DEF Calm
<1>14. Objs' = Objs
  BY <1>1, SameObjs
<1>15. Is(q[n], "closeouters", c)
  BY <1>8, <1>11 DEF Is, IsTask
<1>16. Done(heap', Listed, Listed', q, m, n, Objs, Objs', Head(work))
  BY <1>1, <1>2, <1>11, <1>14, <1>15 DEF Done, Turns
<1>17. QED
  BY <1>1, <1>9, <1>12, <1>13, <1>16, CalmWork DEF p, n, q, m

\* RefTable::Finalize.
LEMMA FinalizeTableSweeps ==
    ASSUME IInv, IInv', CInv, FinalizeTable
    PROVE  CInv'
<1> DEFINE q == Pile(work')
           m == Len(work')
           n == Len(work)
<1>1. /\ work # <<>> /\ Head(work).op = "reftable" /\ heap' = heap
      /\ UNCHANGED <<heap, lists, Listed, held, leaked, uses, ops, status>>
  BY ListsSame DEF FinalizeTable, Doing
<1>2. Calm(heap, heap', Pile(work), Len(work))
  BY <1>1, CalmRefs DEF SameBody
<1>3. CASE Nodes = {}
  <2>1. work' = <<>> \o Tail(work) /\ table' = table
    BY <1>3 DEF FinalizeTable, Then
  <2>2. Objs' = Objs /\ Objs = {}
    BY <2>1, <1>3, SameObjs DEF Objs
  <2>3. Done(heap', Listed, Listed', q, m, n, Objs, Objs', Head(work))
    BY <1>1, <2>2 DEF Done, Turns
  <2>4. NewTasksOK(heap, <<>>, Head(work)) /\ <<>> \in Seq(TaskType)
    BY NoTasks
  <2>5. QED
    BY <1>1, <1>2, <2>1, <2>3, <2>4, CalmWork
<1>4. CASE Nodes # {}
  <2>1. PICK x \in Nodes : /\ table' = [b \in DOMAIN table |-> table[b] \ {x}]
                           /\ Then(Drop(x.obj) \o <<Task("reftable", None)>>)
    BY <1>4 DEF FinalizeTable
  <2> DEFINE d == Drop(x.obj)
             t == Task("reftable", None)
             ts == d \o <<t>>
  <2>2. work' = ts \o Tail(work)
    BY <2>1 DEF Then
  <2>3. Objs' \subseteq Objs
    <3>1. \A b \in DOMAIN table' : b \in DOMAIN table /\ table'[b] \subseteq table[b]
      BY <2>1
    <3>2. Nodes' \subseteq Nodes
      BY <3>1 DEF Nodes
    <3>3. QED
      BY <3>2 DEF Objs
  <2>4. x.obj \in Cells
    <3>1. x.obj \in Objs /\ HeapInv(heap, Listed, Pile(work), Len(work), Objs, status)
      BY DEF IInv, Objs
    <3>2. QED
      BY <3>1 DEF HeapInv
  <2>5. d \in Seq(TaskType) /\ \A j \in 1..Len(d) : d[j].op = "drop" /\ d[j].ending = ""
    BY <2>4, DropOnly
  <2>6. IsTask(t, "reftable", None)
    BY TaskFacts DEF LoneOps
  <2> HIDE DEF d, t
  <2>7. <<t>> \in Seq(TaskType) /\ Len(<<t>>) = 1 /\ <<t>>[1] = t
    <3>1. t \in TaskType
      BY <2>6 DEF IsTask
    <3>2. QED
      BY <3>1
  <2>8. /\ ts \in Seq(TaskType) /\ Len(ts) = Len(d) + 1 /\ Len(d) \in Nat
        /\ \A j \in 1..Len(d) : ts[j] = d[j]
        /\ ts[Len(d) + 1] = t
    <3> DEFINE e == <<t>>
    <3>1. e \in Seq(TaskType) /\ Len(e) = 1 /\ e[1] = t /\ ts = d \o e
      BY <2>7
    <3> HIDE DEF e, ts
    <3>2. /\ d \o e \in Seq(TaskType) /\ Len(d \o e) = Len(d) + Len(e)
          /\ \A i \in 1..Len(d) + Len(e) :
                (d \o e)[i] = IF i <= Len(d) THEN d[i] ELSE e[i - Len(d)]
      BY <3>1, <2>5, ConcatProperties
    <3>3. Len(d) \in Nat
      BY <2>5, LenProperties
    <3>4. QED
      BY <3>1, <3>2, <3>3
  <2> HIDE DEF ts
  <2>9. \A j \in 1..Len(ts) : j \in 1..Len(d) \/ j = Len(d) + 1
    BY <2>8
  <2>10. NewTasksOK(heap, ts, Head(work))
    <3>1. \A j \in 1..Len(ts) : ts[j].op \in {"drop", "reftable"} /\ ts[j].ending = ""
      BY <2>5, <2>6, <2>8, <2>9 DEF IsTask
    <3>2. QED
      BY <3>1 DEF NewTasksOK, NewTaskOK, Turns
  <2>11. Replaced(Pile(work), n, q, m, ts)
    BY <1>1, <2>2, <2>8, WorkSetup
  <2> HIDE DEF q, m, n
  <2>12. n <= m /\ q[n] = t
    <3>1. n \in Nat \ {0} /\ m = n - 1 + Len(ts)
      BY <2>11 DEF Replaced
    <3>2. Len(ts) \in 1..Len(ts) /\ n + Len(ts) - Len(ts) = n
      BY <2>8, <3>1
    <3>3. q[n] = ts[Len(ts)]
      BY <2>11, <3>2 DEF Replaced
    <3>4. QED
      BY <3>1, <3>3, <2>8
  <2>13. Done(heap', Listed, Listed', q, m, n, Objs, Objs', Head(work))
    BY <1>1, <2>3, <2>6, <2>12 DEF Done, Turns, IsTask
  <2>14. QED
    BY <1>1, <1>2, <2>2, <2>8, <2>10, <2>13, CalmWork DEF q, m, n
<1>5. QED
  BY <1>3, <1>4

-----------------------------------------------------------------------------
(* The end of a sweep.                                                     *)

\* The last task of a sweep is pending, and nothing else.
Ending(p, n) == n = 1 /\ p[1].op \in {"unmark", "closed"}
Stale(h, c) == c \in Cells /\ h[c].kind # "free" /\ ~h[c].marked

\* At the end of a sweep an object that is not marked is held by a field, a
\* node or the list of open outers.
LEMMA EndHeld ==
    ASSUME NEW h, NEW ch, NEW p, NEW n, NEW objs, NEW st, NEW c,
           HeapInv(h, ch, p, n, objs, st), Ending(p, n), Stale(h, c)
    PROVE  \/ \E x \in Cells, f \in 1..2 : h[x].fields[f] = c
           \/ c \in objs
           \/ c = Root /\ st = "open"
           \/ h[c].open # <<>>
<1>1. n \in Nat /\ Shape(h) /\ Exact(h, p, n, objs, st) /\ Released(h, p, n) /\ c \in Cells
  BY DEF HeapInv, Stale
<1>2. \A k \in 1..n : p[k].op \notin {"drop", "advance", "free"}
  BY <1>1 DEF Ending
<1>3. /\ Count(p, n, "drop", c) = 0 /\ Count(p, n, "advance", c) = 0 /\ Count(p, n, "free", c) = 0
  <2>1. \A op : Count(p, n, op, c) \in Nat /\ (Count(p, n, op, c) > 0 <=> \E k \in 1..n : Is(p[k], op, c))
    BY <1>1, CountPositive, TasksFinite
  <2>2. \A op \in {"drop", "advance", "free"} : ~\E k \in 1..n : Is(p[k], op, c)
    BY <1>2 DEF Is
  <2>3. QED
    BY <2>1, <2>2
<1>4. h[c].refs \in Nat /\ h[c].refs # 0
  <2>1. h[c].refs \in Nat
    BY <1>1, CellTypes
  <2>2. Count(p, n, "free", c) = Ind(h[c].kind # "free" /\ h[c].refs = 0 /\ ~h[c].marked)
    BY <1>1 DEF Released
  <2>3. QED
    BY <2>1, <2>2, <1>3 DEF Stale, Ind
<1>5. h[c].refs = FieldRefs(h, c) + Ind(c \in objs) + 0 + 0
                  + Ind(c = Root /\ st = "open") + Ind(h[c].open # <<>>)
  BY <1>1, <1>3 DEF Exact
<1>6. FieldRefs(h, c) \in Nat
  BY HoldersFinite
<1>7. FieldRefs(h, c) > 0 \/ c \in objs \/ (c = Root /\ st = "open") \/ h[c].open # <<>>
  BY <1>4, <1>5, <1>6 DEF Ind
<1>8. QED
  BY <1>7, FieldRefsPositive

\* The holder is not marked either, unless it holds a weak reference.
LEMMA EndStale ==
    ASSUME NEW h, NEW ch, NEW p, NEW n, NEW objs, NEW st, NEW us, NEW c,
           HeapInv(h, ch, p, n, objs, st), SweepInv(h, ch, p, n, objs, st, us),
           Ending(p, n), Stale(h, c), h[c].kind # "weakref" \/ p[1].op = "closed"
    PROVE  /\ \/ \E x \in Cells, f \in 1..2 : Stale(h, x) /\ h[x].fields[f] = c
              \/ h[c].open # <<>>
           /\ p[1].op = "closed" => \A x \in Cells : ~h[x].marked
<1>1. /\ n = 1 /\ 1 \in 1..n /\ Shape(h) /\ TasksOK(h, p, n, st) /\ MarksOK(h, p, n, objs)
      /\ n \in Nat
  BY DEF HeapInv, Ending
<1>2. TaskOK(h, p, n, st, 1) /\ p[1].op \in {"unmark", "closed"}
  BY <1>1 DEF TasksOK, Ending
<1>3. ASSUME NEW x \in Cells, NEW f \in 1..2, h[x].fields[f] = c PROVE h[x].kind # "free"
  <2>1. CellOK(h, x) /\ c # None
    BY <1>1, NoneAssumption DEF Shape, Stale
  <2>2. QED
    BY <2>1, <1>3 DEF CellOK
<1>4. CASE p[1].op = "unmark"
  <2>1. Marking(p, n) /\ MarkedOK(h, p, n, objs)
    BY <1>1, <1>4 DEF Marking, SweepInv
  <2>2. ~Lasts(h, c) /\ c # None
    BY <1>4, NoneAssumption DEF Lasts, Stale
  <2>3. c \notin objs /\ c # Root
    BY <2>1, <2>2 DEF MarkedOK, Stale
  <2>4. ASSUME NEW x \in Cells, NEW f \in 1..2, h[x].fields[f] = c PROVE Stale(h, x)
    BY <2>1, <2>2, <2>4, <1>3 DEF MarkedOK, Stale
  <2>5. QED
    BY <2>3, <2>4, <1>4, EndHeld
<1>5. CASE p[1].op = "closed"
  <2>1. st # "open" /\ p[1].ending = ""
    BY <1>2, <1>5 DEF TaskOK
  <2>2. ~Marking(p, n)
    BY <2>1, <1>5 DEF Marking
  <2>3. \A x \in Cells : ~h[x].marked
    BY <2>2, <1>1 DEF MarksOK
  <2>4. objs = {}
    <3>1. \A k \in 1..n : p[k].op # "reftable"
      BY <1>1, <1>5
    <3>2. QED
      BY <3>1, <2>1 DEF SweepInv, TableGone
  <2>5. QED
    BY <2>1, <2>3, <2>4, <1>3, EndHeld DEF Stale
<1>6. QED
  BY <1>2, <1>4, <1>5

\* At the end of a sweep an object that is not marked has been emptied.
LEMMA EndEmpty ==
    ASSUME NEW h, NEW ch, NEW p, NEW n, NEW objs, NEW st, NEW us, NEW x,
           HeapInv(h, ch, p, n, objs, st), SweepInv(h, ch, p, n, objs, st, us),
           Apart(us), Ending(p, n), Stale(h, x), h[x].kind \in Kinds \ {"outer"}
    PROVE  /\ \A f \in 1..2 : Emptied(h[x].kind, f) => h[x].fields[f] = None
           /\ NoneOpen(h, x)
<1>1. n = 1 /\ \A k \in 1..n : p[k].op \in {"unmark", "closed"}
  BY DEF Ending
<1>2. \A op, c : op \in {"free", "closeouters"} => ~Pending(p, n, op, c)
  BY <1>1 DEF Pending, Is
<1>3. \A f : ~Clearing(p, n, x, f)
  BY <1>1 DEF Clearing, Is
<1>4. Sweeping(p, n) /\ p[1].op # "advance"
  BY DEF Sweeping, Ending
<1>5. Swept(h, ch, p, n, x)
  BY <1>4 DEF SweepInv, SweptOK, Stale
<1>6. Finalized(h, p, n, x)
  BY <1>2, <1>4, <1>5 DEF Swept
<1>7. QED
  BY <1>2, <1>3, <1>6 DEF Finalized

\* At the end of a sweep an outer that is not marked is open, on a marked
\* thread.
LEMMA EndOuter ==
    ASSUME NEW h, NEW ch, NEW p, NEW n, NEW objs, NEW st, NEW us, NEW o,
           HeapInv(h, ch, p, n, objs, st), SweepInv(h, ch, p, n, objs, st, us),
           Apart(us), Ending(p, n), Stale(h, o), h[o].kind = "outer"
    PROVE  /\ \A f \in 1..2 : h[o].fields[f] = None
           /\ \E t \in Cells : h[t].marked
<1>1. Shape(h) /\ KindsOK(h, objs) /\ o \in Cells /\ o # None
  BY NoneAssumption DEF HeapInv, SweepInv, Stale
<1>2. ASSUME NEW x \in Cells, NEW f \in 1..2, Stale(h, x), h[x].fields[f] = o PROVE FALSE
  <2>1. FieldOK(h, x, f)
    BY <1>1 DEF KindsOK
  <2>2. h[x].kind = "closure" /\ f = 2
    BY <2>1, <1>1, <1>2 DEF FieldOK
  <2>3. h[x].kind \in Kinds \ {"outer"} /\ Emptied(h[x].kind, f)
    BY <2>2 DEF Kinds, Emptied
  <2>4. h[x].fields[f] = None
    BY <2>3, <1>2, EndEmpty
  <2>5. QED
    BY <2>4, <1>1, <1>2
<1>3. h[o].open # <<>>
  BY <1>2, EndStale
<1>4. CellOK(h, o) /\ h[o].open[1] \in Cells
  BY <1>1, <1>3, CellTypes DEF Shape
<1>5. h[o].fields[1] = None /\ h[o].fields[2] = None /\ h[h[o].open[1]].kind = "thread"
  BY <1>3, <1>4 DEF CellOK
<1>6. \A f \in 1..2 : f = 1 \/ f = 2
  OBVIOUS
<1>7. h[h[o].open[1]].marked
  <2>1. SUFFICES ASSUME ~h[h[o].open[1]].marked PROVE FALSE
    OBVIOUS
  <2>2. Stale(h, h[o].open[1]) /\ h[h[o].open[1]].kind \in Kinds \ {"outer"}
    BY <2>1, <1>4, <1>5 DEF Stale, Kinds
  <2>3. NoneOpen(h, h[o].open[1])
    BY <2>2, EndEmpty
  <2>4. QED
    BY <2>3, <1>1, <1>3 DEF NoneOpen
<1>8. QED
  BY <1>4, <1>5, <1>6, <1>7

\* At the end of a sweep every object but an open outer is marked; at the end
\* of a close nothing is left.
LEMMA EndClean ==
    ASSUME NEW h, NEW ch, NEW p, NEW n, NEW objs, NEW st, NEW us,
           HeapInv(h, ch, p, n, objs, st), SweepInv(h, ch, p, n, objs, st, us), Ending(p, n),
           Apart(us)
    PROVE  /\ \A c \in Cells : h[c].kind \in Kinds \ {"outer"} => h[c].marked
           /\ p[1].op = "closed" => objs = {} /\ \A c \in Cells : h[c].kind = "free"
<1>1. Shape(h) /\ KindsOK(h, objs)
  BY DEF HeapInv, SweepInv
<1>2. ASSUME NEW x \in Cells, NEW f \in 1..2, Stale(h, x), h[x].fields[f] # None
      PROVE  h[x].kind = "closure" /\ f = 1 /\ h[h[x].fields[f]].kind = "class"
  <2>1. h[x].kind \in Kinds \cup {"weakref"}
    BY <1>1, <1>2, CellTypes DEF Stale
  <2>2. h[x].kind # "weakref"
    <3>1. CellOK(h, x) /\ (f = 1 \/ f = 2)
      BY <1>1 DEF Shape
    <3>2. QED
      BY <3>1, <1>2 DEF CellOK
  <2>3. h[x].kind # "outer"
    BY <1>2, EndOuter
  <2>4. ~Emptied(h[x].kind, f)
    BY <2>1, <2>2, <2>3, <1>2, EndEmpty
  <2>5. FieldOK(h, x, f)
    BY <1>1 DEF KindsOK
  <2>6. QED
    BY <2>4, <2>5, <1>2 DEF Emptied, FieldOK
<1>3. ASSUME NEW c \in Cells, Stale(h, c), h[c].kind \in Kinds \ {"outer"}
      PROVE  \E x \in Cells : Stale(h, x) /\ h[x].kind = "closure" /\ h[c].kind = "class"
  <2>1. h[c].open = <<>> /\ c # None
    BY <1>1, <1>3, NoneAssumption DEF Shape, CellOK
  <2>2. h[c].kind # "weakref"
    BY <1>3 DEF Kinds
  <2>3. PICK x \in Cells, f \in 1..2 : Stale(h, x) /\ h[x].fields[f] = c
    BY <2>1, <2>2, <1>3, EndStale
  <2>4. QED
    BY <2>1, <2>3, <1>2
<1>4. \A c \in Cells : Stale(h, c) => h[c].kind # "closure"
  BY <1>3 DEF Kinds
<1>5. \A c \in Cells : Stale(h, c) => h[c].kind \notin Kinds \ {"outer"}
  BY <1>3, <1>4
<1>6. \A c \in Cells : h[c].kind \in Kinds \ {"outer"} => h[c].marked
  BY <1>5 DEF Stale, Kinds
<1>7. ASSUME p[1].op = "closed" PROVE objs = {} /\ \A c \in Cells : h[c].kind = "free"
  <2>1. ASSUME NEW c \in Cells, h[c].kind # "free" PROVE FALSE
    <3>1. ~\E x \in Cells : h[x].marked
      <4>1. Stale(h, c) \/ h[c].marked
        BY <2>1 DEF Stale
      <4>2. HeapInv(h, ch, p, n, objs, st) /\ 1 \in 1..n
        BY DEF Ending
      <4>3. TaskOK(h, p, n, st, 1) /\ MarksOK(h, p, n, objs)
        BY <4>2 DEF HeapInv, TasksOK
      <4>4. ~Marking(p, n)
        BY <4>3, <1>7 DEF Marking, TaskOK
      <4>5. QED
        BY <4>3, <4>4 DEF MarksOK
    <3>2. Stale(h, c)
      BY <2>1, <3>1 DEF Stale
    <3>3. h[c].kind # "outer"
      BY <3>1, <3>2, EndOuter
    <3>4. h[c].open = <<>>
      BY <1>1, <3>3 DEF Shape, CellOK
    <3>5. PICK x \in Cells, f \in 1..2 : Stale(h, x) /\ h[x].fields[f] = c
      BY <3>2, <3>4, <1>7, EndStale
    <3>6. h[x].kind = "closure"
      BY <3>5, <1>2, NoneAssumption
    <3>7. QED
      BY <3>5, <3>6, <1>4
  <2>2. objs = {}
    <3>1. n = 1 /\ 1 \in 1..n /\ TasksOK(h, p, n, st)
      BY DEF Ending, HeapInv
    <3>2. st # "open"
      BY <3>1, <1>7 DEF TasksOK, TaskOK
    <3>3. \A k \in 1..n : p[k].op # "reftable"
      BY <3>1, <1>7
    <3>4. QED
      BY <3>2, <3>3 DEF SweepInv, TableGone
  <2>3. QED
    BY <2>1, <2>2
<1>8. QED
  BY <1>6, <1>7

\* The heights of a pile.
LEMMA Heights ==
    ASSUME NEW m \in Nat
    PROVE  (m > 0 => 1 \in 1..m) /\ (m = 0 => \A k \in 1..m : FALSE)
  OBVIOUS

\* What is pending while no sweep is.
QuietOps == {"drop", "clear", "closeouters"}

\* While no sweep is pending and the VM is open, the invariant is about the
\* kinds of objects and the chain.
LEMMA QuietInv ==
    ASSUME NEW h, NEW ch, NEW q, NEW m \in Nat, NEW objs, NEW us,
           \A k \in 1..m : q[k].op \in QuietOps /\ q[k].ending = "",
           KindsOK(h, objs), Covered(h, ch, q, m, us),
           \A c \in Cells : /\ h[c].kind \in {"closure", "outer"} => "closure" \in us
                            /\ h[c].kind = "thread" => "thread" \in us \/ c = Root
    PROVE  SweepInv(h, ch, q, m, objs, "open", us)
<1>1. m > 0 => 1 \in 1..m
  BY Heights
<1>2. ~Marking(q, m) /\ ~Sweeping(q, m) /\ PinOK(h, q, m)
  BY <1>1 DEF Marking, Sweeping, PinOK, QuietOps
<1>3. UnchainsOK(q, m) /\ MarkedOK(h, q, m, objs) /\ SweptOK(h, ch, q, m, us)
  BY <1>2 DEF UnchainsOK, MarkedOK, SweptOK, QuietOps
<1>4. TableGone(q, m, objs, "open") /\ AllGone(h, ch, m, objs, "open", us)
  BY DEF TableGone, AllGone
<1>5. UsesOK(h, q, m, us)
  BY <1>2 DEF UsesOK
<1>6. QED
  BY <1>2, <1>3, <1>4, <1>5 DEF SweepInv

\* The end of a collection: what has been reached is in the new chain.
LEMMA UnmarkSweeps ==
    ASSUME IInv, CInv, Unmark
    PROVE  CInv'
<1> DEFINE p == Pile(work)
           n == Len(work)
           q == Pile(work')
           m == Len(work')
<1>1. /\ work # <<>> /\ Head(work).op = "unmark" /\ Listed' = Listed \cup {x \in Live : heap[x].marked}
      /\ heap' = [x \in Cells |-> [heap[x] EXCEPT !.marked = FALSE]]
      /\ work' = <<>> \o Tail(work) /\ UNCHANGED <<table, held, leaked, uses, ops, status>>
  <2>1. chain' = {x \in Live : heap[x].marked} /\ lost' = Lists \ {{}}
    BY DEF Unmark
  <2>2. Listed' = Listed \cup {x \in Live : heap[x].marked}
    <3>1. \A x \in Cells : x \in Listed' <=> x \in chain' \/ \E l \in Lists : x \in l
      BY <2>1 DEF Listed, Lists
    <3>2. Listed \subseteq Cells /\ Listed' \subseteq Cells /\ Live \subseteq Cells
      BY DEF Listed, Live
    <3>3. QED
      BY <3>1, <3>2, <2>1 DEF Listed
  <2>3. QED
    BY <2>2 DEF Unmark, Doing, Then
<1>2. /\ n \in Nat \ {0} /\ p[n] = Head(work) /\ HeapInv(heap, Listed, p, n, Objs, status)
      /\ TaskOK(heap, p, n, status, n)
  BY <1>1, WorkTop
<1>3. Shape(heap)
  BY <1>2 DEF HeapInv
<1>4. <<>> \in Seq(TaskType) /\ Len(<<>>) = 0
  OBVIOUS
<1>5. Replaced(p, n, q, m, <<>>)
  BY <1>1, <1>4, WorkSetup
<1>6. p[n].op = "unmark"
  BY <1>1, <1>2, Zenon
<1>7. n = 1 /\ status = "open"
  BY <1>2, <1>6 DEF TaskOK
<1>8. Objs' = Objs
  BY <1>1, SameObjs
<1> HIDE DEF p, n, q, m
<1>9. m = 0
  <2>1. m = n - 1 + Len(<<>>)
    BY <1>5 DEF Replaced
  <2>2. QED
    BY <2>1, <1>4, <1>7
<1>10. \A x \in Cells :
          /\ heap'[x].kind = heap[x].kind /\ heap'[x].link = heap[x].link
          /\ heap'[x].fields = heap[x].fields
  <2>1. SUFFICES ASSUME NEW x \in Cells
                 PROVE  /\ heap'[x].kind = heap[x].kind /\ heap'[x].link = heap[x].link
                        /\ heap'[x].fields = heap[x].fields
    OBVIOUS
  <2>2. heap[x] \in Cell
    BY <1>3 DEF Shape
  <2>3. heap'[x] = [heap[x] EXCEPT !.marked = FALSE]
    BY <1>1
  <2>4. QED
    BY <2>2, <2>3 DEF Cell
<1>11. ASSUME Untangled(uses) PROVE SweepInv(heap', Listed', q, m, Objs', status', uses')
  <2>1. SweepInv(heap, Listed, p, n, Objs, status, uses)
    BY <1>11 DEF CInv, p, n
  <2>2. KindsOK(heap, Objs) /\ UsesOK(heap, p, n, uses) /\ Covered(heap, Listed, p, n, uses)
    BY <2>1 DEF SweepInv
  <2>4. \A c : ~Pending(p, n, "free", c)
    BY <1>6, <1>7 DEF Pending, Is
  <2>5. KindsOK(heap', Objs')
    <3>1. \A x \in Cells, f \in 1..2 : heap[x].fields[f] \in Cells \cup {None}
      BY <1>3, CellTypes
    <3>2. QED
      BY <3>1, <2>2, <1>8, <1>10 DEF KindsOK, OuterOK, FieldOK
  <2>7. Covered(heap', Listed', q, m, uses)
    <3>1. SUFFICES ASSUME NEW c \in Cells, Owed(heap', uses, c) PROVE c \in Listed'
      BY DEF Covered
    <3>2. Owed(heap, uses, c) /\ heap[c].kind # "free"
      BY <3>1, <1>10 DEF Owed, Kinds
    <3>3. c \in Listed \/ heap[c].marked
      BY <3>2, <2>2, <2>4 DEF Covered
    <3>4. QED
      BY <3>2, <3>3, <1>1 DEF Live
  <2>8. \A c \in Cells : /\ heap'[c].kind \in {"closure", "outer"} => "closure" \in uses
                         /\ heap'[c].kind = "thread" => "thread" \in uses \/ c = Root
    BY <2>2, <1>10 DEF UsesOK
  <2>9. \A k \in 1..m : q[k].op \in QuietOps /\ q[k].ending = ""
    BY <1>9, Heights
  <2>10. SweepInv(heap', Listed', q, m, Objs', "open", uses)
    <3>1. m \in Nat
      BY <1>9
    <3>2. QED
      BY <3>1, <2>5, <2>7, <2>8, <2>9, QuietInv
  <2>11. QED
    BY <2>10, <1>1, <1>7
<1>12. QED
  BY <1>1, <1>11 DEF CInv, q, m

\* sq_close has returned: nothing is left.
LEMMA ClosedSweeps ==
    ASSUME IInv, CInv, Closed
    PROVE  CInv'
<1> DEFINE p == Pile(work)
           n == Len(work)
           q == Pile(work')
           m == Len(work')
<1>1. /\ work # <<>> /\ Head(work).op = "closed" /\ status' = "closed"
      /\ work' = <<>> \o Tail(work) /\ UNCHANGED <<heap, lists, Listed, table, held, leaked, uses, ops>>
  BY ListsSame DEF Closed, Doing, Then
<1>2. /\ n \in Nat \ {0} /\ p[n] = Head(work) /\ HeapInv(heap, Listed, p, n, Objs, status)
      /\ TaskOK(heap, p, n, status, n)
  BY <1>1, WorkTop
<1>3. ChainOK(heap, Listed)
  BY <1>2 DEF HeapInv
<1>4. <<>> \in Seq(TaskType) /\ Len(<<>>) = 0
  OBVIOUS
<1>5. Replaced(p, n, q, m, <<>>)
  BY <1>1, <1>4, WorkSetup
<1>6. p[n].op = "closed"
  BY <1>1, <1>2, Zenon
<1>7. n = 1
  BY <1>2, <1>6 DEF TaskOK
<1>8. Objs' = Objs
  BY <1>1, SameObjs
<1> HIDE DEF p, n, q, m
<1>9. m = 0
  <2>1. m = n - 1 + Len(<<>>)
    BY <1>5 DEF Replaced
  <2>2. QED
    BY <2>1, <1>4, <1>7
<1>10. ASSUME Untangled(uses) PROVE SweepInv(heap, Listed, q, m, Objs, "closed", uses)
  <2>1. SweepInv(heap, Listed, p, n, Objs, status, uses)
    BY <1>10 DEF CInv, p, n
  <2>2. KindsOK(heap, Objs)
    BY <2>1 DEF SweepInv
  <2>3. Ending(p, n) /\ p[1].op = "closed"
    BY <1>6, <1>7 DEF Ending
  <2>4. Apart(uses) => Objs = {} /\ \A c \in Cells : heap[c].kind = "free"
    BY <2>1, <2>3, <1>2, EndClean
  <2>5. Apart(uses) => Listed = {}
    BY <2>4, <1>3 DEF ChainOK, Kinds
  <2>6. ~Marking(q, m) /\ ~Sweeping(q, m) /\ PinOK(heap, q, m) /\ \A k \in 1..m : FALSE
    BY <1>9 DEF Marking, Sweeping, PinOK
  <2>7. UnchainsOK(q, m) /\ MarkedOK(heap, q, m, Objs) /\ SweptOK(heap, Listed, q, m, uses)
    BY <2>6 DEF UnchainsOK, MarkedOK, SweptOK
  <2>8. TableGone(q, m, Objs, "closed") /\ AllGone(heap, Listed, m, Objs, "closed", uses)
    <3>1. AllGone(heap, Listed, m, Objs, "closed", uses)
      BY <2>4, <2>5, <1>9 DEF AllGone
    <3>2. Objs = {}
      <4>1. status # "open"
        BY <1>2, <1>6, <1>7 DEF TaskOK
      <4>2. ASSUME NEW k \in 1..n PROVE p[k].op # "reftable"
        <5>1. k = 1
          BY <1>7
        <5>2. QED
          BY <5>1, <2>3
      <4>3. QED
        BY <4>1, <4>2, <2>1 DEF SweepInv, TableGone
    <3>3. QED
      BY <3>1, <3>2 DEF TableGone
  <2>9. UsesOK(heap, q, m, uses) /\ Covered(heap, Listed, q, m, uses)
    <3>1. \A c : ~Pending(p, n, "free", c)
      BY <1>6, <1>7 DEF Pending, Is
    <3>2. QED
      BY <3>1, <2>1, <2>6 DEF SweepInv, UsesOK, Covered
  <2>10. QED
    BY <2>2, <2>6, <2>7, <2>8, <2>9 DEF SweepInv
<1>11. QED
  BY <1>1, <1>8, <1>10 DEF CInv, q, m

-----------------------------------------------------------------------------
(* A turn of a sweep.                                                      *)

\* The elements of a concatenation.
LEMMA Elements ==
    ASSUME NEW S, NEW a \in Seq(S), NEW b \in Seq(S)
    PROVE  /\ a \o b \in Seq(S) /\ Len(a \o b) = Len(a) + Len(b)
           /\ \A i \in 1..Len(a) : \E k \in 1..Len(a \o b) : (a \o b)[k] = a[i]
           /\ \A i \in 1..Len(b) : \E k \in 1..Len(a \o b) : (a \o b)[k] = b[i]
           /\ Len(b) = 1 => (a \o b)[Len(a \o b)] = b[1]
<1> DEFINE s == a \o b
<1>1. /\ s \in Seq(S) /\ Len(s) = Len(a) + Len(b)
      /\ \A i \in 1..Len(a) + Len(b) : s[i] = IF i <= Len(a) THEN a[i] ELSE b[i - Len(a)]
  BY ConcatProperties
<1>2. Len(a) \in Nat /\ Len(b) \in Nat
  BY LenProperties
<1> HIDE DEF s
<1>3. ASSUME NEW i \in 1..Len(a) PROVE \E k \in 1..Len(s) : s[k] = a[i]
  <2>1. i \in 1..Len(a) + Len(b) /\ i <= Len(a) /\ i \in 1..Len(s)
    BY <1>1, <1>2
  <2>2. s[i] = a[i]
    BY <2>1, <1>1
  <2>3. QED
    BY <2>1, <2>2
<1>4. ASSUME NEW i \in 1..Len(b) PROVE Len(a) + i \in 1..Len(s) /\ s[Len(a) + i] = b[i]
  <2>1. Len(a) + i \in 1..Len(a) + Len(b) /\ ~(Len(a) + i <= Len(a)) /\ Len(a) + i - Len(a) = i
    BY <1>2
  <2>2. s[Len(a) + i] = b[Len(a) + i - Len(a)]
    BY <2>1, <1>1
  <2>3. QED
    BY <2>1, <2>2, <1>1
<1>5. ASSUME Len(b) = 1 PROVE s[Len(s)] = b[1]
  <2>1. 1 \in 1..Len(b) /\ Len(a) + 1 = Len(s)
    BY <1>1, <1>5
  <2>2. QED
    BY <2>1, <1>4
<1>6. QED
  BY <1>1, <1>3, <1>4, <1>5 DEF s

\* Finalize empties what its kind of object holds.
Has(ts, op, f) == \E j \in 1..Len(ts) : ts[j].op = op /\ ts[j].field = f
FinalizesAll(ts, k) ==
    /\ Has(ts, "null", 1) \/ k \in {"closure", "outer"}
    /\ Has(ts, "null", 2) \/ k = "userdata"
    /\ Has(ts, "closeouters", 0) \/ k # "thread"

\* Finalize of each kind clears all fields, but for _base of a closure, and
\* closes the outers of a stack.
LEMMA FinalizeAll ==
    ASSUME NEW c \in Cells, heap[c].kind \in Kinds
    PROVE  FinalizesAll(FinalizeTasks(c), heap[c].kind)
<1> DEFINE k == heap[c].kind
           n1 == NullTask(c, 1)
           n2 == NullTask(c, 2)
           co == Task("closeouters", c)
           F == FinalizeTasks(c)
<1>1. IsNull(n1, c, 1) /\ IsNull(n2, c, 2)
  BY NullFacts
<1>2. IsTask(co, "closeouters", c)
  BY TaskFacts DEF CellOps
<1>3. /\ n1.op = "null" /\ n1.field = 1 /\ n2.op = "null" /\ n2.field = 2
      /\ co.op = "closeouters" /\ co.field = 0
  BY <1>1, <1>2 DEF IsNull, IsTask
<1>4. /\ k \in {"table", "class"} => F = <<n2, n1>>
      /\ k = "instance" => F = <<n1, n2>>
      /\ k = "userdata" => F = <<n1>>
      /\ k \in {"closure", "outer"} => F = <<n2>>
      /\ k = "thread" => F = <<co, n1, n2>>
  BY DEF FinalizeTasks
<1> HIDE DEF n1, n2, co, F, k
<1>5. Has(<<n2, n1>>, "null", 1) /\ Has(<<n2, n1>>, "null", 2)
  <2>1. Len(<<n2, n1>>) = 2 /\ <<n2, n1>>[1] = n2 /\ <<n2, n1>>[2] = n1 /\ 1 \in 1..2 /\ 2 \in 1..2
    OBVIOUS
  <2>2. QED
    BY <2>1, <1>3 DEF Has
<1>6. Has(<<n1, n2>>, "null", 1) /\ Has(<<n1, n2>>, "null", 2)
  <2>1. Len(<<n1, n2>>) = 2 /\ <<n1, n2>>[1] = n1 /\ <<n1, n2>>[2] = n2 /\ 1 \in 1..2 /\ 2 \in 1..2
    OBVIOUS
  <2>2. QED
    BY <2>1, <1>3 DEF Has
<1>7. Has(<<n1>>, "null", 1) /\ Has(<<n2>>, "null", 2)
  <2>1. Len(<<n1>>) = 1 /\ <<n1>>[1] = n1 /\ Len(<<n2>>) = 1 /\ <<n2>>[1] = n2 /\ 1 \in 1..1
    OBVIOUS
  <2>2. QED
    BY <2>1, <1>3 DEF Has
<1>8. /\ Has(<<co, n1, n2>>, "null", 1) /\ Has(<<co, n1, n2>>, "null", 2)
      /\ Has(<<co, n1, n2>>, "closeouters", 0)
  <2>1. /\ Len(<<co, n1, n2>>) = 3 /\ <<co, n1, n2>>[1] = co /\ <<co, n1, n2>>[2] = n1
        /\ <<co, n1, n2>>[3] = n2 /\ 1 \in 1..3 /\ 2 \in 1..3 /\ 3 \in 1..3
    OBVIOUS
  <2>2. QED
    BY <2>1, <1>3 DEF Has
<1>9. k \in Kinds
  BY DEF k
<1>10. FinalizesAll(F, k)
  BY <1>4, <1>5, <1>6, <1>7, <1>8, <1>9 DEF FinalizesAll, Kinds
<1>11. QED
  BY <1>10 DEF F, k

\* The tasks in F, on x, are pending.
AllPending(q, m, F, x) == \A j \in 1..Len(F) : \E k \in 1..m : q[k] = F[j] /\ F[j].cell = x

\* An object whose Finalize is pending.
LEMMA FinalizePending ==
    ASSUME NEW h, Shape(h), NEW q, NEW m, NEW F, NEW x \in Cells,
           FinalizesAll(F, h[x].kind), AllPending(q, m, F, x)
    PROVE  Finalized(h, q, m, x)
<1>1. CellOK(h, x)
  BY DEF Shape
<1>2. \A f : Has(F, "null", f) => Clearing(q, m, x, f)
  BY DEF Has, AllPending, Clearing, Is
<1>3. Has(F, "closeouters", 0) => Pending(q, m, "closeouters", x)
  BY DEF Has, AllPending, Pending, Is
<1>4. h[x].kind # "thread" => NoneOpen(h, x)
  BY DEF NoneOpen, Shape, CellOK
<1>5. ASSUME NEW f \in 1..2, Emptied(h[x].kind, f)
      PROVE  h[x].fields[f] = None \/ Clearing(q, m, x, f)
  <2>1. CASE f = 1
    BY <2>1, <1>1, <1>2, <1>5 DEF FinalizesAll, Emptied, CellOK
  <2>2. CASE f = 2
    BY <2>2, <1>1, <1>2, <1>5 DEF FinalizesAll, Emptied, CellOK
  <2>3. QED
    BY <2>1, <2>2
<1>6. QED
  BY <1>3, <1>4, <1>5 DEF Finalized, FinalizesAll

\* The tasks of a turn, as a pile.
LEMMA TurnHolds ==
    ASSUME NEW x \in Cells, NEW F, Finalizes(F, x), NEW d \in Cells \cup {None},
           NEW t \in TaskType, NEW q, NEW m, Piled(q, m, TurnTasks(d, F, t))
    PROVE  q[1] = t /\ AllPending(q, m, F, x)
<1> DEFINE u == Drop(d)
           a == u \o F
           y == <<t>>
           ts == a \o y
<1>1. u \in Seq(TaskType) /\ F \in Seq(TaskType) /\ \A j \in 1..Len(F) : F[j].cell = x
  BY DropShape DEF Finalizes, ClearsOnly
<1>2. y \in Seq(TaskType) /\ Len(y) = 1 /\ y[1] = t
  <2>1. t \in TaskType
    OBVIOUS
  <2>2. QED
    BY <2>1
<1> HIDE DEF u, y
<1>3. /\ a \in Seq(TaskType)
      /\ \A i \in 1..Len(F) : \E k \in 1..Len(a) : a[k] = F[i]
  BY <1>1, Elements
<1> HIDE DEF a
<1>4. /\ ts \in Seq(TaskType) /\ Len(ts) = Len(a) + Len(y)
      /\ \A i \in 1..Len(a) : \E k \in 1..Len(ts) : ts[k] = a[i]
      /\ ts[Len(ts)] = y[1]
  BY <1>2, <1>3, Elements
<1>5. Len(a) \in Nat
  BY <1>3, LenProperties
<1> HIDE DEF ts
<1>6. m = Len(ts) /\ \A k \in 1..m : q[k] = ts[m + 1 - k]
  <2>1. TurnTasks(d, F, t) = ts
    BY DEF TurnTasks, ts, a, u, y
  <2>2. QED
    BY <2>1 DEF Piled
<1>7. m \in Nat \ {0} /\ 1 \in 1..m /\ m + 1 - 1 = m
  BY <1>2, <1>4, <1>5, <1>6
<1>8. q[1] = t
  BY <1>2, <1>4, <1>6, <1>7
<1>9. ASSUME NEW k \in 1..m PROVE \E j \in 1..m : q[j] = ts[k]
  <2>1. m + 1 - k \in 1..m /\ m + 1 - (m + 1 - k) = k
    BY <1>7
  <2>2. QED
    BY <2>1, <1>6
<1>10. ASSUME NEW j \in 1..Len(F) PROVE \E k \in 1..m : q[k] = F[j]
  <2>1. PICK i \in 1..Len(a) : a[i] = F[j]
    BY <1>3
  <2>2. PICK l \in 1..Len(ts) : ts[l] = a[i]
    BY <1>4
  <2>3. l \in 1..m
    BY <1>6
  <2>4. PICK k \in 1..m : q[k] = ts[l]
    BY <2>3, <1>9
  <2>5. QED
    BY <2>1, <2>2, <2>4
<1>11. QED
  BY <1>1, <1>8, <1>10 DEF AllPending

\* What a turn changes: the pin of the next object x, and the pile; todo is
\* what the loop had still to do.
NextTurn(h2, q, m, ch, todo, x) ==
    /\ x = None => todo \cap ch = {}
    /\ x # None => q[1].todo = todo \ {x} /\ Finalized(h2, q, m, x)

\* A turn of a sweep keeps the invariant: an object that the sweep finds no
\* more in its list has been finalized.
LEMMA TurnSweeps ==
    ASSUME NEW h, NEW h2, NEW ch, NEW p, NEW q, NEW m, NEW objs, NEW st, NEW us,
           NEW d, NEW e \in {"unmark", "closed"}, NEW x \in ch \cup {None}, NEW todo,
           HeapInv(h, ch, p, 1, objs, st), SweepInv(h, ch, p, 1, objs, st, us),
           p[1].op = "advance" => e = p[1].ending /\ todo = p[1].todo,
           p[1].op = "sweepall" => e = "closed" /\ (Apart(us) => todo = ch),
           p[1].op \in {"advance", "sweepall"},
           Counted(h, h2, x), SweepPile(q, m, x, e, d), NextTurn(h2, q, m, ch, todo, x)
    PROVE  SweepInv(h2, ch, q, m, objs, st, us)
<1>1. /\ KindsOK(h, objs) /\ UsesOK(h, p, 1, us)
      /\ Covered(h, ch, p, 1, us) /\ MarkedOK(h, p, 1, objs) /\ SweptOK(h, ch, p, 1, us)
      /\ TableGone(p, 1, objs, st) /\ AllGone(h, ch, 1, objs, st, us)
  BY DEF SweepInv
<1>2. /\ Shape(h) /\ ChainOK(h, ch)
  BY DEF HeapInv
<1>3. \A c \in Cells : /\ h2[c].kind = h[c].kind /\ h2[c].marked = h[c].marked
                       /\ h2[c].link = h[c].link /\ h2[c].open = h[c].open
                       /\ h2[c].fields = h[c].fields
  BY DEF Counted, SameBody
<1>4. m \in Nat \ {0} /\ 1 \in 1..m /\ (\A k \in 1..m : k = 1 \/ k \in 2..m) /\ m > 0
  <2>1. m \in Nat \ {0}
    BY DEF SweepPile
  <2>2. QED
    BY <2>1
<1>5. /\ x = None => q[1].op = e /\ q[1].ending = ""
      /\ x # None => q[1].op = "advance" /\ q[1].cell = x /\ q[1].ending = e
      /\ x # None => x \in Cells /\ h[x].kind \in Kinds /\ ~h[x].marked
  BY <1>2 DEF SweepPile, ChainOK
<1>6. \A k \in 2..m : \/ q[k].op = "drop"
                      \/ x # None /\ q[k].cell = x /\ q[k].op \in {"closeouters", "null"}
  BY DEF SweepPile, IsTask, ClearsOnly
<1>7. Marking(q, m) => Marking(p, 1)
  <2>1. Marking(q, m) => e = "unmark"
    BY <1>5 DEF Marking
  <2>2. e = "unmark" => p[1].ending = "unmark"
    OBVIOUS
  <2>3. QED
    BY <2>1, <2>2 DEF Marking
<1>8. \A k \in 1..1 : k = 1
  OBVIOUS
<1>9. /\ \A op, c : op \in {"free", "closeouters"} => ~Pending(p, 1, op, c)
      /\ \A c, f : ~Clearing(p, 1, c, f)
  BY <1>8 DEF Pending, Clearing, Is
<1>10. KindsOK(h2, objs)
  <2>1. \A c \in Cells, f \in 1..2 : h[c].fields[f] \in Cells \cup {None}
    BY <1>2, CellTypes
  <2>2. QED
    BY <2>1, <1>1, <1>3 DEF KindsOK, OuterOK, FieldOK
<1>11. UsesOK(h2, q, m, us)
  BY <1>1, <1>3, <1>7 DEF UsesOK
<1>12. Covered(h2, ch, q, m, us)
  BY <1>1, <1>3, <1>9 DEF Covered, Owed
<1>13. UnchainsOK(q, m)
  <2>1. \A k \in 1..m : q[k].op # "unchain"
    BY <1>4, <1>5, <1>6
  <2>2. QED
    BY <2>1 DEF UnchainsOK
<1>14. MarkedOK(h2, q, m, objs)
  <2>1. SUFFICES ASSUME Marking(q, m)
                 PROVE  /\ h2[Root].marked
                        /\ \A c \in objs : Lasts(h2, c)
                        /\ \A c \in Cells, f \in 1..2 :
                              h2[c].marked /\ h2[c].fields[f] # None => Lasts(h2, h2[c].fields[f])
                        /\ \A k \in 1..m : q[k].op = "closeouters" => ~h2[q[k].cell].marked
    BY DEF MarkedOK
  <2>2. /\ h[Root].marked
        /\ \A c \in objs : Lasts(h, c)
        /\ \A c \in Cells, f \in 1..2 :
              h[c].marked /\ h[c].fields[f] # None => Lasts(h, h[c].fields[f])
    BY <2>1, <1>1, <1>7 DEF MarkedOK
  <2>3. \A c \in objs : c \in Cells
    BY DEF HeapInv
  <2>4. \A c \in Cells, f \in 1..2 : h[c].fields[f] \in Cells \cup {None}
    BY <1>2, CellTypes
  <2>5. ASSUME NEW k \in 1..m, q[k].op = "closeouters" PROVE ~h2[q[k].cell].marked
    <3>1. x # None /\ q[k].cell = x
      BY <2>5, <1>4, <1>5, <1>6
    <3>2. QED
      BY <3>1, <1>3, <1>5
  <2>6. \A c \in Cells : Lasts(h, c) => Lasts(h2, c)
    BY <1>3 DEF Lasts
  <2>7. ASSUME NEW c \in Cells, NEW f \in 1..2, h2[c].marked, h2[c].fields[f] # None
        PROVE  Lasts(h2, h2[c].fields[f])
    <3>1. h[c].marked /\ h2[c].fields[f] = h[c].fields[f] /\ h[c].fields[f] \in Cells
      BY <2>4, <2>7, <1>3
    <3>2. QED
      BY <3>1, <2>2, <2>6, <2>7
  <2>8. h2[Root].marked /\ \A c \in objs : Lasts(h2, c)
    BY <2>2, <2>3, <2>6, <1>3, CellsAssumption
  <2>9. QED
    BY <2>5, <2>7, <2>8
<1>15. SweptOK(h2, ch, q, m, us)
  <2>1. SUFFICES ASSUME Apart(us), NEW c \in Cells, h2[c].kind \in Kinds \ {"outer"}, ~h2[c].marked
                 PROVE  Swept(h2, ch, q, m, c)
    BY DEF SweptOK
  <2>2. h[c].kind \in Kinds \ {"outer"} /\ ~h[c].marked
    BY <2>1, <1>3
  <2>3. CASE c = x
    <3>1. x # None
      BY <2>3, NoneAssumption
    <3>2. QED
      BY <3>1, <2>3 DEF NextTurn, Swept
  <2>4. CASE c # x /\ c \in todo \cap ch
    <3>1. x # None
      BY <2>4 DEF NextTurn
    <3>2. q[1].op = "advance" /\ c \in q[1].todo \cap ch
      BY <3>1, <2>4, <1>5 DEF NextTurn
    <3>3. QED
      BY <3>2 DEF Swept
  <2>5. CASE Finalized(h, p, 1, c)
    <3>1. /\ \A f \in 1..2 : Emptied(h[c].kind, f) => h[c].fields[f] = None
          /\ NoneOpen(h, c)
      BY <2>5, <1>9 DEF Finalized
    <3>2. Finalized(h2, q, m, c)
      BY <3>1, <1>3 DEF Finalized, NoneOpen
    <3>3. QED
      BY <3>2 DEF Swept
  <2>6. c \in todo \cap ch \/ Finalized(h, p, 1, c)
    <3>1. CASE p[1].op = "advance"
      <4>1. Sweeping(p, 1)
        BY <3>1 DEF Sweeping
      <4>2. Swept(h, ch, p, 1, c)
        BY <4>1, <2>1, <2>2, <1>1 DEF SweptOK
      <4>3. QED
        BY <4>2, <3>1, <1>9 DEF Swept
    <3>2. CASE p[1].op = "sweepall"
      <4>1. Owed(h, us, c)
        BY <2>2 DEF Owed
      <4>2. c \in ch
        BY <4>1, <2>2, <1>1, <1>9 DEF Covered
      <4>3. QED
        BY <4>2, <3>2, <2>1
    <3>3. QED
      BY <3>1, <3>2
  <2>7. QED
    BY <2>3, <2>4, <2>5, <2>6
<1>16. PinOK(h2, q, m)
  BY <1>3, <1>5 DEF PinOK
<1>17. TableGone(q, m, objs, st) /\ AllGone(h2, ch, m, objs, st, us)
  <2>1. \A k \in 1..1 : p[k].op # "reftable"
    BY <1>8
  <2>2. QED
    BY <2>1, <1>1, <1>4 DEF TableGone, AllGone
<1>18. QED
  BY <1>10, <1>11, <1>12, <1>13, <1>14, <1>15, <1>16, <1>17 DEF SweepInv

\* One turn of the loop over _gc_chain.
LEMMA SweepSweeps ==
    ASSUME IInv, IInv', CInv, work # <<>>, Head(work).op \in {"sweepall", "advance"},
           NEW todo \in SUBSET Cells, NEW e \in {"unmark", "closed"},
           NEW d, d = IF Head(work).op = "advance" THEN Here ELSE None,
           Head(work).op = "advance" => e = Head(work).ending /\ todo = Head(work).todo,
           Head(work).op = "sweepall" => e = "closed" /\ (Apart(uses) => todo = Listed),
           Sweep(todo, e, Drop(d)), UNCHANGED <<lists, Listed, table, held, leaked, uses, ops, status>>
    PROVE  CInv'
<1> DEFINE c == Here
           p == Pile(work)
           n == Len(work)
           q == Pile(work')
           m == Len(work')
<1>1. work # <<>>
  OBVIOUS
<1>2. /\ n \in Nat \ {0} /\ p[n] = Head(work) /\ HeapInv(heap, Listed, p, n, Objs, status)
      /\ TaskOK(heap, p, n, status, n) /\ (p[n].op \in CellOps => c \in Cells)
  BY <1>1, WorkTop
<1>3. /\ Shape(heap) /\ ChainOK(heap, Listed)
  BY <1>2 DEF HeapInv
<1>4. p[n].op = Head(work).op /\ p[n].ending = Head(work).ending /\ p[n].todo = Head(work).todo
  BY <1>2, Zenon
<1>5. n = 1
  <2>1. p[n].op \in {"sweepall", "advance", "unmark", "closed"}
    BY <1>4
  <2>2. QED
    BY <2>1, <1>2 DEF TaskOK
<1>6. d \in Cells \cup {None}
  <2>1. p[n].op = "advance" => c \in Cells
    BY <1>2 DEF CellOps
  <2>2. QED
    BY <2>1, <1>4
<1>7. heap \in [Cells -> Cell]
  BY <1>3 DEF Shape
<1>8. Objs' = Objs
  BY SameObjs
<1>9. /\ p[1].op \in {"advance", "sweepall"}
      /\ p[1].op = "advance" => e = p[1].ending /\ todo = p[1].todo
      /\ p[1].op = "sweepall" => e = "closed" /\ (Apart(uses) => todo = Listed)
  BY <1>4, <1>5
<1>10. Shape(heap')
  BY DEF IInv, HeapInv
<1>11. ASSUME NEW x \in Listed \cup {None}, NEW ts \in Seq(TaskType), work' = ts \o Tail(work),
              Counted(heap, heap', x),
              \A q2, m2 : Piled(q2, m2, ts) =>
                  SweepPile(q2, m2, x, e, d) /\ NextTurn(heap', q2, m2, Listed, todo, x)
       PROVE  CInv'
  <2>1. Replaced(p, n, q, m, ts)
    BY <1>11, WorkSetup
  <2>2. Untangled(uses) => SweepInv(heap, Listed, p, n, Objs, status, uses)
    BY DEF CInv
  <2> HIDE DEF p, n, q, m
  <2>3. Piled(q, m, ts)
    BY <2>1, <1>5, LastReplaced
  <2>4. SweepPile(q, m, x, e, d) /\ NextTurn(heap', q, m, Listed, todo, x)
    BY <2>3, <1>11
  <2>5. HeapInv(heap, Listed, p, 1, Objs, status)
    BY <1>2, <1>5
  <2>6. ASSUME Untangled(uses) PROVE SweepInv(heap', Listed, q, m, Objs, status, uses)
    <3>1. SweepInv(heap, Listed, p, 1, Objs, status, uses)
      BY <2>2, <2>6, <1>5
    <3>2. QED
      BY <3>1, <2>4, <2>5, <1>9, <1>11, TurnSweeps
  <2>7. QED
    BY <2>6, <1>8 DEF CInv, q, m
<1>12. CASE todo \cap Listed = {}
  <2> DEFINE ts == EndTasks(d, Task(e, None))
  <2>1. heap' = heap /\ work' = ts \o Tail(work)
    BY <1>12 DEF Sweep, Then, EndTasks
  <2>2. ts \in Seq(TaskType) /\ \A q2, m2 : Piled(q2, m2, ts) => SweepPile(q2, m2, None, e, d)
    BY <1>6, EndPiled
  <2>3. Counted(heap, heap', None)
    BY <2>1, <1>7, AddRefToCounts DEF AddRefTo
  <2>4. \A q2, m2 : NextTurn(heap', q2, m2, Listed, todo, None)
    BY <1>12 DEF NextTurn
  <2> HIDE DEF ts
  <2>5. QED
    BY <2>1, <2>2, <2>3, <2>4, <1>11
<1>13. CASE todo \cap Listed # {}
  <2>1. PICK x \in todo \cap Listed :
            /\ heap' = AddRefTo(heap, x)
            /\ work' = TurnTasks(d, FinalizeTasks(x), NextTask(x, todo \ {x}, e)) \o Tail(work)
    BY <1>13 DEF Sweep, Then, TurnTasks, Pinned
  <2>2. x \in Cells /\ heap[x].kind \in Kinds /\ x # None
    BY <1>3, NoneAssumption DEF ChainOK
  <2> DEFINE F == FinalizeTasks(x)
             S == todo \ {x}
             t == NextTask(x, S, e)
             ts == TurnTasks(d, F, t)
  <2>3. Finalizes(F, x) /\ S \in SUBSET Cells /\ FinalizesAll(F, heap[x].kind)
    BY <2>2, FinalizeShape, FinalizeAll
  <2>4. work' = ts \o Tail(work)
    BY <2>1
  <2> HIDE DEF F
  <2>5. IsNext(t, x, S, e)
    BY <2>2, <2>3, NextFacts
  <2>6. t \in TaskType /\ t.todo = todo \ {x}
    BY <2>5 DEF IsNext
  <2>7. ts \in Seq(TaskType) /\ \A q2, m2 : Piled(q2, m2, ts) => SweepPile(q2, m2, x, e, d)
    BY <2>2, <2>3, <1>6, TurnPiled
  <2>8. Counted(heap, heap', x)
    BY <2>1, <2>2, <1>7, AddRefToCounts
  <2>9. FinalizesAll(F, heap'[x].kind)
    BY <2>2, <2>3, <2>8 DEF Counted, SameBody
  <2> HIDE DEF S, t
  <2>10. ASSUME NEW q2, NEW m2, Piled(q2, m2, ts) PROVE NextTurn(heap', q2, m2, Listed, todo, x)
    <3>1. q2[1] = t /\ AllPending(q2, m2, F, x)
      BY <2>2, <2>3, <2>6, <2>10, <1>6, TurnHolds
    <3>2. Finalized(heap', q2, m2, x)
      BY <3>1, <2>2, <2>9, <1>10, FinalizePending
    <3>3. QED
      BY <3>1, <3>2, <2>2, <2>6 DEF NextTurn
  <2> HIDE DEF ts
  <2>11. QED
    BY <2>4, <2>7, <2>8, <2>10, <1>11
<1>14. QED
  BY <1>12, <1>13

\* When no list is lost, what is in a list is in the one that _gc_chain heads.
LEMMA OneList ==
    ASSUME ListsOK, lost = {}
    PROVE  chain = Listed
  BY DEF ListsOK, Lists, Listed

\* The loop of ~SQSharedState starts.
LEMMA StartSweepSweeps ==
    ASSUME IInv, IInv', CInv, LInv, StartSweep
    PROVE  CInv'
<1>1. /\ work # <<>> /\ Head(work).op = "sweepall" /\ Sweep(chain, "closed", <<>>)
      /\ UNCHANGED <<lists, Listed, table, held, leaked, uses, ops, status>>
  BY ListsSame DEF StartSweep, Doing
<1>2. Drop(None) = <<>>
  BY DEF Drop
<1>3. chain \in SUBSET Cells /\ (Apart(uses) => chain = Listed)
  <2>1. ListsOK
    BY DEF IInv, TypeInv
  <2>2. QED
    BY <2>1, OneList DEF LInv, ListsOK, Lists
<1>4. Sweep(chain, "closed", Drop(None))
  BY <1>1, <1>2
<1>5. None = IF Head(work).op = "advance" THEN Here ELSE None
  BY <1>1
<1>6. QED
  BY <1>1, <1>3, <1>4, <1>5, SweepSweeps

\* The next turn of the loop of CollectGarbage or ~SQSharedState.
LEMMA AdvanceSweeps ==
    ASSUME IInv, IInv', CInv, Advance
    PROVE  CInv'
<1> DEFINE t == Head(work)
<1>1. /\ work # <<>> /\ t.op = "advance" /\ Sweep(t.todo, t.ending, <<Task("drop", Here)>>)
      /\ UNCHANGED <<lists, Listed, table, held, leaked, uses, ops, status>>
  BY ListsSame DEF Advance, Doing
<1>2. /\ t \in TaskType /\ TaskOK(heap, Pile(work), Len(work), status, Len(work))
      /\ Pile(work)[Len(work)] = t /\ (t.op \in CellOps => Here \in Cells)
  BY <1>1, WorkTop
<1>3. Here \in Cells
  BY <1>1, <1>2 DEF CellOps
<1>4. t.todo \in SUBSET Cells /\ t.ending \in {"", "unmark", "closed"}
  BY <1>2 DEF TaskType
<1>5. t.ending # ""
  BY <1>1, <1>2, Zenon DEF TaskOK
<1>6. Drop(Here) = <<Task("drop", Here)>>
  BY <1>3, NoneAssumption DEF Drop
<1>7. Sweep(t.todo, t.ending, Drop(Here))
  BY <1>1, <1>6
<1>8. Here = IF t.op = "advance" THEN Here ELSE None
  BY <1>1
<1>9. t.ending \in {"unmark", "closed"}
  BY <1>4, <1>5
<1> HIDE DEF t
<1>10. t = Head(work)
  BY DEF t
<1>11. QED
  BY <1>1, <1>4, <1>7, <1>8, <1>9, <1>10, SweepSweeps

-----------------------------------------------------------------------------
(* Steps of the program.                                                   *)

\* The invariant of an idle VM: fields and nodes lead to objects that are
\* there, and every object is in the chain.
FieldFits(h, k, f, v) ==
    v # None => /\ v \in Cells /\ h[v].kind # "free"
                /\ h[v].kind = "outer" => k = "closure" /\ f = 2
                /\ k \in {"closure", "class"} /\ f = 1 => h[v].kind = "class"
KindUsed(us, k, c) == /\ k \in {"closure", "outer"} => "closure" \in us
                      /\ k = "thread" => "thread" \in us \/ c = Root
CellTidy(h, ch, objs, us, c) ==
    /\ OuterOK(h, objs, c) /\ KindUsed(us, h[c].kind, c) /\ (Owed(h, us, c) => c \in ch)
    /\ \A f \in 1..2 : FieldFits(h, h[c].kind, f, h[c].fields[f])
Tidy(h, ch, objs, us) ==
    /\ \A c \in objs : c \in Cells /\ h[c].kind # "free"
    /\ \A c \in Cells : CellTidy(h, ch, objs, us, c)

\* An idle VM is tidy.
LEMMA IdleTidy ==
    ASSUME IInv, CInv, Idle, Untangled(uses)
    PROVE  Tidy(heap, Listed, Objs, uses)
<1> DEFINE p == Pile(work)
<1>1. work = <<>> /\ Len(work) = 0
  BY DEF Idle
<1>2. SweepInv(heap, Listed, p, 0, Objs, status, uses)
  BY <1>1 DEF CInv
<1>3. KindsOK(heap, Objs) /\ UsesOK(heap, p, 0, uses) /\ Covered(heap, Listed, p, 0, uses)
  BY <1>2 DEF SweepInv
<1>4. /\ \A x \in Cells, f \in 1..2 : heap[x].fields[f] # None =>
            heap[x].fields[f] \in Cells /\ heap[heap[x].fields[f]].kind # "free"
      /\ \A c \in Objs : c \in Cells /\ heap[c].kind # "free"
      /\ \A c \in Cells : ~heap[c].marked
  BY IdleReady DEF Ready
<1> HIDE DEF p
<1>5. \A c : ~Pending(p, 0, "free", c)
  BY Heights DEF Pending
<1>6. ASSUME NEW c \in Cells PROVE CellTidy(heap, Listed, Objs, uses, c)
  <2>1. OuterOK(heap, Objs, c) /\ KindUsed(uses, heap[c].kind, c)
    BY <1>3 DEF KindsOK, UsesOK, KindUsed
  <2>2. Owed(heap, uses, c) => c \in Listed
    BY <1>3, <1>4, <1>5 DEF Covered
  <2>3. ASSUME NEW f \in 1..2 PROVE FieldFits(heap, heap[c].kind, f, heap[c].fields[f])
    <3>1. FieldOK(heap, c, f)
      BY <1>3 DEF KindsOK
    <3>2. QED
      BY <3>1, <1>4 DEF FieldOK, FieldFits
  <2>4. QED
    BY <2>1, <2>2, <2>3 DEF CellTidy
<1>7. QED
  BY <1>4, <1>6 DEF Tidy

\* The k-th task from the bottom, counted from the top.
LEMMA FromTop == ASSUME NEW m \in Nat, NEW k \in 1..m PROVE m + 1 - k \in 1..m
OBVIOUS

\* A tidy VM whose call has nothing pending but a release or a scope to close.
LEMMA TidyQuiet ==
    ASSUME IInv', Idle, UNCHANGED <<uses, status>>,
           \A j \in 1..Len(work') : work'[j].op \in QuietOps /\ work'[j].ending = "",
           Untangled(uses) => Tidy(heap', Listed', Objs', uses)
    PROVE  CInv'
<1> DEFINE q == Pile(work')
           m == Len(work')
<1>1. TypeInv'
  BY DEF IInv
<1>2. work' \in Seq(TaskType)
  BY <1>1 DEF TypeInv
<1>3. m \in Nat
  BY <1>2, LenProperties
<1>4. \A k \in 1..m : q[k].op \in QuietOps /\ q[k].ending = ""
  <2>1. SUFFICES ASSUME NEW k \in 1..m PROVE q[k].op \in QuietOps /\ q[k].ending = ""
    OBVIOUS
  <2>2. q[k] = work'[m + 1 - k]
    BY DEF Pile
  <2> HIDE DEF q, m
  <2>3. m + 1 - k \in 1..m
    BY <1>3, FromTop
  <2>4. QED
    BY <2>2, <2>3 DEF m
<1> HIDE DEF q, m
<1>5. ASSUME Untangled(uses) PROVE SweepInv(heap', Listed', q, m, Objs', "open", uses)
  <2>1. Tidy(heap', Listed', Objs', uses)
    BY <1>5
  <2>2. \A c \in Cells : CellTidy(heap', Listed', Objs', uses, c)
    BY <2>1 DEF Tidy
  <2>3. KindsOK(heap', Objs')
    BY <2>2 DEF CellTidy, KindsOK, FieldOK, FieldFits
  <2>4. Covered(heap', Listed', q, m, uses)
    BY <2>2 DEF CellTidy, Covered
  <2>5. \A c \in Cells : /\ heap'[c].kind \in {"closure", "outer"} => "closure" \in uses
                         /\ heap'[c].kind = "thread" => "thread" \in uses \/ c = Root
    BY <2>2 DEF CellTidy, KindUsed
  <2>6. QED
    BY <2>3, <2>4, <2>5, <1>3, <1>4, QuietInv
<1>6. QED
  BY <1>5 DEF CInv, Idle, q, m

\* The same, when all that is pending is the release of v.
LEMMA TidyDrop ==
    ASSUME IInv', Idle, UNCHANGED <<uses, status>>, NEW v \in Cells \cup {None}, work' = Drop(v),
           Untangled(uses) => Tidy(heap', Listed', Objs', uses)
    PROVE  CInv'
<1>1. \A j \in 1..Len(Drop(v)) : Drop(v)[j].op = "drop" /\ Drop(v)[j].ending = ""
  BY DropOnly
<1>2. \A j \in 1..Len(work') : work'[j].op \in QuietOps /\ work'[j].ending = ""
  BY <1>1 DEF QuietOps
<1>3. QED
  BY <1>2, TidyQuiet

\* The same, when nothing is pending.
LEMMA TidyIdle ==
    ASSUME IInv', Idle, UNCHANGED <<uses, status>>, work' = <<>>,
           Untangled(uses) => Tidy(heap', Listed', Objs', uses)
    PROVE  CInv'
<1>1. Drop(None) = <<>>
  BY DEF Drop
<1>2. QED
  BY <1>1, TidyDrop

\* Kinds, links and fields are what makes a heap tidy.
LEMMA TidySame ==
    ASSUME NEW h, NEW h2, NEW ch, NEW objs, NEW objs2, NEW us, Tidy(h, ch, objs, us),
           \A x \in Cells : /\ h2[x].kind = h[x].kind /\ h2[x].link = h[x].link
                            /\ h2[x].fields = h[x].fields,
           \A c \in objs2 : c \in objs \/ (c \in Cells /\ h[c].kind \notin {"free", "outer"})
    PROVE  Tidy(h2, ch, objs2, us)
<1>1. \A c \in objs2 : c \in Cells /\ h2[c].kind # "free"
  BY DEF Tidy
<1>2. ASSUME NEW c \in Cells PROVE CellTidy(h2, ch, objs2, us, c)
  <2>1. CellTidy(h, ch, objs, us, c)
    BY DEF Tidy
  <2>2. OuterOK(h2, objs2, c) /\ KindUsed(us, h2[c].kind, c) /\ (Owed(h2, us, c) => c \in ch)
    BY <2>1 DEF CellTidy, OuterOK, Owed
  <2>3. \A f \in 1..2 : FieldFits(h2, h2[c].kind, f, h2[c].fields[f])
    BY <2>1 DEF CellTidy, FieldFits
  <2>4. QED
    BY <2>2, <2>3 DEF CellTidy
<1>3. QED
  BY <1>1, <1>2 DEF Tidy

\* An assignment of a value that fits.
LEMMA TidyStored ==
    ASSUME NEW h \in [Cells -> Cell], NEW ch, NEW objs, NEW us, Tidy(h, ch, objs, us),
           NEW c \in Cells, NEW f \in 1..2, NEW v \in Cells \cup {None},
           FieldFits(h, h[c].kind, f, v)
    PROVE  Tidy(Stored(h, c, f, v), ch, objs, us)
<1> DEFINE h1 == WithField(h, c, f, v)
           h2 == AddRefTo(h1, v)
<1>1. FieldIs(h, h1, c, f, v)
  BY FieldAssigned
<1> HIDE DEF h1
<1>2. Counted(h1, h2, v)
  BY <1>1, AddRefToCounts DEF FieldIs
<1>3. Stored(h, c, f, v) = h2
  BY DEF Stored, WithField, h1, h2
<1> HIDE DEF h2
<1>4. \A x \in Cells :
         /\ h2[x].kind = h[x].kind /\ h2[x].link = h[x].link
         /\ \A g \in 1..2 : h2[x].fields[g] = IF x = c /\ g = f THEN v ELSE h[x].fields[g]
  BY <1>1, <1>2 DEF FieldIs, Counted, SameBody
<1>5. \A k, g, y : FieldFits(h, k, g, y) => FieldFits(h2, k, g, y)
  BY <1>4 DEF FieldFits
<1>6. \A x \in objs : x \in Cells /\ h2[x].kind # "free"
  BY <1>4 DEF Tidy
<1>7. ASSUME NEW x \in Cells PROVE CellTidy(h2, ch, objs, us, x)
  <2>1. CellTidy(h, ch, objs, us, x)
    BY DEF Tidy
  <2>2. OuterOK(h2, objs, x) /\ KindUsed(us, h2[x].kind, x) /\ (Owed(h2, us, x) => x \in ch)
    BY <2>1, <1>4 DEF CellTidy, OuterOK, Owed
  <2>3. ASSUME NEW g \in 1..2 PROVE FieldFits(h2, h2[x].kind, g, h2[x].fields[g])
    <3>1. CASE x = c /\ g = f
      BY <3>1, <1>4, <1>5
    <3>2. CASE ~(x = c /\ g = f)
      BY <3>2, <2>1, <1>4, <1>5 DEF CellTidy
    <3>3. QED
      BY <3>1, <3>2
  <2>4. QED
    BY <2>2, <2>3 DEF CellTidy
<1>8. QED
  BY <1>3, <1>6, <1>7 DEF Tidy

\* n is a new object in h2.
Grows(h, h2, n) ==
    /\ n \in Cells /\ h[n].kind = "free" /\ h2[n].kind # "free"
    /\ \A x \in Cells : x # n => /\ h2[x].kind = h[x].kind /\ h2[x].fields = h[x].fields
                                 /\ h[x].kind = "outer" => h2[x].link = h[x].link

\* A new object keeps the heap tidy.
LEMMA TidyGrown ==
    ASSUME NEW h, NEW h2, NEW ch, NEW ch2, NEW objs, NEW us, Tidy(h, ch, objs, us),
           NEW n, Grows(h, h2, n), ch \subseteq ch2, h2[n].kind \in Kinds => n \in ch2,
           h2[n].kind = "outer" => h2[n].link = None, KindUsed(us, h2[n].kind, n),
           \A f \in 1..2 : FieldFits(h, h2[n].kind, f, h2[n].fields[f])
    PROVE  Tidy(h2, ch2, objs, us)
<1>1. /\ n \in Cells /\ h[n].kind = "free" /\ h2[n].kind # "free"
      /\ \A x \in Cells : x # n => /\ h2[x].kind = h[x].kind /\ h2[x].fields = h[x].fields
                                   /\ h[x].kind = "outer" => h2[x].link = h[x].link
  BY DEF Grows
<1>2. \A k, g, y : FieldFits(h, k, g, y) => FieldFits(h2, k, g, y)
  BY <1>1 DEF FieldFits
<1>3. (\A x \in objs : x \in Cells /\ h2[x].kind # "free") /\ n \notin objs
  BY <1>1 DEF Tidy
<1>4. ASSUME NEW x \in Cells, x # n PROVE CellTidy(h2, ch2, objs, us, x)
  <2>1. CellTidy(h, ch, objs, us, x)
    BY DEF Tidy
  <2>2. OuterOK(h2, objs, x) /\ KindUsed(us, h2[x].kind, x) /\ (Owed(h2, us, x) => x \in ch2)
    BY <2>1, <1>1, <1>4 DEF CellTidy, OuterOK, Owed
  <2>3. ASSUME NEW g \in 1..2 PROVE FieldFits(h2, h2[x].kind, g, h2[x].fields[g])
    BY <2>1, <1>1, <1>2, <1>4 DEF CellTidy
  <2>4. QED
    BY <2>2, <2>3 DEF CellTidy
<1>5. CellTidy(h2, ch2, objs, us, n)
  <2>1. OuterOK(h2, objs, n) /\ (Owed(h2, us, n) => n \in ch2)
    BY <1>3 DEF OuterOK, Owed
  <2>2. QED
    BY <2>1, <1>2 DEF CellTidy
<1>6. QED
  BY <1>3, <1>4, <1>5 DEF Tidy

\* A new object, filled in and stored in field f of x.
LEMMA TidyPlaced ==
    ASSUME NEW h, NEW ch, NEW objs, NEW us, Tidy(h, ch, objs, us),
           NEW c, NEW n, NEW h2, NEW a, NEW b, NEW k, NEW r, Places(h, h2, c, n, a, b),
           IsNew(n, k, r, a, b), KindUsed(us, k, c), k # "outer",
           FieldFits(h, k, 1, a), FieldFits(h, k, 2, b),
           NEW x \in Cells, x # c, NEW f \in 1..2, h[x].kind \notin {"closure", "class"} \/ f = 2
    PROVE  Tidy(Stored(h2, x, f, c), ch \cup {c}, objs, us)
<1>1. /\ c \in Cells /\ h[c].kind = "free" /\ h2 \in [Cells -> Cell] /\ h2[c].kind = k
      /\ k \in Kinds /\ h2[c].fields[1] = a /\ h2[c].fields[2] = b
  BY DEF Places, IsNew
<1>2. k # "free"
  BY <1>1 DEF Kinds
<1>3. Grows(h, h2, c)
  BY <1>1, <1>2 DEF Grows, Places, SameBody
<1>4. \A g \in 1..2 : FieldFits(h, h2[c].kind, g, h2[c].fields[g])
  <2>1. \A g \in 1..2 : g = 1 \/ g = 2
    OBVIOUS
  <2>2. QED
    BY <2>1, <1>1
<1>5. Tidy(h2, ch \cup {c}, objs, us)
  <2>1. /\ ch \subseteq ch \cup {c} /\ c \in ch \cup {c} /\ h2[c].kind # "outer"
        /\ KindUsed(us, h2[c].kind, c)
    BY <1>1
  <2>2. QED
    BY <2>1, <1>3, <1>4, TidyGrown
<1>6. FieldFits(h2, h2[x].kind, f, c)
  BY <1>1, <1>2, <1>3 DEF FieldFits, Grows
<1>7. QED
  BY <1>1, <1>5, <1>6, TidyStored

\* A value that is not an outer fits where no class is called for.
LEMMA ValueFits ==
    ASSUME NEW h, NEW k, NEW f, NEW v, k \notin {"closure", "class"} \/ f = 2,
           v = None \/ (v \in Cells /\ h[v].kind \notin {"free", "outer"})
    PROVE  FieldFits(h, k, f, v)
  BY DEF FieldFits

\* A value that is stored where it fits.
LEMMA StoreSweeps ==
    ASSUME IInv, IInv', CInv, Program, NEW c \in Cells, NEW f \in 1..2, NEW v \in Cells \cup {None},
           heap' = Stored(heap, c, f, v), work' = Old(c, f), UNCHANGED <<lists, Listed, table>>,
           Untangled(uses) => FieldFits(heap, heap[c].kind, f, v)
    PROVE  CInv'
<1>1. Idle /\ UNCHANGED <<uses, status>>
  BY ProgramOps
<1>2. heap \in [Cells -> Cell] /\ Shape(heap)
  BY <1>1, IdleReady DEF Ready, Shape
<1>3. heap[c].fields[f] \in Cells \cup {None} /\ work' = Drop(heap[c].fields[f])
  <2>1. heap[c].fields[f] \in Cells \cup {None}
    BY <1>2, CellTypes
  <2>2. QED
    BY <2>1 DEF Old
<1>4. Objs' = Objs
  BY SameObjs
<1>5. ASSUME Untangled(uses) PROVE Tidy(heap', Listed', Objs', uses)
  <2>1. Tidy(heap, Listed, Objs, uses)
    BY <1>1, <1>5, IdleTidy
  <2>2. Tidy(Stored(heap, c, f, v), Listed, Objs, uses)
    BY <2>1, <1>2, <1>5, TidyStored
  <2>3. QED
    BY <2>2, <1>4
<1>6. QED
  BY <1>1, <1>3, <1>5, TidyDrop

\* An assignment to a slot, a member, a captured variable or a stack slot.
LEMMA AssignSweeps ==
    ASSUME IInv, IInv', CInv, NEW t \in Writable, NEW v \in Values \cup {None}, Assign(t[1], t[2], v)
    PROVE  CInv'
<1> DEFINE c == t[1]
           f == t[2]
<1>1. /\ Program /\ heap' = Stored(heap, c, f, v) /\ work' = Old(c, f)
      /\ UNCHANGED <<lists, Listed, table, held, leaked>>
  BY ListsSame DEF Assign
<1>2. Idle
  BY <1>1, ProgramOps
<1>3. \A x \in InReach : Usable(heap, x)
  BY <1>2, ReachFacts
<1>4. v = None \/ (v \in Cells /\ heap[v].kind \notin {"free", "outer"})
  BY <1>3 DEF Values, Usable
<1>5. c \in Cells /\ f \in 1..2 /\ (heap[c].kind = "thread" \/ f = 2)
  BY <1>2, WritableField
<1>6. FieldFits(heap, heap[c].kind, f, v)
  BY <1>4, <1>5, ValueFits
<1>7. v \in Cells \cup {None}
  BY <1>4
<1> HIDE DEF c, f
<1>8. QED
  BY <1>1, <1>5, <1>6, <1>7, StoreSweeps

\* A delegate that is set or taken away.
LEMMA SetDelegateSweeps ==
    ASSUME IInv, IInv', CInv, NEW c \in OfKind("table") \cup OfKind("userdata"),
           NEW v \in OfKind("table") \cup {None}, SetDelegate(c, v)
    PROVE  CInv'
<1> DEFINE h == Stored(heap, c, 1, v)
           d == heap[c].fields[1]
           ts == LetGo(c, 1, d)
<1>1. /\ Program /\ heap' = AddRefTo(h, c) /\ work' = ts \o Drop(c)
      /\ UNCHANGED <<lists, Listed, table, held, leaked>>
  BY ListsSame DEF SetDelegate
<1>2. Idle /\ UNCHANGED <<uses, status>>
  BY <1>1, ProgramOps
<1>3. \A x \in InReach : Usable(heap, x)
  BY <1>2, ReachFacts
<1>4. v = None \/ (v \in Cells /\ heap[v].kind \notin {"free", "outer"})
  BY <1>3 DEF OfKind, Usable
<1>5. c \in Cells /\ heap[c].kind \in {"table", "userdata"} /\ 1 \in 1..2
  BY <1>3 DEF OfKind, Usable
<1>6. FieldFits(heap, heap[c].kind, 1, v) /\ v \in Cells \cup {None}
  BY <1>4, <1>5, ValueFits
<1>7. heap \in [Cells -> Cell] /\ Shape(heap) /\ Objs' = Objs
  BY <1>1, <1>2, IdleReady, SameObjs DEF Ready, Shape
<1>8. d \in Cells \cup {None}
  BY <1>5, <1>7, CellTypes
<1>9. h \in [Cells -> Cell]
  <2> DEFINE h1 == WithField(heap, c, 1, v)
  <2>1. h = AddRefTo(h1, v)
    BY DEF Stored, WithField
  <2>2. h1 \in [Cells -> Cell]
    BY <1>5, <1>6, <1>7, FieldAssigned DEF FieldIs
  <2> HIDE DEF h1, h
  <2>3. QED
    BY <2>1, <2>2, <1>6, AddRefToCounts DEF Counted
<1>10. ASSUME Untangled(uses) PROVE Tidy(heap', Listed', Objs', uses)
  <2>1. Tidy(heap, Listed, Objs, uses)
    BY <1>2, <1>10, IdleTidy
  <2>2. Tidy(h, Listed, Objs, uses)
    BY <2>1, <1>5, <1>6, <1>7, TidyStored
  <2> HIDE DEF h
  <2>3. Counted(h, heap', c)
    BY <1>1, <1>5, <1>9, AddRefToCounts
  <2>4. \A x \in Cells : /\ heap'[x].kind = h[x].kind /\ heap'[x].link = h[x].link
                         /\ heap'[x].fields = h[x].fields
    BY <2>3 DEF Counted, SameBody
  <2>5. Tidy(heap', Listed, Objs, uses)
    BY <2>2, <2>4, TidySame
  <2>6. QED
    BY <2>5, <1>1, <1>7
<1>11. /\ ts \in Seq(TaskType)
       /\ \A j \in 1..Len(ts) : ts[j].op \in {"drop", "clear"} /\ ts[j].ending = ""
  BY <1>5, <1>8, LetGoShape, LetsOnly
<1>12. /\ Drop(c) \in Seq(TaskType)
       /\ \A j \in 1..Len(Drop(c)) : Drop(c)[j].op = "drop" /\ Drop(c)[j].ending = ""
  BY <1>5, DropOnly
<1> DEFINE u == Drop(c)
<1>13. u \in Seq(TaskType) /\ work' = ts \o u
  BY <1>1, <1>12
<1>14. \A j \in 1..Len(u) : u[j].op = "drop" /\ u[j].ending = ""
  BY <1>12
<1> HIDE DEF u, ts
<1>15. ASSUME NEW j \in 1..Len(work') PROVE work'[j].op \in QuietOps /\ work'[j].ending = ""
  <2>1. /\ Len(work') = Len(ts) + Len(u) /\ Len(ts) \in Nat /\ Len(u) \in Nat
        /\ \A i \in 1..Len(ts) + Len(u) : work'[i] = IF i <= Len(ts) THEN ts[i] ELSE u[i - Len(ts)]
    BY <1>11, <1>13, ConcatProperties, LenProperties
  <2>2. CASE j <= Len(ts)
    <3>1. j \in 1..Len(ts) /\ work'[j] = ts[j]
      BY <2>1, <2>2
    <3>2. QED
      BY <3>1, <1>11 DEF QuietOps
  <2>3. CASE ~(j <= Len(ts))
    <3>1. j - Len(ts) \in 1..Len(u) /\ work'[j] = u[j - Len(ts)]
      BY <2>1, <2>3
    <3>2. QED
      BY <3>1, <1>14 DEF QuietOps
  <2>4. QED
    BY <2>2, <2>3
<1>16. QED
  BY <1>2, <1>10, <1>15, TidyQuiet

\* A value that is put on the stack of the root VM.
LEMMA PushSweeps ==
    ASSUME IInv, IInv', CInv, Program, NEW s \in 1..2, NEW v \in Cells \cup {None},
           Untangled(uses) => v = None \/ heap[v].kind \notin {"free", "outer"},
           heap' = Stored(heap, Root, s, v), work' = Old(Root, s), UNCHANGED <<lists, Listed, table>>
    PROVE  CInv'
<1>1. Idle
  BY ProgramOps
<1>2. heap[Root].kind = "thread" /\ Root \in Cells
  BY <1>1, IdleReady, CellsAssumption DEF Ready
<1>3. Untangled(uses) => FieldFits(heap, heap[Root].kind, s, v)
  BY <1>2, ValueFits
<1>4. QED
  BY <1>2, <1>3, StoreSweeps

\* A weak reference that is read: outers have none.
LEMMA DerefSweeps ==
    ASSUME IInv, IInv', CInv, NEW s \in 1..2, NEW w \in OfKind("weakref"), Deref(w, s)
    PROVE  CInv'
<1> DEFINE v == heap[w].link
<1>1. /\ Program /\ heap' = Stored(heap, Root, s, v) /\ work' = Old(Root, s)
      /\ UNCHANGED <<lists, Listed, table, held, leaked>>
  BY ListsSame DEF Deref
<1>2. Idle
  BY <1>1, ProgramOps
<1>3. w \in Cells
  BY <1>2, ReachFacts DEF OfKind, Usable
<1>4. v = None \/ (v \in Cells /\ heap[v].kind # "free")
  BY <1>2, <1>3, ReachFacts DEF Usable
<1>5. CellOK(heap, w)
  BY <1>2, <1>3, IdleReady DEF Ready, Shape
<1>6. v # None => heap[v].link # None
  BY <1>3, <1>5, NoneAssumption DEF CellOK
<1>7. ASSUME Untangled(uses), v # None PROVE heap[v].kind # "outer"
  <2>1. Tidy(heap, Listed, Objs, uses)
    BY <1>2, <1>7, IdleTidy
  <2>2. OuterOK(heap, Objs, v)
    BY <2>1, <1>4, <1>7 DEF Tidy, CellTidy
  <2>3. QED
    BY <2>2, <1>6, <1>7 DEF OuterOK
<1>8. v \in Cells \cup {None}
  BY <1>4
<1>9. Untangled(uses) => v = None \/ heap[v].kind \notin {"free", "outer"}
  BY <1>4, <1>7
<1> HIDE DEF v
<1>10. QED
  BY <1>1, <1>8, <1>9, PushSweeps

\* While the VM is open, the objects with a node are those with handles.
LEMMA HeldObjs ==
    ASSUME IInv, Idle, NEW c \in Cells
    PROVE  held[c] \in Nat /\ leaked[c] \in Nat /\ (held[c] + leaked[c] # 0 => c \in Objs)
<1>1. held[c] \in Nat /\ leaked[c] \in Nat /\ Mine(c) = NodeFor(c, held[c] + leaked[c])
  BY OneNode
<1>2. ASSUME held[c] + leaked[c] # 0 PROVE c \in Objs
  <2>1. Mine(c) # {}
    BY <1>1, <1>2 DEF NodeFor
  <2>2. QED
    BY <2>1 DEF Mine, Objs
<1>3. QED
  BY <1>1, <1>2

\* The same of the next state, the other way round.
LEMMA ObjsHeld ==
    ASSUME IInv', status' = "open", NEW c \in Objs'
    PROVE  c \in Cells /\ held'[c] + leaked'[c] # 0
<1>1. c \in Cells
  BY DEF IInv, HeapInv
<1>2. PICK n \in Nodes' : n.obj = c
  BY DEF Objs
<1>3. HandlesInv'
  BY DEF IInv
<1>4. {x \in Nodes' : x.obj = c} = IF held'[c] + leaked'[c] = 0 THEN {}
                                   ELSE {[obj |-> c, refs |-> held'[c] + leaked'[c]]}
  BY <1>1, <1>3 DEF HandlesInv
<1>5. n \in {x \in Nodes' : x.obj = c}
  BY <1>2
<1>6. QED
  BY <1>1, <1>4, <1>5

\* A handle that is pushed on the stack.
LEMMA PushHandleSweeps ==
    ASSUME IInv, IInv', CInv, NEW s \in 1..2, NEW c \in Cells, held[c] > 0, PushHandle(c, s)
    PROVE  CInv'
<1>1. /\ Program /\ heap' = Stored(heap, Root, s, c) /\ work' = Old(Root, s)
      /\ UNCHANGED <<lists, Listed, table, held, leaked>>
  BY ListsSame DEF PushHandle
<1>2. Idle
  BY <1>1, ProgramOps
<1>3. held[c] \in Nat /\ leaked[c] \in Nat /\ (held[c] + leaked[c] # 0 => c \in Objs)
  BY <1>2, HeldObjs
<1>4. c \in Objs
  BY <1>3
<1>5. ASSUME Untangled(uses) PROVE heap[c].kind \notin {"free", "outer"}
  <2>1. Tidy(heap, Listed, Objs, uses)
    BY <1>2, <1>5, IdleTidy
  <2>2. OuterOK(heap, Objs, c) /\ heap[c].kind # "free"
    BY <2>1, <1>4 DEF Tidy, CellTidy
  <2>3. QED
    BY <2>2, <1>4 DEF OuterOK
<1>6. QED
  BY <1>1, <1>5, PushSweeps

\* A weak reference that the program takes, which is not one to an outer.
LEMMA MakeWeakRefSweeps ==
    ASSUME IInv, IInv', CInv, NEW s \in 1..2, NEW c \in Values \cap Collectable, MakeWeakRef(c, s)
    PROVE  CInv'
<1>1. /\ Program /\ work' = Old(Root, s) /\ UNCHANGED <<lists, Listed, table, held, leaked>>
  BY ListsSame DEF MakeWeakRef
<1>2. Idle /\ UNCHANGED <<uses, status>>
  BY <1>1, ProgramOps
<1>3. c \in Cells /\ heap[c].kind \notin {"free", "weakref", "outer"}
  BY DEF Collectable, Live, Values
<1>4. CASE heap[c].link # None
  <2> DEFINE w == heap[c].link
  <2>1. heap' = Stored(heap, Root, s, w)
    BY <1>4 DEF MakeWeakRef
  <2>2. w \in Cells /\ heap[w].kind # "free"
    BY <1>2, <1>3, <1>4, ReachFacts DEF Usable
  <2>3. CellOK(heap, c)
    BY <1>2, <1>3, IdleReady DEF Ready, Shape
  <2>4. heap[w].kind = "weakref"
    BY <2>3, <1>3, <1>4 DEF CellOK
  <2>5. w \in Cells \cup {None} /\ heap[w].kind \notin {"free", "outer"}
    BY <2>2, <2>4
  <2> HIDE DEF w
  <2>6. QED
    BY <2>1, <2>5, <1>1, PushSweeps
<1>5. CASE heap[c].link = None
  <2> DEFINE w == Min(FreeCells)
             h == [heap EXCEPT ![c].link = w, ![w] = [NoCell EXCEPT !.kind = "weakref", !.link = c]]
  <2>1. FreeCells # {} /\ heap' = Stored(h, Root, s, w)
    BY <1>5 DEF MakeWeakRef
  <2>2. w \in Cells /\ heap[w].kind = "free"
    BY <2>1, MinFree
  <2> HIDE DEF w
  <2>3. HasWeak(h, c, w)
    BY DEF HasWeak
  <2>4. heap \in [Cells -> Cell] /\ Shape(heap) /\ heap[Root].kind = "thread" /\ Root \in Cells
    BY <1>2, IdleReady, CellsAssumption DEF Ready, Shape
  <2>5. \A x \in Cells : x # c /\ x # w => h[x] = heap[x]
    BY <2>4
  <2>6. h[w].kind = "weakref" /\ h[w].fields = NoCell.fields
    <3> DEFINE made == [NoCell EXCEPT !.kind = "weakref", !.link = c]
    <3>1. made.kind = "weakref" /\ made.fields = NoCell.fields
      BY DEF NoCell
    <3>2. h[w] = made
      BY <2>2, <2>4
    <3>3. QED
      BY <3>1, <3>2
  <2> HIDE DEF h
  <2>7. /\ Ready(h, Objs, w) /\ Usable(h, w)
        /\ \A x \in Cells : x # w => h[x].kind = heap[x].kind /\ h[x].fields = heap[x].fields
    BY <2>2, <2>3, <1>2, <1>3, <1>5, WeakMade
  <2>8. Grows(heap, h, w)
    <3>1. ASSUME NEW x \in Cells, x # w, heap[x].kind = "outer" PROVE h[x].link = heap[x].link
      BY <3>1, <2>5, <1>3
    <3>2. QED
      BY <3>1, <2>2, <2>6, <2>7 DEF Grows
  <2>9. h[w].kind \notin Kinds /\ KindUsed(uses, h[w].kind, w) /\ h[w].kind # "outer"
    BY <2>6 DEF Kinds, KindUsed
  <2>10. \A f \in 1..2 : FieldFits(heap, h[w].kind, f, h[w].fields[f])
    <3>1. \A f \in 1..2 : h[w].fields[f] = None
      <4>1. \A f \in 1..2 : f = 1 \/ f = 2
        OBVIOUS
      <4>2. QED
        BY <4>1, <2>6, EmptyCell
    <3>2. QED
      BY <3>1 DEF FieldFits
  <2>11. h \in [Cells -> Cell]
    BY <2>7 DEF Ready, Shape
  <2>12. Root # w
    BY <2>2, <2>4
  <2>13. FieldFits(h, h[Root].kind, s, w)
    <3>1. h[Root].kind = "thread"
      BY <2>4, <2>7, <2>12
    <3>2. QED
      BY <3>1, <2>2, <2>6, ValueFits
  <2>14. ASSUME Untangled(uses) PROVE Tidy(heap', Listed', Objs', uses)
    <3>1. Tidy(heap, Listed, Objs, uses)
      BY <1>2, <2>14, IdleTidy
    <3>2. Tidy(h, Listed, Objs, uses)
      BY <3>1, <2>8, <2>9, <2>10, TidyGrown
    <3>3. Tidy(Stored(h, Root, s, w), Listed, Objs, uses)
      BY <3>2, <2>2, <2>4, <2>11, <2>13, TidyStored
    <3>4. Objs' = Objs /\ Listed' = Listed
      BY <1>1, SameObjs
    <3>5. QED
      BY <3>3, <3>4, <2>1
  <2>15. heap[Root].fields[s] \in Cells \cup {None}
    BY <2>4, CellTypes
  <2>16. work' = Drop(heap[Root].fields[s])
    BY <1>1 DEF Old
  <2>17. QED
    BY <2>14, <2>15, <2>16, <1>2, TidyDrop
<1>6. QED
  BY <1>4, <1>5

\* sq_addref of a value on the stack or of an object that has a handle.
LEMMA TakeHandleSweeps ==
    ASSUME IInv, IInv', CInv, NEW c \in Refers(Root) \cup {h \in Cells : held[h] > 0}, TakeHandle(c)
    PROVE  CInv'
<1>1. /\ Program /\ sq_addref(c) /\ held' = [held EXCEPT ![c] = @ + 1]
      /\ UNCHANGED <<lists, Listed, leaked, work>>
  BY ListsSame DEF TakeHandle
<1>2. Idle /\ UNCHANGED <<uses, status>>
  BY <1>1, ProgramOps
<1>3. heap \in [Cells -> Cell] /\ Root \in Cells /\ heap[Root].kind = "thread"
  BY <1>2, IdleReady, CellsAssumption DEF Ready, Shape
<1>4. held \in [Cells -> Nat] /\ leaked' = leaked /\ status' = "open"
  BY <1>1, <1>2 DEF IInv, HandlesInv, Idle
<1>5. ASSUME Untangled(uses)
      PROVE  Tidy(heap, Listed, Objs, uses) /\ c \in Cells /\ heap[c].kind \notin {"free", "outer"}
  <2>1. Tidy(heap, Listed, Objs, uses)
    BY <1>2, <1>5, IdleTidy
  <2>2. CASE c \in Refers(Root)
    <3>1. PICK f \in 1..2 : heap[Root].fields[f] = c /\ c # None
      BY <2>2 DEF Refers
    <3>2. FieldFits(heap, heap[Root].kind, f, c)
      BY <3>1, <2>1, <1>3 DEF Tidy, CellTidy
    <3>3. QED
      BY <3>1, <3>2, <2>1, <1>3 DEF FieldFits
  <2>3. CASE c \in Cells /\ held[c] > 0
    <3>1. held[c] \in Nat /\ leaked[c] \in Nat /\ (held[c] + leaked[c] # 0 => c \in Objs)
      BY <2>3, <1>2, HeldObjs
    <3>2. c \in Objs
      BY <2>3, <3>1
    <3>3. QED
      BY <2>1, <2>3, <3>2 DEF Tidy, CellTidy, OuterOK
  <2>4. QED
    BY <2>2, <2>3
<1>6. ASSUME NEW x \in Objs', x # c PROVE x \in Objs
  <2>1. x \in Cells /\ held'[x] + leaked'[x] # 0
    BY <1>4, ObjsHeld
  <2>2. held'[x] = held[x] /\ leaked'[x] = leaked[x]
    BY <2>1, <1>1, <1>4, <1>6
  <2>3. QED
    BY <2>1, <2>2, <1>2, HeldObjs
<1>7. CASE heap' = AddRefTo(heap, c)
  <2>1. ASSUME Untangled(uses) PROVE Tidy(heap', Listed', Objs', uses)
    <3>1. Counted(heap, heap', c)
      BY <2>1, <1>3, <1>5, <1>7, AddRefToCounts
    <3>2. \A x \in Cells : /\ heap'[x].kind = heap[x].kind /\ heap'[x].link = heap[x].link
                           /\ heap'[x].fields = heap[x].fields
      BY <3>1 DEF Counted, SameBody
    <3>3. \A x \in Objs' : x \in Objs \/ (x \in Cells /\ heap[x].kind \notin {"free", "outer"})
      BY <2>1, <1>5, <1>6
    <3>4. Tidy(heap', Listed, Objs', uses)
      BY <2>1, <3>2, <3>3, <1>5, TidySame
    <3>5. QED
      BY <3>4, <1>1
  <2>2. QED
    BY <2>1, <1>1, <1>2, TidyIdle DEF Idle
<1>8. CASE heap' = heap
  <2>1. ASSUME Untangled(uses) PROVE Tidy(heap', Listed', Objs', uses)
    <3>1. \A x \in Objs' : x \in Objs \/ (x \in Cells /\ heap[x].kind \notin {"free", "outer"})
      BY <2>1, <1>5, <1>6
    <3>2. Tidy(heap, Listed, Objs', uses)
      BY <2>1, <3>1, <1>5, TidySame
    <3>3. QED
      BY <3>2, <1>1, <1>8
  <2>2. QED
    BY <2>1, <1>1, <1>2, TidyIdle DEF Idle
<1>9. QED
  BY <1>1, <1>7, <1>8 DEF sq_addref

\* A step that only takes handles away.
LEMMA FewerHandles ==
    ASSUME IInv, IInv', CInv, Idle, UNCHANGED <<heap, lists, Listed, uses, status>>, NEW c \in Cells, held[c] > 0,
           \A x \in Cells : x # c => held'[x] + leaked'[x] = held[x] + leaked[x],
           NEW v \in Cells \cup {None}, work' = Drop(v)
    PROVE  CInv'
<1>1. ASSUME NEW x \in Objs' PROVE x \in Objs
  <2>1. x \in Cells /\ held'[x] + leaked'[x] # 0
    BY ObjsHeld DEF Idle
  <2>2. held[x] \in Nat /\ leaked[x] \in Nat /\ (held[x] + leaked[x] # 0 => x \in Objs)
    BY <2>1, HeldObjs
  <2>3. QED
    BY <2>1, <2>2
<1>2. ASSUME Untangled(uses) PROVE Tidy(heap', Listed', Objs', uses)
  <2>1. Tidy(heap, Listed, Objs, uses)
    BY <1>2, IdleTidy
  <2>2. Tidy(heap, Listed, Objs', uses)
    BY <2>1, <1>1, TidySame
  <2>3. QED
    BY <2>2
<1>3. QED
  BY <1>2, TidyDrop

\* sq_release of a dropped Object.
LEMMA DropHandleSweeps ==
    ASSUME IInv, IInv', CInv, NEW c \in Cells, held[c] > 0, DropHandle(c)
    PROVE  CInv'
<1>1. /\ Idle /\ UNCHANGED <<uses, ops, status>> /\ sq_release(c) /\ held' = [held EXCEPT ![c] = @ - 1]
      /\ UNCHANGED <<heap, lists, Listed, leaked>>
  BY ListsSame DEF DropHandle
<1>2. held \in [Cells -> Nat]
  BY DEF IInv, HandlesInv
<1>3. \A x \in Cells : x # c => held'[x] + leaked'[x] = held[x] + leaked[x]
  BY <1>1, <1>2
<1>4. Drop(None) = <<>> /\ work = <<>>
  BY <1>1 DEF Drop, Idle
<1>5. work' = Drop(c) \/ work' = Drop(None)
  BY <1>1, <1>4 DEF sq_release
<1>6. c \in Cells \cup {None} /\ None \in Cells \cup {None}
  OBVIOUS
<1>7. QED
  BY <1>1, <1>3, <1>5, <1>6, FewerHandles

\* An Object that is forgotten.
LEMMA ForgetHandleSweeps ==
    ASSUME IInv, IInv', CInv, NEW c \in Cells, held[c] > 0, ForgetHandle(c)
    PROVE  CInv'
<1>1. /\ Program /\ held' = [held EXCEPT ![c] = @ - 1] /\ leaked' = [leaked EXCEPT ![c] = @ + 1]
      /\ UNCHANGED <<heap, lists, Listed, table, work>>
  BY ListsSame DEF ForgetHandle
<1>2. Idle /\ UNCHANGED <<uses, status>>
  BY <1>1, ProgramOps
<1>3. held \in [Cells -> Nat] /\ leaked \in [Cells -> Nat]
  BY DEF IInv, HandlesInv
<1>4. \A x \in Cells : x # c => held'[x] + leaked'[x] = held[x] + leaked[x]
  BY <1>1, <1>3
<1>5. work' = Drop(None) /\ None \in Cells \cup {None}
  BY <1>1, <1>2 DEF Drop, Idle
<1>6. QED
  BY <1>1, <1>2, <1>4, <1>5, FewerHandles

\* CloseOuters at the end of a scope.
LEMMA CloseScopeSweeps ==
    ASSUME IInv, IInv', CInv, NEW th \in OfKind("thread"), CloseScope(th)
    PROVE  CInv'
<1> DEFINE t == Task("closeouters", th)
<1>1. /\ Program /\ work' = <<t>> /\ UNCHANGED <<heap, lists, Listed, table, held, leaked>>
  BY ListsSame DEF CloseScope
<1>2. Idle /\ UNCHANGED <<uses, status>>
  BY <1>1, ProgramOps
<1>3. th \in Cells
  BY <1>2, ReachFacts DEF OfKind, Usable
<1>4. t.op = "closeouters" /\ t.ending = ""
  <2>1. IsTask(t, "closeouters", th)
    BY <1>3, TaskFacts DEF CellOps
  <2>2. QED
    BY <2>1 DEF IsTask
<1> HIDE DEF t
<1>5. \A j \in 1..Len(work') : work'[j] = t
  BY <1>1
<1>6. \A j \in 1..Len(work') : work'[j].op \in QuietOps /\ work'[j].ending = ""
  BY <1>4, <1>5 DEF QuietOps
<1>7. Objs' = Objs
  BY <1>1, SameObjs
<1>8. ASSUME Untangled(uses) PROVE Tidy(heap', Listed', Objs', uses)
  <2>1. Tidy(heap, Listed, Objs, uses)
    BY <1>2, <1>8, IdleTidy
  <2>2. QED
    BY <2>1, <1>1, <1>7
<1>9. QED
  BY <1>2, <1>6, <1>8, TidyQuiet

\* A new object on the stack of the root VM, in a tidy heap h.
LEMMA CreatedSweeps ==
    ASSUME IInv', Idle, UNCHANGED <<table, uses, status>>, NEW h \in [Cells -> Cell], NEW ch,
           Untangled(uses) => Tidy(h, ch, Objs, uses), NEW c \in Cells, h[c].kind = "free",
           h[Root].kind = "thread",
           NEW k \in {"table", "userdata", "thread", "class", "instance", "closure"},
           NEW a \in Cells \cup {None}, NEW b \in Cells \cup {None},
           k = "userdata" => a = None /\ b = None, NEW s \in 1..2,
           Untangled(uses) => /\ KindUsed(uses, k, c)
                              /\ FieldFits(h, k, 1, a) /\ FieldFits(h, k, 2, b),
           heap' = Created(h, c, k, <<a, b>>, s), Listed' = ch \cup {c},
           NEW v \in Cells \cup {None}, work' = Drop(v)
    PROVE  CInv'
<1>0. Puts(h, heap', c, k, a, b, s)
  BY CreatedPlaces
<1>1. PICK n, h2 : /\ heap' = Stored(h2, Root, s, c)
                   /\ Places(h, h2, c, n, a, b) /\ IsNew(n, k, 0, a, b) /\ n.open = <<>>
  BY <1>0 DEF Puts
<1>2. Objs' = Objs
  BY SameObjs
<1>3. ASSUME Untangled(uses) PROVE Tidy(heap', Listed', Objs', uses)
  <2>1. Tidy(h, ch, Objs, uses) /\ KindUsed(uses, k, c) /\ FieldFits(h, k, 1, a) /\ FieldFits(h, k, 2, b)
    BY <1>3
  <2>2. Root \in Cells /\ Root # c /\ h[Root].kind \notin {"closure", "class"} /\ k # "outer"
    BY CellsAssumption
  <2>3. Tidy(Stored(h2, Root, s, c), ch \cup {c}, Objs, uses)
    BY <2>1, <2>2, <1>1, TidyPlaced
  <2>4. QED
    BY <2>3, <1>1, <1>2
<1>4. QED
  BY <1>3, TidyDrop

\* What is on the stack of the root VM when a new object goes there.
LEMMA RootSlot ==
    ASSUME IInv, Idle, NEW s \in 1..2
    PROVE  /\ heap \in [Cells -> Cell] /\ heap[Root].kind = "thread" /\ Root \in Cells
           /\ heap[Root].fields[s] \in Cells \cup {None} /\ Old(Root, s) = Drop(heap[Root].fields[s])
<1>1. Shape(heap) /\ heap[Root].kind = "thread" /\ Root \in Cells
  BY IdleReady, CellsAssumption DEF Ready
<1>2. heap[Root].fields[s] \in Cells \cup {None}
  BY <1>1, CellTypes
<1>3. QED
  BY <1>1, <1>2 DEF Old, Shape

\* A new table, userdata or coroutine.
LEMMA NewObjectSweeps ==
    ASSUME IInv, IInv', CInv, NEW s \in 1..2, NEW k, NewObject(k, s)
    PROVE  CInv'
<1> DEFINE c == Min(FreeCells)
<1>1. /\ Program /\ k \in {"table", "userdata", "thread"} /\ k \in uses /\ FreeCells # {}
      /\ heap' = Created(heap, c, k, <<None, None>>, s) /\ AddToChain({c}, c)
      /\ work' = Old(Root, s) /\ UNCHANGED <<table, held, leaked>>
  BY DEF NewObject
<1>2. Idle /\ UNCHANGED <<uses, status>>
  BY <1>1, ProgramOps
<1>3. c \in Cells /\ heap[c].kind = "free"
  BY <1>1, MinFree
<1>a. Listed' = Listed \cup {c}
  BY <1>1, <1>3, ChainMore DEF IInv, TypeInv
<1>4. KindUsed(uses, k, c) /\ FieldFits(heap, k, 1, None) /\ FieldFits(heap, k, 2, None)
  BY <1>1 DEF KindUsed, FieldFits
<1>5. k \in {"table", "userdata", "thread", "class", "instance", "closure"}
  BY <1>1
<1>6. /\ heap \in [Cells -> Cell] /\ heap[Root].kind = "thread"
      /\ heap[Root].fields[s] \in Cells \cup {None} /\ work' = Drop(heap[Root].fields[s])
  BY <1>1, <1>2, RootSlot
<1>7. Untangled(uses) => Tidy(heap, Listed, Objs, uses)
  BY <1>2, IdleTidy
<1> HIDE DEF c
<1>8. QED
  BY <1>1, <1>2, <1>3, <1>a, <1>4, <1>5, <1>6, <1>7, CreatedSweeps

\* A new class with a base, or a new instance.
LEMMA NewDerivedSweeps ==
    ASSUME IInv, IInv', CInv, NEW s \in 1..2, NEW k, NEW from \in OfKind("class") \cup {None},
           NewDerived(k, from, s)
    PROVE  CInv'
<1> DEFINE c == Min(FreeCells)
           b == IF from = None THEN None ELSE heap[from].fields[2]
<1>1. /\ Program /\ k \in {"class", "instance"} /\ FreeCells # {}
      /\ heap' = Created(heap, c, k, <<from, b>>, s) /\ AddToChain({c}, c)
      /\ work' = Old(Root, s) /\ UNCHANGED <<table, held, leaked>>
  BY DEF NewDerived
<1>2. Idle /\ UNCHANGED <<uses, status>>
  BY <1>1, ProgramOps
<1>3. c \in Cells /\ heap[c].kind = "free"
  BY <1>1, MinFree
<1>a. Listed' = Listed \cup {c}
  BY <1>1, <1>3, ChainMore DEF IInv, TypeInv
<1>4. from = None \/ (from \in Cells /\ heap[from].kind = "class")
  BY <1>2, ReachFacts DEF OfKind, Usable
<1>5. b = None \/ b = heap[from].fields[2]
  OBVIOUS
<1>6. /\ heap \in [Cells -> Cell] /\ heap[Root].kind = "thread"
      /\ heap[Root].fields[s] \in Cells \cup {None} /\ work' = Drop(heap[Root].fields[s])
  BY <1>1, <1>2, RootSlot
<1>7. b \in Cells \cup {None}
  <2>1. Shape(heap)
    BY <1>2, IdleReady DEF Ready
  <2>2. CASE from = None
    BY <2>2
  <2>3. CASE from # None
    <3>1. from \in Cells /\ 2 \in 1..2
      BY <2>3, <1>4
    <3>2. heap[from].fields[2] \in Cells \cup {None}
      BY <2>1, <3>1, CellTypes
    <3>3. QED
      BY <3>2, <1>5
  <2>4. QED
    BY <2>2, <2>3
<1>8. from \in Cells \cup {None}
  BY <1>4
<1>9. k \in {"table", "userdata", "thread", "class", "instance", "closure"} /\ k # "userdata"
  BY <1>1
<1>10. Untangled(uses) => Tidy(heap, Listed, Objs, uses)
  BY <1>2, IdleTidy
<1>11. ASSUME Untangled(uses)
       PROVE  KindUsed(uses, k, c) /\ FieldFits(heap, k, 1, from) /\ FieldFits(heap, k, 2, b)
  <2>1. KindUsed(uses, k, c) /\ FieldFits(heap, k, 1, from)
    BY <1>1, <1>4 DEF KindUsed, FieldFits
  <2>2. CASE from = None
    BY <2>1, <2>2 DEF FieldFits
  <2>3. CASE from # None
    <3>1. from \in Cells /\ heap[from].kind = "class" /\ 2 \in 1..2 /\ b = heap[from].fields[2]
      BY <2>3, <1>4
    <3> HIDE DEF b
    <3>2. FieldFits(heap, heap[from].kind, 2, b)
      BY <3>1, <1>10, <1>11 DEF Tidy, CellTidy
    <3>3. b = None \/ (b \in Cells /\ heap[b].kind \notin {"free", "outer"})
      BY <3>1, <3>2 DEF FieldFits
    <3>4. FieldFits(heap, k, 2, b)
      BY <3>3, ValueFits
    <3>5. QED
      BY <2>1, <3>4
  <2>4. QED
    BY <2>2, <2>3
<1> HIDE DEF b, c
<1>12. QED
  BY <1>1, <1>2, <1>3, <1>a, <1>6, <1>7, <1>8, <1>9, <1>10, <1>11, CreatedSweeps

\* FindOuter: a new open outer.
LEMMA OuterGrows ==
    ASSUME IInv, Idle, NEW o \in Cells, heap[o].kind = "free", NEW th \in Cells, NEW g \in 1..2,
           heap[th].kind = "thread", NEW h, HasOuter(h, o, th, g)
    PROVE  /\ Grows(heap, h, o) /\ h \in [Cells -> Cell] /\ h[o].kind = "outer" /\ h[o].link = None
           /\ \A f \in 1..2 : h[o].fields[f] = None
<1> DEFINE n == [NoCell EXCEPT !.kind = "outer", !.refs = 1, !.open = <<th, g>>]
<1>1. heap \in [Cells -> Cell]
  BY IdleReady DEF Ready, Shape
<1>2. n.kind = "outer" /\ n.link = None /\ n.fields = NoCell.fields
  BY DEF NoCell
<1>3. h = [heap EXCEPT ![o] = n]
  BY DEF HasOuter
<1> HIDE DEF n
<1>4. h[o] = n /\ \A x \in Cells : x # o => h[x] = heap[x]
  BY <1>1, <1>3
<1>5. \A f \in 1..2 : h[o].fields[f] = None
  <2>1. \A f \in 1..2 : f = 1 \/ f = 2
    OBVIOUS
  <2>2. QED
    BY <2>1, <1>2, <1>4, EmptyCell
<1>6. OuterAdded(h, o)
  BY OuterMade
<1>7. Grows(heap, h, o)
  BY <1>2, <1>4 DEF Grows
<1>8. QED
  BY <1>2, <1>4, <1>5, <1>6, <1>7 DEF OuterAdded, Ready, Shape

\* The chain may grow.
LEMMA TidyMore ==
    ASSUME NEW h, NEW ch, NEW ch2, NEW objs, NEW us, Tidy(h, ch, objs, us), ch \subseteq ch2
    PROVE  Tidy(h, ch2, objs, us)
  BY DEF Tidy, CellTidy

\* A new closure with the variable it captures.
LEMMA NewClosureSweeps ==
    ASSUME IInv, IInv', CInv, NEW s \in 1..2, NEW th \in OfKind("thread"), NEW g \in 1..2,
           NewClosure(th, g, s)
    PROVE  CInv'
<1> DEFINE known == {o \in OpenOuters(th) : heap[o].open[2] = g}
           c == Min(FreeCells)
           o == IF known = {} THEN Min(FreeCells \ {c}) ELSE CHOOSE k \in known : TRUE
           otr == [NoCell EXCEPT !.kind = "outer", !.refs = 1, !.open = <<th, g>>]
           h == IF known = {} THEN [heap EXCEPT ![o] = otr] ELSE heap
           ch == IF known = {} THEN Listed \cup {o} ELSE Listed
<1>1. /\ Program /\ "closure" \in uses /\ Cardinality(FreeCells) >= IF known = {} THEN 2 ELSE 1
      /\ heap' = Created(h, c, "closure", <<None, o>>, s)
      /\ IF known = {} THEN AddToChain({c, o}, o) ELSE AddToChain({c}, c)
      /\ work' = Old(Root, s) /\ UNCHANGED <<table, held, leaked>>
  BY DEF NewClosure
<1>2. Idle /\ UNCHANGED <<uses, status>>
  BY <1>1, ProgramOps
<1>3. /\ heap \in [Cells -> Cell] /\ heap[Root].kind = "thread" /\ Root \in Cells
      /\ heap[Root].fields[s] \in Cells \cup {None} /\ work' = Drop(heap[Root].fields[s])
  BY <1>1, <1>2, RootSlot
<1>4. th \in Cells /\ heap[th].kind = "thread"
  BY <1>2, ReachFacts DEF OfKind, Usable
<1>5. IsFiniteSet(FreeCells)
  BY CellsAssumption, FS_Subset DEF FreeCells
<1>6. FreeCells # {}
  <2>1. Cardinality({}) = 0
    BY FS_EmptySet
  <2>2. Cardinality(FreeCells) >= 1
    BY <1>1, <1>5, FS_CardinalityType
  <2>3. QED
    BY <2>1, <2>2
<1>7. c \in Cells /\ heap[c].kind = "free" /\ c \in FreeCells
  BY <1>6, MinFree
<1> HIDE DEF c
<1>8. Untangled(uses) => Tidy(heap, Listed, Objs, uses)
  BY <1>2, IdleTidy
<1>9. /\ h \in [Cells -> Cell] /\ h[c].kind = "free" /\ h[Root].kind = "thread"
      /\ o \in Cells /\ h[o].kind = "outer" /\ (Untangled(uses) => Tidy(h, ch, Objs, uses))
  <2>1. CASE known = {}
    <3>1. FreeCells \ {c} # {}
      <4>1. SUFFICES ASSUME FreeCells \ {c} = {} PROVE FALSE
        OBVIOUS
      <4>2. FreeCells = {c}
        BY <4>1, <1>7
      <4>3. Cardinality(FreeCells) = 1
        BY <4>2, FS_Singleton
      <4>4. QED
        BY <4>3, <2>1, <1>1
    <3>2. Min(FreeCells \ {c}) \in FreeCells \ {c}
      BY <3>1, MinFree
    <3>3. o \in FreeCells \ {c}
      BY <2>1, <3>2
    <3>4. o \in Cells /\ heap[o].kind = "free" /\ o # c
      BY <3>3 DEF FreeCells, Live
    <3> HIDE DEF o
    <3>5. HasOuter(h, o, th, g)
      BY <2>1 DEF HasOuter
    <3> HIDE DEF h
    <3>6. /\ Grows(heap, h, o) /\ h \in [Cells -> Cell] /\ h[o].kind = "outer" /\ h[o].link = None
          /\ \A f \in 1..2 : h[o].fields[f] = None
      BY <3>4, <3>5, <1>2, <1>4, OuterGrows
    <3>7. h[c].kind = "free" /\ h[Root].kind = "thread"
      BY <3>4, <3>6, <1>3, <1>7 DEF Grows
    <3>8. KindUsed(uses, h[o].kind, o) /\ \A f \in 1..2 : FieldFits(heap, h[o].kind, f, h[o].fields[f])
      BY <3>6, <1>1 DEF KindUsed, FieldFits
    <3>9. Listed \subseteq ch /\ o \in ch
      BY <2>1
    <3>10. Untangled(uses) => Tidy(h, ch, Objs, uses)
      BY <3>6, <3>8, <3>9, <1>8, TidyGrown
    <3>11. QED
      BY <3>4, <3>6, <3>7, <3>10
  <2>2. CASE known # {}
    <3>1. o \in known
      BY <2>2
    <3>2. o \in Cells /\ heap[o].kind = "outer"
      BY <3>1 DEF OpenOuters, Live
    <3>3. h = heap
      BY <2>2
    <3>4. Untangled(uses) => Tidy(heap, ch, Objs, uses)
      BY <1>8, <2>2
    <3> HIDE DEF o, h
    <3>5. QED
      BY <3>2, <3>3, <3>4, <1>3, <1>7
  <2>3. QED
    BY <2>1, <2>2
<1>10. Listed' = ch \cup {c}
  <2>1. ListsOK /\ {c, o} \in SUBSET Cells /\ {c} \in SUBSET Cells
    BY <1>7, <1>9 DEF IInv, TypeInv
  <2> HIDE DEF o, h
  <2>2. CASE known = {}
    <3>1. Listed' = Listed \cup {c, o}
      BY <2>1, <2>2, <1>1, ChainMore
    <3>2. QED
      BY <3>1, <2>2
  <2>3. CASE known # {}
    <3>1. Listed' = Listed \cup {c}
      BY <2>1, <2>3, <1>1, ChainMore
    <3>2. QED
      BY <3>1, <2>3
  <2>4. QED
    BY <2>2, <2>3
<1> HIDE DEF o, h, ch
<1>11. KindUsed(uses, "closure", c) /\ FieldFits(h, "closure", 1, None) /\ FieldFits(h, "closure", 2, o)
  BY <1>1, <1>9 DEF KindUsed, FieldFits
<1>12. heap' = Created(h, c, "closure", <<None, o>>, s) /\ UNCHANGED table /\ o \in Cells \cup {None}
  BY <1>1, <1>9
<1>13. QED
  BY <1>2, <1>3, <1>7, <1>9, <1>10, <1>11, <1>12, CreatedSweeps

\* A method, copied for its class.
LEMMA AddMethodSweeps ==
    ASSUME IInv, IInv', CInv, NEW k \in OfKind("class"), NEW c \in OfKind("closure"), AddMethod(k, c)
    PROVE  CInv'
<1> DEFINE a == heap[k].fields[1]
           b == heap[c].fields[2]
<1>1. Program /\ work' = Old(k, 2) /\ UNCHANGED <<table, held, leaked>>
  BY DEF AddMethod
<1>2. Idle /\ UNCHANGED <<uses, status>>
  BY <1>1, ProgramOps
<1>3. /\ k \in Cells /\ heap[k].kind = "class" /\ c \in Cells /\ heap[c].kind = "closure"
      /\ 1 \in 1..2 /\ 2 \in 1..2
  BY <1>2, ReachFacts DEF OfKind, Usable
<1>4. PICK new, n, h2 :
          /\ Places(heap, h2, new, n, a, b) /\ IsNew(n, "closure", 0, a, b) /\ n.open = <<>>
          /\ heap' = Stored(h2, k, 2, new) /\ Listed' = Listed \cup {new}
  BY MethodPlaces
<1>5. heap[new].kind = "free"
  BY <1>4 DEF Places
<1>6. Shape(heap)
  BY <1>2, IdleReady DEF Ready
<1>7. heap[k].fields[2] \in Cells \cup {None} /\ work' = Drop(heap[k].fields[2])
  <2>1. heap[k].fields[2] \in Cells \cup {None}
    BY <1>3, <1>6, CellTypes
  <2>2. QED
    BY <2>1, <1>1 DEF Old
<1>8. Objs' = Objs
  BY <1>1, SameObjs
<1>9. ASSUME Untangled(uses) PROVE Tidy(heap', Listed', Objs', uses)
  <2>1. Tidy(heap, Listed, Objs, uses)
    BY <1>2, <1>9, IdleTidy
  <2>2. FieldFits(heap, heap[k].kind, 1, a) /\ FieldFits(heap, heap[c].kind, 2, b)
    BY <2>1, <1>3 DEF Tidy, CellTidy
  <2>3. KindUsed(uses, heap[c].kind, c)
    BY <2>1, <1>3 DEF Tidy, CellTidy
  <2> HIDE DEF a, b
  <2>4. FieldFits(heap, "closure", 1, a) /\ FieldFits(heap, "closure", 2, b) /\ KindUsed(uses, "closure", new)
    BY <2>2, <2>3, <1>3 DEF FieldFits, KindUsed
  <2>5. k # new
    BY <1>3, <1>5
  <2>6. Tidy(Stored(h2, k, 2, new), Listed \cup {new}, Objs, uses)
    BY <2>1, <2>4, <2>5, <1>3, <1>4, TidyPlaced
  <2>7. QED
    BY <2>6, <1>4, <1>8
<1>10. QED
  BY <1>2, <1>7, <1>9, TidyDrop

-----------------------------------------------------------------------------
(* A collection, and the end of the VM.                                    *)

\* The first turn of a collection: ch is what has not been marked in h, todo what
\* is left in the list that _gc_chain heads, x the first object of it.
LEMMA FirstTurn ==
    ASSUME NEW h, NEW h2, NEW ch, NEW q, NEW m, NEW objs, NEW us, NEW x \in ch \cup {None},
           NEW todo, Apart(us) => todo = ch,
           Shape(h), ChainOK(h, ch), Tidy(h, Cells, objs, us), "collect" \in us,
           h[Root].marked, \A c \in objs : Lasts(h, c),
           \A c \in Cells, f \in 1..2 :
               h[c].marked /\ h[c].fields[f] # None => Lasts(h, h[c].fields[f]),
           \A c \in Cells : h[c].kind \in Kinds \ {"outer"} => c \in ch \/ h[c].marked,
           Counted(h, h2, x), SweepPile(q, m, x, "unmark", None), NextTurn(h2, q, m, ch, todo, x)
    PROVE  SweepInv(h2, ch, q, m, objs, "open", us)
<1>1. \A c \in Cells : /\ h2[c].kind = h[c].kind /\ h2[c].marked = h[c].marked
                       /\ h2[c].link = h[c].link /\ h2[c].fields = h[c].fields
  BY DEF Counted, SameBody
<1>2. m \in Nat \ {0} /\ 1 \in 1..m /\ (\A k \in 1..m : k = 1 \/ k \in 2..m) /\ m > 0
  <2>1. m \in Nat \ {0}
    BY DEF SweepPile
  <2>2. QED
    BY <2>1
<1>3. /\ x = None => q[1].op = "unmark" /\ q[1].ending = ""
      /\ x # None => q[1].op = "advance" /\ q[1].cell = x
      /\ x # None => x \in Cells /\ h[x].kind \in Kinds /\ ~h[x].marked
  BY DEF SweepPile, ChainOK
<1>4. \A k \in 2..m : x # None /\ q[k].cell = x /\ q[k].op \in {"closeouters", "null"}
  BY DEF SweepPile, ClearsOnly
<1>5. Tidy(h2, Cells, objs, us)
  BY <1>1, TidySame
<1>6. \A c \in Cells : CellTidy(h2, Cells, objs, us, c)
  BY <1>5 DEF Tidy
<1>7. KindsOK(h2, objs)
  BY <1>6 DEF CellTidy, KindsOK, FieldOK, FieldFits
<1>8. UsesOK(h2, q, m, us)
  BY <1>6 DEF UsesOK, CellTidy, KindUsed
<1>9. Covered(h2, ch, q, m, us)
  BY <1>1 DEF Covered, Owed
<1>10. UnchainsOK(q, m)
  <2>1. \A k \in 1..m : q[k].op # "unchain"
    BY <1>2, <1>3, <1>4
  <2>2. QED
    BY <2>1 DEF UnchainsOK
<1>11. \A c \in Cells : Lasts(h, c) => Lasts(h2, c)
  BY <1>1 DEF Lasts
<1>12. MarkedOK(h2, q, m, objs)
  <2>1. h2[Root].marked /\ \A c \in objs : Lasts(h2, c)
    BY <1>1, <1>11, CellsAssumption DEF Tidy
  <2>2. ASSUME NEW c \in Cells, NEW f \in 1..2, h2[c].marked, h2[c].fields[f] # None
        PROVE  Lasts(h2, h2[c].fields[f])
    <3>1. h[c].fields[f] \in Cells \cup {None}
      BY CellTypes
    <3>2. QED
      BY <3>1, <2>2, <1>1, <1>11
  <2>3. ASSUME NEW k \in 1..m, q[k].op = "closeouters" PROVE ~h2[q[k].cell].marked
    <3>1. x # None /\ q[k].cell = x
      BY <2>3, <1>2, <1>3, <1>4
    <3>2. QED
      BY <3>1, <1>1, <1>3
  <2>4. QED
    BY <2>1, <2>2, <2>3 DEF MarkedOK
<1>13. SweptOK(h2, ch, q, m, us)
  <2>1. SUFFICES ASSUME Apart(us), NEW c \in Cells, h2[c].kind \in Kinds \ {"outer"}, ~h2[c].marked
                 PROVE  Swept(h2, ch, q, m, c)
    BY DEF SweptOK
  <2>2. c \in ch /\ c \in todo
    BY <2>1, <1>1
  <2>3. x # None
    BY <2>2 DEF NextTurn
  <2>4. CASE c = x
    BY <2>3, <2>4 DEF NextTurn, Swept
  <2>5. CASE c # x
    BY <2>2, <2>3, <2>5, <1>3 DEF NextTurn, Swept
  <2>6. QED
    BY <2>4, <2>5
<1>14. PinOK(h2, q, m)
  BY <1>1, <1>3 DEF PinOK
<1>15. TableGone(q, m, objs, "open") /\ AllGone(h2, ch, m, objs, "open", us)
  BY DEF TableGone, AllGone
<1>16. QED
  BY <1>7, <1>8, <1>9, <1>10, <1>12, <1>13, <1>14, <1>15 DEF SweepInv

\* The heap in which what can be reached is marked.
LEMMA MarkedTidy ==
    ASSUME IInv, Idle, Tidy(heap, Listed, Objs, uses), "collect" \in uses,
           NEW h, h = [c \in Cells |-> [heap[c] EXCEPT !.marked = c \in RunMark]]
    PROVE  /\ Tidy(h, Cells, Objs, uses) /\ h[Root].marked
           /\ \A c \in Objs : Lasts(h, c)
           /\ \A c \in Cells, f \in 1..2 :
                 h[c].marked /\ h[c].fields[f] # None => Lasts(h, h[c].fields[f])
           /\ \A c \in Cells : h[c].kind \in Kinds \ {"outer"} => c \in Listed \ RunMark \/ h[c].marked
<1>1. Shape(heap) /\ heap \in [Cells -> Cell] /\ heap[Root].kind = "thread" /\ Root \in Cells
  BY IdleReady, CellsAssumption DEF Ready, Shape
<1>2. Root \in Collectable
  BY <1>1 DEF Collectable, Live
<1>3. MarkFrom \subseteq RunMark /\ \A c \in RunMark : MarkSucc(c) \subseteq RunMark
  BY <1>2, MarkClosed
<1>4. ASSUME NEW c \in Cells
      PROVE  /\ h[c].kind = heap[c].kind /\ h[c].fields = heap[c].fields
             /\ h[c].link = heap[c].link /\ (h[c].marked <=> c \in RunMark)
  <2> DEFINE b == c \in RunMark
  <2>1. h[c] = [heap[c] EXCEPT !.marked = b] /\ b \in BOOLEAN /\ heap[c] \in Cell
    BY <1>1
  <2> HIDE DEF b
  <2>2. /\ h[c].kind = heap[c].kind /\ h[c].fields = heap[c].fields
        /\ h[c].link = heap[c].link /\ h[c].marked = b
    BY <2>1 DEF Cell
  <2>3. QED
    BY <2>2 DEF b
<1>5. \A c \in Objs : c \in Cells /\ heap[c].kind # "free"
  BY DEF Tidy
<1>6. \A c \in Cells : CellTidy(heap, Listed, Objs, uses, c)
  BY DEF Tidy
<1>7. \A c \in Cells : heap[c].kind \in Kinds \cup {"weakref", "free"}
  BY <1>1, CellTypes
<1>8. \A c \in Cells : heap[c].kind # "free" => heap[c].kind = "weakref" \/ c \in Collectable
  BY DEF Collectable, Live
<1>9. Tidy(h, Cells, Objs, uses)
  <2>1. Listed \subseteq Cells
    BY IdleReady DEF ChainOK
  <2>2. Tidy(heap, Cells, Objs, uses)
    BY <2>1, TidyMore
  <2>3. QED
    BY <2>2, <1>4, TidySame
<1>10. ASSUME NEW c \in Objs PROVE Lasts(h, c)
  <2>1. heap[c].kind = "weakref" \/ c \in MarkFrom
    BY <1>5, <1>8 DEF MarkFrom
  <2>2. QED
    BY <2>1, <1>3, <1>4, <1>5 DEF Lasts
<1>11. ASSUME NEW c \in Cells, NEW f \in 1..2, h[c].marked, h[c].fields[f] # None
       PROVE  Lasts(h, h[c].fields[f])
  <2> DEFINE v == heap[c].fields[f]
  <2>1. c \in RunMark /\ h[c].fields[f] = v /\ v # None
    BY <1>4, <1>11
  <2>2. v \in Cells /\ heap[v].kind # "free"
    BY <2>1, <1>6 DEF CellTidy, FieldFits
  <2>3. v \in Collectable => v \in MarkSucc(c)
    BY <2>1 DEF MarkSucc, Refers
  <2> HIDE DEF v
  <2>4. heap[v].kind = "weakref" \/ v \in RunMark
    BY <2>1, <2>2, <2>3, <1>3, <1>8
  <2>5. QED
    BY <2>1, <2>2, <2>4, <1>4 DEF Lasts
<1>12. ASSUME NEW c \in Cells, h[c].kind \in Kinds \ {"outer"} PROVE c \in Listed \ RunMark \/ h[c].marked
  <2>1. Owed(heap, uses, c)
    BY <1>4, <1>12 DEF Owed
  <2>2. c \in Listed
    BY <2>1, <1>6 DEF CellTidy
  <2>3. QED
    BY <2>2, <1>4
<1>13. h[Root].marked
  BY <1>1, <1>3, <1>4 DEF MarkFrom
<1>14. QED
  BY <1>9, <1>10, <1>11, <1>12, <1>13

\* CollectGarbage marks and begins its sweep.
LEMMA CollectSweeps ==
    ASSUME IInv, IInv', CInv, LInv, CollectGarbage
    PROVE  CInv'
<1> DEFINE dead == Listed \ RunMark
           h == [c \in Cells |-> [heap[c] EXCEPT !.marked = c \in RunMark]]
           q == Pile(work')
           m == Len(work')
<1>1. /\ Program /\ "collect" \in uses /\ UNCHANGED <<table, held, leaked>>
      /\ RemoveFromChain(RunMark, MarkTurns)
      /\ \/ chain' = {} /\ heap' = h /\ work' = <<Task("unmark", None)>>
         \/ \E c \in chain' : /\ heap' = AddRefTo(h, c)
                              /\ work' = FinalizeTasks(c) \o <<NextTask(c, chain' \ {c}, "unmark")>>
  BY DEF CollectGarbage
<1>2. Idle /\ UNCHANGED <<uses, status>>
  BY <1>1, ProgramOps
<1>3. Shape(h) /\ ChainOK(h, dead)
  BY <1>2, MarkedHeap
<1>4. ChainOK(heap, Listed)
  BY <1>2, IdleReady
<1>5. h \in [Cells -> Cell]
  BY <1>3 DEF Shape
<1>6. dead \subseteq Cells
  BY <1>4 DEF ChainOK
<1>0. Listed' = dead /\ chain' \subseteq dead /\ (Apart(uses) => chain' = dead)
  <2>1. Root \in Collectable
    BY <1>2, IdleReady, CellsAssumption DEF Ready, Collectable, Live
  <2>2. RunMark \subseteq Cells
    BY <2>1, MarkBound DEF Collectable, Live
  <2>3. ListsOK /\ MarkTurns \in [Cells -> Nat]
    BY <2>2, TurnsTyped DEF IInv, TypeInv
  <2>4. /\ Listed' = dead /\ ListsOK'
        /\ lost = {} => lost' = {} /\ chain' = chain \ RunMark
    BY <2>3, <1>1, ChainLeft
  <2>5. chain' \subseteq Listed'
    BY <2>4 DEF Listed, ListsOK, Lists
  <2>6. lost = {} => chain = Listed
    BY <2>3, OneList
  <2>7. QED
    BY <2>4, <2>5, <2>6 DEF LInv
<1>7. Shape(heap')
  BY DEF IInv, HeapInv
<1>8. ASSUME Untangled(uses)
      PROVE  /\ Tidy(h, Cells, Objs, uses) /\ h[Root].marked
             /\ \A c \in Objs : Lasts(h, c)
             /\ \A c \in Cells, f \in 1..2 :
                   h[c].marked /\ h[c].fields[f] # None => Lasts(h, h[c].fields[f])
             /\ \A c \in Cells : h[c].kind \in Kinds \ {"outer"} => c \in dead \/ h[c].marked
  <2>1. Tidy(heap, Listed, Objs, uses)
    BY <1>2, <1>8, IdleTidy
  <2>2. QED
    BY <2>1, <1>1, <1>2, MarkedTidy
<1>9. \A c \in Cells : h[c].kind = heap[c].kind
  <2>1. heap \in [Cells -> Cell]
    BY <1>2, IdleReady DEF Ready, Shape
  <2> SUFFICES ASSUME NEW c \in Cells PROVE h[c].kind = heap[c].kind
    OBVIOUS
  <2> DEFINE b == c \in RunMark
  <2>2. h[c] = [heap[c] EXCEPT !.marked = b] /\ b \in BOOLEAN /\ heap[c] \in Cell
    BY <2>1
  <2> HIDE DEF b, h
  <2>3. QED
    BY <2>2 DEF Cell
<1> HIDE DEF h
<1>10. PICK x \in dead \cup {None} :
          Counted(h, heap', x) /\ SweepPile(q, m, x, "unmark", None) /\ NextTurn(heap', q, m, dead, chain', x)
  <2>1. CASE chain' = {} /\ heap' = h /\ work' = <<Task("unmark", None)>>
    <3>1. Drop(None) = <<>>
      BY DEF Drop
    <3>2. work' = EndTasks(None, Task("unmark", None))
      <4>1. <<Task("unmark", None)>> \in Seq({Task("unmark", None)})
        OBVIOUS
      <4>2. <<>> \o <<Task("unmark", None)>> = <<Task("unmark", None)>>
        BY <4>1, ConcatEmptySeq
      <4>3. QED
        BY <4>2, <3>1, <2>1 DEF EndTasks
    <3>3. /\ work' \in Seq(TaskType)
          /\ \A r, k : Piled(r, k, work') => SweepPile(r, k, None, "unmark", None)
      BY <3>2, EndPiled
    <3>4. Piled(q, m, work')
      BY <3>3, PileIs
    <3>5. h = AddRefTo(h, None)
      BY DEF AddRefTo
    <3>6. Counted(h, heap', None)
      BY <3>5, <2>1, <1>5, AddRefToCounts
    <3> HIDE DEF q, m
    <3>7. SweepPile(q, m, None, "unmark", None) /\ NextTurn(heap', q, m, dead, chain', None)
      BY <2>1, <3>3, <3>4 DEF NextTurn
    <3>8. QED
      BY <3>6, <3>7
  <2>2. ASSUME NEW c \in chain', heap' = AddRefTo(h, c),
               work' = FinalizeTasks(c) \o <<NextTask(c, chain' \ {c}, "unmark")>>
        PROVE  /\ Counted(h, heap', c) /\ SweepPile(q, m, c, "unmark", None)
               /\ NextTurn(heap', q, m, dead, chain', c)
    <3> DEFINE F == FinalizeTasks(c)
               S == chain' \ {c}
               t == NextTask(c, S, "unmark")
    <3>1. c \in Cells /\ heap[c].kind \in Kinds /\ c # None
      BY <1>0, <1>4, NoneAssumption DEF ChainOK
    <3>2. Finalizes(F, c) /\ F \in Seq(TaskType) /\ FinalizesAll(F, heap[c].kind)
      BY <3>1, FinalizeShape, FinalizeAll DEF Finalizes
    <3> HIDE DEF F
    <3>3. Drop(None) = <<>> /\ <<>> \o F = F
      BY <3>2, ConcatEmptySeq DEF Drop
    <3>4. work' = TurnTasks(None, F, t)
      BY <3>3, <2>2 DEF TurnTasks, F
    <3>5. S \in SUBSET Cells
      BY <1>0, <1>6
    <3>6. /\ work' \in Seq(TaskType)
          /\ \A r, k : Piled(r, k, work') => SweepPile(r, k, c, "unmark", None)
      BY <3>1, <3>2, <3>4, <3>5, TurnPiled
    <3>7. Piled(q, m, work')
      BY <3>6, PileIs
    <3>8. Counted(h, heap', c)
      BY <2>2, <3>1, <1>5, AddRefToCounts
    <3> HIDE DEF q, m, S
    <3>9. SweepPile(q, m, c, "unmark", None)
      BY <3>6, <3>7
    <3>10. IsNext(t, c, S, "unmark")
      BY <3>1, <3>5, NextFacts
    <3>11. t \in TaskType /\ t.todo = S
      BY <3>10 DEF IsNext
    <3> HIDE DEF t
    <3>12. Piled(q, m, TurnTasks(None, F, t))
      BY <3>4, <3>7
    <3>13. q[1] = t /\ AllPending(q, m, F, c)
      <4>1. t \in TaskType /\ None \in Cells \cup {None}
        BY <3>11
      <4>2. QED
        BY <4>1, <3>1, <3>2, <3>12, TurnHolds
    <3>14. FinalizesAll(F, heap'[c].kind)
      BY <3>1, <3>2, <3>8, <1>9 DEF Counted, SameBody
    <3>15. Finalized(heap', q, m, c)
      BY <3>1, <3>13, <3>14, <1>7, FinalizePending
    <3>16. NextTurn(heap', q, m, dead, chain', c)
      BY <3>1, <3>11, <3>13, <3>15 DEF NextTurn, S
    <3>17. QED
      BY <3>8, <3>9, <3>16
  <2>3. QED
    BY <2>1, <2>2, <1>0, <1>1
<1>11. Objs' = Objs /\ status = "open"
  BY <1>1, <1>2, SameObjs DEF Idle
<1> HIDE DEF q, m, dead
<1>12. ASSUME Untangled(uses) PROVE SweepInv(heap', dead, q, m, Objs, "open", uses)
  BY <1>0, <1>1, <1>3, <1>8, <1>10, <1>12, FirstTurn
<1>13. QED
  BY <1>0, <1>1, <1>2, <1>11, <1>12 DEF CInv, q, m

\* sq_close begins.
LEMMA CloseSweeps ==
    ASSUME IInv, CInv, sq_close
    PROVE  CInv'
<1> DEFINE q == Pile(work')
           m == Len(work')
<1>1. /\ Idle /\ status' = "closing" /\ UNCHANGED <<heap, lists, Listed, table, held, leaked, uses, ops>>
  BY ListsSame DEF sq_close
<1>2. ClosePile(q, m)
  BY CloseTasks
<1>3. Objs' = Objs
  BY <1>1, SameObjs
<1> HIDE DEF q, m
<1>4. /\ m \in Nat /\ 3 \in 1..m
      /\ q[1].op = "sweepall" /\ q[1].ending = "" /\ q[2].op = "reftable" /\ q[3].op = "drop"
      /\ \A k \in 4..m : q[k].op \in {"closeouters", "null"}
  BY <1>2 DEF ClosePile, IsTask, ClearsOnly
<1>5. 2 \in 1..m /\ \A k \in 1..m : k = 1 \/ k = 2 \/ k = 3 \/ k \in 4..m
  <2>1. m \in Nat /\ 3 \in 1..m
    BY <1>4
  <2>2. QED
    BY ONLY <2>1
<1>6. ~Marking(q, m) /\ ~Sweeping(q, m) /\ PinOK(heap, q, m)
  BY <1>4 DEF Marking, Sweeping, PinOK
<1>7. \A k \in 1..m : q[k].op # "unchain"
  BY <1>4, <1>5
<1>8. ASSUME Untangled(uses) PROVE SweepInv(heap, Listed, q, m, Objs, "closing", uses)
  <2>1. Tidy(heap, Listed, Objs, uses)
    BY <1>1, <1>8, IdleTidy
  <2>2. \A c \in Cells : CellTidy(heap, Listed, Objs, uses, c)
    BY <2>1 DEF Tidy
  <2>3. KindsOK(heap, Objs)
    BY <2>2 DEF CellTidy, KindsOK, FieldOK, FieldFits
  <2>4. Covered(heap, Listed, q, m, uses)
    BY <2>2 DEF CellTidy, Covered
  <2>5. UsesOK(heap, q, m, uses)
    BY <2>2, <1>6 DEF CellTidy, KindUsed, UsesOK
  <2>6. UnchainsOK(q, m) /\ MarkedOK(heap, q, m, Objs) /\ SweptOK(heap, Listed, q, m, uses)
    BY <1>6, <1>7 DEF UnchainsOK, MarkedOK, SweptOK
  <2>7. TableGone(q, m, Objs, "closing") /\ AllGone(heap, Listed, m, Objs, "closing", uses)
    BY <1>4, <1>5 DEF TableGone, AllGone
  <2>8. QED
    BY <2>3, <2>4, <2>5, <2>6, <2>7, <1>6 DEF SweepInv
<1>9. QED
  BY <1>1, <1>3, <1>8 DEF CInv, q, m

-----------------------------------------------------------------------------
(* The whole.                                                              *)

\* A new VM: the root thread is all there is.
LEMMA InitSweeps ==
    ASSUME Init
    PROVE  CInv
<1> DEFINE top == [NoCell EXCEPT !.kind = "thread", !.refs = 1]
<1>1. /\ heap = [c \in Cells |-> IF c = Root THEN top ELSE NoCell]
      /\ Listed = {Root} /\ table = NewTable(RefSlots) /\ work = <<>> /\ status = "open"
  BY CellsAssumption DEF Init, Listed, Lists
<1>2. top.kind = "thread" /\ \A f \in 1..2 : top.fields[f] = None
  BY DEF NoCell
<1>3. NoCell.kind = "free" /\ \A f \in 1..2 : NoCell.fields[f] = None
  BY DEF NoCell
<1> HIDE DEF top, NoCell
<1>4. ASSUME NEW c \in Cells
      PROVE  heap[c].kind = (IF c = Root THEN "thread" ELSE "free") /\ \A f \in 1..2 : heap[c].fields[f] = None
  <2>1. heap[c] = IF c = Root THEN top ELSE NoCell
    BY <1>1
  <2>2. QED
    BY <2>1, <1>2, <1>3
<1>5. \A b \in DOMAIN table : table[b] = {}
  BY <1>1 DEF NewTable
<1>6. Objs = {}
  BY <1>5 DEF Nodes, Objs
<1> DEFINE p == Pile(work)
<1>7. Len(work) = 0
  BY <1>1
<1> HIDE DEF p
<1>8. KindsOK(heap, Objs)
  BY <1>4 DEF KindsOK, OuterOK, FieldOK
<1>9. Covered(heap, Listed, p, 0, uses)
  BY <1>1, <1>4 DEF Covered, Owed, Kinds
<1>10. \A c \in Cells : /\ heap[c].kind \in {"closure", "outer"} => "closure" \in uses
                        /\ heap[c].kind = "thread" => "thread" \in uses \/ c = Root
  BY <1>4
<1>11. 0 \in Nat /\ \A k \in 1..0 : FALSE
  OBVIOUS
<1>12. SweepInv(heap, Listed, p, 0, Objs, "open", uses)
  BY <1>8, <1>9, <1>10, <1>11, QuietInv
<1>13. QED
  BY <1>1, <1>7, <1>12 DEF CInv, p

\* Every step of a running call.
LEMMA WorkSweeps ==
    ASSUME IInv, IInv', CInv, LInv, Work
    PROVE  CInv'
<1>1. CASE DropRef
  BY <1>1, DropRefSweeps
<1>2. CASE NullField
  BY <1>2, NullFieldSweeps
<1>3. CASE Unchain
  BY <1>3, UnchainSweeps
<1>4. CASE RunHook
  BY <1>4, RunHookSweeps
<1>5. CASE FreeCell
  BY <1>5, FreeCellSweeps
<1>6. CASE CloseOuters
  BY <1>6, CloseOutersStops, CloseOutersGoesOn
<1>7. CASE StartSweep
  BY <1>7, StartSweepSweeps
<1>8. CASE Advance
  BY <1>8, AdvanceSweeps
<1>9. CASE Unmark
  BY <1>9, UnmarkSweeps
<1>10. CASE FinalizeTable
  BY <1>10, FinalizeTableSweeps
<1>11. CASE Closed
  BY <1>11, ClosedSweeps
<1>12. CASE ClearField
  BY <1>12, ClearFieldSweeps
<1>13. QED
  BY <1>1, <1>2, <1>3, <1>4, <1>5, <1>6, <1>7, <1>8, <1>9, <1>10, <1>11, <1>12 DEF Work

\* Every step of the program.
LEMMA ProgramSweeps ==
    ASSUME IInv, IInv', CInv, LInv, Idle, ProgramStep
    PROVE  CInv'
<1>1. ASSUME NEW s \in 1..2, NEW k \in Kinds, NewObject(k, s) PROVE CInv'
  BY <1>1, NewObjectSweeps
<1>2. ASSUME NEW s \in 1..2, NEW k \in Kinds, NEW from \in OfKind("class") \cup {None}, NewDerived(k, from, s)
      PROVE  CInv'
  BY <1>2, NewDerivedSweeps
<1>3. ASSUME NEW s \in 1..2, NEW th \in OfKind("thread"), NEW g \in 1..2, NewClosure(th, g, s) PROVE CInv'
  BY <1>3, NewClosureSweeps
<1>4. ASSUME NEW s \in 1..2, NEW c \in Values \cap Collectable, MakeWeakRef(c, s) PROVE CInv'
  BY <1>4, MakeWeakRefSweeps
<1>5. ASSUME NEW s \in 1..2, NEW w \in OfKind("weakref"), Deref(w, s) PROVE CInv'
  BY <1>5, DerefSweeps
<1>6. ASSUME NEW s \in 1..2, NEW c \in Cells, held[c] > 0, PushHandle(c, s) PROVE CInv'
  BY <1>6, PushHandleSweeps
<1>7. ASSUME NEW k \in OfKind("class"), NEW c \in OfKind("closure"), AddMethod(k, c) PROVE CInv'
  BY <1>7, AddMethodSweeps
<1>8. ASSUME NEW t \in Writable, NEW v \in Values \cup {None}, Assign(t[1], t[2], v) PROVE CInv'
  BY <1>8, AssignSweeps
<1>9. ASSUME NEW c \in OfKind("table") \cup OfKind("userdata"), NEW v \in OfKind("table") \cup {None},
             SetDelegate(c, v)
      PROVE  CInv'
  BY <1>9, SetDelegateSweeps
<1>10. ASSUME NEW th \in OfKind("thread"), CloseScope(th) PROVE CInv'
  BY <1>10, CloseScopeSweeps
<1>11. ASSUME NEW c \in Refers(Root) \cup {h \in Cells : held[h] > 0}, TakeHandle(c) PROVE CInv'
  BY <1>11, TakeHandleSweeps
<1>12. ASSUME NEW c \in Cells, held[c] > 0, DropHandle(c) \/ ForgetHandle(c) PROVE CInv'
  BY <1>12, DropHandleSweeps, ForgetHandleSweeps
<1>13. ASSUME CollectGarbage PROVE CInv'
  BY <1>13, CollectSweeps
<1>14. ASSUME sq_close PROVE CInv'
  BY <1>14, CloseSweeps
<1>15. QED
  BY <1>1, <1>2, <1>3, <1>4, <1>5, <1>6, <1>7, <1>8, <1>9, <1>10, <1>11, <1>12, <1>13, <1>14
  DEF ProgramStep

\* Nothing happens.
LEMMA StutterSweeps ==
    ASSUME CInv, UNCHANGED vars
    PROVE  CInv'
<1>1. /\ heap' = heap /\ Listed' = Listed /\ table' = table
      /\ work' = work /\ uses' = uses /\ status' = status
  BY DEF vars, Listed, Lists
<1>2. Objs' = Objs
  BY <1>1, SameObjs
<1>3. QED
  BY <1>1, <1>2 DEF CInv

\* The end of a collection, in a program that does not mix captures with it: every
\* object has been reached.
LEMMA EndMarked ==
    ASSUME IInv, CInv, Apart(uses), Doing("unmark")
    PROVE  \A c \in Cells : heap[c].kind \in Kinds => heap[c].marked
<1> DEFINE p == Pile(work)
           n == Len(work)
<1>1. Untangled(uses)
  BY DEF Apart, Untangled
<1>2. SweepInv(heap, Listed, p, n, Objs, status, uses) /\ HeapInv(heap, Listed, p, n, Objs, status)
  BY <1>1 DEF CInv, IInv
<1>3. work # <<>> /\ Head(work).op = "unmark"
  BY DEF Doing
<1>4. n \in Nat \ {0} /\ p[n] = Head(work) /\ TaskOK(heap, p, n, status, n)
  BY <1>3, WorkTop
<1> HIDE DEF p, n
<1>5. p[n].op = "unmark"
  BY <1>3, <1>4, Zenon
<1>6. n = 1
  BY <1>4, <1>5 DEF TaskOK
<1>7. Ending(p, n) /\ Marking(p, n)
  BY <1>5, <1>6 DEF Ending, Marking
<1>8. UsesOK(heap, p, n, uses)
  BY <1>2 DEF SweepInv
<1>9. \A c \in Cells : heap[c].kind # "outer"
  BY <1>7, <1>8 DEF UsesOK, Apart
<1>10. \A c \in Cells : heap[c].kind \in Kinds \ {"outer"} => heap[c].marked
  BY <1>2, <1>7, EndClean
<1>11. QED
  BY <1>9, <1>10

\* The end of a collection leaves no list but the one of what has been reached.
LEMMA UnmarkLoses ==
    ASSUME IInv, CInv, Apart(uses), Unmark
    PROVE  lost' = {}
<1>1. Doing("unmark") /\ lost' = Lists \ {{}}
  BY DEF Unmark
<1>2. \A c \in Cells : heap[c].kind \in Kinds => heap[c].marked
  BY <1>1, EndMarked
<1>3. ChainOK(heap, Listed) /\ ListsOK
  BY DEF IInv, HeapInv, TypeInv
<1>4. Listed = {}
  BY <1>2, <1>3 DEF ChainOK
<1>5. \A l \in Lists : l \subseteq Listed
  BY <1>3 DEF ListsOK, Listed
<1>6. QED
  BY <1>1, <1>4, <1>5

\* A RemoveFromChain loses no list when there is one list.
LEMMA RemoveLoses ==
    ASSUME NEW gone, NEW turn, RemoveFromChain(gone, turn), lost = {}
    PROVE  lost' = {}
  BY DEF RemoveFromChain, Lists

\* No step loses a list, in a program that does not mix captures and collections.
LEMMA OneListKept ==
    ASSUME IInv, CInv, LInv, [Next]_vars
    PROVE  LInv'
<1> DEFINE Same == uses' = uses /\ lost' = lost
<1>1. Same => LInv'
  BY DEF LInv
<1> HIDE DEF Same
<1>2. CASE UNCHANGED vars
  BY <1>1, <1>2 DEF vars, Same
<1>3. CASE DropRef \/ NullField \/ ClearField \/ RunHook \/ FreeCell
  <2>1. Same
    BY <1>3 DEF DropRef, NullField, ClearField, RunHook, FreeCell, lists, Same
  <2>2. QED
    BY <2>1, <1>1
<1>4. CASE CloseOuters \/ StartSweep \/ Advance \/ FinalizeTable \/ Closed
  <2>1. Same
    BY <1>4 DEF CloseOuters, StartSweep, Advance, FinalizeTable, Closed, lists, Same
  <2>2. QED
    BY <2>1, <1>1
<1>5. CASE Unchain
  <2>1. uses' = uses /\ (UNCHANGED lists \/ RemoveFromChain({Here}, [c \in Cells |-> 0]))
    BY <1>5 DEF Unchain
  <2>2. UNCHANGED lists => Same
    BY <2>1 DEF lists, Same
  <2>3. ASSUME RemoveFromChain({Here}, [c \in Cells |-> 0]), lost = {} PROVE lost' = {}
    BY <2>3, RemoveLoses
  <2>4. QED
    BY <2>1, <2>2, <2>3, <1>1 DEF LInv
<1>6. CASE Unmark
  <2>1. uses' = uses
    BY <1>6 DEF Unmark
  <2>2. QED
    BY <2>1, <1>6, UnmarkLoses DEF LInv
<1>7. CASE CollectGarbage
  <2>1. uses' = uses /\ RemoveFromChain(RunMark, MarkTurns)
    BY <1>7 DEF CollectGarbage, Program
  <2>2. QED
    BY <2>1, RemoveLoses DEF LInv
<1>8. ASSUME NEW s \in 1..2, \E k \in Kinds : NewObject(k, s) \/ \E from \in OfKind("class") \cup {None} : NewDerived(k, from, s)
      PROVE  LInv'
  <2>1. Same
    BY <1>8 DEF NewObject, NewDerived, Program, AddToChain, Same
  <2>2. QED
    BY <2>1, <1>1
<1>9. ASSUME NEW s, NEW th, NEW g, NewClosure(th, g, s) PROVE LInv'
  <2>1. Same
    BY <1>9 DEF NewClosure, Program, AddToChain, Same
  <2>2. QED
    BY <2>1, <1>1
<1>10. ASSUME NEW s, NEW c, MakeWeakRef(c, s) \/ Deref(c, s) \/ PushHandle(c, s) PROVE LInv'
  <2>1. Same
    BY <1>10 DEF MakeWeakRef, Deref, PushHandle, Program, lists, Same
  <2>2. QED
    BY <2>1, <1>1
<1>11. ASSUME NEW k, NEW c, AddMethod(k, c) PROVE LInv'
  <2>1. Same
    BY <1>11 DEF AddMethod, Program, AddToChain, Same
  <2>2. QED
    BY <2>1, <1>1
<1>12. ASSUME NEW c, NEW f, NEW v, Assign(c, f, v) \/ SetDelegate(c, v) PROVE LInv'
  <2>1. Same
    BY <1>12 DEF Assign, SetDelegate, Program, lists, Same
  <2>2. QED
    BY <2>1, <1>1
<1>13. ASSUME NEW c, CloseScope(c) \/ TakeHandle(c) \/ DropHandle(c) \/ ForgetHandle(c) PROVE LInv'
  <2>1. Same
    BY <1>13 DEF CloseScope, TakeHandle, DropHandle, ForgetHandle, Program, lists, Same
  <2>2. QED
    BY <2>1, <1>1
<1>14. CASE sq_close
  <2>1. Same
    BY <1>14 DEF sq_close, lists, Same
  <2>2. QED
    BY <2>1, <1>1
<1>15. ASSUME ProgramStep PROVE LInv'
  BY <1>15, <1>7, <1>8, <1>9, <1>10, <1>11, <1>12, <1>13, <1>14 DEF ProgramStep
<1>16. ASSUME Work PROVE LInv'
  BY <1>16, <1>3, <1>4, <1>5, <1>6 DEF Work
<1>17. QED
  BY <1>2, <1>15, <1>16 DEF Next

\* Together with the invariant of HeapProofs, what a sweep keeps and empties is
\* inductive, and so is that _gc_chain heads the only list.
THEOREM SweepInvariant == Spec => [](IInv /\ CInv /\ LInv)
<1>1. Init => CInv /\ LInv
  BY InitSweeps DEF Init, LInv
<1>2. IInv /\ IInv' /\ CInv /\ LInv /\ [Next]_vars => CInv' /\ LInv'
  BY WorkSweeps, ProgramSweeps, StutterSweeps, OneListKept DEF Next
<1>3. QED
  BY <1>1, <1>2, HeapInvariant, PTL DEF Spec

-----------------------------------------------------------------------------
(* What follows from the invariant.                                        *)

\* During a collection the program reaches marked objects and weak references
\* only: an open outer points to the root thread, whose slots are marked.
LEMMA ReachLasts ==
    ASSUME IInv, CInv, Untangled(uses), status = "open", Marking(Pile(work), Len(work))
    PROVE  \A c \in Reach : c \in Cells /\ Lasts(heap, c)
<1> DEFINE P == {c \in Cells : Lasts(heap, c)}
           from == {Root} \cup {c \in Live : held[c] + leaked[c] > 0}
           p == Pile(work)
           n == Len(work)
<1>1. /\ HandlesInv /\ Shape(heap)
      /\ \A x \in Cells, f \in 1..2 : heap[x].fields[f] # None =>
            heap[x].fields[f] \in Cells /\ heap[heap[x].fields[f]].kind # "free"
  BY InvFacts
<1>2. SweepInv(heap, Listed, p, n, Objs, status, uses)
  BY DEF CInv
<1>3. UsesOK(heap, p, n, uses) /\ MarkedOK(heap, p, n, Objs)
  BY <1>2 DEF SweepInv
<1>4. /\ heap[Root].marked /\ \A c \in Objs : Lasts(heap, c)
      /\ \A c \in Cells, f \in 1..2 :
            heap[c].marked /\ heap[c].fields[f] # None => Lasts(heap, heap[c].fields[f])
  BY <1>3 DEF MarkedOK
<1>5. /\ "collect" \in uses
      /\ \A c \in Cells : /\ heap[c].kind = "outer" => "closure" \in uses
                          /\ heap[c].kind = "thread" => "thread" \in uses \/ c = Root
  BY <1>3 DEF UsesOK
<1> HIDE DEF p, n
<1>6. from \subseteq P
  <2>1. Root \in P
    BY <1>4, CellsAssumption DEF Lasts
  <2>2. ASSUME NEW c \in Live, held[c] + leaked[c] > 0 PROVE c \in P
    <3>1. c \in Cells
      BY DEF Live
    <3>2. held[c] \in Nat /\ leaked[c] \in Nat
      BY <3>1, <1>1 DEF HandlesInv
    <3>3. held[c] + leaked[c] # 0
      BY <3>2, <2>2
    <3>4. {x \in Nodes : x.obj = c} # {}
      BY <3>1, <3>3, <1>1 DEF HandlesInv
    <3>5. c \in Objs
      BY <3>4 DEF Objs
    <3>6. QED
      BY <3>1, <3>5, <1>4
  <2>3. QED
    BY <2>1, <2>2
<1>7. ASSUME NEW c \in Cells, NEW f \in 1..2, Lasts(heap, c), heap[c].fields[f] # None
      PROVE  heap[c].fields[f] \in P
  <2>1. CellOK(heap, c) /\ (f = 1 \/ f = 2)
    BY <1>1 DEF Shape
  <2>2. heap[c].marked
    BY <2>1, <1>7 DEF CellOK, Lasts
  <2>3. QED
    BY <2>2, <1>1, <1>4, <1>7
<1>8. ASSUME NEW c \in P PROVE ReachSucc(c) \subseteq P
  <2>1. c \in Cells /\ Lasts(heap, c)
    OBVIOUS
  <2>2. Refers(c) \subseteq P
    BY <2>1, <1>7 DEF Refers
  <2>3. ASSUME heap[c].open # <<>>
        PROVE  {heap[heap[c].open[1]].fields[heap[c].open[2]]} \ {None} \subseteq P
    <3> DEFINE t == heap[c].open[1]
               g == heap[c].open[2]
    <3>1. t \in Cells /\ g \in 1..2
      BY <2>1, <2>3, <1>1, CellTypes
    <3>2. heap[c].kind = "outer" /\ heap[t].kind = "thread"
      BY <2>1, <2>3, <1>1 DEF Shape, CellOK
    <3>3. t = Root
      BY <2>1, <3>1, <3>2, <1>5 DEF Untangled
    <3>4. Lasts(heap, t)
      BY <3>3, <1>4 DEF Lasts
    <3>5. heap[t].fields[g] # None => heap[t].fields[g] \in P
      BY <3>1, <3>4, <1>7
    <3>6. QED
      BY <3>5
  <2>4. QED
    BY <2>2, <2>3 DEF ReachSucc
<1> HIDE DEF P, from
<1>9. Closure(from, ReachSucc) \subseteq P
  BY <1>6, <1>8, ReachBound
<1>10. QED
  BY <1>9 DEF Reach, P, from

\* The collector finalizes what it has not marked.
LEMMA InvSweepsGarbage ==
    ASSUME IInv, CInv, Untangled(uses)
    PROVE  SweepsGarbage
<1> DEFINE p == Pile(work)
           n == Len(work)
<1> SUFFICES ASSUME NEW i \in DOMAIN work, work[i].op = "advance", status = "open"
             PROVE  work[i].cell \notin Reach
  BY DEF SweepsGarbage
<1>1. work \in Seq(TaskType)
  BY InvFacts
<1>2. n \in Nat /\ i \in 1..n
  BY <1>1, LenProperties
<1>3. PICK k \in 1..n : p[k] = work[i]
  <2> DEFINE k == n + 1 - i
  <2>1. k \in 1..n /\ n + 1 - k = i
    BY <1>2
  <2>2. p[k] = work[n + 1 - k]
    BY <2>1 DEF Pile
  <2> HIDE DEF k, p, n
  <2>3. p[k] = work[i]
    BY <2>1, <2>2
  <2>4. QED
    BY <2>1, <2>3
<1>4. HeapInv(heap, Listed, p, n, Objs, status)
  BY DEF IInv
<1>5. SweepInv(heap, Listed, p, n, Objs, status, uses)
  BY DEF CInv
<1> HIDE DEF p, n
<1>6. TaskOK(heap, p, n, status, k) /\ p[k] \in TaskType
  BY <1>3, <1>4 DEF HeapInv, TasksOK
<1>7. p[k].op = "advance" /\ p[k].ending \in {"", "unmark", "closed"}
  BY <1>3, <1>6 DEF TaskType
<1>8. k = 1 /\ p[k].ending # "" /\ p[k].ending # "closed"
  BY <1>6, <1>7 DEF TaskOK
<1>9. n > 0
  BY <1>2
<1>10. Marking(p, n)
  BY <1>7, <1>8, <1>9 DEF Marking
<1>11. heap[p[1].cell].kind \in Kinds /\ ~heap[p[1].cell].marked
  BY <1>5, <1>7, <1>8, <1>9 DEF SweepInv, PinOK
<1>12. ~Lasts(heap, p[1].cell)
  BY <1>11 DEF Lasts, Kinds
<1>13. \A c \in Reach : c \in Cells /\ Lasts(heap, c)
  BY <1>10, ReachLasts DEF p, n
<1>14. QED
  BY <1>3, <1>8, <1>12, <1>13

\* A collection that is over has marked every object that is left.
LEMMA InvCollectsAll ==
    ASSUME IInv, CInv, LInv, Apart(uses)
    PROVE  CollectsAll
<1> DEFINE p == Pile(work)
           n == Len(work)
<1>1. Untangled(uses)
  BY DEF Apart, Untangled
<1>2. UsesOK(heap, p, n, uses)
  BY <1>1 DEF CInv, SweepInv
<1>3. Shape(heap) /\ ChainOK(heap, Listed)
  BY InvFacts
<1>4. \A c \in Collectable : c \in Cells /\ heap[c].kind \in Kinds
  BY <1>3, CellTypes DEF Collectable, Live
<1>5. \A c \in Cells : heap[c].kind = "outer" => "closure" \in uses
  BY <1>2 DEF UsesOK
<1>6. ASSUME Doing("unmark"), NEW c \in Collectable PROVE heap[c].marked
  BY <1>4, <1>6, EndMarked
<1>7. ASSUME Idle PROVE chain = Collectable
  <2>1. Tidy(heap, Listed, Objs, uses)
    BY <1>1, <1>7, IdleTidy
  <2>2. ASSUME NEW c \in Collectable PROVE c \in Listed
    <3>1. c \in Cells /\ heap[c].kind \in Kinds
      BY <1>4
    <3>2. Owed(heap, uses, c)
      BY <3>1, <1>5 DEF Owed, Apart
    <3>3. QED
      BY <3>1, <3>2, <2>1 DEF Tidy, CellTidy
  <2>3. ASSUME NEW c \in Listed PROVE c \in Collectable
    BY <1>3 DEF ChainOK, Collectable, Live, Kinds
  <2>4. chain = Listed
    BY OneList DEF LInv, IInv, TypeInv
  <2>5. QED
    BY <2>2, <2>3, <2>4
<1>8. QED
  BY <1>6, <1>7 DEF CollectsAll

\* sq_close, in programs that do not mix captured variables with collections: when
\* ~SQSharedState is done no object, weak reference or node is left, its
\* assert(_gc_chain==NULL) holds and no list was left aside, whatever was
\* allocated, cyclic or captured, and whichever handles were forgotten.
THEOREM ClosesCleanly == Spec => [](Apart(uses) => ClosesClean)
<1>1. ASSUME IInv, CInv, Apart(uses) PROVE ClosesClean
  <2>1. SUFFICES ASSUME status = "closed" PROVE Live = {} /\ Listed = {} /\ Nodes = {}
    BY DEF ClosesClean
  <2>2. Untangled(uses)
    BY <1>1 DEF Apart, Untangled
  <2>3. AllGone(heap, Listed, Len(work), Objs, status, uses)
    BY <1>1, <2>2 DEF CInv, SweepInv
  <2>4. Listed = {} /\ Objs = {} /\ \A c \in Cells : heap[c].kind = "free"
    BY <2>1, <2>3, <1>1 DEF AllGone
  <2>5. QED
    BY <2>4 DEF Live, Objs
<1>2. QED
  BY <1>1, SweepInvariant, PTL

\* CollectGarbage: what it finalizes cannot be reached from a stack, a handle
\* or a captured variable, unless closures capture the stacks of coroutines;
\* also when RemoveFromChain has left objects in a list that it does not sweep.
THEOREM OnlyGarbageSwept == Spec => [](Untangled(uses) => SweepsGarbage)
<1>1. IInv /\ CInv => (Untangled(uses) => SweepsGarbage)
  BY InvSweepsGarbage
<1>2. QED
  BY <1>1, SweepInvariant, PTL

\* The doc's promise of collectgarbage, in programs without captured variables:
\* all garbage is found, and every object that is left is in _gc_chain; and in
\* programs that never collect, every object is in _gc_chain.
THEOREM CollectionsAreComplete == Spec => [](Apart(uses) => CollectsAll)
<1>1. IInv /\ CInv /\ LInv => (Apart(uses) => CollectsAll)
  BY InvCollectsAll
<1>2. QED
  BY <1>1, SweepInvariant, PTL
=============================================================================
