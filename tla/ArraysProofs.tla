---------------------------- MODULE ArraysProofs ----------------------------
(***************************************************************************)
(* Theorems about Arrays, for every array, every bound and every program.  *)
(***************************************************************************)
EXTENDS Arrays, Induction, SequenceTheorems, FiniteSetTheorems, FunctionTheorems

USE ArraysAssumption

-----------------------------------------------------------------------------
(* The inductive invariant.                                                *)

\* The local variables of a native function have their types.
JobShape(j) ==
    j \in [op : {"sort", "csort", "map", "apply", "filter", "reduce", "ireduce"},
           at : {"next", "call", "sift", "cmp", "lost"}, n : Nat, size : 0..MaxLen, temp : Items,
           out : {j.out}, first : Items, moved : BOOLEAN,
           start : Seq(Items), stage : {"build", "extract"}, root : Nat, bottom : Nat,
           ask : {"", "root", "kids"}, max : Nat]

\* A sort: where it is in _hsort and _hsort_sift_down. The heap it works on is
\* 0..bottom, and the children of root are 2 * root and 2 * root + 1.
SortShape(j) ==
    /\ j.at \in {"sift", "cmp", "call", "lost"} /\ j.size >= 2
    /\ j.root <= j.bottom /\ j.bottom < j.size
    /\ j.stage = "build" => j.bottom = j.size - 1 /\ j.n < j.size
    /\ j.stage = "extract" => j.n = j.bottom + 1
    /\ j.at \in {"cmp", "call"} =>
        /\ j.ask \in {"root", "kids"}
        /\ j.ask = "kids" => j.max = 2 * j.root /\ j.max < j.bottom
        /\ j.ask = "root" => j.max \in {2 * j.root, 2 * j.root + 1} /\ j.max <= j.bottom

\* A loop over the elements: which one it is at, and what it has built.
LoopShape(j) ==
    /\ j.at \in {"next", "call"} /\ j.n <= j.size /\ (j.at = "call" => j.n < j.size)
    /\ IF j.op \in {"reduce", "ireduce"} THEN j.out \in Items ELSE j.out \in Seq(Items)
    /\ j.op = "map" => Len(j.out) = j.size

\* A _cmp has changed the array, and the sort does not know.
Unaware == job.op = "sort" /\ touched

\* Outside of its callback a sort meets the array it knows, unless it is unaware;
\* only then it gets lost.
JobOK ==
    job # Nil =>
        /\ JobShape(job) /\ Len(job.start) = job.size
        /\ IF IsSort(job) THEN SortShape(job) ELSE LoopShape(job)
        /\ IsSort(job) => Len(vals) = job.size \/ Unaware \/ (job.at = "call" /\ touched)
        /\ job.at = "lost" => Unaware

TypeInv ==
    /\ vals \in Seq(Items) /\ Len(vals) <= MaxLen
    /\ cap \in Nat /\ Len(vals) <= cap
    /\ touched \in BOOLEAN /\ steps \in 0..MaxSteps

IInv == TypeInv /\ JobOK

-----------------------------------------------------------------------------
(* Operators on arrays.                                                    *)

\* Swap exchanges two elements and leaves the others.
LEMMA SwapProperties ==
    ASSUME NEW s \in Seq(Items), NEW i \in 0..Len(s) - 1, NEW j \in 0..Len(s) - 1
    PROVE  /\ Swap(s, i, j) \in Seq(Items) /\ Len(Swap(s, i, j)) = Len(s)
           /\ \A k \in 0..Len(s) - 1 :
                 At(Swap(s, i, j), k) = IF k = j THEN At(s, i)
                                        ELSE IF k = i THEN At(s, j) ELSE At(s, k)
<1>1. At(s, i) \in Items /\ At(s, j) \in Items
  BY DEF At
<1> DEFINE r == [s EXCEPT ![i + 1] = At(s, j)]
<1>2. r \in Seq(Items) /\ Len(r) = Len(s)
  BY <1>1
<1>3. [r EXCEPT ![j + 1] = At(s, i)] \in Seq(Items) /\ Len([r EXCEPT ![j + 1] = At(s, i)]) = Len(s)
  BY <1>1, <1>2
<1>4. QED
  BY <1>1, <1>2, <1>3 DEF Swap, SetAt, At

\* What the program does to the array leaves it an array that fits its block.
LEMMA ChangedArrays ==
    ASSUME TypeInv
    PROVE  /\ \A v \in Vals : /\ Append(vals, v) \in Seq(Items)
                              /\ Len(Append(vals, v)) <=
                                    IF cap <= Len(vals) THEN Realloc(2 * Len(vals)) ELSE cap
           /\ vals # <<>> => /\ Front(vals) \in Seq(Items)
                             /\ Len(Front(vals)) <= Shrunk(Len(vals) - 1, cap)
           /\ \A i \in 0..Len(vals), v \in Vals :
                 /\ InsertAt(vals, i + 1, v) \in Seq(Items)
                 /\ Len(InsertAt(vals, i + 1, v)) <= Grown(Len(vals) + 1)
           /\ \A i \in 0..Len(vals) - 1 :
                 /\ RemoveAt(vals, i + 1) \in Seq(Items)
                 /\ Len(RemoveAt(vals, i + 1)) <= Shrunk(Len(vals) - 1, cap)
           /\ \A n \in Nat :
                 LET v == [k \in 1..n |-> IF k <= Len(vals) THEN vals[k] ELSE Nil]
                 IN  v \in Seq(Items) /\ Len(v) <= Shrunk(n, Grown(n))
           /\ Reverse(vals) \in Seq(Items) /\ Len(Reverse(vals)) <= cap
           /\ \A i \in 0..Len(vals) - 1, v \in Vals :
                 SetAt(vals, i, v) \in Seq(Items) /\ Len(SetAt(vals, i, v)) <= cap
<1> USE DEF TypeInv
<1>0. Vals \subseteq Items /\ Len(vals) \in Nat
  BY DEF Items
<1>s. \A n, c \in Nat : n <= c => n <= Shrunk(n, c)
  BY DEF Shrunk
<1>1. ASSUME NEW v \in Vals
      PROVE  /\ Append(vals, v) \in Seq(Items)
             /\ Len(Append(vals, v)) <= IF cap <= Len(vals) THEN Realloc(2 * Len(vals)) ELSE cap
  <2>1. Append(vals, v) \in Seq(Items) /\ Len(Append(vals, v)) = Len(vals) + 1
    BY <1>0
  <2>2. QED
    BY <2>1, <1>0 DEF Realloc
<1>2. ASSUME vals # <<>>
      PROVE  Front(vals) \in Seq(Items) /\ Len(Front(vals)) <= Shrunk(Len(vals) - 1, cap)
  <2>1. Len(vals) - 1 \in Nat /\ \A i \in 1..Len(vals) - 1 : vals[i] \in Items
    BY <1>2, <1>0, EmptySeq
  <2>2. /\ SubSeq(vals, 1, Len(vals) - 1) \in Seq(Items)
        /\ Len(SubSeq(vals, 1, Len(vals) - 1)) = Len(vals) - 1
    <3> DEFINE n == Len(vals) - 1
    <3>1. n \in Int /\ n >= 0 /\ 1 \in Int /\ \A i \in 1..n : vals[i] \in Items
      BY <2>1, <1>0
    <3> HIDE DEF n
    <3>2. SubSeq(vals, 1, n) \in Seq(Items) /\ Len(SubSeq(vals, 1, n)) = IF 1 <= n THEN n - 1 + 1 ELSE 0
      BY <3>1, SubSeqProperties
    <3>3. SubSeq(vals, 1, n) \in Seq(Items) /\ Len(SubSeq(vals, 1, n)) = n
      BY <3>1, <3>2
    <3>4. QED
      BY <3>3 DEF n
  <2>3. Len(vals) - 1 <= Shrunk(Len(vals) - 1, cap)
    BY <2>1, <1>0, <1>s
  <2>4. Front(vals) = SubSeq(vals, 1, Len(vals) - 1)
    BY DEF Front
  <2>5. QED
    BY <2>2, <2>3, <2>4, Zenon
<1>3. ASSUME NEW i \in 0..Len(vals), NEW v \in Vals
      PROVE  /\ InsertAt(vals, i + 1, v) \in Seq(Items)
             /\ Len(InsertAt(vals, i + 1, v)) <= Grown(Len(vals) + 1)
  <2>1. /\ SubSeq(vals, 1, i) \in Seq(Items) /\ Len(SubSeq(vals, 1, i)) = i
        /\ SubSeq(vals, i + 1, Len(vals)) \in Seq(Items)
        /\ Len(SubSeq(vals, i + 1, Len(vals))) = Len(vals) - i
    BY <1>0, SubSeqProperties, ElementOfSeq
  <2>2. <<v>> \in Seq(Items) /\ Len(<<v>>) = 1
    BY <1>0
  <2>3. /\ SubSeq(vals, 1, i) \o <<v>> \in Seq(Items)
        /\ Len(SubSeq(vals, 1, i) \o <<v>>) = i + 1
    BY <2>1, <2>2, ConcatProperties
  <2>4. /\ InsertAt(vals, i + 1, v) \in Seq(Items)
        /\ Len(InsertAt(vals, i + 1, v)) = Len(vals) + 1
    <3> DEFINE a == SubSeq(vals, 1, i) \o <<v>>
               b == SubSeq(vals, i + 1, Len(vals))
    <3>1. (i + 1) - 1 = i /\ (i + 1) + (Len(vals) - i) = Len(vals) + 1
      BY <1>0
    <3>2. InsertAt(vals, i + 1, v) = a \o b
      BY <3>1 DEF InsertAt
    <3>3. a \in Seq(Items) /\ b \in Seq(Items) /\ Len(a) = i + 1 /\ Len(b) = Len(vals) - i
      BY <2>1, <2>3
    <3> HIDE DEF a, b
    <3>4. a \o b \in Seq(Items) /\ Len(a \o b) = Len(a) + Len(b)
      BY <3>3, ConcatProperties
    <3>5. QED
      BY <3>1, <3>2, <3>3, <3>4
  <2>5. QED
    BY <2>4, <1>0 DEF Grown, Realloc
<1>4. ASSUME NEW i \in 0..Len(vals) - 1
      PROVE  /\ RemoveAt(vals, i + 1) \in Seq(Items)
             /\ Len(RemoveAt(vals, i + 1)) <= Shrunk(Len(vals) - 1, cap)
  <2>1. /\ SubSeq(vals, 1, i) \in Seq(Items) /\ Len(SubSeq(vals, 1, i)) = i
        /\ SubSeq(vals, i + 2, Len(vals)) \in Seq(Items)
        /\ Len(SubSeq(vals, i + 2, Len(vals))) = Len(vals) - i - 1
    BY <1>0, SubSeqProperties, ElementOfSeq
  <2>2. (i + 1) - 1 = i /\ (i + 1) + 1 = i + 2 /\ i + (Len(vals) - i - 1) = Len(vals) - 1
    BY <1>0
  <2>3. RemoveAt(vals, i + 1) = SubSeq(vals, 1, i) \o SubSeq(vals, i + 2, Len(vals))
    BY <2>2 DEF RemoveAt
  <2> DEFINE a == SubSeq(vals, 1, i)
             b == SubSeq(vals, i + 2, Len(vals))
  <2> HIDE DEF a, b
  <2>4. a \o b \in Seq(Items) /\ Len(a \o b) = Len(a) + Len(b)
    BY <2>1, ConcatProperties DEF a, b
  <2>5. RemoveAt(vals, i + 1) \in Seq(Items) /\ Len(RemoveAt(vals, i + 1)) = Len(vals) - 1
    <3>1. RemoveAt(vals, i + 1) = a \o b /\ Len(a) = i /\ Len(b) = Len(vals) - i - 1
      BY <2>1, <2>3 DEF a, b
    <3>2. QED
      BY <3>1, <2>2, <2>4
  <2>6. QED
    BY <2>5, <1>0, <1>s
<1>5. ASSUME NEW n \in Nat
      PROVE  LET v == [k \in 1..n |-> IF k <= Len(vals) THEN vals[k] ELSE Nil]
             IN  v \in Seq(Items) /\ Len(v) <= Shrunk(n, Grown(n))
  <2> DEFINE v == [k \in 1..n |-> IF k <= Len(vals) THEN vals[k] ELSE Nil]
  <2>1. \A k \in 1..n : (IF k <= Len(vals) THEN vals[k] ELSE Nil) \in Items
    BY <1>0 DEF Items
  <2>2. v \in Seq(Items) /\ Len(v) = n
    BY <2>1
  <2>3. n <= Shrunk(n, Grown(n))
    BY DEF Shrunk, Grown, Realloc
  <2>4. QED
    BY <2>2, <2>3
<1>6. Reverse(vals) \in Seq(Items) /\ Len(Reverse(vals)) <= cap
  <2>1. \A k \in 1..Len(vals) : vals[(Len(vals) - k) + 1] \in Items
    BY <1>0
  <2>2. QED
    BY <2>1, <1>0 DEF Reverse
<1>7. ASSUME NEW i \in 0..Len(vals) - 1, NEW v \in Vals
      PROVE  SetAt(vals, i, v) \in Seq(Items) /\ Len(SetAt(vals, i, v)) <= cap
  BY <1>0, ExceptSeq DEF SetAt
<1>8. QED
  BY <1>1, <1>2, <1>3, <1>4, <1>5, <1>6, <1>7

-----------------------------------------------------------------------------
(* Every step keeps the invariant.                                         *)

\* A change of the program, also in a callback.
LEMMA ChangeKeeps ==
    ASSUME IInv, NEW v \in Seq(Items), NEW c \in Nat, Len(v) <= c, Change(v, c)
    PROVE  IInv'
<1> USE DEF IInv, Change, Waiting
<1>1. TypeInv'
  BY DEF TypeInv
<1>2. CASE job' = job
  <2>1. JobOK'
    BY <1>2 DEF JobOK, IsSort, JobShape, SortShape, LoopShape, Unaware
  <2>2. QED
    BY <1>1, <2>1
<1>3. CASE job # Nil /\ \E m \in {TRUE, job.moved} : job' = [job EXCEPT !.moved = m]
  <2>1. PICK m \in BOOLEAN : job' = [job EXCEPT !.moved = m]
    BY <1>3 DEF JobOK, JobShape
  <2>2. JobShape(job)
    BY <1>3 DEF JobOK
  <2>3. JobShape(job')
    BY <2>1, <2>2 DEF JobShape
  <2>4. /\ job'.op = job.op /\ job'.at = job.at /\ job'.n = job.n /\ job'.size = job.size
        /\ job'.out = job.out /\ job'.start = job.start /\ job'.stage = job.stage
        /\ job'.root = job.root /\ job'.bottom = job.bottom /\ job'.ask = job.ask
        /\ job'.max = job.max
    BY <2>1, <2>2 DEF JobShape
  <2>5. JobOK'
    BY <1>3, <2>3, <2>4 DEF JobOK, IsSort, SortShape, LoopShape, Unaware
  <2>6. QED
    BY <1>1, <2>5
<1>4. QED
  BY <1>1, <1>2, <1>3

\* The cases of Start.
StartsAs(op, job2, last2) ==
    \/ /\ op \in {"sort", "csort"} /\ Len(vals) > 1 /\ last2 = Nil
       /\ job2 = [NewJob(op) EXCEPT !.at = "sift", !.n = Len(vals) \div 2,
                         !.root = Len(vals) \div 2, !.bottom = Len(vals) - 1]
    \/ /\ op = "reduce" /\ vals # <<>> /\ last2 = Nil
       /\ job2 = [NewJob(op) EXCEPT !.n = 1, !.out = At(vals, 0), !.first = At(vals, 0)]
    \/ /\ op = "ireduce" /\ last2 = Nil
       /\ \E v \in Vals \cup {Nil} : job2 = [NewJob(op) EXCEPT !.out = v, !.first = v]
    \/ op \in {"map", "apply", "filter"} /\ job2 = NewJob(op) /\ last2 = Nil

\* A native function starts: it returns at once, or its loop begins.
LEMMA StartCases ==
    ASSUME NEW op \in Ops, Start(op), Len(vals) \in Nat
    PROVE  /\ job = Nil /\ steps < MaxSteps /\ steps' = steps + 1 /\ touched' = FALSE
           /\ vals' = vals /\ cap' = cap
           /\ \/ op \in {"sort", "csort"} /\ Len(vals) <= 1 /\ Finish(NewJob(op), <<>>, vals)
              \/ op = "reduce" /\ vals = <<>> /\ Finish(NewJob(op), Nil, vals)
              \/ StartsAs(op, job', last')
<1>0. /\ job = Nil /\ steps < MaxSteps /\ steps' = steps + 1 /\ touched' = FALSE
      /\ vals' = vals /\ cap' = cap
  BY Zenon DEF Start
<1>1. op \in {"sort", "csort", "map", "apply", "filter", "reduce", "ireduce"}
  BY ArraysAssumption
<1>2. CASE op \in {"sort", "csort"} /\ Len(vals) <= 1
  <2>1. op # "reduce" /\ op # "ireduce" /\ ~(Len(vals) > 1)
    BY <1>2
  <2>2. Finish(NewJob(op), <<>>, vals)
    BY <1>2, <2>1, Zenon DEF Start
  <2>3. QED
    BY <1>0, <1>2, <2>2
<1>3. CASE op \in {"sort", "csort"} /\ Len(vals) > 1
  <2>1. op # "reduce" /\ op # "ireduce" /\ ~(Len(vals) <= 1)
    BY <1>3
  <2>2. /\ last' = Nil
        /\ job' = [NewJob(op) EXCEPT !.at = "sift", !.n = Len(vals) \div 2,
                         !.root = Len(vals) \div 2, !.bottom = Len(vals) - 1]
    BY <1>3, <2>1, Zenon DEF Start
  <2>3. QED
    BY <1>0, <1>3, <2>2, Zenon DEF StartsAs
<1>4. CASE op = "reduce" /\ vals = <<>>
  <2>1. op \notin {"sort", "csort"} /\ op # "ireduce"
    BY <1>4
  <2>2. Finish(NewJob(op), Nil, vals)
    BY <1>4, <2>1, Zenon DEF Start
  <2>3. QED
    BY <1>0, <1>4, <2>2
<1>5. CASE op = "reduce" /\ vals # <<>>
  <2>1. op \notin {"sort", "csort"} /\ op # "ireduce"
    BY <1>5
  <2>2. /\ last' = Nil
        /\ job' = [NewJob(op) EXCEPT !.n = 1, !.out = At(vals, 0), !.first = At(vals, 0)]
    BY <1>5, <2>1, Zenon DEF Start
  <2>3. QED
    BY <1>0, <1>5, <2>2, Zenon DEF StartsAs
<1>6. CASE op = "ireduce"
  <2>1. op \notin {"sort", "csort"} /\ op # "reduce"
    BY <1>6
  <2>2. /\ last' = Nil
        /\ \E v \in Vals \cup {Nil} : job' = [NewJob(op) EXCEPT !.out = v, !.first = v]
    BY <1>6, <2>1, Zenon DEF Start
  <2>3. QED
    BY <1>0, <1>6, <2>2, Zenon DEF StartsAs
<1>7. CASE op \in {"map", "apply", "filter"}
  <2>1. op \notin {"sort", "csort"} /\ op # "reduce" /\ op # "ireduce"
    BY <1>7
  <2>2. job' = NewJob(op) /\ last' = Nil
    BY <1>7, <2>1, Zenon DEF Start
  <2>3. QED
    BY <1>0, <1>7, <2>2, Zenon DEF StartsAs
<1>8. \/ op \in {"sort", "csort"} /\ (Len(vals) <= 1 \/ Len(vals) > 1)
      \/ op = "reduce" \/ op = "ireduce" \/ op \in {"map", "apply", "filter"}
  <2>1. Len(vals) <= 1 \/ Len(vals) > 1
    OBVIOUS
  <2>2. QED
    BY <1>1, <2>1
<1>9. QED
  BY <1>2, <1>3, <1>4, <1>5, <1>6, <1>7, <1>8, Zenon

\* A native function starts.
LEMMA StartKeeps ==
    ASSUME IInv, NEW op \in Ops, Start(op)
    PROVE  IInv'
<1> USE DEF IInv
<1>0. /\ vals \in Seq(Items) /\ Len(vals) \in 0..MaxLen /\ Len(vals) \in Nat
      /\ vals' = vals /\ cap' = cap /\ Nil \in Items
      /\ touched' = FALSE /\ steps < MaxSteps /\ steps' = steps + 1
  <2>1. vals \in Seq(Items) /\ Len(vals) \in 0..MaxLen /\ Len(vals) \in Nat /\ Nil \in Items
    BY DEF TypeInv, Items
  <2>2. QED
    BY <2>1, StartCases
<1>1. TypeInv'
  <2>1. touched' \in BOOLEAN
    BY <1>0, Zenon
  <2>2. steps' \in 0..MaxSteps
    BY <1>0 DEF TypeInv
  <2>3. QED
    BY <1>0, <2>1, <2>2 DEF TypeInv
<1> DEFINE j == NewJob(op)
<1>2. JobShape(j) /\ j.op = op /\ j.size = Len(vals) /\ j.start = vals /\ j.at = "next" /\ j.n = 0
  <2>1. op \in {"sort", "csort", "map", "apply", "filter", "reduce", "ireduce"}
    OBVIOUS
  <2>2. JobShape(j)
    BY <1>0, <2>1 DEF JobShape, NewJob
  <2>3. QED
    BY <2>2 DEF NewJob
<1>3. CASE job' = Nil
  BY <1>1, <1>3 DEF JobOK
<1>4. CASE /\ op \in {"sort", "csort"} /\ Len(vals) > 1
           /\ job' = [j EXCEPT !.at = "sift", !.n = Len(vals) \div 2,
                               !.root = Len(vals) \div 2, !.bottom = Len(vals) - 1]
  <2>1. Len(vals) \div 2 \in Nat /\ Len(vals) \div 2 <= Len(vals) - 1 /\ Len(vals) - 1 \in Nat
    BY <1>0, <1>4
  <2>2. JobShape(job')
    BY <1>2, <1>4, <2>1 DEF JobShape
  <2>3. /\ job'.op = op /\ job'.size = Len(vals) /\ job'.start = vals /\ job'.at = "sift"
        /\ job'.n = Len(vals) \div 2 /\ job'.root = Len(vals) \div 2
        /\ job'.bottom = Len(vals) - 1 /\ job'.stage = "build"
    BY <1>4 DEF NewJob
  <2>4. JobOK'
    BY <1>0, <1>4, <2>1, <2>2, <2>3 DEF JobOK, IsSort, SortShape
  <2>5. QED
    BY <1>1, <2>4
<1>5. CASE op = "reduce" /\ vals # <<>> /\ job' = [j EXCEPT !.n = 1, !.out = At(vals, 0), !.first = At(vals, 0)]
  <2>1. At(vals, 0) \in Items /\ Len(vals) >= 1
    BY <1>0, <1>5, EmptySeq DEF At
  <2>2. JobShape(job')
    BY <1>0, <1>2, <1>5, <2>1, ZenonT(30) DEF JobShape
  <2>3. /\ job'.op = op /\ job'.size = Len(vals) /\ job'.start = vals /\ job'.at = "next"
        /\ job'.n = 1 /\ job'.out = At(vals, 0)
    BY <1>5 DEF NewJob
  <2>4. JobOK'
    BY <1>0, <1>5, <2>1, <2>2, <2>3 DEF JobOK, IsSort, LoopShape
  <2>5. QED
    BY <1>1, <2>4
<1>r. CASE op = "ireduce" /\ \E v \in Vals \cup {Nil} : job' = [j EXCEPT !.out = v, !.first = v]
  <2>1. PICK v \in Items : job' = [j EXCEPT !.out = v, !.first = v]
    BY <1>0, <1>r DEF Items
  <2>2. JobShape(job')
    BY <1>0, <1>2, <2>1, ZenonT(30) DEF JobShape
  <2>3. /\ job'.op = op /\ job'.size = Len(vals) /\ job'.start = vals /\ job'.at = "next"
        /\ job'.n = 0 /\ job'.out = v
    BY <2>1 DEF NewJob
  <2>4. JobOK'
    BY <1>0, <1>r, <2>1, <2>2, <2>3 DEF JobOK, IsSort, LoopShape
  <2>5. QED
    BY <1>1, <2>4
<1>6. CASE op \notin {"sort", "csort", "reduce", "ireduce"} /\ job' = j
  <2>1. j.out \in Seq(Items) /\ (op = "map" => Len(j.out) = Len(vals))
    <3>1. [k \in 1..Len(vals) |-> Nil] \in Seq(Items) /\ Len([k \in 1..Len(vals) |-> Nil]) = Len(vals)
      BY <1>0
    <3>2. QED
      BY <3>1 DEF NewJob
  <2>2. JobOK'
    BY <1>0, <1>2, <1>6, <2>1 DEF JobOK, IsSort, LoopShape
  <2>3. QED
    BY <1>1, <2>2
<1>7. QED
  <2>1. CASE \E r : Finish(j, r, vals)
    BY <1>3, <2>1 DEF Finish, Ended
  <2>2. CASE StartsAs(op, job', last')
    <3>1. CASE op \in {"map", "apply", "filter"} /\ job' = j
      BY <1>6, <3>1
    <3> HIDE DEF j
    <3>2. QED
      BY <1>4, <1>5, <1>r, <2>2, <3>1 DEF StartsAs, j
  <2>3. QED
    BY <1>0, <2>1, <2>2, StartCases

\* The fields of a job.
LEMMA JobFields ==
    ASSUME NEW j, JobShape(j)
    PROVE  /\ j.op \in {"sort", "csort", "map", "apply", "filter", "reduce", "ireduce"}
           /\ j.n \in Nat /\ j.size \in 0..MaxLen /\ j.size \in Nat /\ j.temp \in Items
           /\ j.first \in Items /\ j.start \in Seq(Items)
           /\ j.stage \in {"build", "extract"} /\ j.root \in Nat /\ j.bottom \in Nat
           /\ j.ask \in {"", "root", "kids"} /\ j.max \in Nat
<1>0. j.size \in 0..MaxLen
  BY DEF JobShape
<1>1. j.size \in Nat
  BY <1>0
<1>2. j.first \in Items
  BY DEF JobShape
<1>3. j.n \in Nat /\ j.root \in Nat /\ j.bottom \in Nat /\ j.max \in Nat
  BY DEF JobShape
<1>4. j.temp \in Items /\ j.start \in Seq(Items)
  BY DEF JobShape
<1>5. j.op \in {"sort", "csort", "map", "apply", "filter", "reduce", "ireduce"}
  BY DEF JobShape
<1>6. j.stage \in {"build", "extract"} /\ j.ask \in {"", "root", "kids"}
  BY DEF JobShape
<1>7. QED
  BY <1>0, <1>1, <1>2, <1>3, <1>4, <1>5, <1>6, Zenon

\* A sort that leaves the array is unaware of its length.
LEMMA LostKeeps ==
    ASSUME JobShape(job), IsSort(job), SortShape(job), Len(job.start) = job.size,
           touched' = touched, Unaware, Lost(job)
    PROVE  vals' = vals /\ JobOK'
<1>1. job' = [job EXCEPT !.at = "lost"] /\ vals' = vals
  BY DEF Lost
<1>2. JobShape(job')
  BY <1>1 DEF JobShape
<1>3. /\ job'.op = job.op /\ job'.at = "lost" /\ job'.n = job.n /\ job'.root = job.root
      /\ job'.bottom = job.bottom /\ job'.size = job.size /\ job'.start = job.start
      /\ job'.stage = job.stage
  BY <1>1 DEF JobShape
<1>4. SortShape(job')
  BY <1>3 DEF SortShape
<1>5. QED
  BY <1>1, <1>2, <1>3, <1>4 DEF JobOK, IsSort, Unaware

\* _hsort goes on to the next element, or ends.
LEMMA NextSiftKeeps ==
    ASSUME JobShape(job), IsSort(job), SortShape(job), Len(job.start) = job.size,
           vals \in Seq(Items), Len(vals) = job.size \/ Unaware, touched' = touched,
           NextSift(job)
    PROVE  vals' \in Seq(Items) /\ Len(vals') = Len(vals) /\ JobOK'
<1>0. /\ job.n \in Nat /\ job.size \in Nat /\ job.size >= 2 /\ job.stage \in {"build", "extract"}
      /\ job.bottom \in Nat
  BY JobFields DEF SortShape
<1>1. CASE job' = Nil /\ vals' = vals
  BY <1>1 DEF JobOK
<1>2. CASE /\ job.stage = "build" /\ job.n > 0 /\ vals' = vals
           /\ job' = [job EXCEPT !.at = "sift", !.n = @ - 1, !.root = job.n - 1,
                                 !.bottom = job.size - 1]
  <2>1. job.n - 1 \in Nat /\ job.size - 1 \in Nat /\ job.n < job.size
    BY <1>0, <1>2 DEF SortShape
  <2>2. JobShape(job')
    BY <1>2, <2>1 DEF JobShape
  <2>3. /\ job'.op = job.op /\ job'.at = "sift" /\ job'.n = job.n - 1 /\ job'.root = job.n - 1
        /\ job'.bottom = job.size - 1 /\ job'.size = job.size /\ job'.start = job.start
        /\ job'.stage = "build"
    BY <1>2 DEF JobShape
  <2>4. SortShape(job')
    BY <1>0, <1>2, <2>1, <2>3 DEF SortShape
  <2>5. JobOK'
    BY <1>2, <2>2, <2>3, <2>4 DEF JobOK, IsSort, Unaware
  <2>6. QED
    BY <1>2, <2>5
<1> DEFINE i == IF job.stage = "build" THEN job.size - 1 ELSE job.n - 1
<1>3. CASE /\ i >= 1 /\ In(vals, i)
           /\ job' = [job EXCEPT !.at = "sift", !.stage = "extract", !.n = i, !.root = 0,
                                 !.bottom = i - 1]
           /\ vals' = Swap(vals, 0, i)
  <2>1. i \in Nat /\ i < job.size /\ i - 1 \in Nat /\ i \in 0..Len(vals) - 1 /\ 0 \in 0..Len(vals) - 1
    BY <1>0, <1>3, SMTT(30) DEF SortShape, In
  <2> HIDE DEF i
  <2>3. vals' \in Seq(Items) /\ Len(vals') = Len(vals)
    <3>1. Swap(vals, 0, i) \in Seq(Items) /\ Len(Swap(vals, 0, i)) = Len(vals)
      BY <2>1, SwapProperties, Zenon
    <3>2. QED
      BY <1>3, <3>1
  <2>4. JobShape(job')
    BY <1>3, <2>1 DEF JobShape
  <2>5. /\ job'.op = job.op /\ job'.at = "sift" /\ job'.n = i /\ job'.root = 0
        /\ job'.bottom = i - 1 /\ job'.size = job.size /\ job'.start = job.start
        /\ job'.stage = "extract"
    BY <1>3 DEF JobShape
  <2>6. SortShape(job')
    BY <1>0, <1>3, <2>1, <2>5, SMTT(30) DEF SortShape
  <2>7. JobOK'
    BY <2>3, <2>4, <2>5, <2>6 DEF JobOK, IsSort, Unaware
  <2>8. QED
    BY <2>3, <2>7
<1>4. CASE i >= 1 /\ ~In(vals, i) /\ Lost(job)
  <2>1. i < job.size /\ Len(vals) \in Nat
    BY <1>0, <1>4 DEF SortShape
  <2>2. Unaware
    BY <1>0, <1>4, <2>1 DEF In
  <2>3. QED
    BY <1>4, <2>2, LostKeeps
<1>5. QED
  BY <1>1, <1>2, <1>3, <1>4 DEF NextSift, Finish, Ended

\* A comparison has been answered, with the array as it was before, or another
\* one that the sort does not know.
LEMMA ComparedKeeps ==
    ASSUME IInv, job # Nil, IsSort(job), job.at \in {"cmp", "call"},
           Len(vals) = job.size \/ Unaware, touched' = touched,
           NEW ret \in {-1, 0, 1}, Compared(ret)
    PROVE  vals' \in Seq(Items) /\ Len(vals') = Len(vals) /\ JobOK'
<1>0. /\ JobShape(job) /\ SortShape(job) /\ Len(job.start) = job.size /\ vals \in Seq(Items)
      /\ job.n \in Nat /\ job.size \in Nat /\ job.max \in Nat /\ job.root \in Nat
      /\ job.bottom \in Nat
  BY JobFields DEF IInv, JobOK, TypeInv
<1>1. CASE /\ job.ask = "kids" /\ vals' = vals
           /\ job' = [job EXCEPT !.at = "cmp", !.ask = "root", !.moved = FALSE,
                                 !.max = IF ret > 0 THEN @ ELSE @ + 1]
  <2>1. PICK m \in {job.max, job.max + 1} :
            job' = [job EXCEPT !.at = "cmp", !.ask = "root", !.moved = FALSE, !.max = m]
    BY <1>0, <1>1 DEF JobShape
  <2>2. JobShape(job')
    <3>1. m \in Nat
      BY <1>0
    <3>2. QED
      BY <1>0, <2>1, <3>1 DEF JobShape
  <2>3. /\ job'.op = job.op /\ job'.at = "cmp" /\ job'.n = job.n /\ job'.root = job.root
        /\ job'.bottom = job.bottom /\ job'.size = job.size /\ job'.start = job.start
        /\ job'.stage = job.stage /\ job'.ask = "root" /\ job'.max = m
    BY <1>0, <2>1 DEF JobShape
  <2>4. m \in {2 * job.root, 2 * job.root + 1} /\ m <= job.bottom
    BY <1>0, <1>1, <2>1 DEF SortShape
  <2>5. SortShape(job')
    BY <1>0, <2>3, <2>4 DEF SortShape
  <2>6. JobOK'
    BY <1>0, <1>1, <2>2, <2>3, <2>5 DEF JobOK, IsSort, Unaware
  <2>7. QED
    BY <1>0, <1>1, <2>6
<1>2. CASE NextSift(job)
  BY <1>0, <1>2, NextSiftKeeps
<1>3. CASE job' = Nil /\ vals' = vals
  BY <1>0, <1>3 DEF JobOK
<1>4. CASE /\ job.ask # "kids" /\ vals' = Swap(vals, job.root, job.max)
           /\ In(vals, job.root) /\ In(vals, job.max)
           /\ job' = [job EXCEPT !.root = job.max, !.at = "sift"]
  <2>1. /\ job.max <= job.bottom /\ job.bottom < job.size
        /\ job.max \in 0..Len(vals) - 1 /\ job.root \in 0..Len(vals) - 1
    BY <1>0, <1>4, SMTT(30) DEF SortShape, In
  <2>2. vals' \in Seq(Items) /\ Len(vals') = Len(vals)
    BY <1>0, <1>4, <2>1, SwapProperties
  <2>3. JobShape(job')
    BY <1>0, <1>4 DEF JobShape
  <2>4. /\ job'.op = job.op /\ job'.at = "sift" /\ job'.n = job.n /\ job'.root = job.max
        /\ job'.bottom = job.bottom /\ job'.size = job.size /\ job'.start = job.start
        /\ job'.stage = job.stage
    BY <1>0, <1>4 DEF JobShape
  <2>5. SortShape(job')
    BY <1>0, <2>1, <2>4 DEF SortShape
  <2>6. JobOK'
    BY <1>0, <2>2, <2>3, <2>4, <2>5 DEF JobOK, IsSort, Unaware
  <2>7. QED
    BY <2>2, <2>6
<1>5. CASE /\ job.ask # "kids" /\ ~(In(vals, job.root) /\ In(vals, job.max)) /\ Lost(job)
  <2>1. /\ job.max <= job.bottom /\ job.bottom < job.size /\ job.root <= job.bottom
        /\ Len(vals) \in Nat
    BY <1>0, <1>5, SMTT(30) DEF SortShape
  <2>2. Unaware
    BY <1>0, <1>5, <2>1 DEF In
  <2>3. QED
    BY <1>0, <1>5, <2>2, LostKeeps
<1>6. QED
  BY <1>1, <1>2, <1>3, <1>4, <1>5 DEF Compared, Fail, Ended

\* A native function goes on by itself.
LEMMA SiftDownKeeps ==
    ASSUME IInv, SiftDown
    PROVE  IInv'
<1>0. /\ JobShape(job) /\ IsSort(job) /\ SortShape(job) /\ Len(job.start) = job.size
      /\ vals \in Seq(Items) /\ (Len(vals) = job.size \/ Unaware) /\ touched' = touched
      /\ job.root \in Nat /\ job.bottom \in Nat /\ job # Nil
  BY JobFields DEF IInv, JobOK, TypeInv, SiftDown, LoopShape
<1>1. ASSUME vals' \in Seq(Items), Len(vals') = Len(vals)
      PROVE  TypeInv'
  BY <1>1 DEF SiftDown, IInv, TypeInv
<1>2. CASE 2 * job.root > job.bottom
  <2>1. NextSift(job)
    BY <1>2 DEF SiftDown
  <2>2. QED
    BY <1>0, <1>1, <2>1, NextSiftKeeps DEF IInv
<1>3. CASE ~(2 * job.root > job.bottom)
  <2>1. PICK a \in {"root", "kids"} :
            /\ a = (IF 2 * job.root = job.bottom THEN "root" ELSE "kids")
            /\ job' = [job EXCEPT !.at = "cmp", !.moved = FALSE, !.max = 2 * job.root, !.ask = a]
            /\ vals' = vals
    BY <1>3 DEF SiftDown
  <2>2. JobShape(job')
    <3>1. 2 * job.root \in Nat
      BY <1>0
    <3>2. QED
      BY <1>0, <2>1, <3>1, ZenonT(30) DEF JobShape
  <2>3. /\ job'.op = job.op /\ job'.at = "cmp" /\ job'.n = job.n /\ job'.root = job.root
        /\ job'.bottom = job.bottom /\ job'.size = job.size /\ job'.start = job.start
        /\ job'.stage = job.stage /\ job'.ask = a /\ job'.max = 2 * job.root
    BY <1>0, <2>1 DEF JobShape
  <2>4. SortShape(job')
    BY <1>0, <1>3, <2>1, <2>3 DEF SortShape
  <2>5. JobOK'
    BY <1>0, <2>1, <2>2, <2>3, <2>4 DEF JobOK, IsSort, Unaware
  <2>6. QED
    BY <1>0, <1>1, <2>1, <2>5 DEF IInv
<1>4. QED
  BY <1>2, <1>3

\* A comparison begins, and returns with an answer or without.
LEMMA CompareKeeps ==
    ASSUME IInv, Compare \/ CompareReturns
    PROVE  IInv'
<1>0. /\ job # Nil /\ IsSort(job) /\ job.at \in {"cmp", "call"}
      /\ vals \in Seq(Items) /\ Len(vals) <= MaxLen /\ Len(vals) <= cap /\ cap' = cap
      /\ steps' = steps /\ touched' = touched
  <2>1. CASE Compare
    <3>1. job # Nil /\ job.at = "cmp" /\ JobOK
      BY <2>1 DEF Compare, IInv
    <3>2. IsSort(job)
      BY <3>1 DEF JobOK, LoopShape
    <3>3. QED
      BY <2>1, <3>1, <3>2 DEF Compare, IInv, TypeInv
  <2>2. CASE CompareReturns
    BY <2>2 DEF CompareReturns, Waiting, IInv, TypeInv
  <2>3. QED
    BY <2>1, <2>2
<1>s. /\ JobShape(job) /\ SortShape(job) /\ Len(job.start) = job.size
      /\ job.root \in Nat /\ job.bottom \in Nat /\ job.max \in Nat /\ job.size \in Nat
  BY <1>0, JobFields DEF IInv, JobOK
<1>2. ASSUME vals' \in Seq(Items), Len(vals') = Len(vals)
      PROVE  TypeInv'
  BY <1>0, <1>2 DEF IInv, TypeInv
<1>3. ASSUME NEW ret \in {-1, 0, 1}, Compared(ret), Len(vals) = job.size \/ Unaware
      PROVE  IInv'
  BY <1>0, <1>2, <1>3, ComparedKeeps DEF IInv
<1>4. CASE Compare
  <2> DEFINE a == At(vals, Asked(job)[1])
             b == At(vals, Asked(job)[2])
             here == In(vals, Asked(job)[1]) /\ In(vals, Asked(job)[2])
  <2>1. job.at = "cmp" /\ (Len(vals) = job.size \/ Unaware)
    BY <1>0, <1>4 DEF Compare, IInv, JobOK
  <2>2. Order(a, b) \in {-1, 0, 1}
    BY DEF Order
  <2>3. CASE ~here /\ Lost(job)
    <3>1. Len(vals) = job.size => here
      BY <1>s, <2>1, SMTT(30) DEF SortShape, Asked, In
    <3>2. vals' = vals /\ JobOK'
      BY <1>0, <1>s, <2>1, <2>3, <3>1, LostKeeps
    <3>3. QED
      BY <1>0, <1>2, <3>2 DEF IInv
  <2>4. CASE job' = [job EXCEPT !.at = "call"] /\ vals' = vals
    <3>1. JobShape(job')
      BY <1>s, <2>4 DEF JobShape
    <3>2. /\ job'.op = job.op /\ job'.at = "call" /\ job'.n = job.n /\ job'.root = job.root
          /\ job'.bottom = job.bottom /\ job'.size = job.size /\ job'.start = job.start
          /\ job'.stage = job.stage /\ job'.ask = job.ask /\ job'.max = job.max
      BY <1>s, <2>4 DEF JobShape
    <3>3. SortShape(job')
      BY <1>s, <2>1, <3>2 DEF SortShape
    <3>4. JobOK'
      <4>1. Len(vals') = job'.size \/ Unaware'
        BY <1>0, <2>1, <2>4, <3>2 DEF Unaware
      <4>2. QED
        BY <1>0, <1>s, <3>1, <3>2, <3>3, <4>1 DEF JobOK, IsSort
    <3>5. QED
      BY <1>0, <1>2, <2>4, <3>4 DEF IInv
  <2>5. CASE job' = Nil /\ vals' = vals
    BY <1>0, <1>2, <2>5 DEF IInv, JobOK
  <2>6. CASE Compared(Order(a, b))
    BY <1>3, <2>1, <2>2, <2>6
  <2>7. QED
    BY <1>4, <2>3, <2>4, <2>5, <2>6 DEF Compare, Fail, Ended
<1>5. CASE CompareReturns
  <2>1. CASE Resized(job)
    <3>1. job' = Nil /\ vals' = vals
      BY <1>5, <2>1 DEF CompareReturns, Fail, Ended
    <3>2. QED
      BY <1>0, <1>2, <3>1 DEF IInv, JobOK
  <2>2. CASE ~Resized(job)
    <3>1. Len(vals) = job.size \/ Unaware
      BY <1>0, <2>2 DEF Resized, IInv, JobOK, IsSort, Unaware
    <3>2. \E ret \in {-1, 0, 1} : Compared(ret)
      BY <1>5, <2>2 DEF CompareReturns
    <3>3. QED
      BY <1>3, <3>1, <3>2
  <2>3. QED
    BY <2>1, <2>2
<1>6. QED
  BY <1>4, <1>5

\* A loop fetches an element, or ends.
LEMMA FetchKeeps ==
    ASSUME IInv, Fetch
    PROVE  IInv'
<1>0. /\ JobShape(job) /\ ~IsSort(job) /\ LoopShape(job) /\ Len(job.start) = job.size
      /\ vals \in Seq(Items) /\ job # Nil /\ job.n \in Nat /\ job.temp \in Items
  BY JobFields DEF IInv, JobOK, TypeInv, Fetch, SortShape
<1>1. TypeInv'
  BY DEF Fetch, IInv, TypeInv
<1>2. CASE job' = Nil
  BY <1>1, <1>2 DEF IInv, JobOK
<1>3. CASE /\ job.n < job.size
           /\ job' = [job EXCEPT !.at = "call",
                          !.temp = IF In(vals, job.n) THEN At(vals, job.n) ELSE @]
  <2>1. PICK t \in Items : job' = [job EXCEPT !.at = "call", !.temp = t]
    <3>1. In(vals, job.n) => At(vals, job.n) \in Items
      BY <1>0 DEF In, At
    <3>2. (IF In(vals, job.n) THEN At(vals, job.n) ELSE job.temp) \in Items
      BY <1>0, <3>1
    <3>3. QED
      BY <1>3, <3>2
  <2>2. JobShape(job')
    BY <1>0, <2>1 DEF JobShape
  <2>3. /\ job'.op = job.op /\ job'.at = "call" /\ job'.n = job.n /\ job'.size = job.size
        /\ job'.start = job.start /\ job'.out = job.out
    BY <1>0, <2>1 DEF JobShape
  <2>4. LoopShape(job')
    BY <1>0, <1>3, <2>3 DEF LoopShape
  <2>5. JobOK'
    BY <1>0, <2>2, <2>3, <2>4 DEF JobOK, IsSort
  <2>6. QED
    BY <1>1, <2>5 DEF IInv
<1>4. QED
  BY <1>2, <1>3 DEF Fetch, Finish, Ended

\* What the callbacks answer are values.
LEMMA Answers ==
    /\ \A v \in Items : Mapped(v) \in Items
    /\ \A a, v \in Items : Folded(a, v) \in Items
<1>1. \A v \in Items : Mapped(v) \in Items
  BY DEF Mapped, Items
<1>2. \A a, v \in Items : Folded(a, v) \in Items
  BY DEF Folded, Items
<1>3. QED
  BY <1>1, <1>2

\* The callback of a loop returns.
LEMMA ReturnedKeeps ==
    ASSUME IInv, Returned
    PROVE  IInv'
<1>0. /\ JobShape(job) /\ ~IsSort(job) /\ LoopShape(job) /\ Len(job.start) = job.size
      /\ vals \in Seq(Items) /\ job # Nil /\ job.n \in Nat /\ job.temp \in Items
      /\ job.op \in {"map", "apply", "filter", "reduce", "ireduce"} /\ job.at = "call" /\ job.size \in Nat
  BY JobFields DEF IInv, JobOK, TypeInv, Returned, Waiting, IsSort
<1>m. Mapped(job.temp) \in Items
  BY <1>0, Answers
<1>1. TypeInv'
  <2>1. vals' \in Seq(Items) /\ Len(vals') = Len(vals)
    <3>1. In(vals, job.n) => /\ SetAt(vals, job.n, Mapped(job.temp)) \in Seq(Items)
                             /\ Len(SetAt(vals, job.n, Mapped(job.temp))) = Len(vals)
      BY <1>0, <1>m, ExceptSeq DEF In, SetAt
    <3>2. QED
      BY <1>0, <3>1 DEF Returned
  <2>2. QED
    BY <2>1 DEF Returned, IInv, TypeInv
<1>2. PICK o : /\ o = CASE job.op = "map" -> SetAt(job.out, job.n, Mapped(job.temp))
                         [] job.op = "filter" -> IF Kept(job.temp) THEN Append(job.out, job.temp)
                                                 ELSE job.out
                         [] job.op \in {"reduce", "ireduce"} -> Folded(job.out, job.temp)
                         [] job.op = "apply" -> <<>>
               /\ job' = [job EXCEPT !.at = "next", !.n = @ + 1, !.out = o]
  BY DEF Returned
<1>3. /\ IF job.op \in {"reduce", "ireduce"} THEN o \in Items ELSE o \in Seq(Items)
      /\ job.op = "map" => Len(o) = job.size
  <2>1. CASE job.op = "map"
    <3>1. job.out \in Seq(Items) /\ Len(job.out) = job.size /\ job.n < job.size
      BY <1>0, <2>1 DEF LoopShape
    <3>2. SetAt(job.out, job.n, Mapped(job.temp)) \in Seq(Items) /\ Len(SetAt(job.out, job.n, Mapped(job.temp))) = job.size
      BY <1>0, <1>m, <3>1, ExceptSeq DEF SetAt
    <3>3. QED
      BY <1>2, <2>1, <3>2
  <2>2. CASE job.op = "filter"
    <3>1. job.out \in Seq(Items)
      BY <1>0, <2>2 DEF LoopShape
    <3>2. o \in Seq(Items)
      BY <1>0, <1>2, <2>2, <3>1
    <3>3. QED
      BY <2>2, <3>2
  <2>3. CASE job.op \in {"reduce", "ireduce"}
    BY <1>0, <1>2, <2>3, Answers DEF LoopShape
  <2>4. CASE job.op = "apply"
    BY <1>2, <2>4
  <2>5. QED
    BY <1>0, <2>1, <2>2, <2>3, <2>4
<1>4. JobShape(job')
  <2>1. PICK m \in Nat : m = job.n + 1 /\ job' = [job EXCEPT !.at = "next", !.n = m, !.out = o]
    <3>1. job.n + 1 \in Nat
      BY <1>0
    <3>2. QED
      BY <1>2, <3>1
  <2>2. QED
    BY <1>0, <2>1 DEF JobShape
<1>5. /\ job'.op = job.op /\ job'.at = "next" /\ job'.n = job.n + 1 /\ job'.size = job.size
      /\ job'.start = job.start /\ job'.out = o
  BY <1>0, <1>2 DEF JobShape
<1>6. LoopShape(job')
  BY <1>0, <1>3, <1>5 DEF LoopShape
<1>7. JobOK'
  BY <1>0, <1>4, <1>5, <1>6 DEF JobOK, IsSort
<1>8. QED
  BY <1>1, <1>7 DEF IInv

\* The callback throws.
LEMMA CallbackKeeps ==
    ASSUME IInv, Throws
    PROVE  IInv'
<1>1. TypeInv'
  BY DEF Throws, IInv, TypeInv
<1>2. QED
  BY <1>1 DEF Throws, Fail, Ended, IInv, JobOK

-----------------------------------------------------------------------------
(* The invariant holds.                                                    *)

\* The new array.
LEMMA InitIInv == Init => IInv
<1> SUFFICES ASSUME Init PROVE IInv
  OBVIOUS
<1>1. vals \in Seq(Items) /\ Len(vals) <= MaxLen /\ Len(vals) \in Nat
  BY DEF Init, Items
<1>2. touched \in BOOLEAN
  BY Zenon DEF Init
<1>3. cap \in Nat /\ Len(vals) <= cap /\ steps \in 0..MaxSteps
  BY <1>1 DEF Init, Realloc
<1>4. JobOK
  BY DEF Init, JobOK
<1>5. QED
  BY <1>1, <1>2, <1>3, <1>4 DEF IInv, TypeInv

\* Everything the program does to the array.
LEMMA ProgramKeeps ==
    ASSUME IInv,
           \/ \E v \in Vals : Append_(v)
           \/ Pop
           \/ Reverse_
           \/ \E i \in 0..MaxLen : \/ Remove_(i)
                                   \/ Resize(i)
                                   \/ \E v \in Vals : Insert(i, v) \/ Set(i, v)
    PROVE  IInv'
<1>0. TypeInv /\ vals \in Seq(Items) /\ Len(vals) \in Nat /\ cap \in Nat
  BY DEF IInv, TypeInv
<1>n. \A n, c \in Nat : Shrunk(n, c) \in Nat /\ Grown(n) \in Nat /\ Realloc(n) \in Nat
  BY <1>0 DEF Shrunk, Grown, Realloc
<1>1. ASSUME NEW v \in Vals, Append_(v) PROVE IInv'
  <2>1. (IF cap <= Len(vals) THEN Realloc(2 * Len(vals)) ELSE cap) \in Nat
    <3>1. 2 * Len(vals) \in Nat
      BY <1>0
    <3>2. QED
      BY <1>0, <1>n, <3>1
  <2>2. QED
    BY <1>0, <1>1, <2>1, ChangedArrays, ChangeKeeps DEF Append_
<1>2. ASSUME Pop PROVE IInv'
  <2>1. Shrunk(Len(vals) - 1, cap) \in Nat
    BY <1>0, <1>n, <1>2, EmptySeq DEF Pop
  <2>2. QED
    BY <1>0, <1>2, <2>1, ChangedArrays, ChangeKeeps DEF Pop
<1>3. ASSUME Reverse_ PROVE IInv'
  BY <1>0, <1>3, ChangedArrays, ChangeKeeps DEF Reverse_
<1>4. ASSUME NEW i \in 0..MaxLen, Remove_(i) PROVE IInv'
  <2>1. i \in 0..Len(vals) - 1 /\ Len(vals) - 1 \in Nat
    BY <1>0, <1>4 DEF Remove_, In
  <2>2. Shrunk(Len(vals) - 1, cap) \in Nat
    BY <1>0, <1>n, <2>1
  <2>3. QED
    BY <1>0, <1>4, <2>1, <2>2, ChangedArrays, ChangeKeeps DEF Remove_
<1>5. ASSUME NEW i \in 0..MaxLen, Resize(i) PROVE IInv'
  <2>1. i \in Nat
    OBVIOUS
  <2>2. Shrunk(i, Grown(i)) \in Nat
    BY <1>n, <2>1
  <2>3. QED
    BY <1>0, <1>5, <2>1, <2>2, ChangedArrays, ChangeKeeps DEF Resize
<1>6. ASSUME NEW i \in 0..MaxLen, NEW v \in Vals, Insert(i, v) PROVE IInv'
  <2>1. i \in 0..Len(vals) /\ Len(vals) + 1 \in Nat
    BY <1>0, <1>6 DEF Insert
  <2>2. Grown(Len(vals) + 1) \in Nat
    BY <1>n, <2>1
  <2>3. QED
    BY <1>0, <1>6, <2>1, <2>2, ChangedArrays, ChangeKeeps DEF Insert
<1>7. ASSUME NEW i \in 0..MaxLen, NEW v \in Vals, Set(i, v) PROVE IInv'
  <2>1. i \in 0..Len(vals) - 1
    BY <1>0, <1>7 DEF Set, In
  <2>2. QED
    BY <1>0, <1>7, <2>1, ChangedArrays, ChangeKeeps DEF Set
<1>8. QED
  BY <1>1, <1>2, <1>3, <1>4, <1>5, <1>6, <1>7

\* A step that leaves array and function alone.
LEMMA SameArray ==
    ASSUME IInv, vals' = vals, cap' = cap, job' = job, touched' = touched,
           steps' \in 0..MaxSteps
    PROVE  IInv'
<1>1. TypeInv'
  BY DEF IInv, TypeInv
<1>2. (job' # Nil <=> job # Nil) /\ (JobShape(job') <=> JobShape(job))
  OBVIOUS
<1>3. JobOK'
  BY <1>2 DEF IInv, JobOK, IsSort, SortShape, LoopShape, Unaware
<1>4. QED
  BY <1>1, <1>3 DEF IInv

\* Every step keeps the invariant.
LEMMA NextIInv == IInv /\ [Next]_vars => IInv'
<1> SUFFICES ASSUME IInv, [Next]_vars PROVE IInv'
  OBVIOUS
<1>1. CASE UNCHANGED vars
  BY <1>1, SameArray DEF vars, IInv, TypeInv
<1>2. CASE Iterate \/ IterNext
  <2>1. vals' = vals /\ cap' = cap /\ job' = job /\ touched' = touched
    BY <1>2 DEF Iterate, IterNext
  <2>2. steps' \in 0..MaxSteps
    BY <1>2 DEF Iterate, IterNext, IInv, TypeInv
  <2>3. QED
    BY <2>1, <2>2, SameArray
<1>3. QED
  BY <1>1, <1>2, ProgramKeeps, StartKeeps, SiftDownKeeps, CompareKeeps, FetchKeeps,
     ReturnedKeeps, CallbackKeeps DEF Next, Native

\* The invariant of every behaviour.
LEMMA SpecIInv == Spec => []IInv
  BY InitIInv, NextIInv, PTL DEF Spec

\* The elements of the array and the local variables of a native function have
\* their types, and the array fits its block (sqvector's _size <= _allocated),
\* whatever callbacks do to the array while a native function runs.
THEOREM ArrayTypes == Spec => []TypeOK
<1>1. IInv => TypeOK
  <2> SUFFICES ASSUME IInv PROVE TypeOK
    OBVIOUS
  <2>1. \A i \in DOMAIN vals : vals[i] \in Items
    BY DEF IInv, TypeInv
  <2>2. job # Nil => job.n \in 0..MaxLen /\ job.size \in 0..MaxLen
    <3> SUFFICES ASSUME job # Nil PROVE job.n \in 0..MaxLen /\ job.size \in 0..MaxLen
      OBVIOUS
    <3>1. job.n \in Nat /\ job.size \in 0..MaxLen /\ job.bottom \in Nat /\ job.stage \in {"build", "extract"}
      BY JobFields DEF IInv, JobOK
    <3>2. CASE IsSort(job)
      BY <3>1, <3>2 DEF IInv, JobOK, SortShape
    <3>3. CASE ~IsSort(job)
      BY <3>1, <3>3 DEF IInv, JobOK, LoopShape
    <3>4. QED
      BY <3>2, <3>3
  <2>3. QED
    BY <2>1, <2>2 DEF TypeOK, IInv, TypeInv
<1>2. QED
  BY SpecIInv, <1>1, PTL

\* The sort indexes _values without a check (_hsort_sift_down, _hsort). For
\* every array, every compare function and every _cmp, the elements it reads and
\* swaps exist, unless it is a sort without a compare function and a _cmp has
\* changed the array: for a compare function, the test for a resize is enough.
THEOREM SortStaysInRange == Spec => []SortInRange
<1>1. IInv => SortInRange
  BY DEF IInv, JobOK, SortInRange, Unaware
<1>2. QED
  BY SpecIInv, <1>1, PTL

-----------------------------------------------------------------------------
(* What the native functions of an array compute: a sort permutes, and for *)
(* a callback that leaves the array alone each one answers what the manual *)
(* says.                                                                   *)

-----------------------------------------------------------------------------
(* The steps of a sort, field by field.                                    *)

\* What the steps of a sort leave alone.
SameSort == job'.op = job.op /\ job'.size = job.size /\ job'.start = job.start

\* The element the extraction puts behind the heap.
Behind == IF job.stage = "build" THEN job.size - 1 ELSE job.n - 1

SiftsNext ==
    /\ job.stage = "build" /\ job.n > 0 /\ vals' = vals /\ last' = last /\ SameSort
    /\ job'.at = "sift" /\ job'.stage = "build" /\ job'.n = job.n - 1 /\ job'.root = job.n - 1
    /\ job'.bottom = job.size - 1
Extracts ==
    /\ ~(job.stage = "build" /\ job.n > 0) /\ Behind >= 1 /\ In(vals, Behind)
    /\ vals' = Swap(vals, 0, Behind) /\ last' = last /\ SameSort
    /\ job'.at = "sift" /\ job'.stage = "extract" /\ job'.n = Behind /\ job'.root = 0
    /\ job'.bottom = Behind - 1
Sorted ==
    /\ ~(job.stage = "build" /\ job.n > 0) /\ ~(Behind >= 1)
    /\ vals' = vals /\ Finish(job, <<>>, vals)
Asks ==
    /\ vals' = vals /\ last' = last /\ SameSort
    /\ job'.at = "cmp" /\ job'.stage = job.stage /\ job'.n = job.n /\ job'.root = job.root
    /\ job'.bottom = job.bottom
Calls == vals' = vals /\ last' = last /\ SameSort /\ job'.at = "call"
GoesDown ==
    /\ In(vals, job.root) /\ In(vals, job.max)
    /\ vals' = Swap(vals, job.root, job.max) /\ last' = last /\ SameSort
    /\ job'.at = "sift" /\ job'.stage = job.stage /\ job'.n = job.n /\ job'.root = job.max
    /\ job'.bottom = job.bottom
Loses == vals' = vals /\ last' = last /\ SameSort /\ job'.at = "lost"

\* A sort uses an index outside of the array.
LEMMA LostCase ==
    ASSUME JobShape(job), Lost(job)
    PROVE  Loses
  BY DEF Lost, Loses, SameSort, JobShape

\* _hsort after a sift-down: build on, extract, or end.
LEMMA NextSiftCases ==
    ASSUME JobShape(job), NextSift(job)
    PROVE  SiftsNext \/ Extracts \/ Sorted \/ Loses
<1>1. CASE job.stage = "build" /\ job.n > 0
  <2>1. /\ job' = [job EXCEPT !.at = "sift", !.n = @ - 1, !.root = job.n - 1,
                              !.bottom = job.size - 1]
        /\ vals' = vals /\ last' = last
    BY <1>1 DEF NextSift
  <2>2. SiftsNext
    BY <1>1, <2>1 DEF SiftsNext, SameSort, JobShape
  <2>3. QED
    BY <2>2
<1>2. CASE ~(job.stage = "build" /\ job.n > 0) /\ Behind >= 1 /\ In(vals, Behind)
  <2>1. /\ job' = [job EXCEPT !.at = "sift", !.stage = "extract", !.n = Behind, !.root = 0,
                              !.bottom = Behind - 1]
        /\ vals' = Swap(vals, 0, Behind) /\ last' = last
    BY <1>2 DEF NextSift, Behind
  <2> HIDE DEF Behind
  <2>2. Extracts
    BY <1>2, <2>1 DEF Extracts, SameSort, JobShape
  <2>3. QED
    BY <2>2
<1>3. CASE ~(job.stage = "build" /\ job.n > 0) /\ Behind >= 1 /\ ~In(vals, Behind)
  BY <1>3, LostCase DEF NextSift, Behind
<1>4. CASE ~(job.stage = "build" /\ job.n > 0) /\ ~(Behind >= 1)
  BY <1>4 DEF NextSift, Behind, Sorted
<1>5. QED
  BY <1>1, <1>2, <1>3, <1>4

\* SiftDown: a comparison is asked for, or the element is in its place.
LEMMA SiftDownCases ==
    ASSUME IInv, SiftDown
    PROVE  \/ 2 * job.root > job.bottom /\ (SiftsNext \/ Extracts \/ Sorted \/ Loses)
           \/ /\ ~(2 * job.root > job.bottom) /\ Asks /\ job'.max = 2 * job.root
              /\ job'.ask = IF 2 * job.root = job.bottom THEN "root" ELSE "kids"
<1>0. JobShape(job) /\ job # Nil
  BY DEF IInv, JobOK, SiftDown
<1>1. CASE 2 * job.root > job.bottom
  BY <1>0, <1>1, NextSiftCases DEF SiftDown
<1>2. CASE ~(2 * job.root > job.bottom)
  <2>1. PICK a, m :
            /\ a = (IF 2 * job.root = job.bottom THEN "root" ELSE "kids") /\ m = 2 * job.root
            /\ job' = [job EXCEPT !.at = "cmp", !.moved = FALSE, !.max = m, !.ask = a]
            /\ vals' = vals /\ last' = last
    BY <1>2 DEF SiftDown
  <2>2. Asks /\ job'.max = m /\ job'.ask = a
    BY <1>0, <2>1 DEF Asks, SameSort, JobShape
  <2>3. QED
    BY <1>2, <2>1, <2>2
<1>3. QED
  BY <1>1, <1>2

\* The answer of a comparison.
LEMMA ComparedCases ==
    ASSUME JobShape(job), NEW ret \in {-1, 0, 1}, Compared(ret)
    PROVE  \/ /\ job.ask = "kids" /\ Asks /\ job'.ask = "root"
              /\ job'.max = IF ret > 0 THEN job.max ELSE job.max + 1
           \/ job.ask # "kids" /\ ret >= 0 /\ (SiftsNext \/ Extracts \/ Sorted \/ Loses)
           \/ job.ask # "kids" /\ ret < 0 /\ job.root = job.max /\ Fail(job) /\ vals' = vals
           \/ job.ask # "kids" /\ ret < 0 /\ job.root # job.max /\ (GoesDown \/ Loses)
<1>1. CASE job.ask = "kids"
  <2>1. PICK m : /\ m = (IF ret > 0 THEN job.max ELSE job.max + 1)
                 /\ job' = [job EXCEPT !.at = "cmp", !.ask = "root", !.moved = FALSE, !.max = m]
                 /\ vals' = vals /\ last' = last
    BY <1>1 DEF Compared
  <2>2. Asks /\ job'.ask = "root" /\ job'.max = m
    BY <2>1 DEF Asks, SameSort, JobShape
  <2>3. QED
    BY <1>1, <2>1, <2>2
<1>2. CASE job.ask # "kids" /\ ret >= 0
  BY <1>2, NextSiftCases DEF Compared
<1>3. CASE job.ask # "kids" /\ ret < 0 /\ job.root = job.max
  BY <1>3 DEF Compared
<1>4. CASE job.ask # "kids" /\ ret < 0 /\ job.root # job.max
  <2>1. CASE In(vals, job.root) /\ In(vals, job.max)
    <3>1. /\ vals' = Swap(vals, job.root, job.max) /\ last' = last
          /\ job' = [job EXCEPT !.root = job.max, !.at = "sift"]
      BY <1>4, <2>1 DEF Compared
    <3>2. GoesDown
      BY <2>1, <3>1 DEF GoesDown, SameSort, JobShape
    <3>3. QED
      BY <1>4, <3>2
  <2>2. CASE ~(In(vals, job.root) /\ In(vals, job.max))
    BY <1>4, <2>2, LostCase DEF Compared
  <2>3. QED
    BY <2>1, <2>2
<1>5. QED
  BY <1>1, <1>2, <1>3, <1>4

\* A comparison begins: without a callback it is answered at once.
LEMMA CompareCases ==
    ASSUME IInv, Compare
    PROVE  LET a == At(vals, Asked(job)[1])
               b == At(vals, Asked(job)[2])
           IN  \/ Loses
               \/ Calls /\ (job.op = "csort" \/ CallsCmp(a, b))
               \/ ~Comparable(a, b) /\ Fail(job) /\ vals' = vals
               \/ Order(a, b) \in {-1, 0, 1} /\ Compared(Order(a, b))
<1> DEFINE a == At(vals, Asked(job)[1])
           b == At(vals, Asked(job)[2])
<1>0. JobShape(job) /\ job # Nil
  BY DEF IInv, JobOK, Compare
<1>1. Order(a, b) \in {-1, 0, 1}
  BY DEF Order
<1>2. ASSUME job' = [job EXCEPT !.at = "call"], vals' = vals, last' = last PROVE Calls
  BY <1>0, <1>2 DEF Calls, SameSort, JobShape
<1> HIDE DEF a, b
<1>3. \/ Lost(job)
      \/ /\ job' = [job EXCEPT !.at = "call"] /\ vals' = vals /\ last' = last
         /\ job.op = "csort" \/ CallsCmp(a, b)
      \/ ~Comparable(a, b) /\ Fail(job) /\ vals' = vals
      \/ Compared(Order(a, b))
  BY DEF Compare, a, b
<1>4. QED
  BY <1>0, <1>1, <1>2, <1>3, LostCase DEF a, b

-----------------------------------------------------------------------------
(* A sort permutes.                                                        *)

\* Every value is as often in s as in t.
Times(s, v) == Cardinality({i \in DOMAIN s : s[i] = v})
Permutes(s, t) == \A v \in Items : Times(s, v) = Times(t, v)

\* An exchange of two elements permutes.
LEMMA SwapPermutes ==
    ASSUME NEW s \in Seq(Items), NEW i \in 0..Len(s) - 1, NEW j \in 0..Len(s) - 1
    PROVE  Permutes(Swap(s, i, j), s)
<1> DEFINE w == Swap(s, i, j)
           f == [k \in 1..Len(s) |-> IF k = i + 1 THEN j + 1 ELSE IF k = j + 1 THEN i + 1 ELSE k]
<1>0. Len(s) \in Nat /\ DOMAIN s = 1..Len(s) /\ i + 1 \in 1..Len(s) /\ j + 1 \in 1..Len(s)
  OBVIOUS
<1>1. w \in Seq(Items) /\ Len(w) = Len(s) /\ DOMAIN w = 1..Len(s)
  BY <1>0, SwapProperties
<1>a. \A k \in 0..Len(s) - 1 : At(w, k) = IF k = j THEN At(s, i)
                                          ELSE IF k = i THEN At(s, j) ELSE At(s, k)
  BY SwapProperties, ZenonT(30)
<1>2. \A k \in 1..Len(s) : w[k] = IF k = j + 1 THEN s[i + 1] ELSE IF k = i + 1 THEN s[j + 1] ELSE s[k]
  <2> SUFFICES ASSUME NEW k \in 1..Len(s)
      PROVE  w[k] = IF k = j + 1 THEN s[i + 1] ELSE IF k = i + 1 THEN s[j + 1] ELSE s[k]
    OBVIOUS
  <2>1. PICK m \in 0..Len(s) - 1 : m = k - 1 /\ m + 1 = k
    BY <1>0
  <2>2. At(w, m) = IF m = j THEN At(s, i) ELSE IF m = i THEN At(s, j) ELSE At(s, m)
    BY <1>a, <2>1
  <2> HIDE DEF w
  <2>3. QED
    BY <2>1, <2>2 DEF At
<1> HIDE DEF w
<1>3. /\ \A k \in 1..Len(s) : f[k] \in 1..Len(s) /\ f[f[k]] = k
      /\ \A k \in 1..Len(s) : w[f[k]] = s[k] /\ s[f[k]] = w[k]
  BY <1>0, <1>2
<1> HIDE DEF f
<1>4. ASSUME NEW v \in Items PROVE Times(w, v) = Times(s, v)
  <2> DEFINE A == {k \in 1..Len(s) : w[k] = v}
             B == {k \in 1..Len(s) : s[k] = v}
             g == [k \in A |-> f[k]]
  <2>1. g \in [A -> B]
    BY <1>3
  <2>2. \A a, b \in A : g[a] = g[b] => a = b
    <3> SUFFICES ASSUME NEW a \in A, NEW b \in A, g[a] = g[b] PROVE a = b
      OBVIOUS
    <3>1. f[a] = f[b] /\ f[f[a]] = a /\ f[f[b]] = b
      BY <1>3
    <3>2. QED
      BY <3>1
  <2>3. \A t \in B : \E a \in A : g[a] = t
    <3> SUFFICES ASSUME NEW t \in B PROVE \E a \in A : g[a] = t
      OBVIOUS
    <3>1. f[t] \in A /\ f[f[t]] = t
      BY <1>3
    <3>2. QED
      BY <3>1
  <2>4. g \in Bijection(A, B)
    BY <2>1, <2>2, <2>3, Fun_IsBij
  <2>5. ExistsBijection(A, B)
    BY <2>4 DEF ExistsBijection
  <2>6. IsFiniteSet(A)
    <3>1. IsFiniteSet(1..Len(s)) /\ A \in SUBSET (1..Len(s))
      BY <1>0, FS_Interval
    <3>2. QED
      BY <3>1, FS_Subset
  <2>7. Cardinality(B) = Cardinality(A)
    BY <2>5, <2>6, FS_Bijection
  <2>8. QED
    BY <1>0, <1>1, <2>7 DEF Times
<1>5. QED
  BY <1>4 DEF Permutes, w

\* What the library calls the same items.
LEMMA PermutesSame ==
    ASSUME NEW s \in Seq(Items), NEW t \in Seq(Items), Permutes(s, t)
    PROVE  SameItems(s, t)
<1>1. Range(s) \subseteq Items /\ Range(t) \subseteq Items
  BY DEF Range
<1>2. QED
  BY <1>1 DEF SameItems, Permutes, Times

\* Permutations compose.
LEMMA PermutesTrans ==
    ASSUME NEW s, NEW t, NEW u, Permutes(s, t), Permutes(t, u)
    PROVE  Permutes(s, u)
  BY DEF Permutes

\* The array a sort works on permutes the one it started from.
KeepInv ==
    /\ job # Nil /\ IsSort(job) /\ ~touched => Permutes(vals, job.start)
    /\ last # Nil /\ IsSort(last) /\ ~last.touched =>
          last.vals \in Seq(Items) /\ last.start \in Seq(Items) /\ Permutes(last.vals, last.start)

\* The record of a function that returned.
LEMMA EndedFields ==
    ASSUME NEW j, NEW ok, NEW r, NEW v, Ended(j, ok, r, v)
    PROVE  /\ job' = Nil /\ last'.op = j.op /\ last'.ok = ok /\ last'.start = j.start
           /\ last'.out = r /\ last'.vals = v /\ last'.touched = touched /\ last'.first = j.first
  BY DEF Ended

\* Every step of a sort permutes.
LEMMA SortKeeps ==
    ASSUME IInv, IInv', KeepInv, job # Nil, IsSort(job), touched' = touched,
           SiftsNext \/ Extracts \/ Sorted \/ Asks \/ Calls \/ GoesDown \/ Loses
    PROVE  KeepInv'
<1>0. /\ JobShape(job) /\ SortShape(job) /\ vals \in Seq(Items) /\ Len(vals) \in Nat
      /\ job.start \in Seq(Items) /\ job.root \in Nat /\ job.max \in Nat /\ job.n \in Nat
      /\ job.bottom \in Nat /\ job.size \in Nat /\ job.stage \in {"build", "extract"}
  <2>1. JobShape(job) /\ SortShape(job) /\ vals \in Seq(Items) /\ Len(vals) \in Nat
    BY DEF IInv, JobOK, TypeInv
  <2>2. QED
    BY <2>1, JobFields
<1>1. ASSUME last' = last, SameSort, Permutes(vals', vals) PROVE KeepInv'
  <2>1. ~touched => Permutes(vals', job'.start)
    BY <1>1, PermutesTrans DEF KeepInv, SameSort
  <2>2. QED
    BY <1>1, <2>1 DEF KeepInv
<1>2. Permutes(vals, vals)
  BY DEF Permutes
<1>3. CASE SiftsNext \/ Asks \/ Calls \/ Loses
  <2>1. vals' = vals /\ last' = last /\ SameSort
    BY <1>3 DEF SiftsNext, Asks, Calls, Loses
  <2>2. QED
    BY <1>1, <1>2, <2>1
<1>4. CASE Extracts
  <2>1. Behind \in 0..Len(vals) - 1 /\ 0 \in 0..Len(vals) - 1
    BY <1>0, <1>4 DEF Extracts, Behind, SortShape, In
  <2>2. Permutes(Swap(vals, 0, Behind), vals)
    BY <1>0, <2>1, SwapPermutes
  <2>3. QED
    BY <1>1, <1>4, <2>2 DEF Extracts
<1>5. CASE Sorted
  <2>1. /\ job' = Nil /\ last'.op = job.op /\ last'.start = job.start
        /\ last'.vals = vals /\ last'.touched = touched
    BY <1>5, EndedFields DEF Sorted, Finish
  <2>2. QED
    BY <1>0, <2>1 DEF KeepInv
<1>6. CASE GoesDown
  <2>1. job.root \in 0..Len(vals) - 1 /\ job.max \in 0..Len(vals) - 1
    BY <1>0, <1>6 DEF GoesDown, In
  <2>2. Permutes(Swap(vals, job.root, job.max), vals)
    BY <1>0, <2>1, SwapPermutes
  <2>3. QED
    BY <1>1, <1>6, <2>2 DEF GoesDown
<1>7. QED
  BY <1>3, <1>4, <1>5, <1>6

\* A sort ends with an exception.
LEMMA FailKeeps ==
    ASSUME IInv, KeepInv, job # Nil, Fail(job)
    PROVE  KeepInv'
<1>0. vals \in Seq(Items) /\ job.start \in Seq(Items)
  BY JobFields DEF IInv, JobOK, TypeInv
<1>1. /\ job' = Nil /\ last'.op = job.op /\ last'.start = job.start /\ last'.vals = vals
      /\ last'.touched = touched
  BY EndedFields DEF Fail
<1>2. QED
  BY <1>0, <1>1 DEF KeepInv, IsSort

\* Every step keeps the permutation.
LEMMA NextKeep ==
    ASSUME IInv, IInv', KeepInv, [Next]_vars
    PROVE  KeepInv'
<1>1. ASSUME NEW v, NEW c, Change(v, c) PROVE KeepInv'
  <2>1. last' = Nil /\ (job # Nil => touched') /\ (job = Nil => job' = Nil)
    BY <1>1 DEF Change
  <2>2. QED
    BY <2>1 DEF KeepInv
<1>2. ASSUME NEW op \in Ops, Start(op) PROVE KeepInv'
  <2>0. vals \in Seq(Items) /\ Permutes(vals, vals) /\ vals' = vals
    BY <1>2 DEF IInv, TypeInv, Permutes, Start
  <2>1. NewJob(op).op = op /\ NewJob(op).start = vals /\ {"op", "start"} \subseteq DOMAIN NewJob(op)
    BY DEF NewJob
  <2>2. CASE \E r : Finish(NewJob(op), r, vals)
    <3>1. job' = Nil /\ last'.vals = vals /\ last'.start = vals
      BY <2>1, <2>2, EndedFields DEF Finish
    <3>2. QED
      BY <2>0, <3>1 DEF KeepInv
  <2>3. CASE /\ last' = Nil
             /\ \/ job' = [NewJob(op) EXCEPT !.at = "sift", !.n = Len(vals) \div 2,
                                   !.root = Len(vals) \div 2, !.bottom = Len(vals) - 1]
                \/ job' = [NewJob(op) EXCEPT !.n = 1, !.out = At(vals, 0), !.first = At(vals, 0)]
                \/ \E v : job' = [NewJob(op) EXCEPT !.out = v, !.first = v]
                \/ job' = NewJob(op)
    <3>1. job'.start = vals
      BY <2>1, <2>3
    <3>2. QED
      BY <2>0, <2>3, <3>1 DEF KeepInv
  <2>4. QED
    BY <1>2, <2>2, <2>3 DEF Start
<1>3. CASE SiftDown
  <2>1. job # Nil /\ IsSort(job) /\ touched' = touched
    BY <1>3 DEF SiftDown, IInv, JobOK, LoopShape
  <2>2. QED
    BY <1>3, <2>1, SiftDownCases, SortKeeps
<1>4. CASE Compare \/ CompareReturns
  <2>1. job # Nil /\ IsSort(job) /\ touched' = touched /\ JobShape(job)
    BY <1>4 DEF Compare, CompareReturns, Waiting, IInv, JobOK, LoopShape
  <2>2. ASSUME NEW ret \in {-1, 0, 1}, Compared(ret) PROVE KeepInv'
    BY <2>1, <2>2, ComparedCases, SortKeeps, FailKeeps
  <2>3. CASE Compare
    BY <2>1, <2>2, <2>3, CompareCases, SortKeeps, FailKeeps
  <2>4. CASE CompareReturns
    BY <2>1, <2>2, <2>4, FailKeeps DEF CompareReturns
  <2>5. QED
    BY <1>4, <2>3, <2>4
<1>5. CASE Fetch \/ Returned
  <2>1. job # Nil /\ ~IsSort(job) /\ JobShape(job)
    BY <1>5 DEF Fetch, Returned, Waiting, IInv, JobOK, SortShape
  <2>2. CASE /\ last' = last
             /\ \/ \E t : job' = [job EXCEPT !.at = "call", !.temp = t]
                \/ \E m, o : job' = [job EXCEPT !.at = "next", !.n = m, !.out = o]
    <3>1. job'.op = job.op
      BY <2>1, <2>2 DEF JobShape
    <3>2. QED
      BY <2>1, <2>2, <3>1 DEF KeepInv, IsSort
  <2>3. CASE Finish(job, job.out, vals)
    <3>1. job' = Nil /\ last'.op = job.op
      BY <2>3, EndedFields DEF Finish
    <3>2. QED
      BY <2>1, <3>1 DEF KeepInv, IsSort
  <2>4. QED
    BY <1>5, <2>2, <2>3 DEF Fetch, Returned
<1>6. CASE Throws
  BY <1>6, FailKeeps DEF Throws, Waiting
<1>8. CASE Iterate \/ IterNext \/ UNCHANGED vars
  <2>1. vals' = vals /\ job' = job /\ last' = last /\ touched' = touched
    BY <1>8 DEF Iterate, IterNext, vars
  <2>2. QED
    BY <2>1 DEF KeepInv, IsSort
<1>9. QED
  BY <1>1, <1>2, <1>3, <1>4, <1>5, <1>6, <1>8
     DEF Next, Native, Append_, Pop, Reverse_, Remove_, Resize, Insert, Set

\* A sort only moves elements (_hsort and _hsort_sift_down exchange two at a
\* time), whatever the compare function answers and wherever it fails: each
\* value is in the array as often as when the sort started.
THEOREM SortPermutes == Spec => []SortKeepsItems
<1>1. Init => KeepInv
  BY DEF Init, KeepInv
<1>2. IInv /\ IInv' /\ KeepInv /\ [Next]_vars => KeepInv'
  BY NextKeep
<1>3. IInv /\ KeepInv => SortKeepsItems
  <2> SUFFICES ASSUME IInv, KeepInv PROVE SortKeepsItems
    OBVIOUS
  <2>1. job # Nil => vals \in Seq(Items) /\ job.start \in Seq(Items)
    BY JobFields DEF IInv, JobOK, TypeInv
  <2>2. QED
    BY <2>1, PermutesSame DEF KeepInv, SortKeepsItems
<1>4. QED
  BY SpecIInv, <1>1, <1>2, <1>3, PTL DEF Spec

-----------------------------------------------------------------------------
(* The recursive definitions of the results.                               *)

FilteredTo(s) ==
    LET f[i \in 0..Len(s)] ==
            IF i = 0 THEN <<>>
            ELSE IF Kept(s[i]) THEN Append(f[i - 1], s[i]) ELSE f[i - 1]
    IN  f
ReducedTo(s, k, acc) ==
    LET f[i \in 0..Len(s)] == IF i <= k THEN acc ELSE Folded(f[i - 1], s[i]) IN f

\* The reference of filter, step by step.
LEMMA FilteredRecursion ==
    ASSUME NEW s \in Seq(Items)
    PROVE  /\ Filtered(s) = FilteredTo(s)[Len(s)]
           /\ FilteredTo(s)[0] = <<>>
           /\ \A i \in 1..Len(s) : FilteredTo(s)[i] = IF Kept(s[i]) THEN Append(FilteredTo(s)[i - 1], s[i])
                                                     ELSE FilteredTo(s)[i - 1]
<1> DEFINE F(f) == [i \in 0..Len(s) |-> IF i = 0 THEN <<>>
                       ELSE IF Kept(s[i]) THEN Append(f[i - 1], s[i]) ELSE f[i - 1]]
           step == [p \in Seq(Items) \X (1..Len(s)) |->
                       IF Kept(s[p[2]]) THEN Append(p[1], s[p[2]]) ELSE p[1]]
<1>1. FilteredTo(s) = CHOOSE f : f = F(f)
  BY DEF FilteredTo
<1>2. Filtered(s) = FilteredTo(s)[Len(s)]
  BY DEF Filtered, FilteredTo
<1>3. step \in [Seq(Items) \X (1..Len(s)) -> Seq(Items)]
  <2>1. ASSUME NEW p \in Seq(Items) \X (1..Len(s))
        PROVE  (IF Kept(s[p[2]]) THEN Append(p[1], s[p[2]]) ELSE p[1]) \in Seq(Items)
    <3>1. p[1] \in Seq(Items) /\ s[p[2]] \in Items
      OBVIOUS
    <3>2. QED
      BY <3>1
  <2>2. QED
    BY <2>1
<1>4. PICK f \in [0..Len(s) -> Seq(Items)] :
          f[0] = <<>> /\ \A i \in 1..Len(s) : f[i] = step[<<f[i - 1], i>>]
  <2>1. Len(s) \in Nat /\ <<>> \in Seq(Items)
    OBVIOUS
  <2> HIDE DEF step
  <2>2. Recursion(Len(s), Seq(Items), <<>>, step)
    BY <1>3, <2>1 DEF Recursion
  <2>3. QED
    <3>1. \E f : IsRecursive(f, Len(s), Seq(Items), <<>>, step)
      BY <2>2, FiniteRecursion, Zenon
    <3>2. QED
      BY <3>1 DEF IsRecursive
<1>5. f = F(f)
  <2>1. ASSUME NEW i \in 1..Len(s)
        PROVE  step[<<f[i - 1], i>>] = IF Kept(s[i]) THEN Append(f[i - 1], s[i]) ELSE f[i - 1]
    <3>1. i - 1 \in 0..Len(s) /\ f[i - 1] \in Seq(Items)
      OBVIOUS
    <3>2. QED
      BY <3>1
  <2> HIDE DEF step
  <2>2. \A i \in 0..Len(s) : i # 0 => i \in 1..Len(s)
    OBVIOUS
  <2>3. QED
    BY <1>4, <2>1, <2>2
<1>6. FilteredTo(s) = F(FilteredTo(s))
  BY <1>1, <1>5
<1>7. 0 \in 0..Len(s) /\ \A i \in 1..Len(s) : i \in 0..Len(s) /\ i # 0
  OBVIOUS
<1> DEFINE g == FilteredTo(s)
<1> HIDE DEF g
<1>8. \A i \in 0..Len(s) : g[i] = IF i = 0 THEN <<>>
                       ELSE IF Kept(s[i]) THEN Append(g[i - 1], s[i]) ELSE g[i - 1]
  BY <1>6 DEF g
<1>9. QED
  BY <1>2, <1>7, <1>8 DEF g

\* The reference of reduce, step by step.
LEMMA ReducedRecursion ==
    ASSUME NEW s \in Seq(Items), NEW k \in Nat, NEW acc \in Items
    PROVE  /\ Reduced(s, k, acc) = ReducedTo(s, k, acc)[Len(s)]
           /\ \A i \in 0..Len(s) :
                 ReducedTo(s, k, acc)[i] = IF i <= k THEN acc
                                           ELSE Folded(ReducedTo(s, k, acc)[i - 1], s[i])
<1> DEFINE F(f) == [i \in 0..Len(s) |-> IF i <= k THEN acc ELSE Folded(f[i - 1], s[i])]
           step == [p \in Items \X (1..Len(s)) |->
                       IF p[2] <= k THEN acc ELSE Folded(p[1], s[p[2]])]
<1>1. ReducedTo(s, k, acc) = CHOOSE f : f = F(f)
  BY DEF ReducedTo
<1>2. Reduced(s, k, acc) = ReducedTo(s, k, acc)[Len(s)]
  BY DEF Reduced, ReducedTo
<1>3. step \in [Items \X (1..Len(s)) -> Items]
  <2>1. ASSUME NEW p \in Items \X (1..Len(s))
        PROVE  (IF p[2] <= k THEN acc ELSE Folded(p[1], s[p[2]])) \in Items
    <3>1. p[1] \in Items /\ s[p[2]] \in Items
      OBVIOUS
    <3>2. QED
      BY <3>1, Answers
  <2>2. QED
    BY <2>1
<1>4. PICK f \in [0..Len(s) -> Items] :
          f[0] = acc /\ \A i \in 1..Len(s) : f[i] = step[<<f[i - 1], i>>]
  <2>1. Len(s) \in Nat
    OBVIOUS
  <2> HIDE DEF step
  <2>2. Recursion(Len(s), Items, acc, step)
    BY <1>3, <2>1 DEF Recursion
  <2>3. \E f : IsRecursive(f, Len(s), Items, acc, step)
    BY <2>2, FiniteRecursion, Zenon
  <2>4. QED
    BY <2>3 DEF IsRecursive
<1>5. f = F(f)
  <2>1. ASSUME NEW i \in 1..Len(s)
        PROVE  step[<<f[i - 1], i>>] = IF i <= k THEN acc ELSE Folded(f[i - 1], s[i])
    <3>1. i - 1 \in 0..Len(s) /\ f[i - 1] \in Items
      OBVIOUS
    <3>2. QED
      BY <3>1
  <2> HIDE DEF step
  <2>2. /\ \A i \in 0..Len(s) : i # 0 => i \in 1..Len(s)
        /\ \A i \in 0..Len(s) : i = 0 => i <= k
    OBVIOUS
  <2>3. \A i \in 0..Len(s) : f[i] = IF i <= k THEN acc ELSE Folded(f[i - 1], s[i])
    BY <1>4, <2>1, <2>2
  <2>4. QED
    BY <2>3
<1>6. ReducedTo(s, k, acc) = F(ReducedTo(s, k, acc))
  BY <1>1, <1>5
<1> DEFINE g == ReducedTo(s, k, acc)
<1> HIDE DEF g
<1>8. \A i \in 0..Len(s) : g[i] = IF i <= k THEN acc ELSE Folded(g[i - 1], s[i])
  BY <1>6 DEF g
<1>9. QED
  BY <1>2, <1>8 DEF g

-----------------------------------------------------------------------------
(* A loop whose callback leaves the array alone.                           *)

\* The elements a fold skips.
From(j) == IF j.op = "reduce" THEN 1 ELSE 0

\* What a loop has done with the first n elements of s.
Progress(j, s, v) ==
    /\ j.op = "apply" \/ v = s
    /\ j.op = "apply" => v = [k \in 1..Len(s) |-> IF k <= j.n THEN Mapped(s[k]) ELSE s[k]]
    /\ j.op = "map" => j.out = [k \in 1..Len(s) |-> IF k <= j.n THEN Mapped(s[k]) ELSE Nil]
    /\ j.op = "filter" => j.out = FilteredTo(s)[j.n]
    /\ j.op \in {"reduce", "ireduce"} =>
          From(j) <= j.n /\ j.out = ReducedTo(s, From(j), j.first)[j.n]
    /\ j.op = "reduce" => s # <<>> /\ j.first = s[1]
    /\ j.at = "call" => j.temp = s[j.n + 1]
LoopInv == job # Nil /\ ~IsSort(job) /\ ~touched => Progress(job, job.start, vals)

-----------------------------------------------------------------------------
(* The heap of a sort without a compare function.                          *)

Leq(a, b) == Order(a, b) <= 0
Kids(i) == {2 * i, 2 * i + 1}

\* The children of the element i are no larger than the element k.
Over(v, i, k, bottom) == \A c \in Kids(i) : c <= bottom => Leq(At(v, c), At(v, k))

\* The elements lo..bottom form a heap, but for the element root.
HeapBut(v, lo, bottom, root) ==
    \A i \in lo..bottom : i # root => Over(v, i, i, bottom)

\* The children of root are no larger than its parent.
UnderParent(v, lo, bottom, root) ==
    \A p \in lo..bottom : p # root /\ root \in Kids(p) => Over(v, root, p, bottom)

\* From n on the array is in order and holds the largest elements.
SortedFrom(v, n) ==
    \A m \in n..Len(v) - 1 : \A k \in 0..m : Leq(At(v, k), At(v, m))

Low(j) == IF j.stage = "build" THEN j.n ELSE 0
Sifting(v, j) ==
    /\ Low(j) <= j.root
    /\ HeapBut(v, Low(j), j.bottom, j.root)
    /\ UnderParent(v, Low(j), j.bottom, j.root)
    /\ j.at = "cmp" /\ j.ask = "root" => Over(v, j.root, j.max, j.bottom)
    /\ j.stage = "extract" => SortedFrom(v, j.n)

\* The comparisons of a sort of such an array call nothing.
Plain(s) == \A i \in DOMAIN s : s[i] \notin Objs
PlainSort == job # Nil /\ job.op = "sort" /\ Plain(job.start)
SortInv == PlainSort => ~touched /\ job.at # "call" /\ Plain(vals) /\ Sifting(vals, job)

ResultInv == LoopInv /\ SortInv /\ Computes

\* Swapping brings no new value into an array.
LEMMA SwapPlain ==
    ASSUME NEW s \in Seq(Items), Plain(s), NEW i \in 0..Len(s) - 1, NEW j \in 0..Len(s) - 1
    PROVE  Plain(Swap(s, i, j))
<1>1. \A k \in 0..Len(s) - 1 : At(s, k) \notin Objs
  BY DEF Plain, At
<1>2. \A k \in 0..Len(s) - 1 : At(Swap(s, i, j), k) \notin Objs
  <2> SUFFICES ASSUME NEW k \in 0..Len(s) - 1 PROVE At(Swap(s, i, j), k) \notin Objs
    OBVIOUS
  <2>1. At(Swap(s, i, j), k) = IF k = j THEN At(s, i) ELSE IF k = i THEN At(s, j) ELSE At(s, k)
    BY SwapProperties, SMTT(30)
  <2>2. QED
    BY <1>1, <2>1
<1>3. Swap(s, i, j) \in Seq(Items) /\ Len(Swap(s, i, j)) = Len(s)
  BY SwapProperties
<1>4. ASSUME NEW k \in DOMAIN Swap(s, i, j) PROVE Swap(s, i, j)[k] \notin Objs
  <2>1. k - 1 \in 0..Len(s) - 1 /\ k - 1 + 1 = k
    BY <1>3
  <2>2. QED
    BY <1>2, <2>1 DEF At
<1>5. QED
  BY <1>4 DEF Plain

\* ObjCmp orders the values.
LEMMA OrderTotal ==
    /\ \A a \in Items : Leq(a, a)
    /\ \A a, b \in Items : Order(a, b) >= 0 => Leq(b, a)
    /\ \A a, b \in Items : Order(a, b) < 0 => Leq(a, b)
    /\ \A a, b \in Items : ~(Order(a, b) > 0) => Leq(a, b)
    /\ \A a, b, c \in Items : Leq(a, b) /\ Leq(b, c) => Leq(a, c)
<1>1. \A a \in Items : Leq(a, a)
  BY DEF Leq, Order
<1>2. \A a, b \in Items : Order(a, b) >= 0 => Leq(b, a)
  BY DEF Leq, Order, Items
<1>3. \A a, b \in Items : /\ Order(a, b) < 0 => Leq(a, b)
                          /\ ~(Order(a, b) > 0) => Leq(a, b)
  BY DEF Leq, Order, Items
<1>4. \A a, b, c \in Items : Leq(a, b) /\ Leq(b, c) => Leq(a, c)
  BY DEF Leq, Order, Items
<1>5. QED
  BY <1>1, <1>2, <1>3, <1>4

\* The first element of a heap is the largest.
LEMMA TopIsLargest ==
    ASSUME NEW v \in Seq(Items), NEW b \in 0..Len(v) - 1,
           \A i \in 0..b : Over(v, i, i, b)
    PROVE  \A k \in 0..b : Leq(At(v, k), At(v, 0))
<1> DEFINE Bad == {k \in 0..b : ~Leq(At(v, k), At(v, 0))}
<1>0. \A k \in 0..b : At(v, k) \in Items
  BY DEF At
<1>1. SUFFICES ASSUME Bad # {} PROVE FALSE
  OBVIOUS
<1>2. PICK m \in Bad : \A k \in Bad : m <= k
  <2>1. Bad \in SUBSET Nat
    OBVIOUS
  <2>2. QED
    BY <1>1, <2>1, LeastNat
<1>3. m # 0
  BY <1>0, OrderTotal
<1> DEFINE p == m \div 2
<1>4. p \in 0..b /\ p < m /\ (m = 2 * p \/ m = 2 * p + 1)
  BY <1>3
<1> HIDE DEF p
<1>5. Leq(At(v, p), At(v, 0))
  BY <1>2, <1>4
<1>6. Leq(At(v, m), At(v, p))
  <2>1. m \in Kids(p) /\ m <= b
    BY <1>4 DEF Kids
  <2>2. QED
    BY <1>4, <2>1 DEF Over
<1>7. QED
  BY <1>0, <1>4, <1>5, <1>6, OrderTotal

\* Exchanging an element with its larger child moves the exception down.
LEMMA DownKeepsHeap ==
    ASSUME NEW v \in Seq(Items), NEW bottom \in 0..Len(v) - 1, NEW lo \in Nat,
           NEW root \in lo..bottom, NEW max \in Kids(root), max <= bottom, max # root,
           HeapBut(v, lo, bottom, root), UnderParent(v, lo, bottom, root),
           Over(v, root, max, bottom), Leq(At(v, root), At(v, max))
    PROVE  /\ HeapBut(Swap(v, root, max), lo, bottom, max)
           /\ UnderParent(Swap(v, root, max), lo, bottom, max)
<1> DEFINE w == Swap(v, root, max)
<1>0. /\ root \in 0..Len(v) - 1 /\ max \in 0..Len(v) - 1 /\ root < max /\ bottom < Len(v)
      /\ Len(v) \in Nat /\ lo..bottom \subseteq 0..bottom
  BY DEF Kids
<1>1. \A k \in 0..Len(v) - 1 : At(w, k) = IF k = max THEN At(v, root)
                                          ELSE IF k = root THEN At(v, max) ELSE At(v, k)
  BY <1>0, SwapProperties, ZenonT(30)
<1>2. \A k \in 0..Len(v) - 1 : At(v, k) \in Items
  BY DEF At
<1> HIDE DEF w
<1>3. At(w, root) = At(v, max) /\ At(w, max) = At(v, root)
  BY <1>0, <1>1
<1>4. \A k \in 0..bottom : k # root /\ k # max => At(w, k) = At(v, k)
  BY <1>0, <1>1
<1>5. ASSUME NEW i \in lo..bottom, i # max PROVE Over(w, i, i, bottom)
  <2> SUFFICES ASSUME NEW c \in Kids(i), c <= bottom PROVE Leq(At(w, c), At(w, i))
    BY DEF Over
  <2>0. c \in 0..bottom /\ i \in 0..bottom /\ c \in Nat /\ i \in Nat
    BY <1>0 DEF Kids
  <2>1. CASE i = root
    <3>1. CASE c = max
      BY <1>3, <2>1, <3>1
    <3>2. CASE c # max /\ c # root
      <4>1. At(w, c) = At(v, c) /\ Leq(At(v, c), At(v, max))
        BY <1>4, <2>0, <2>1, <3>2 DEF Over
      <4>2. QED
        BY <1>3, <2>1, <4>1
    <3>3. CASE c = root
      BY <1>0, <1>2, <1>3, <2>1, <3>3, OrderTotal
    <3>4. QED
      BY <3>1, <3>2, <3>3
  <2>2. CASE i # root
    <3>1. c # max
      BY <1>0, <2>0, <2>2 DEF Kids
    <3>2. At(w, i) = At(v, i)
      BY <1>4, <1>5, <2>0, <2>2
    <3>3. CASE c = root
      <4>1. max \in Kids(root) /\ Over(v, root, i, bottom)
        BY <2>2, <3>3 DEF UnderParent
      <4>2. Leq(At(v, max), At(v, i))
        BY <4>1 DEF Over
      <4>3. QED
        BY <1>3, <3>2, <3>3, <4>2
    <3>4. CASE c # root
      <4>1. At(w, c) = At(v, c)
        BY <1>4, <2>0, <3>1, <3>4
      <4>2. Leq(At(v, c), At(v, i))
        BY <2>2 DEF HeapBut, Over
      <4>3. QED
        BY <3>2, <4>1, <4>2
    <3>5. QED
      BY <3>3, <3>4
  <2>3. QED
    BY <2>1, <2>2
<1>6. ASSUME NEW p \in lo..bottom, p # max, max \in Kids(p) PROVE Over(w, max, p, bottom)
  <2>1. p = root
    BY <1>0, <1>6 DEF Kids
  <2> SUFFICES ASSUME NEW c \in Kids(max), c <= bottom PROVE Leq(At(w, c), At(w, root))
    BY <2>1 DEF Over
  <2>2. c \in 0..bottom /\ c # max /\ c # root /\ max \in lo..bottom
    BY <1>0 DEF Kids
  <2>3. At(w, c) = At(v, c)
    BY <1>4, <2>2
  <2>4. Leq(At(v, c), At(v, max))
    BY <2>2 DEF HeapBut, Over
  <2>5. QED
    BY <1>3, <2>3, <2>4
<1>7. QED
  BY <1>5, <1>6 DEF HeapBut, UnderParent, w

\* Exchanges before n leave the sorted part alone.
LEMMA SwapKeepsSorted ==
    ASSUME NEW v \in Seq(Items), NEW n \in 0..Len(v), SortedFrom(v, n),
           NEW i \in 0..n - 1, NEW j \in 0..n - 1
    PROVE  SortedFrom(Swap(v, i, j), n)
<1> DEFINE w == Swap(v, i, j)
<1>0. Len(v) \in Nat /\ i \in 0..Len(v) - 1 /\ j \in 0..Len(v) - 1
  OBVIOUS
<1>1. /\ Len(w) = Len(v)
      /\ \A k \in 0..Len(v) - 1 : At(w, k) = IF k = j THEN At(v, i)
                                             ELSE IF k = i THEN At(v, j) ELSE At(v, k)
  BY <1>0, SwapProperties
<1> HIDE DEF w
<1>2. ASSUME NEW m \in n..Len(v) - 1, NEW k \in 0..m PROVE Leq(At(w, k), At(w, m))
  <2>1. At(w, m) = At(v, m)
    BY <1>0, <1>1
  <2>2. \E l \in 0..m : At(w, k) = At(v, l)
    BY <1>0, <1>1
  <2>3. QED
    BY <2>1, <2>2 DEF SortedFrom
<1>3. QED
  BY <1>1, <1>2 DEF SortedFrom, w

\* Putting the top of a whole heap behind it leaves a heap but for the top, and
\* the sorted part has grown.
LEMMA ExtractKeepsHeap ==
    ASSUME NEW v \in Seq(Items), NEW b \in 1..Len(v) - 1,
           \A i \in 0..b : Over(v, i, i, b), SortedFrom(v, b + 1)
    PROVE  /\ HeapBut(Swap(v, 0, b), 0, b - 1, 0)
           /\ UnderParent(Swap(v, 0, b), 0, b - 1, 0)
           /\ SortedFrom(Swap(v, 0, b), b)
<1> DEFINE w == Swap(v, 0, b)
<1>0. Len(v) \in Nat /\ 0 \in 0..Len(v) - 1 /\ b \in 0..Len(v) - 1
  OBVIOUS
<1>1. /\ Len(w) = Len(v)
      /\ \A k \in 0..Len(v) - 1 : At(w, k) = IF k = b THEN At(v, 0)
                                             ELSE IF k = 0 THEN At(v, b) ELSE At(v, k)
  BY <1>0, SwapProperties
<1> HIDE DEF w
<1>2. HeapBut(w, 0, b - 1, 0)
  <2> SUFFICES ASSUME NEW i \in 0..b - 1, i # 0, NEW c \in Kids(i), c <= b - 1
      PROVE  Leq(At(w, c), At(w, i))
    BY DEF HeapBut, Over
  <2>1. c \in 1..b - 1 /\ i \in 1..b - 1
    BY DEF Kids
  <2>2. At(w, c) = At(v, c) /\ At(w, i) = At(v, i)
    BY <1>0, <1>1, <2>1
  <2>3. i \in 0..b /\ c <= b
    BY <2>1
  <2>4. Leq(At(v, c), At(v, i))
    BY <2>3 DEF Over
  <2>5. QED
    BY <2>2, <2>4
<1>3. UnderParent(w, 0, b - 1, 0)
  BY DEF UnderParent, Kids
<1>4. ASSUME NEW m \in b..Len(v) - 1, NEW k \in 0..m PROVE Leq(At(w, k), At(w, m))
  <2>1. CASE m = b
    <3>1. At(w, m) = At(v, 0)
      BY <1>0, <1>1, <2>1
    <3>2. \E l \in 0..b : At(w, k) = At(v, l)
      BY <1>0, <1>1, <2>1
    <3>3. QED
      BY <1>0, <3>1, <3>2, TopIsLargest
  <2>2. CASE m # b
    <3>1. m \in b + 1..Len(v) - 1 /\ At(w, m) = At(v, m)
      BY <1>0, <1>1, <2>2
    <3>2. \E l \in 0..m : At(w, k) = At(v, l)
      BY <1>0, <1>1, <2>2
    <3>3. QED
      BY <3>1, <3>2 DEF SortedFrom
  <2>3. QED
    BY <2>1, <2>2
<1>5. QED
  BY <1>1, <1>2, <1>3, <1>4 DEF SortedFrom, w

\* An element is in its place: the heap is whole, and the sort goes on or ends.
LEMMA PlacedKeeps ==
    ASSUME IInv, SortInv, Computes, PlainSort, touched' = touched,
           Over(vals, job.root, job.root, job.bottom), SiftsNext \/ Extracts \/ Sorted
    PROVE  SortInv' /\ Computes'
<1>0. /\ JobShape(job) /\ SortShape(job) /\ vals \in Seq(Items) /\ Len(vals) \in Nat
      /\ Len(vals) = job.size /\ Len(job.start) = job.size
      /\ job.root \in Nat /\ job.n \in Nat /\ job.bottom \in Nat /\ job.size \in Nat
      /\ job.stage \in {"build", "extract"}
  <2>1. IsSort(job) /\ vals \in Seq(Items) /\ Len(vals) \in Nat /\ ~Unaware /\ ~touched
    BY DEF IsSort, IInv, TypeInv, SortInv, PlainSort, Unaware
  <2>2. QED
    BY <2>1, JobFields DEF IInv, JobOK, PlainSort
<1>1. Sifting(vals, job) /\ Plain(vals) /\ ~touched'
  BY DEF SortInv
<1>2. \A i \in Low(job)..job.bottom : Over(vals, i, i, job.bottom)
  BY <1>1 DEF Sifting, HeapBut
<1>3. CASE SiftsNext
  <2>1. /\ job'.at = "sift" /\ job'.stage = "build" /\ job'.n = job.n - 1
        /\ job'.root = job.n - 1 /\ job'.bottom = job.bottom /\ job.stage = "build"
        /\ vals' = vals /\ last' = last /\ job.n > 0
    BY <1>0, <1>3 DEF SiftsNext, SortShape
  <2>2. HeapBut(vals, job.n - 1, job.bottom, job.n - 1)
    <3>1. \A i \in job.n - 1..job.bottom : i # job.n - 1 => i \in Low(job)..job.bottom
      BY <1>0, <2>1 DEF Low
    <3>2. QED
      BY <1>2, <3>1 DEF HeapBut
  <2>3. UnderParent(vals, job.n - 1, job.bottom, job.n - 1)
    BY <1>0, <2>1 DEF UnderParent, Kids
  <2>4. Sifting(vals, job')
    BY <1>0, <2>1, <2>2, <2>3 DEF Sifting, Low
  <2>5. QED
    BY <1>1, <2>1, <2>4 DEF SortInv, Computes
<1>4. CASE Extracts
  <2> DEFINE b == Behind
  <2>1. /\ job'.at = "sift" /\ job'.stage = "extract" /\ job'.n = b /\ job'.root = 0
        /\ job'.bottom = b - 1 /\ vals' = Swap(vals, 0, b) /\ last' = last
    BY <1>4 DEF Extracts
  <2>2. b \in 1..Len(vals) - 1 /\ b = job.bottom /\ Low(job) = 0
    BY <1>0, <1>4 DEF Extracts, Behind, Low, SortShape
  <2>3. SortedFrom(vals, b + 1)
    <3>1. CASE job.stage = "build"
      BY <1>0, <2>2, <3>1 DEF SortedFrom, SortShape
    <3>2. CASE job.stage = "extract"
      <4>1. b + 1 = job.n
        BY <1>0, <3>2 DEF Behind
      <4>2. QED
        BY <1>1, <3>2, <4>1 DEF Sifting
    <3>3. QED
      BY <1>0, <3>1, <3>2
  <2>4. \A i \in 0..b : Over(vals, i, i, b)
    BY <1>2, <2>2
  <2> HIDE DEF b
  <2>5. /\ HeapBut(Swap(vals, 0, b), 0, b - 1, 0) /\ UnderParent(Swap(vals, 0, b), 0, b - 1, 0)
        /\ SortedFrom(Swap(vals, 0, b), b)
    BY <1>0, <2>2, <2>3, <2>4, ExtractKeepsHeap
  <2>6. Sifting(vals', job')
    BY <2>1, <2>5 DEF Sifting, Low
  <2>7. Plain(vals')
    <3>1. 0 \in 0..Len(vals) - 1 /\ b \in 0..Len(vals) - 1
      BY <1>0, <2>2
    <3>2. QED
      BY <1>0, <1>1, <2>1, <3>1, SwapPlain
  <2>8. QED
    BY <1>1, <2>1, <2>6, <2>7 DEF SortInv, Computes
<1>5. CASE Sorted
  <2>1. /\ job' = Nil /\ last'.op = "sort" /\ last'.start = job.start /\ last'.vals = vals
    BY <1>5, EndedFields DEF Sorted, Finish, PlainSort
  <2>2. job.stage = "extract" /\ job.n = 1
    BY <1>0, <1>5 DEF Sorted, Behind, SortShape
  <2>3. SortedFrom(vals, 1)
    BY <1>1, <2>2 DEF Sifting
  <2>4. ASSUME NEW i \in 2..Len(job.start) PROVE Order(vals[i - 1], vals[i]) <= 0
    <3>1. PICK m \in 1..Len(vals) - 1 : m + 1 = i /\ m - 1 \in 0..m /\ (m - 1) + 1 = i - 1
      BY <1>0
    <3>2. Leq(At(vals, m - 1), At(vals, m))
      BY <2>3, <3>1 DEF SortedFrom
    <3>3. QED
      BY <3>1, <3>2 DEF Leq, At
  <2>5. QED
    BY <2>1, <2>4 DEF SortInv, PlainSort, Computes
<1>6. QED
  BY <1>3, <1>4, <1>5

\* The steps of a sort without a compare function.
LEMMA SortStepKeeps ==
    ASSUME IInv, IInv', SortInv, Computes, PlainSort, SiftDown \/ Compare
    PROVE  SortInv' /\ Computes'
<1>0. /\ JobShape(job) /\ SortShape(job) /\ vals \in Seq(Items) /\ Len(vals) \in Nat
      /\ Len(vals) = job.size /\ job.root \in Nat /\ job.n \in Nat /\ job.bottom \in Nat
      /\ job.size \in Nat /\ job.max \in Nat /\ job.stage \in {"build", "extract"}
      /\ job.root \in Low(job)..job.bottom /\ Low(job) \in Nat
      /\ job.bottom \in 0..Len(vals) - 1
  <2>1. /\ IsSort(job) /\ vals \in Seq(Items) /\ Len(vals) \in Nat /\ ~Unaware /\ ~touched
        /\ job # Nil
    BY DEF IsSort, IInv, TypeInv, SortInv, PlainSort, Unaware
  <2>2. /\ JobShape(job) /\ SortShape(job) /\ Len(vals) = job.size /\ job.root \in Nat
        /\ job.n \in Nat /\ job.bottom \in Nat /\ job.size \in Nat /\ job.max \in Nat
        /\ job.stage \in {"build", "extract"}
    BY <2>1, JobFields DEF IInv, JobOK
  <2>3. Low(job) \in Nat /\ Low(job) <= job.root /\ job.root <= job.bottom /\ job.bottom < job.size
    BY <2>2 DEF SortInv, Sifting, SortShape, Low
  <2>4. QED
    BY <2>1, <2>2, <2>3
<1>1. /\ HeapBut(vals, Low(job), job.bottom, job.root)
      /\ UnderParent(vals, Low(job), job.bottom, job.root)
      /\ job.at = "cmp" /\ job.ask = "root" => Over(vals, job.root, job.max, job.bottom)
      /\ job.stage = "extract" => SortedFrom(vals, job.n)
  BY DEF SortInv, Sifting
<1>p. /\ touched' = touched /\ ~touched' /\ Plain(vals) /\ job # Nil /\ job.op = "sort"
  BY DEF SortInv, PlainSort, SiftDown, Compare
<1>l. ASSUME Loses PROVE SortInv' /\ Computes'
  <2>1. last' = last /\ job'.at = "lost"
    BY <1>l DEF Loses
  <2>2. job' # Nil => Unaware'
    BY <2>1 DEF IInv, JobOK
  <2>3. job' = Nil
    BY <1>p, <2>2 DEF Unaware
  <2>4. QED
    BY <2>1, <2>3 DEF SortInv, PlainSort, Computes
<1>i. \A k \in 0..Len(vals) - 1 : At(vals, k) \in Items
  BY <1>0 DEF At
<1>2. ASSUME Asks, job'.ask = "root" => Over(vals, job.root, job'.max, job.bottom)
      PROVE  SortInv' /\ Computes'
  <2>1. /\ vals' = vals /\ last' = last /\ job'.stage = job.stage /\ job'.n = job.n
        /\ job'.root = job.root /\ job'.bottom = job.bottom /\ job'.at = "cmp"
    BY <1>2 DEF Asks
  <2>2. Low(job') = Low(job)
    BY <2>1 DEF Low
  <2>3. Sifting(vals, job')
    BY <1>0, <1>1, <1>2, <2>1, <2>2 DEF Sifting
  <2>4. QED
    BY <1>p, <2>1, <2>3 DEF SortInv, Computes
<1>3. CASE SiftDown
  <2>1. CASE 2 * job.root > job.bottom
    <3>1. Over(vals, job.root, job.root, job.bottom)
      BY <1>0, <2>1 DEF Over, Kids
    <3>2. QED
      BY <1>3, <1>l, <1>p, <2>1, <3>1, SiftDownCases, PlacedKeeps
  <2>2. CASE ~(2 * job.root > job.bottom)
    <3>1. Asks /\ job'.max = 2 * job.root /\ job'.ask = IF 2 * job.root = job.bottom THEN "root" ELSE "kids"
      BY <1>3, <2>2, SiftDownCases
    <3>2. ASSUME job'.ask = "root" PROVE Over(vals, job.root, job'.max, job.bottom)
      <4>1. 2 * job.root = job.bottom
        BY <3>1, <3>2
      <4>2. \A c \in Kids(job.root) : c <= job.bottom => c = 2 * job.root /\ c \in 0..Len(vals) - 1
        BY <1>0, <4>1 DEF Kids
      <4>3. QED
        BY <1>i, <3>1, <4>2, OrderTotal DEF Over
    <3>3. QED
      BY <1>2, <3>1, <3>2
  <2>3. QED
    BY <2>1, <2>2
<1>4. CASE Compare
  <2> DEFINE a == At(vals, Asked(job)[1])
             b == At(vals, Asked(job)[2])
             ret == Order(a, b)
  <2>a. job.at = "cmp"
    BY <1>4 DEF Compare
  <2>b. Asked(job)[1] \in 0..Len(vals) - 1 /\ Asked(job)[2] \in 0..Len(vals) - 1
    BY <1>0, <2>a, SMTT(30) DEF Asked, SortShape
  <2>c. a \notin Objs /\ b \notin Objs
    <3>1. \A k \in 0..Len(vals) - 1 : At(vals, k) \notin Objs
      BY <1>0, <1>p DEF Plain, At
    <3>2. QED
      BY <2>b, <3>1
  <2>d. ~CallsCmp(a, b) /\ Comparable(a, b)
    BY <2>c DEF CallsCmp, Comparable
  <2>e. Loses \/ (Compared(ret) /\ ret \in {-1, 0, 1})
    BY <1>4, <1>p, <2>d, CompareCases
  <2>f. SUFFICES ASSUME Compared(ret) /\ ret \in {-1, 0, 1} PROVE SortInv' /\ Computes'
    BY <1>l, <2>e
  <2>1. job.at = "cmp" /\ Compared(ret) /\ ret \in {-1, 0, 1}
    BY <2>a, <2>f
  <2>2. job.ask = "kids" => /\ ret = Order(At(vals, job.max), At(vals, job.max + 1))
                            /\ job.max = 2 * job.root /\ job.max + 1 \in 0..Len(vals) - 1
                            /\ job.max \in 0..Len(vals) - 1
    BY <1>0, <2>1, SMTT(30) DEF Asked, SortShape
  <2>3. job.ask # "kids" => /\ ret = Order(At(vals, job.root), At(vals, job.max))
                            /\ job.max \in Kids(job.root) /\ job.max <= job.bottom
                            /\ job.ask = "root" /\ job.max \in 0..Len(vals) - 1
                            /\ job.root \in 0..Len(vals) - 1
    BY <1>0, <2>1 DEF Asked, SortShape, Kids
  <2> HIDE DEF ret, a, b
  <2>4. CASE job.ask = "kids"
    <3>1. Asks /\ job'.ask = "root" /\ job'.max = IF ret > 0 THEN job.max ELSE job.max + 1
      BY <1>0, <2>1, <2>4, ComparedCases
    <3>2. /\ At(vals, job.max) \in Items /\ At(vals, job.max + 1) \in Items
          /\ Kids(job.root) = {job.max, job.max + 1}
      BY <1>i, <2>2, <2>4 DEF Kids
    <3>3. CASE ret > 0
      <4>1. job'.max = job.max /\ Leq(At(vals, job.max + 1), At(vals, job.max))
        BY <2>1, <2>2, <2>4, <3>1, <3>2, <3>3, OrderTotal
      <4>2. Over(vals, job.root, job'.max, job.bottom)
        BY <3>2, <4>1, OrderTotal DEF Over
      <4>3. QED
        BY <1>2, <3>1, <4>2
    <3>4. CASE ~(ret > 0)
      <4>1. job'.max = job.max + 1 /\ Leq(At(vals, job.max), At(vals, job.max + 1))
        BY <2>1, <2>2, <2>4, <3>1, <3>2, <3>4, OrderTotal
      <4>2. Over(vals, job.root, job'.max, job.bottom)
        BY <3>2, <4>1, OrderTotal DEF Over
      <4>3. QED
        BY <1>2, <3>1, <4>2
    <3>5. QED
      BY <3>3, <3>4
  <2>5. CASE job.ask # "kids" /\ ret >= 0
    <3>1. Leq(At(vals, job.max), At(vals, job.root))
      BY <1>i, <2>3, <2>5, OrderTotal
    <3>2. ASSUME NEW c \in Kids(job.root), c <= job.bottom PROVE Leq(At(vals, c), At(vals, job.root))
      <4>1. Leq(At(vals, c), At(vals, job.max)) /\ c \in 0..Len(vals) - 1
        BY <1>0, <1>1, <2>1, <2>3, <2>5, <3>2, SMTT(30) DEF Over, Kids
      <4>2. QED
        BY <1>i, <2>3, <2>5, <3>1, <4>1, OrderTotal
    <3>3. Over(vals, job.root, job.root, job.bottom)
      BY <3>2 DEF Over
    <3>4. SiftsNext \/ Extracts \/ Sorted \/ Loses
      BY <1>0, <2>1, <2>5, ComparedCases
    <3>5. QED
      BY <1>l, <1>p, <3>3, <3>4, PlacedKeeps
  <2>6. CASE job.ask # "kids" /\ ret < 0
    <3>1. Leq(At(vals, job.root), At(vals, job.max))
      BY <1>i, <2>3, <2>6, OrderTotal
    <3>2. job.root # job.max
      BY <2>3, <2>6 DEF Order
    <3>a. GoesDown \/ Loses
      BY <1>0, <2>1, <2>6, <3>2, ComparedCases
    <3>3. SUFFICES ASSUME GoesDown PROVE SortInv' /\ Computes'
      BY <1>l, <3>a
    <3>4. /\ vals' = Swap(vals, job.root, job.max) /\ last' = last /\ job'.at = "sift"
          /\ job'.stage = job.stage /\ job'.n = job.n /\ job'.root = job.max
          /\ job'.bottom = job.bottom
      BY <3>3 DEF GoesDown
    <3>5. /\ HeapBut(vals', Low(job), job.bottom, job.max)
          /\ UnderParent(vals', Low(job), job.bottom, job.max)
      BY <1>0, <1>1, <2>1, <2>3, <2>6, <3>1, <3>2, <3>4, DownKeepsHeap
    <3>6. ASSUME job.stage = "extract" PROVE SortedFrom(vals', job.n)
      <4>1. /\ job.n \in 0..Len(vals) /\ job.root \in 0..job.n - 1 /\ job.max \in 0..job.n - 1
        <5>1. job.n = job.bottom + 1 /\ job.bottom < Len(vals)
          BY <1>0, <3>6 DEF SortShape
        <5>2. job.root \in Nat /\ job.root <= job.bottom /\ job.max \in Nat /\ job.max <= job.bottom
          BY <1>0, <2>3, <2>6 DEF SortShape
        <5>3. QED
          BY <1>0, <5>1, <5>2
      <4>2. QED
        BY <1>0, <1>1, <3>4, <3>6, <4>1, SwapKeepsSorted
    <3>7. Low(job') = Low(job) /\ Low(job) <= job.max
      <4>1. job.root <= job.max
        BY <1>0, <2>3, <2>6 DEF Kids
      <4>2. QED
        BY <1>0, <3>4, <4>1 DEF Low
    <3>8. Sifting(vals', job')
      BY <3>4, <3>5, <3>6, <3>7 DEF Sifting
    <3>b. Plain(vals')
      BY <1>0, <1>p, <2>3, <2>6, <3>4, SwapPlain
    <3>9. QED
      BY <1>p, <3>4, <3>8, <3>b DEF SortInv, Computes
  <2>7. QED
    BY <2>1, <2>4, <2>5, <2>6
<1>5. QED
  BY <1>3, <1>4

-----------------------------------------------------------------------------
(* Every step keeps what the functions compute.                            *)

\* A native function that begins.
LEMMA StartResult ==
    ASSUME IInv, NEW op \in Ops, Start(op)
    PROVE  ResultInv'
<1>0. /\ vals \in Seq(Items) /\ Len(vals) \in Nat /\ vals' = vals
      /\ op \in {"sort", "csort", "map", "apply", "filter", "reduce", "ireduce"}
  <2>1. op \in {"sort", "csort", "map", "apply", "filter", "reduce", "ireduce"}
    BY ArraysAssumption
  <2>2. QED
    <3>1. vals \in Seq(Items) /\ Len(vals) \in Nat
      BY DEF IInv, TypeInv
    <3>2. QED
      BY <2>1, <3>1, StartCases, Zenon
<1> DEFINE j == NewJob(op)
<1>t. ~touched'
  BY <1>0, StartCases
<1>1. /\ j.op = op /\ j.start = vals /\ j.n = 0 /\ j.at = "next" /\ j.stage = "build"
      /\ j.size = Len(vals)
      /\ j.out = IF op = "map" THEN [k \in 1..Len(vals) |-> Nil] ELSE <<>>
  BY DEF NewJob
<1>2. {"op", "start", "n", "at", "stage", "out", "first", "root", "bottom"} \subseteq DOMAIN j
  BY DEF NewJob
<1>3. CASE op \in {"sort", "csort"} /\ Len(vals) <= 1
  <2>1. Finish(j, <<>>, vals)
    <3>1. op # "reduce" /\ op # "ireduce" /\ op \notin {"map", "apply", "filter"} /\ ~(Len(vals) > 1)
      BY <1>0, <1>3
    <3>2. QED
      BY <1>0, <3>1, StartCases, Zenon DEF StartsAs
  <2>2. job' = Nil /\ last'.op = op /\ last'.start = vals
    <3> HIDE DEF j
    <3>1. job' = Nil /\ last'.op = j.op /\ last'.start = j.start
      BY <2>1, EndedFields DEF Finish
    <3>2. QED
      BY <1>1, <3>1
  <2>3. Computes'
    BY <1>0, <1>3, <2>2 DEF Computes
  <2>4. QED
    BY <2>2, <2>3 DEF ResultInv, LoopInv, SortInv, PlainSort
<1>4. CASE op \in {"sort", "csort"} /\ Len(vals) > 1
  <2>1. /\ job' = [j EXCEPT !.at = "sift", !.n = Len(vals) \div 2,
                             !.root = Len(vals) \div 2, !.bottom = Len(vals) - 1]
        /\ last' = Nil
    <3>1. op # "reduce" /\ op # "ireduce" /\ op \notin {"map", "apply", "filter"} /\ ~(Len(vals) <= 1)
      BY <1>0, <1>4
    <3>2. QED
      BY <1>0, <3>1, StartCases, Zenon DEF StartsAs
  <2> HIDE DEF j
  <2>2. /\ job'.op = op /\ job'.at = "sift" /\ job'.n = Len(vals) \div 2 /\ job'.stage = "build"
        /\ job'.root = Len(vals) \div 2 /\ job'.bottom = Len(vals) - 1 /\ job'.start = vals
    BY <1>1, <1>2, <2>1
  <2>3. PICK h \in Nat : h = Len(vals) \div 2 /\ 2 * h >= Len(vals) - 1
    BY <1>0
  <2>4. \A i \in h..Len(vals) - 1 : i # h => Over(vals, i, i, Len(vals) - 1)
    BY <1>0, <2>3 DEF Over, Kids
  <2>5. UnderParent(vals, h, Len(vals) - 1, h)
    BY <1>0, <2>3 DEF UnderParent, Kids
  <2>6. Sifting(vals, job')
    BY <2>2, <2>3, <2>4, <2>5 DEF Sifting, Low, HeapBut
  <2>7. QED
    BY <1>0, <1>4, <1>t, <2>1, <2>2, <2>6
       DEF ResultInv, LoopInv, SortInv, PlainSort, Computes, IsSort
<1>5. CASE op = "reduce" /\ vals = <<>>
  <2>1. Finish(j, Nil, vals)
    BY <1>5 DEF Start
  <2>2. job' = Nil /\ last'.op = op /\ last'.start = vals /\ last'.out = Nil
    <3> HIDE DEF j
    <3>1. job' = Nil /\ last'.op = j.op /\ last'.start = j.start /\ last'.out = Nil
      BY <2>1, EndedFields DEF Finish
    <3>2. QED
      BY <1>1, <3>1
  <2>4. Computes'
    BY <1>5, <2>2 DEF Computes
  <2>5. QED
    BY <2>2, <2>4 DEF ResultInv, LoopInv, SortInv, PlainSort
<1>6. CASE op = "reduce" /\ vals # <<>>
  <2>1. /\ job' = [j EXCEPT !.n = 1, !.out = At(vals, 0), !.first = At(vals, 0)] /\ last' = Nil
    BY <1>6 DEF Start
  <2> HIDE DEF j
  <2>2. /\ job'.op = op /\ job'.at = "next" /\ job'.n = 1 /\ job'.out = vals[1] /\ job'.start = vals
        /\ job'.first = vals[1]
    BY <1>1, <1>2, <2>1 DEF At
  <2>3. ReducedTo(vals, 1, vals[1])[1] = vals[1]
    <3>1. Len(vals) >= 1
      BY <1>0, <1>6, EmptySeq
    <3>2. vals[1] \in Items /\ 1 \in 0..Len(vals) /\ 1 \in Nat
      BY <1>0, <3>1
    <3>3. QED
      BY <1>0, <3>2, ReducedRecursion
  <2>4. Progress(job', vals, vals)
    BY <1>6, <2>2, <2>3 DEF Progress, From
  <2>5. QED
    BY <1>0, <1>6, <2>1, <2>2, <2>4 DEF ResultInv, LoopInv, SortInv, PlainSort, Computes
<1>9. CASE op = "ireduce"
  <2>0. PICK v \in Vals \cup {Nil} :
            job' = [j EXCEPT !.out = v, !.first = v] /\ last' = Nil
    BY <1>9 DEF Start
  <2>1. v \in Items
    BY <2>0, ArraysAssumption DEF Items
  <2> HIDE DEF j
  <2>2. /\ job'.op = op /\ job'.at = "next" /\ job'.n = 0 /\ job'.out = v /\ job'.start = vals
        /\ job'.first = v
    BY <1>1, <1>2, <2>0
  <2>3. ReducedTo(vals, 0, v)[0] = v
    <3>1. 0 \in 0..Len(vals) /\ 0 \in Nat
      BY <1>0
    <3>2. QED
      BY <1>0, <2>1, <3>1, ReducedRecursion
  <2>4. Progress(job', vals, vals)
    BY <1>9, <2>2, <2>3 DEF Progress, From
  <2>5. QED
    BY <1>0, <1>9, <2>0, <2>2, <2>4 DEF ResultInv, LoopInv, SortInv, PlainSort, Computes
<1>7. CASE op \in {"map", "apply", "filter"}
  <2>1. job' = j /\ last' = Nil
    BY <1>7 DEF Start
  <2> HIDE DEF j
  <2>2. /\ op = "apply" => vals = [k \in 1..Len(vals) |-> IF k <= 0 THEN Mapped(vals[k]) ELSE vals[k]]
        /\ op = "map" => j.out = [k \in 1..Len(vals) |-> IF k <= 0 THEN Mapped(vals[k]) ELSE Nil]
    <3>1. \A k \in 1..Len(vals) : ~(k <= 0)
      OBVIOUS
    <3>2. vals = [k \in 1..Len(vals) |-> vals[k]]
      BY <1>0
    <3>3. QED
      BY <1>1, <3>1, <3>2
  <2>3. op = "filter" => j.out = FilteredTo(vals)[0]
    BY <1>0, <1>1, FilteredRecursion
  <2>4. Progress(j, vals, vals)
    BY <1>0, <1>1, <1>7, <2>1, <2>2, <2>3 DEF Progress
  <2>5. QED
    BY <1>0, <1>1, <1>7, <2>1, <2>4 DEF ResultInv, LoopInv, SortInv, PlainSort, Computes
<1>8. QED
  BY <1>0, <1>3, <1>4, <1>5, <1>6, <1>7, <1>9

\* The loop of a native function that fetches an element or ends.
LEMMA FetchResult ==
    ASSUME IInv, ResultInv, Fetch
    PROVE  ResultInv'
<1>0. /\ JobShape(job) /\ ~IsSort(job) /\ LoopShape(job) /\ Len(job.start) = job.size
      /\ vals \in Seq(Items) /\ job # Nil /\ job.n \in Nat /\ job.size \in Nat
      /\ job.start \in Seq(Items) /\ vals' = vals /\ touched' = touched
      /\ job.op \in {"map", "apply", "filter", "reduce", "ireduce"}
  BY JobFields DEF IInv, JobOK, TypeInv, Fetch, SortShape, IsSort
<1> DEFINE s == job.start
<1>1. CASE job.n < job.size
  <2>1. PICK t : /\ t = (IF In(vals, job.n) THEN At(vals, job.n) ELSE job.temp)
                 /\ job' = [job EXCEPT !.at = "call", !.temp = t]
                 /\ last' = last
    BY <1>1 DEF Fetch
  <2>2. /\ job'.op = job.op /\ job'.at = "call" /\ job'.n = job.n /\ job'.start = job.start
        /\ job'.out = job.out /\ job'.temp = t /\ job'.first = job.first
    BY <1>0, <2>1 DEF JobShape
  <2>3. ~touched => t = s[job.n + 1]
    <3>1. ASSUME ~touched PROVE Len(vals) = Len(s) /\ vals[job.n + 1] = s[job.n + 1]
      <4>1. Progress(job, s, vals) /\ job.n + 1 \in 1..Len(s) /\ ~(job.n + 1 <= job.n)
        BY <1>0, <1>1, <3>1 DEF ResultInv, LoopInv
      <4>2. QED
        BY <1>0, <4>1 DEF Progress
    <3>2. QED
      BY <1>0, <1>1, <2>1, <3>1 DEF In, At
  <2>4. ~touched => Progress(job', s, vals)
    BY <1>0, <2>2, <2>3 DEF ResultInv, LoopInv, Progress, From
  <2>5. QED
    BY <1>0, <2>1, <2>2, <2>4 DEF ResultInv, LoopInv, SortInv, PlainSort, Computes, IsSort
<1>2. CASE ~(job.n < job.size)
  <2>1. Finish(job, job.out, vals) /\ job.n = Len(s)
    BY <1>0, <1>2 DEF Fetch, LoopShape
  <2>2. /\ job' = Nil /\ last'.op = job.op /\ last'.start = s /\ last'.out = job.out
        /\ last'.vals = vals /\ last'.touched = touched /\ last'.first = job.first
    BY <2>1, EndedFields DEF Finish
  <2>3. ASSUME ~touched
        PROVE  /\ job.op = "apply" => vals = [i \in DOMAIN s |-> Mapped(s[i])]
               /\ job.op = "map" => job.out = [i \in DOMAIN s |-> Mapped(s[i])]
               /\ job.op = "filter" => job.out = Filtered(s)
               /\ job.op = "reduce" => job.out = (IF s = <<>> THEN Nil ELSE Reduced(s, 1, s[1]))
               /\ job.op = "ireduce" => job.out = Reduced(s, 0, job.first)
    <3>1. Progress(job, s, vals) /\ DOMAIN s = 1..Len(s)
      BY <1>0, <2>3 DEF ResultInv, LoopInv
    <3>2. \A k \in 1..Len(s) : k <= job.n
      BY <2>1
    <3>3. /\ job.op = "apply" => vals = [i \in DOMAIN s |-> Mapped(s[i])]
          /\ job.op = "map" => job.out = [i \in DOMAIN s |-> Mapped(s[i])]
      BY <3>1, <3>2 DEF Progress
    <3>4. job.op = "filter" => job.out = Filtered(s)
      BY <1>0, <2>1, <3>1, FilteredRecursion DEF Progress
    <3>5. job.first \in Items /\ From(job) \in Nat
      BY <1>0, JobFields DEF From
    <3>6. job.op \in {"reduce", "ireduce"} => job.out = Reduced(s, From(job), job.first)
      BY <1>0, <2>1, <3>1, <3>5, ReducedRecursion DEF Progress
    <3>7. QED
      BY <3>1, <3>3, <3>4, <3>6 DEF Progress, From
  <2>4. Computes'
    BY <1>0, <2>2, <2>3 DEF Computes
  <2>5. QED
    BY <2>2, <2>4 DEF ResultInv, LoopInv, SortInv, PlainSort
<1>3. QED
  BY <1>1, <1>2

\* A callback that returns.
LEMMA ReturnedResult ==
    ASSUME IInv, ResultInv, Returned
    PROVE  ResultInv'
<1>0. /\ JobShape(job) /\ ~IsSort(job) /\ LoopShape(job) /\ Len(job.start) = job.size
      /\ vals \in Seq(Items) /\ job # Nil /\ job.n \in Nat /\ job.size \in Nat
      /\ job.start \in Seq(Items) /\ touched' = touched /\ job.at = "call" /\ last' = last
      /\ job.op \in {"map", "apply", "filter", "reduce", "ireduce"}
  BY JobFields DEF IInv, JobOK, TypeInv, Returned, Waiting, IsSort
<1> DEFINE s == job.start
           t == job.temp
<1>1. PICK o, m : /\ o = CASE job.op = "map" -> SetAt(job.out, job.n, Mapped(t))
                            [] job.op = "filter" -> IF Kept(t) THEN Append(job.out, t) ELSE job.out
                            [] job.op \in {"reduce", "ireduce"} -> Folded(job.out, t)
                            [] job.op = "apply" -> <<>>
                  /\ m = job.n + 1
                  /\ job' = [job EXCEPT !.at = "next", !.n = m, !.out = o]
  BY DEF Returned
<1>2. /\ job'.op = job.op /\ job'.at = "next" /\ job'.n = m /\ job'.start = s /\ job'.out = o
      /\ job'.first = job.first
  BY <1>0, <1>1 DEF JobShape
<1>3. vals' = IF job.op = "apply" /\ In(vals, job.n) THEN SetAt(vals, job.n, Mapped(t)) ELSE vals
  BY DEF Returned
<1>4. ASSUME ~touched PROVE Progress(job', s, vals')
  <2>1. Progress(job, s, vals)
    BY <1>0, <1>4 DEF ResultInv, LoopInv
  <2>2. /\ t = s[m] /\ m \in 1..Len(s) /\ m - 1 = job.n /\ m = job.n + 1 /\ m \in Nat
        /\ \A k \in 1..Len(s) : (k <= m <=> k <= job.n \/ k = m) /\ (k = m => ~(k <= job.n))
    BY <1>0, <1>1, <2>1 DEF Progress, LoopShape
  <2>3. CASE job.op = "map"
    <3>1. /\ o = [job.out EXCEPT ![m] = Mapped(t)] /\ vals' = vals
          /\ job.out = [k \in 1..Len(s) |-> IF k <= job.n THEN Mapped(s[k]) ELSE Nil]
      BY <1>1, <1>3, <2>1, <2>2, <2>3 DEF Progress, SetAt
    <3>2. o = [k \in 1..Len(s) |-> IF k <= m THEN Mapped(s[k]) ELSE Nil]
      BY <2>2, <3>1
    <3>3. QED
      BY <1>2, <2>1, <2>3, <3>1, <3>2 DEF Progress
  <2>4. CASE job.op = "apply"
    <3>1. vals = [k \in 1..Len(s) |-> IF k <= job.n THEN Mapped(s[k]) ELSE s[k]]
      BY <2>1, <2>4 DEF Progress
    <3>2. In(vals, job.n)
      <4>1. DOMAIN vals = 1..Len(s) /\ DOMAIN vals = 1..Len(vals) /\ Len(vals) \in Nat
        BY <1>0, <3>1
      <4>2. Len(vals) = Len(s)
        BY <1>0, <4>1
      <4>3. QED
        BY <1>0, <2>2, <4>2 DEF In
    <3>3. vals' = [vals EXCEPT ![m] = Mapped(t)]
      BY <1>3, <2>2, <2>4, <3>2 DEF SetAt
    <3>4. vals' = [k \in 1..Len(s) |-> IF k <= m THEN Mapped(s[k]) ELSE s[k]]
      BY <2>2, <3>1, <3>3
    <3>5. QED
      BY <1>2, <2>4, <3>4 DEF Progress
  <2>5. CASE job.op = "filter"
    <3>1. o = (IF Kept(s[m]) THEN Append(job.out, s[m]) ELSE job.out) /\ vals' = vals
      BY <1>1, <1>3, <2>2, <2>5
    <3>2. job.out = FilteredTo(s)[m - 1] /\ vals = s
      BY <2>1, <2>2, <2>5 DEF Progress
    <3>3. o = FilteredTo(s)[m]
      BY <1>0, <2>2, <3>1, <3>2, FilteredRecursion
    <3>4. QED
      BY <1>2, <2>5, <3>1, <3>2, <3>3 DEF Progress
  <2>6. CASE job.op \in {"reduce", "ireduce"}
    <3> DEFINE k == From(job)
               acc == job.first
    <3>1. o = Folded(job.out, s[m]) /\ vals' = vals
      BY <1>1, <1>3, <2>2, <2>6
    <3>2. /\ job.out = ReducedTo(s, k, acc)[m - 1] /\ vals = s /\ k <= job.n
          /\ job.op = "reduce" => s # <<>> /\ acc = s[1]
      BY <2>1, <2>2, <2>6 DEF Progress
    <3>3. k \in Nat /\ acc \in Items /\ From(job') = k /\ job'.first = acc
      BY <1>0, <1>2, JobFields DEF From
    <3> HIDE DEF k, acc
    <3>4. m \in 0..Len(s) /\ ~(m <= k) /\ k <= m
      BY <1>0, <2>2, <3>2, <3>3
    <3>5. o = ReducedTo(s, k, acc)[m]
      BY <1>0, <3>1, <3>2, <3>3, <3>4, ReducedRecursion
    <3>6. QED
      BY <1>2, <2>6, <3>1, <3>2, <3>3, <3>4, <3>5 DEF Progress
  <2>7. QED
    BY <1>0, <2>3, <2>4, <2>5, <2>6
<1>5. QED
  BY <1>0, <1>2, <1>4 DEF ResultInv, LoopInv, SortInv, PlainSort, Computes, IsSort

\* Every step keeps what has been computed so far.
LEMMA NextResult ==
    ASSUME IInv, IInv', ResultInv, [Next]_vars
    PROVE  ResultInv'
<1>1. ASSUME job' = Nil, \/ last' = Nil \/ last' = last \/ ~last'.ok \/ last'.op = "csort"
                         \/ last'.op = "sort" /\ ~Plain(last'.start)
      PROVE  ResultInv'
  BY <1>1 DEF ResultInv, LoopInv, SortInv, PlainSort, Plain, Computes
<1>2. ASSUME NEW v, NEW c, Change(v, c) PROVE ResultInv'
  <2>1. last' = Nil /\ (job # Nil => touched' /\ Waiting) /\ (job = Nil => job' = Nil)
    BY <1>2 DEF Change
  <2>2. CASE job = Nil
    BY <1>1, <2>1, <2>2
  <2>3. CASE job # Nil
    <3>1. JobShape(job) /\ ~PlainSort
      BY <2>1, <2>3 DEF Waiting, IInv, JobOK, ResultInv, SortInv
    <3>2. job'.op = job.op /\ job'.start = job.start
      BY <1>2, <2>3, <3>1 DEF Change, JobShape
    <3>3. QED
      BY <2>1, <2>3, <3>1, <3>2 DEF ResultInv, LoopInv, SortInv, PlainSort, Computes
  <2>4. QED
    BY <2>2, <2>3
<1>3. ASSUME job # Nil, Fail(job) PROVE ResultInv'
  BY <1>1, <1>3, EndedFields DEF Fail
<1>4. ASSUME job # Nil, IsSort(job), ~PlainSort,
             SiftsNext \/ Extracts \/ Sorted \/ Asks \/ Calls \/ GoesDown \/ Loses
      PROVE  ResultInv'
  <2>1. CASE Sorted
    <3>1. job' = Nil /\ last'.op = job.op /\ last'.start = job.start
      BY <2>1, EndedFields DEF Sorted, Finish
    <3>2. QED
      BY <1>1, <1>4, <3>1 DEF PlainSort, IsSort
  <2>2. CASE SiftsNext \/ Extracts \/ Asks \/ Calls \/ GoesDown \/ Loses
    <3>1. job'.op = job.op /\ job'.start = job.start /\ last' = last
      BY <2>2 DEF SiftsNext, Extracts, Asks, Calls, GoesDown, Loses, SameSort
    <3>2. QED
      BY <1>4, <3>1 DEF ResultInv, LoopInv, SortInv, PlainSort, Computes, IsSort
  <2>3. QED
    BY <1>4, <2>1, <2>2
<1>5. CASE SiftDown \/ Compare
  <2>1. job # Nil /\ JobShape(job) /\ IsSort(job)
    BY <1>5 DEF SiftDown, Compare, IInv, JobOK, LoopShape, IsSort
  <2>2. \/ SiftsNext \/ Extracts \/ Sorted \/ Asks \/ Calls \/ GoesDown \/ Loses
        \/ Fail(job)
    <3>1. ASSUME NEW ret \in {-1, 0, 1}, Compared(ret)
          PROVE  SiftsNext \/ Extracts \/ Asks \/ Sorted \/ GoesDown \/ Loses \/ Fail(job)
      BY <2>1, <3>1, ComparedCases
    <3>2. CASE Compare
      BY <3>1, <3>2, CompareCases
    <3>3. QED
      BY <1>5, <3>2, SiftDownCases
  <2>3. CASE ~PlainSort
    BY <1>3, <1>4, <2>1, <2>2, <2>3
  <2>4. CASE PlainSort
    <3>1. SortInv' /\ Computes'
      BY <1>5, <2>4, SortStepKeeps DEF ResultInv
    <3>2. job' = Nil \/ job'.op = "sort"
      BY <2>2, <2>4, EndedFields
         DEF SiftsNext, Extracts, Asks, Sorted, Calls, GoesDown, Loses, Finish, Fail, SameSort,
             PlainSort
    <3>3. QED
      BY <3>1, <3>2 DEF ResultInv, LoopInv, IsSort
  <2>5. QED
    BY <2>3, <2>4
<1>6. CASE CompareReturns
  <2>1. job # Nil /\ JobShape(job) /\ IsSort(job) /\ job.at = "call" /\ ~PlainSort
    BY <1>6 DEF CompareReturns, Waiting, IInv, JobOK, ResultInv, SortInv
  <2>2. ASSUME NEW ret \in {-1, 0, 1}, Compared(ret) PROVE ResultInv'
    BY <1>3, <1>4, <2>1, <2>2, ComparedCases
  <2>3. QED
    BY <1>3, <1>6, <2>1, <2>2 DEF CompareReturns
<1>7. CASE Throws
  BY <1>3, <1>7 DEF Throws, Waiting
<1>9. CASE Iterate \/ IterNext \/ UNCHANGED vars
  <2>1. vals' = vals /\ job' = job /\ last' = last /\ touched' = touched
    BY <1>9 DEF Iterate, IterNext, vars
  <2>2. QED
    BY <2>1 DEF ResultInv, LoopInv, SortInv, PlainSort, Computes, IsSort
<1>10. QED
  BY <1>2, <1>5, <1>6, <1>7, <1>9, StartResult, FetchResult, ReturnedResult
     DEF Next, Native, Append_, Pop, Reverse_, Remove_, Resize, Insert, Set

\* A native function whose callback leaves the array alone computes what the
\* manual says, for every array: sort puts one without objects in the order of
\* ObjCmp (the heap sort of _hsort, with the children of i at 2 * i and
\* 2 * i + 1, is correct), map and apply give the image, filter the elements
\* that pass, in their order, and reduce the fold from the first element or
\* from the initial value.
THEOREM FunctionsCompute == Spec => []Computes
<1>1. Init => ResultInv
  BY DEF Init, ResultInv, LoopInv, SortInv, PlainSort, Computes
<1>2. IInv /\ IInv' /\ ResultInv /\ [Next]_vars => ResultInv'
  BY NextResult
<1>3. ResultInv => Computes
  BY DEF ResultInv
<1>4. QED
  BY SpecIInv, <1>1, <1>2, <1>3, PTL DEF Spec
=============================================================================
