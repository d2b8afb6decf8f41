------------------------------- MODULE Arrays -------------------------------
(***************************************************************************)
(* One SQArray, the functions of its default delegate that call back into  *)
(* the program (sort, map, apply, filter, reduce), and the ArrayItems      *)
(* iterator of the Rust crate.                                             *)
(*                                                                         *)
(* A native function keeps what it read before a callback: the length, the *)
(* indices it works on, the element it fetched.  The callback may change   *)
(* the array, which may move its block.  Each callback is a point where    *)
(* the program's actions interleave with the native function.              *)
(***************************************************************************)
EXTENDS Integers, Sequences, SequencesExt, FiniteSets

CONSTANTS
    Arrays0,    \* the arrays a behaviour starts from
    Vals,       \* the numbers the program stores
    Objs,       \* values that stand for objects of one type with a _cmp
    Convertible,\* the values the V of Array::iter::<V> can be made from
    Ops,        \* the native functions the program calls: csort is sort with a
                \* compare function, ireduce reduce with an initial value
    MinCap,     \* capacity under which sqvector does not shrink (4 in the code)
    MaxLen,     \* bound: length of the array
    MaxSteps,   \* bound: changes the program makes
    Nil         \* null, and "no native call", "no iterator"

ASSUME ArraysAssumption ==
    /\ Vals \subseteq Int /\ Convertible \subseteq Vals /\ Objs \subseteq Int
    /\ Ops \subseteq {"sort", "csort", "map", "apply", "filter", "reduce", "ireduce"}
    /\ MinCap \in Nat /\ MaxLen \in Nat /\ MaxSteps \in Nat /\ Nil \notin Int
    /\ \A a \in Arrays0 : a \in Seq(Int \cup {Nil}) /\ Len(a) <= MaxLen

VARIABLES
    vals,       \* _values
    cap,        \* _values.capacity()
    job,        \* the native function that runs, or Nil
    touched,    \* the callback of the running function changed the array
    last,       \* the last function that returned, and its result
    iter,       \* the ArrayItems the program walks, or Nil
    steps       \* changes made so far

vars == <<vals, cap, job, touched, last, iter, steps>>

At(s, i) == s[i + 1]            \* arrays are 0-based
SetAt(s, i, v) == [s EXCEPT ![i + 1] = v]
Swap_Copy(s, i, j) == SetAt(s, j, At(s, i))
Swap(s, i, j) == SetAt(SetAt(s, i, At(s, j)), j, At(s, i))
In(s, i) == 0 <= i /\ i < Len(s)

-----------------------------------------------------------------------------
(* sqvector, SQArray                                                       *)

Realloc(n) == IF n > 0 THEN n ELSE 4
Grown_Late(n) == IF n > cap + 1 THEN Realloc(n) ELSE cap
Grown(n) == IF n > cap THEN Realloc(n) ELSE cap
Shrunk(n, c) == IF n <= c \div 4 /\ n > MinCap THEN n ELSE c

\* The program may change the array when no native function runs, or in a
\* callback of one. A reallocation may move the block.
Waiting == job # Nil /\ job.at = "call"
Change(v, c) ==
    /\ job = Nil \/ Waiting
    /\ steps < MaxSteps /\ steps' = steps + 1
    /\ Len(v) <= MaxLen
    /\ vals' = v /\ cap' = c
    /\ touched' = (job # Nil)
    /\ IF job = Nil \/ c = cap THEN UNCHANGED job
       ELSE \E m \in {TRUE, job.moved} : job' = [job EXCEPT !.moved = m]
    /\ last' = Nil /\ UNCHANGED iter

Append_(v) == Change(Append(vals, v), IF cap <= Len(vals) THEN Realloc(2 * Len(vals)) ELSE cap)
Pop == vals # <<>> /\ Change(Front(vals), Shrunk(Len(vals) - 1, cap))
Insert(i, v) ==
    0 <= i /\ i <= Len(vals) /\ Change(InsertAt(vals, i + 1, v), Grown(Len(vals) + 1))
Remove_(i) == In(vals, i) /\ Change(RemoveAt(vals, i + 1), Shrunk(Len(vals) - 1, cap))
Resize(n) ==
    Change([k \in 1..n |-> IF k <= Len(vals) THEN vals[k] ELSE Nil], Shrunk(n, Grown(n)))
Reverse_ == vals # Reverse(vals) /\ Change(Reverse(vals), cap)
Set(i, v) == In(vals, i) /\ Change(SetAt(vals, i, v), cap)

-----------------------------------------------------------------------------
(* Native functions: their local state                                     *)

\* at: "next" (about to fetch), "call" (in the callback), and for a sort
\* "sift" (top of the loop of _hsort_sift_down), "cmp" (about to compare),
\* "lost" (it has used an index outside of the array: what follows is
\* undefined). temp is the value fetched, out the result, first what a fold
\* starts from.
NewJob(op) ==
    [op |-> op, at |-> "next", n |-> 0, size |-> Len(vals), temp |-> Nil,
     out |-> IF op = "map" THEN [k \in 1..Len(vals) |-> Nil] ELSE <<>>,
     first |-> Nil, moved |-> FALSE, start |-> vals,
     stage |-> "build", root |-> 0, bottom |-> 0, ask |-> "", max |-> 0]

IsSort(j) == j.op \in {"sort", "csort"}
Ended(j, ok, result, v) ==
    /\ last' = [op |-> j.op, ok |-> ok, start |-> j.start, first |-> j.first,
                out |-> result, vals |-> v, touched |-> touched]
    /\ job' = Nil
Finish(j, result, v) == Ended(j, TRUE, result, v)
Fail(j) == Ended(j, FALSE, Nil, vals)

\* array_sort and array_reduce return at once on a short array. A fold begins
\* with the first element, or with the initial value it is given.
Start(op) ==
    /\ job = Nil /\ op \in Ops /\ steps < MaxSteps /\ steps' = steps + 1
    /\ touched' = FALSE
    /\ CASE op \in {"sort", "csort"} /\ Len(vals) <= 1 ->
                Finish(NewJob(op), <<>>, vals)
         [] op \in {"sort", "csort"} /\ Len(vals) > 1 ->
                /\ job' = [NewJob(op) EXCEPT !.at = "sift", !.n = Len(vals) \div 2,
                                   !.root = Len(vals) \div 2, !.bottom = Len(vals) - 1]
                /\ last' = Nil
         [] op = "reduce" /\ vals = <<>> -> Finish(NewJob(op), Nil, vals)
         [] op = "reduce" /\ vals # <<>> ->
                /\ job' = [NewJob(op) EXCEPT !.n = 1, !.out = At(vals, 0), !.first = At(vals, 0)]
                /\ last' = Nil
         [] op = "ireduce" ->
                /\ \E v \in Vals \cup {Nil} :
                       job' = [NewJob(op) EXCEPT !.out = v, !.first = v]
                /\ last' = Nil
         [] OTHER -> job' = NewJob(op) /\ last' = Nil
    /\ UNCHANGED <<vals, cap, iter>>

-----------------------------------------------------------------------------
(* sort                                                                    *)

\* An index outside of the array.
Lost(j) == job' = [j EXCEPT !.at = "lost"] /\ UNCHANGED <<vals, last>>

\* _hsort: the next element to sift, or the end. The extraction swaps the top
\* of the heap behind it first.
NextSift_Short(j) ==
    LET i == IF j.stage = "build" THEN j.size - 1 ELSE j.n - 1 IN
    CASE j.stage = "build" /\ j.n > 0 ->
            /\ job' = [j EXCEPT !.at = "sift", !.n = @ - 1, !.root = j.n - 1, !.bottom = j.size - 1]
            /\ UNCHANGED <<vals, last>>
      [] ~(j.stage = "build" /\ j.n > 0) /\ i > 1 /\ In(vals, i) ->
            /\ job' = [j EXCEPT !.at = "sift", !.stage = "extract", !.n = i, !.root = 0, !.bottom = i - 1]
            /\ vals' = Swap(vals, 0, i) /\ UNCHANGED last
      [] ~(j.stage = "build" /\ j.n > 0) /\ i > 1 /\ ~In(vals, i) -> Lost(j)
      [] OTHER -> Finish(j, <<>>, vals) /\ UNCHANGED vals
NextSift(j) ==
    LET i == IF j.stage = "build" THEN j.size - 1 ELSE j.n - 1 IN
    CASE j.stage = "build" /\ j.n > 0 ->
            /\ job' = [j EXCEPT !.at = "sift", !.n = @ - 1, !.root = j.n - 1, !.bottom = j.size - 1]
            /\ UNCHANGED <<vals, last>>
      [] ~(j.stage = "build" /\ j.n > 0) /\ i >= 1 /\ In(vals, i) ->
            /\ job' = [j EXCEPT !.at = "sift", !.stage = "extract", !.n = i, !.root = 0, !.bottom = i - 1]
            /\ vals' = Swap(vals, 0, i) /\ UNCHANGED last
      [] ~(j.stage = "build" /\ j.n > 0) /\ i >= 1 /\ ~In(vals, i) -> Lost(j)
      [] OTHER -> Finish(j, <<>>, vals) /\ UNCHANGED vals

\* The top of the loop in _hsort_sift_down: which comparison comes next.
SiftDown ==
    /\ job # Nil /\ job.at = "sift"
    /\ LET r2 == 2 * job.root IN
       IF r2 > job.bottom THEN NextSift(job)
       ELSE /\ job' = [job EXCEPT !.at = "cmp", !.moved = FALSE,
                         !.max = r2, !.ask = IF r2 = job.bottom THEN "root" ELSE "kids"]
            /\ UNCHANGED <<vals, last>>
    /\ UNCHANGED <<cap, iter, steps, touched>>

\* The elements _sort_compare is given.
Asked(j) == IF j.ask = "kids" THEN <<j.max, j.max + 1>> ELSE <<j.root, j.max>>

\* The code after _sort_compare has answered ret.
Compared_NoSelfTest(ret) ==
    CASE job.ask = "kids" ->
            /\ job' = [job EXCEPT !.at = "cmp", !.ask = "root", !.moved = FALSE,
                                  !.max = IF ret > 0 THEN @ ELSE @ + 1]
            /\ UNCHANGED <<vals, last>>
      [] job.ask # "kids" /\ ret >= 0 -> NextSift(job)
      [] job.ask # "kids" /\ ret < 0 /\ In(vals, job.root) /\ In(vals, job.max) ->
            /\ vals' = Swap(vals, job.root, job.max)
            /\ job' = [job EXCEPT !.root = job.max, !.at = "sift"] /\ UNCHANGED last
      [] OTHER -> Lost(job)
Compared(ret) ==
    CASE job.ask = "kids" ->
            /\ job' = [job EXCEPT !.at = "cmp", !.ask = "root", !.moved = FALSE,
                                  !.max = IF ret > 0 THEN @ ELSE @ + 1]
            /\ UNCHANGED <<vals, last>>
      [] job.ask # "kids" /\ ret >= 0 -> NextSift(job)
      [] job.ask # "kids" /\ ret < 0 /\ job.root = job.max -> Fail(job) /\ UNCHANGED vals
      [] job.ask # "kids" /\ ret < 0 /\ job.root # job.max
         /\ In(vals, job.root) /\ In(vals, job.max) ->
            /\ vals' = Swap(vals, job.root, job.max)
            /\ job' = [job EXCEPT !.root = job.max, !.at = "sift"] /\ UNCHANGED last
      [] OTHER -> Lost(job)

\* ObjCmp: the same value, null, numbers (and objects without _cmp, by address)
\* in their order; two objects call _cmp; an object and a number cannot be
\* compared.
Order(a, b) == IF a = b THEN 0 ELSE IF a = Nil \/ (b # Nil /\ a < b) THEN -1 ELSE 1
CallsCmp(a, b) == a # b /\ a \in Objs /\ b \in Objs
Comparable(a, b) == a = b \/ Nil \in {a, b} \/ (a \in Objs <=> b \in Objs)

\* _sort_compare up to its callback. A sort with a compare function always
\* calls it, one without calls back where ObjCmp does.
Compare ==
    /\ job # Nil /\ job.at = "cmp"
    /\ LET i == Asked(job)[1]
           k == Asked(job)[2]
           a == At(vals, i)
           b == At(vals, k)
       IN  CASE ~(In(vals, i) /\ In(vals, k)) -> Lost(job)
             [] In(vals, i) /\ In(vals, k) /\ (job.op = "csort" \/ CallsCmp(a, b)) ->
                   job' = [job EXCEPT !.at = "call"] /\ UNCHANGED <<vals, last>>
             [] In(vals, i) /\ In(vals, k) /\ job.op = "sort" /\ ~Comparable(a, b) ->
                   Fail(job) /\ UNCHANGED vals
             [] OTHER -> Compared(Order(a, b))
    /\ UNCHANGED <<cap, iter, steps, touched>>

\* The callback returns any answer. Only after a compare function the array is
\* checked against its size and block of before.
Resized_Unnoticed(j) == FALSE
Resized(j) == j.op = "csort" /\ (Len(vals) # j.size \/ j.moved)
CompareReturns ==
    /\ Waiting /\ IsSort(job)
    /\ IF Resized(job) THEN Fail(job) /\ UNCHANGED vals
       ELSE \E ret \in {-1, 0, 1} : Compared(ret)
    /\ UNCHANGED <<cap, iter, steps, touched>>

-----------------------------------------------------------------------------
(* map, apply, filter, reduce                                              *)

\* The callbacks of the instances: what they answer for an element.
Mapped(v) == IF v = Nil THEN Nil ELSE 10 + (v % 10)
Kept(v) == v # Nil /\ v % 2 = 1
Folded(acc, v) == IF acc = Nil \/ v = Nil THEN Nil ELSE (acc + v) % 100

\* The head of the loop: SQArray::Get leaves temp alone when n is out of
\* range.
Fetch ==
    /\ job # Nil /\ job.at = "next"
    /\ IF job.n < job.size
       THEN /\ job' = [job EXCEPT !.at = "call",
                          !.temp = IF In(vals, job.n) THEN At(vals, job.n) ELSE @]
            /\ UNCHANGED last
       ELSE Finish(job, job.out, vals)
    /\ UNCHANGED <<vals, cap, iter, steps, touched>>

\* The callback returns, and its answer is stored: Set is a no-op out of range.
Returned ==
    /\ Waiting /\ ~IsSort(job)
    /\ LET v == job.temp
           out == CASE job.op = "map" -> SetAt(job.out, job.n, Mapped(v))
                    [] job.op = "filter" -> IF Kept(v) THEN Append(job.out, v) ELSE job.out
                    [] job.op \in {"reduce", "ireduce"} -> Folded(job.out, v)
                    [] job.op = "apply" -> <<>>
       IN  job' = [job EXCEPT !.at = "next", !.n = @ + 1, !.out = out]
    /\ vals' = IF job.op = "apply" /\ In(vals, job.n) THEN SetAt(vals, job.n, Mapped(job.temp)) ELSE vals
    /\ UNCHANGED <<cap, last, iter, steps, touched>>

\* The callback throws (or answers a comparison with no number).
Throws ==
    /\ Waiting
    /\ Fail(job)
    /\ UNCHANGED <<vals, cap, iter, steps, touched>>

Native == SiftDown \/ Compare \/ CompareReturns \/ Fetch \/ Returned

-----------------------------------------------------------------------------
(* ArrayItems                                                              *)

Iterate ==
    /\ job = Nil /\ iter = Nil /\ steps < MaxSteps /\ steps' = steps + 1
    /\ iter' = [idx |-> 0, len |-> Len(vals), err |-> FALSE]
    /\ UNCHANGED <<vals, cap, job, touched, last>>

\* Array::get::<V>(idx) succeeds.
Gets(i) == In(vals, i) /\ At(vals, i) \in Convertible

\* ArrayItems::next: the end, an item, or an error that leaves idx alone.
IterNext_Stays ==
    /\ job = Nil /\ iter # Nil
    /\ iter' = IF iter.idx >= iter.len THEN Nil ELSE [iter EXCEPT !.err = ~@]
    /\ UNCHANGED <<vals, cap, job, touched, last, steps>>
IterNext ==
    /\ job = Nil /\ iter # Nil
    /\ iter' = IF iter.idx >= iter.len THEN Nil
               ELSE IF Gets(iter.idx) THEN [iter EXCEPT !.idx = @ + 1]
               ELSE [iter EXCEPT !.err = ~@]
    /\ UNCHANGED <<vals, cap, job, touched, last, steps>>

Init ==
    /\ vals \in Arrays0 /\ cap = Realloc(Len(vals))
    /\ job = Nil /\ touched = FALSE /\ last = Nil /\ iter = Nil /\ steps = 0

Next ==
    \/ \E v \in Vals : Append_(v)
    \/ Pop
    \/ Reverse_
    \/ \E i \in 0..MaxLen : \/ Remove_(i)
                            \/ Resize(i)
                            \/ \E v \in Vals : Insert(i, v) \/ Set(i, v)
    \/ \E op \in Ops : Start(op)
    \/ Native
    \/ Throws
    \/ Iterate
    \/ IterNext

\* Callbacks return, native code goes on, and a for loop over ArrayItems
\* calls next until it gets None.
Spec == Init /\ [][Next]_vars /\ WF_vars(Native) /\ WF_vars(IterNext)

-----------------------------------------------------------------------------
(* Properties                                                              *)

Items == Int \cup {Nil}

\* Every variable has its type; the elements fit in the block.
TypeOK ==
    /\ \A i \in DOMAIN vals : vals[i] \in Items
    /\ Len(vals) <= cap
    /\ job # Nil => job.n \in 0..MaxLen /\ job.size \in 0..MaxLen
    /\ touched \in BOOLEAN /\ steps \in 0..MaxSteps

\* The sort indexes _values without a check. Whatever its callbacks do to the
\* array, it stays in range, with one exception: a sort without a compare
\* function, which ObjCmp makes call a _cmp, does not look whether that has
\* changed the array.
SortInRange == job # Nil /\ job.at = "lost" => job.op = "sort" /\ touched

SameItems(s, t) ==
    \A v \in Range(s) \cup Range(t) :
        Cardinality({i \in DOMAIN s : s[i] = v}) = Cardinality({i \in DOMAIN t : t[i] = v})

\* A sort only moves elements, also when the compare function contradicts
\* itself, fails or throws half-way.
SortKeepsItems ==
    /\ job # Nil /\ IsSort(job) /\ ~touched => SameItems(vals, job.start)
    /\ last # Nil /\ IsSort(last) /\ ~last.touched => SameItems(last.vals, last.start)

\* The elements of s that pass, in their order; the fold of what follows the
\* first k elements of s, from acc.
Filtered(s) ==
    LET f[i \in 0..Len(s)] ==
            IF i = 0 THEN <<>>
            ELSE IF Kept(s[i]) THEN Append(f[i - 1], s[i]) ELSE f[i - 1]
    IN  f[Len(s)]
Reduced(s, k, acc) ==
    LET f[i \in 0..Len(s)] == IF i <= k THEN acc ELSE Folded(f[i - 1], s[i])
    IN  f[Len(s)]

\* A call whose callback leaves the array alone computes what the manual says:
\* the array in order (where ObjCmp has an order), the image, the elements that
\* pass, the fold.
Computes ==
    last # Nil /\ last.ok /\ ~last.touched =>
        LET s == last.start IN
        CASE last.op = "sort" ->
                (\A i \in DOMAIN s : s[i] \notin Objs) =>
                    \A i \in 2..Len(s) : Order(last.vals[i - 1], last.vals[i]) <= 0
          [] last.op = "map" -> last.out = [i \in DOMAIN s |-> Mapped(s[i])]
          [] last.op = "apply" -> last.vals = [i \in DOMAIN s |-> Mapped(s[i])]
          [] last.op = "filter" -> last.out = Filtered(s)
          [] last.op = "reduce" -> last.out = IF s = <<>> THEN Nil ELSE Reduced(s, 1, s[1])
          [] last.op = "ireduce" -> last.out = Reduced(s, 0, last.first)
          [] OTHER -> TRUE

\* A native function ends, whatever its callbacks answer, unless it has left the
\* array.
JobsEnd == job # Nil ~> (job = Nil \/ job.at = "lost")

\* A loop over ArrayItems ends, or meets an element that cannot be had.
IterEndsOrFails == iter # Nil ~> (iter = Nil \/ ~Gets(iter.idx))
=============================================================================
