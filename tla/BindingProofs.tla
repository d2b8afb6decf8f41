--------------------------- MODULE BindingProofs ---------------------------
(***************************************************************************)
(* The stack discipline of Binding for any number of iterators, arguments  *)
(* and slots.                                                              *)
(***************************************************************************)
EXTENDS Binding, TLAPS

\* What makes a method put back exactly what it pushed, on the path o.
Balance(m, o) ==
    /\ m.push \in Nat /\ o.pops \in Nat /\ o.pushes \in Nat
    /\ m.onErr \in Nat /\ m.onOk \in Nat
    /\ o.res # "susp" => m.push - o.pops + o.pushes \in Nat
    /\ \/ o.res = "susp"
       \/ m.reset /\ o.res = "err"
       \/ m.push - o.pops + o.pushes = (IF o.res = "err" THEN m.onErr ELSE m.onOk)
       \/ m.name \in Unbalanced /\ o.res = "err"

\* Table: get, set, assign, delete agree with sqapi.cpp path by path.
LEMMA TableBalance == \A m \in TableMethods : \A o \in m.api : Balance(m, o)
BY DEF TableMethods, Balance, M, MReset, Ok, Err, Susp, sq_push, sq_get, sq_newslot,
       sq_set, sq_deleteslot

\* The raw methods of tables, contains_key, delegates, clone_value.
LEMMA TableRawBalance == \A m \in TableRawMethods : \A o \in m.api : Balance(m, o)
BY DEF TableRawMethods, Balance, M, MReset, Ok, Err, Susp, sq_push, sq_inplace,
       sq_rawget, sq_rawset, sq_rawdeleteslot, sq_setdelegate, sq_clone

\* Array; only an error of insert is out of balance.
LEMMA ArrayBalance == \A m \in ArrayMethods : \A o \in m.api : Balance(m, o)
BY DEF ArrayMethods, Balance, M, MReset, Ok, Err, Susp, Unbalanced, sq_push, sq_inplace,
       sq_get, sq_set, sq_arrayappend, sq_arraypop, sq_arrayresize,
       sq_arrayremove, sq_arrayinsert

\* Class: construction and members.
LEMMA ClassBalance == \A m \in ClassMethods : \A o \in m.api : Balance(m, o)
BY DEF ClassMethods, Balance, M, MReset, Ok, Err, Susp, sq_push, sq_newclass, sq_newmember,
       sq_rawnewmember

\* Class: slots and handles.
LEMMA ClassSlotBalance == \A m \in ClassSlotMethods : \A o \in m.api : Balance(m, o)
BY DEF ClassSlotMethods, Balance, M, MReset, Ok, Err, Susp, sq_newslot, sq_get, sq_rawget,
       sq_rawset, sq_getmemberhandle, sq_setclassudsize

\* Instance; only an error of raw_set is out of balance.
LEMMA InstanceBalance == \A m \in InstanceMethods : \A o \in m.api : Balance(m, o)
BY DEF InstanceMethods, Balance, M, MReset, Ok, Err, Susp, Unbalanced, sq_push, sq_inplace,
       sq_get, sq_set, sq_rawget, sq_rawset

\* compile_str and create_function.
LEMMA VmBalance == \A m \in VmMethods : \A o \in m.api : Balance(m, o)
BY DEF VmMethods, Balance, M, MReset, Ok, Err, Susp, sq_compilebuffer, sq_newclosure

\* UserData.
LEMMA UserDataBalance == \A m \in UserDataMethods : \A o \in m.api : Balance(m, o)
BY DEF UserDataMethods, Balance, M, MReset, Ok, Err, Susp, sq_push, sq_inplace

\* String.
LEMMA StringBalance == \A m \in StringMethods : \A o \in m.api : Balance(m, o)
BY DEF StringMethods, Balance, M, MReset, Ok, Err, Susp, sq_push, sq_inplace

\* All methods of all handles.
LEMMA MethodBalance == \A m \in Methods : \A o \in m.api : Balance(m, o)
BY TableBalance, TableRawBalance, ArrayBalance, ClassBalance, ClassSlotBalance,
   InstanceBalance, VmBalance, UserDataBalance, StringBalance DEF Methods

\* Resize to the length a sequence has changes nothing.
LEMMA ResizeSame == ASSUME NEW S, NEW s \in Seq(S) PROVE Resize(s, Len(s)) = s
BY DEF Resize

\* A resized stack is a stack.
LEMMA ResizeType ==
    ASSUME NEW s \in Seq(Slots), NEW n \in Nat PROVE Resize(s, n) \in Seq(Slots)
BY DEF Resize, Slots

\* What Squirrel::pop leaves when the frame is at least empty.
LEMMA PopType ==
    ASSUME TypeOK, NEW frame \in Seq(Slots), NEW depth \in Nat, NEW count \in Nat,
           PopTo(frame, depth, count)
    PROVE  stack' \in Seq(Slots) /\ state' \in {"running", "panicked", "wild"}
<1>1. CASE count > depth
  BY <1>1, ResizeType DEF PopTo, TypeOK
<1>2. CASE ~(count > depth)
  <2>1. depth - count \in Nat
    BY <1>2
  <2> QED BY <1>2, <2>1, ResizeType DEF PopTo, TypeOK
<1> QED BY <1>1, <1>2

\* A position found on the top of the stack is one of an iterator.
LEMMA TopType ==
    ASSUME TypeOK, TopIsIterator
    PROVE  LET pos == stack[Len(stack)]
           IN  /\ pos.of \in Iters /\ pos.at \in 0 .. TableSize
               /\ pos = Pos(pos.of, pos.at)
<1>1. stack[Len(stack)] \in Slots
  BY DEF TypeOK, TopIsIterator
<1> QED BY <1>1 DEF TopIsIterator, Slots, Tmp, Tab, Pos

\* Removing a live iterator leaves a sequence that is one shorter.
LEMMA WithoutType ==
    ASSUME TypeOK, NEW i \in Live
    PROVE  Without(i) \in Seq(Iters) /\ Len(Without(i)) = Len(iters) - 1
<1>1. Len(iters) - 1 \in Nat /\ \A j \in 1 .. Len(iters) : iters[j] \in Iters
  BY DEF TypeOK, Live
<1> DEFINE k == CHOOSE k \in 1 .. Len(iters) : iters[k] = i
           f(j) == IF j < k THEN iters[j] ELSE iters[j + 1]
<1>2. \A j \in 1 .. Len(iters) - 1 : f(j) \in Iters
  BY <1>1 DEF TypeOK
<1>3. Without(i) = [j \in 1 .. Len(iters) - 1 |-> f(j)]
  BY DEF Without
<1> HIDE DEF f
<1> QED BY <1>1, <1>2, <1>3

\* What the call of a closure does to the depth, on each path.
LEMMA CallBalance ==
    ASSUME NEW n \in Nat, NEW o \in sq_call(n + 1)
    PROVE  /\ o.pops \in 0 .. n + 1 /\ o.pushes \in Nat
           /\ ~suspended => n + 2 - o.pops + o.pushes = (IF o.res = "err" THEN 1 ELSE 2)
BY DEF sq_call, Ok, Err

\* Every action preserves the types, whatever the program calls.
LEMMA TypeStep == TypeOK /\ [Next]_vars => TypeOK'
<1> SUFFICES ASSUME TypeOK, [Next]_vars PROVE TypeOK'
  OBVIOUS
<1> USE BindingAssumption
<1>1. CASE UNCHANGED vars
  BY <1>1 DEF vars, TypeOK
<1>2. ASSUME NEW m \in Methods, NEW o \in m.api, Invoke(m, o) PROVE TypeOK'
  <2>1. Balance(m, o)
    BY MethodBalance
  <2>2. CASE m.reset /\ o.res = "err"
    BY <1>2, <2>2 DEF Invoke, TypeOK
  <2>3. CASE ~(m.reset /\ o.res = "err")
    <3> DEFINE p == IF o.res = "err" THEN m.onErr ELSE m.onOk
    <3>1. DepthAfter(m, o) \in Nat /\ p \in Nat
      BY <1>2, <2>1 DEF Balance, DepthAfter, TypeOK, Invoke
    <3>2. PopTo(stack, DepthAfter(m, o), p)
      BY <1>2, <2>3 DEF Invoke
    <3>3. stack' \in Seq(Slots) /\ state' \in {"running", "panicked", "wild"}
      BY <3>1, <3>2, PopType DEF TypeOK
    <3> QED BY <1>2, <3>3 DEF Invoke, TypeOK
  <2> QED BY <2>2, <2>3
<1>3. ASSUME NEW n \in 0 .. MaxArgs, NEW o \in sq_call(n + 1), Call(n, o) PROVE TypeOK'
  <2> DEFINE d == Len(stack) + n + 2 - o.pops + o.pushes
             p == IF o.res = "err" THEN 1 ELSE 2
  <2>1. d \in Nat /\ p \in Nat
    <3>1. n \in Nat /\ Len(stack) \in Nat
      BY DEF TypeOK
    <3>2. o.pops \in 0 .. n + 1 /\ o.pushes \in Nat
      BY <3>1, CallBalance
    <3> QED BY <3>1, <3>2
  <2>2. PopTo(stack, d, p)
    BY <1>3 DEF Call
  <2>3. stack' \in Seq(Slots) /\ state' \in {"running", "panicked", "wild"}
    BY <2>1, <2>2, PopType DEF TypeOK
  <2> QED BY <1>3, <2>3 DEF Call, TypeOK
<1>4. ASSUME NEW n \in 0 .. MaxArgs, NEW f \in FrameSizes, CallSuspends(n, f) PROVE TypeOK'
  <2>1. Len(stack) + 1 \in Nat /\ f + 1 \in Nat
    BY DEF TypeOK
  <2>2. below' \in Seq(Slots)
    BY <1>4, <2>1, ResizeType DEF CallSuspends, TypeOK
  <2>3. PopTo(<<>>, f + 1, 2) /\ <<>> \in Seq(Slots)
    BY <1>4 DEF CallSuspends
  <2>4. stack' \in Seq(Slots) /\ state' \in {"running", "panicked", "wild"}
    BY <2>1, <2>3, PopType
  <2> QED BY <1>4, <2>2, <2>4 DEF CallSuspends, TypeOK
<1>8. ASSUME NEW m \in Methods, NEW o \in m.api, NEW f \in FrameSizes, InvokeSuspends(m, o, f)
      PROVE  TypeOK'
  <2>1. m.push \in Nat /\ o.pops \in Nat /\ o.pushes \in Nat /\ m.onOk \in Nat
    BY MethodBalance DEF Balance
  <2>2. below' \in Seq(Slots)
    <3>1. Len(stack) + m.push + o.pushes \in Nat
      BY <2>1 DEF TypeOK
    <3> QED BY <1>8, <3>1, ResizeType DEF InvokeSuspends, TypeOK
  <2>3. stack' \in Seq(Slots) /\ state' \in {"running", "panicked", "wild"}
    <3>1. CASE o.pops > f
      <4>1. stack' = <<>> /\ state' = "wild"
        BY <1>8, <3>1 DEF InvokeSuspends
      <4>2. <<>> \in Seq(Slots)
        OBVIOUS
      <4> QED BY <4>1, <4>2
    <3>2. CASE ~(o.pops > f)
      <4>1. PopTo(<<>>, f - o.pops, m.onOk) /\ <<>> \in Seq(Slots)
        BY <1>8, <3>2 DEF InvokeSuspends
      <4>2. f - o.pops \in Nat
        BY <2>1, <3>2
      <4> QED BY <2>1, <4>1, <4>2, PopType
    <3> QED BY <3>1, <3>2
  <2> QED BY <1>8, <2>2, <2>3 DEF InvokeSuspends, TypeOK
<1>5. ASSUME NEW i \in Iters, TableIter(i) PROVE TypeOK'
  <2>1. Tab(i) \in Slots /\ Pos(i, 0) \in Slots
    BY DEF Slots
  <2> QED BY <1>5, <2>1 DEF TableIter, TypeOK
<1>6. ASSUME NEW i \in Iters, IterNext(i) PROVE TypeOK'
  <2> DEFINE pos == stack[Len(stack)]
  <2>1. CASE ~TopIsIterator
    BY <1>6, <2>1 DEF IterNext, TypeOK
  <2>2. CASE TopIsIterator /\ pos.at < TableSize
    <3>1. pos.of \in Iters /\ pos.at \in 0 .. TableSize /\ pos.at + 1 \in 0 .. TableSize
      BY <2>2, TopType
    <3>2. Pos(pos.of, pos.at + 1) \in Slots
      BY <3>1 DEF Slots
    <3>3. stack' \in Seq(Slots)
      <4>1. stack' = [stack EXCEPT ![Len(stack)] = Pos(pos.of, pos.at + 1)]
        BY <1>6, <2>2 DEF IterNext
      <4>2. Len(stack) \in 1 .. Len(stack) /\ stack \in Seq(Slots)
        BY <2>2 DEF TopIsIterator, TypeOK
      <4> HIDE DEF pos
      <4> QED BY <4>1, <4>2, <3>2
    <3>4. Record(got[i], <<pos.of, pos.at>>) \in Seq(Iters \X (0 .. TableSize))
      BY <3>1 DEF Record, TypeOK
    <3>5. got' \in [Iters -> Seq(Iters \X (0 .. TableSize))]
      BY <1>6, <2>2, <3>4 DEF IterNext, TypeOK
    <3> QED BY <1>6, <2>2, <3>3, <3>5 DEF IterNext, TypeOK
  <2>3. CASE TopIsIterator /\ pos.at = TableSize
    BY <1>6, <2>3 DEF IterNext, TypeOK
  <2> QED BY <1>6, <2>1, <2>2, <2>3 DEF IterNext
<1>7. ASSUME NEW i \in Iters, DropIter(i) PROVE TypeOK'
  <2>1. Len(stack) \in Nat
    BY DEF TypeOK
  <2>2. PopTo(stack, Len(stack), 2)
    BY <1>7 DEF DropIter
  <2>3. stack' \in Seq(Slots) /\ state' \in {"running", "panicked", "wild"}
    BY <2>1, <2>2, PopType DEF TypeOK
  <2>4. Without(i) \in Seq(Iters)
    BY <1>7, WithoutType DEF DropIter, Usable
  <2> QED BY <1>7, <2>3, <2>4 DEF DropIter, TypeOK
<1> QED BY <1>1, <1>2, <1>3, <1>4, <1>5, <1>6, <1>7, <1>8 DEF Next

\* The initial state is well typed.
LEMMA InitType == Init => TypeOK
<1> SUFFICES ASSUME Init PROVE TypeOK
  OBVIOUS
<1>1. \A S : <<>> \in Seq(S)
  OBVIOUS
<1>2. got \in [Iters -> Seq(Iters \X (0 .. TableSize))]
  BY <1>1 DEF Init
<1> QED BY <1>1, <1>2 DEF Init, TypeOK

\* The types of the stack, of the iterators and of what they have yielded, for
\* every program: also one that leaks slots or suspends the VM.
THEOREM BindingTypes == Spec => []TypeOK
<1>1. Init => TypeOK
  BY InitType
<1> QED BY <1>1, TypeStep, PTL DEF Spec

\* A method that is not known to be unbalanced does not move the stack.
LEMMA InvokeBalanced ==
    ASSUME TypeOK, NEW m \in Methods, NEW o \in m.api, Invoke(m, o),
           ~(m.name \in Unbalanced /\ o.res = "err")
    PROVE  UNCHANGED <<stack, state>>
<1>1. Balance(m, o)
  BY MethodBalance
<1>2. CASE m.reset /\ o.res = "err"
  BY <1>2 DEF Invoke
<1>3. CASE ~(m.reset /\ o.res = "err")
  <2> DEFINE p == IF o.res = "err" THEN m.onErr ELSE m.onOk
  <2>1. PopTo(stack, DepthAfter(m, o), p)
    BY <1>3 DEF Invoke
  <2>2. DepthAfter(m, o) = Len(stack) + p /\ p \in Nat /\ Len(stack) \in Nat
    <3>1. o.res # "susp"
      BY DEF Invoke
    <3>2. m.push - o.pops + o.pushes = p
      BY <1>1, <1>3, <3>1 DEF Balance
    <3>3. m.push \in Nat /\ o.pops \in Nat /\ o.pushes \in Nat /\ p \in Nat
      BY <1>1 DEF Balance
    <3>4. Len(stack) \in Nat
      BY DEF TypeOK
    <3>5. DepthAfter(m, o) = Len(stack) + (m.push - o.pops + o.pushes)
      BY <3>3, <3>4 DEF DepthAfter
    <3> QED BY <3>2, <3>3, <3>4, <3>5
  <2> HIDE DEF p
  <2>3. ~(p > DepthAfter(m, o)) /\ DepthAfter(m, o) - p = Len(stack)
    BY <2>2
  <2>4. stack' = Resize(stack, Len(stack)) /\ UNCHANGED state
    BY <2>1, <2>3 DEF PopTo
  <2> QED BY <2>4, ResizeSame DEF TypeOK
<1> QED BY <1>2, <1>3

\* Nor does a call, as long as the VM is not suspended.
LEMMA CallBalanced ==
    ASSUME TypeOK, NEW n \in 0 .. MaxArgs, NEW o \in sq_call(n + 1), Call(n, o),
           ~suspended
    PROVE  UNCHANGED <<stack, state>>
<1> DEFINE p == IF o.res = "err" THEN 1 ELSE 2
           d == Len(stack) + n + 2 - o.pops + o.pushes
<1>1. PopTo(stack, d, p)
  BY DEF Call
<1>2. n \in Nat /\ Len(stack) \in Nat /\ p \in Nat
  BY BindingAssumption DEF TypeOK
<1>3. n + 2 - o.pops + o.pushes = p /\ o.pops \in 0 .. n + 1 /\ o.pushes \in Nat
  BY <1>2, CallBalance
<1>4. d = Len(stack) + p
  BY <1>2, <1>3
<1> HIDE DEF p, d
<1>5. stack' = Resize(stack, Len(stack)) /\ UNCHANGED state
  <2>1. ~(p > d) /\ d - p = Len(stack)
    BY <1>2, <1>4
  <2> QED BY <1>1, <2>1 DEF PopTo
<1> QED BY <1>5, ResizeSame DEF TypeOK

\* Every method of every handle puts back exactly what it pushed, on every path
\* of sqapi.cpp; the exceptions are errors of Array::insert and
\* Instance::raw_set, calls into a suspended VM, and the call or metamethod that
\* suspends it (the counts handed to to_runtime_error and pop).
THEOREM MethodsAreBalanced == Spec => MethodsBalanced
<1> DEFINE Bal ==
      /\ \A m \in Methods : \A o \in m.api :
           Invoke(m, o) \/ (\E f \in FrameSizes : InvokeSuspends(m, o, f))
             => \/ UNCHANGED <<stack, state>>
                \/ m.name \in Unbalanced /\ o.res = "err"
                \/ o.res = "susp" /\ suspended'
      /\ \A n \in 0 .. MaxArgs :
           (\E o \in sq_call(n + 1) : Call(n, o)) \/ (\E f \in FrameSizes : CallSuspends(n, f))
             => UNCHANGED <<stack, state>> \/ suspended \/ suspended'
<1>1. TypeOK => Bal
  <2> SUFFICES ASSUME TypeOK PROVE Bal
    OBVIOUS
  <2>1. ASSUME NEW m \in Methods, NEW o \in m.api, Invoke(m, o)
        PROVE  UNCHANGED <<stack, state>> \/ (m.name \in Unbalanced /\ o.res = "err")
    BY <2>1, InvokeBalanced
  <2>2. ASSUME NEW n \in 0 .. MaxArgs, NEW o \in sq_call(n + 1), Call(n, o)
        PROVE  UNCHANGED <<stack, state>> \/ suspended
    BY <2>2, CallBalanced
  <2>3. ASSUME NEW m \in Methods, NEW o \in m.api, NEW f \in FrameSizes,
               InvokeSuspends(m, o, f)
        PROVE  o.res = "susp" /\ suspended'
    BY <2>3 DEF InvokeSuspends
  <2>4. ASSUME NEW n \in 0 .. MaxArgs, NEW f \in FrameSizes, CallSuspends(n, f)
        PROVE  suspended'
    BY <2>4 DEF CallSuspends
  <2> QED BY <2>1, <2>2, <2>3, <2>4
<1> QED BY <1>1, BindingTypes, PTL DEF MethodsBalanced

-----------------------------------------------------------------------------
(* A disciplined program: nested iterators, no suspension of the root VM,   *)
(* and none of the two methods with an unbalanced error path.               *)

Disciplined == Nested /\ ~Suspends /\ Unbalanced \subseteq Unused

\* Live iterators are different values.
Distinct == \A j, k \in 1 .. Len(iters) : iters[j] = iters[k] => j = k

\* StackIsIterators is inductive with the distinctness of the iterators (a step
\* of the innermost must not move the position of another one) and a frame that
\* is not suspended.
DInv == TypeOK /\ ~suspended /\ StackIsIterators /\ Distinct /\ IterComplete

\* The innermost iterator finds its own table and position on the top.
LEMMA TopIsInnermost ==
    ASSUME DInv, Disciplined, NEW i \in Iters, Usable(i)
    PROVE  /\ Len(iters) \in Nat \ {0} /\ i = iters[Len(iters)]
           /\ Len(stack) = 2 * Len(iters)
           /\ TopIsIterator
           /\ stack[Len(stack)] = Pos(i, Len(got[i]))
<1>1. Len(iters) \in Nat \ {0} /\ i = iters[Len(iters)]
  BY DEF Usable, Live, DInv, TypeOK, Disciplined
<1>2. /\ Len(stack) = 2 * Len(iters)
      /\ stack[2 * Len(iters) - 1] = Tab(iters[Len(iters)])
      /\ stack[2 * Len(iters)] = Pos(iters[Len(iters)], Len(got[iters[Len(iters)]]))
  BY <1>1 DEF DInv, StackIsIterators
<1> QED BY <1>1, <1>2 DEF TopIsIterator, Pos

\* Making an iterator puts its two slots above those of the others.
LEMMA IterStep ==
    ASSUME DInv, NEW i \in Iters, TableIter(i)
    PROVE  StackIsIterators' /\ Distinct' /\ IterComplete'
<1> DEFINE n == Len(iters)
<1>1. /\ n \in Nat /\ Len(stack) = 2 * n /\ iters \in Seq(Iters) /\ stack \in Seq(Slots)
      /\ got \in [Iters -> Seq(Iters \X (0 .. TableSize))]
  BY DEF DInv, TypeOK, StackIsIterators
<1>2. \A k \in 1 .. n : iters[k] # i /\ iters[k] \in Iters
  <2>1. i \notin Live
    BY DEF TableIter
  <2>2. \A k \in 1 .. n : iters[k] # i
    BY <2>1 DEF Live
  <2> QED BY <1>1, <2>2
<1>3. /\ Len(iters') = n + 1 /\ iters'[n + 1] = i
      /\ \A k \in 1 .. n : iters'[k] = iters[k]
  BY <1>1 DEF TableIter
<1>4. /\ Len(stack') = 2 * n + 2
      /\ stack'[2 * n + 1] = Tab(i) /\ stack'[2 * n + 2] = Pos(i, 0)
      /\ \A k \in 1 .. 2 * n : stack'[k] = stack[k]
  <2>1. stack' = stack \o <<Tab(i), Pos(i, 0)>>
    BY DEF TableIter
  <2> QED BY <1>1, <2>1
<1>5. got'[i] = <<>> /\ \A j \in Iters \ {i} : got'[j] = got[j]
  BY <1>1 DEF TableIter
<1>6. StackIsIterators'
  <2>1. ASSUME NEW k \in 1 .. n
        PROVE  /\ stack'[2 * k - 1] = Tab(iters'[k])
               /\ stack'[2 * k] = Pos(iters'[k], Len(got'[iters'[k]]))
    <3>1. 2 * k - 1 \in 1 .. 2 * n /\ 2 * k \in 1 .. 2 * n
      BY <1>1
    <3>2. /\ stack[2 * k - 1] = Tab(iters[k])
          /\ stack[2 * k] = Pos(iters[k], Len(got[iters[k]]))
      BY DEF DInv, StackIsIterators
    <3>3. iters'[k] = iters[k] /\ iters[k] \in Iters \ {i}
      BY <1>2, <1>3
    <3>4. got'[iters'[k]] = got[iters[k]]
      BY <1>5, <3>3
    <3>5. stack'[2 * k - 1] = stack[2 * k - 1] /\ stack'[2 * k] = stack[2 * k]
      BY <1>4, <3>1
    <3> QED BY <3>2, <3>3, <3>4, <3>5
  <2>2. /\ stack'[2 * (n + 1) - 1] = Tab(iters'[n + 1])
        /\ stack'[2 * (n + 1)] = Pos(iters'[n + 1], Len(got'[iters'[n + 1]]))
    <3>1. 2 * (n + 1) - 1 = 2 * n + 1 /\ 2 * (n + 1) = 2 * n + 2 /\ Len(<<>>) = 0
      BY <1>1
    <3> QED BY <1>3, <1>4, <1>5, <3>1
  <2>3. state' = "running" /\ Len(stack') = 2 * Len(iters')
    BY <1>1, <1>3, <1>4 DEF TableIter
  <2> HIDE DEF n
  <2>4. \A k \in 1 .. n + 1 :
          /\ stack'[2 * k - 1] = Tab(iters'[k])
          /\ stack'[2 * k] = Pos(iters'[k], Len(got'[iters'[k]]))
    <3>1. \A k \in 1 .. n + 1 : k = n + 1 \/ k \in 1 .. n
      BY <1>1
    <3> QED BY <2>1, <2>2, <3>1
  <2> QED BY <1>3, <2>3, <2>4 DEF StackIsIterators
<1>7. Distinct'
  <2> HIDE DEF n
  <2>1. ASSUME NEW j \in 1 .. n + 1, NEW k \in 1 .. n + 1, iters'[j] = iters'[k]
        PROVE  j = k
    <3>1. CASE j \in 1 .. n /\ k \in 1 .. n
      BY <1>3, <2>1, <3>1 DEF Distinct, DInv, n
    <3>2. CASE j = n + 1 \/ k = n + 1
      BY <1>1, <1>2, <1>3, <2>1, <3>2
    <3> QED BY <1>1, <3>1, <3>2
  <2> QED BY <1>3, <2>1 DEF Distinct
<1>8. IterComplete'
  BY <1>5 DEF IterComplete, DInv, TableIter
<1> QED BY <1>6, <1>7, <1>8

\* next() of the innermost iterator moves its own position and no other.
LEMMA NextStep ==
    ASSUME DInv, Disciplined, NEW i \in Iters, IterNext(i)
    PROVE  StackIsIterators' /\ Distinct' /\ IterComplete'
<1> DEFINE n == Len(iters)
<1>1. /\ n \in Nat \ {0} /\ i = iters[n] /\ Len(stack) = 2 * n
      /\ TopIsIterator /\ stack[Len(stack)] = Pos(i, Len(got[i]))
  BY TopIsInnermost DEF IterNext
<1>2. /\ stack \in Seq(Slots) /\ iters \in Seq(Iters)
      /\ got \in [Iters -> Seq(Iters \X (0 .. TableSize))]
      /\ Len(got[i]) \in Nat
  BY DEF DInv, TypeOK
<1>3. UNCHANGED iters
  BY DEF IterNext
<1>4. Distinct'
  BY <1>3 DEF Distinct, DInv
<1>5. stack[Len(stack)].of = i /\ stack[Len(stack)].at = Len(got[i])
  BY <1>1 DEF Pos
<1>6. CASE Len(got[i]) < TableSize
  <2>1. /\ got' = [got EXCEPT ![i] = Append(@, <<i, Len(got[i])>>)]
        /\ stack' = [stack EXCEPT ![2 * n] = Pos(i, Len(got[i]) + 1)]
        /\ UNCHANGED <<done, state>>
    <3> DEFINE pos == stack[Len(stack)]
    <3>1. /\ got' = [got EXCEPT ![i] = Record(@, <<pos.of, pos.at>>)]
          /\ stack' = [stack EXCEPT ![Len(stack)] = Pos(pos.of, pos.at + 1)]
          /\ UNCHANGED <<done, state>>
      <4>1. TopIsIterator /\ pos.at < TableSize /\ pos.at # TableSize
        BY <1>1, <1>2, <1>5, <1>6, BindingAssumption
      <4> HIDE DEF pos
      <4> QED BY <4>1 DEF IterNext, pos
    <3>2. Record(got[i], <<pos.of, pos.at>>) = Append(got[i], <<i, Len(got[i])>>)
      BY <1>2, <1>5, <1>6, BindingAssumption DEF Record
    <3>3. got' = [got EXCEPT ![i] = Append(@, <<i, Len(got[i])>>)]
      <4> HIDE DEF pos
      <4> QED BY <1>2, <3>1, <3>2
    <3> QED BY <1>1, <1>5, <3>1, <3>3
  <2>2. /\ got'[i] = Append(got[i], <<i, Len(got[i])>>)
        /\ Len(got'[i]) = Len(got[i]) + 1
        /\ \A j \in Iters \ {i} : got'[j] = got[j]
    BY <1>2, <2>1
  <2>3. /\ Len(stack') = 2 * n /\ stack'[2 * n] = Pos(i, Len(got'[i]))
        /\ \A k \in 1 .. 2 * n : k # 2 * n => stack'[k] = stack[k]
    BY <1>1, <1>2, <2>1, <2>2
  <2>4. ASSUME NEW k \in 1 .. n
        PROVE  /\ stack'[2 * k - 1] = Tab(iters[k])
               /\ stack'[2 * k] = Pos(iters[k], Len(got'[iters[k]]))
    <3>1. 2 * k - 1 \in 1 .. 2 * n /\ 2 * k \in 1 .. 2 * n /\ 2 * k - 1 # 2 * n
      BY <1>1
    <3>2. stack[2 * k - 1] = Tab(iters[k]) /\ stack[2 * k] = Pos(iters[k], Len(got[iters[k]]))
      BY DEF DInv, StackIsIterators
    <3>3. stack'[2 * k - 1] = Tab(iters[k])
      BY <2>3, <3>1, <3>2
    <3>4. CASE k = n
      BY <1>1, <2>3, <3>3, <3>4
    <3>5. CASE k # n
      <4>1. iters[k] # i /\ iters[k] \in Iters /\ 2 * k # 2 * n
        BY <1>1, <1>2, <3>5 DEF DInv, Distinct
      <4> QED BY <2>2, <2>3, <3>1, <3>2, <3>3, <4>1
    <3> QED BY <3>4, <3>5
  <2>5. StackIsIterators'
    BY <1>1, <1>3, <2>1, <2>3, <2>4 DEF StackIsIterators, DInv
  <2>6. IterComplete'
    <3> SUFFICES ASSUME NEW j \in Iters
                 PROVE  /\ \A k \in 1 .. Len(got'[j]) : got'[j][k] = <<j, k - 1>>
                        /\ j \in done => Len(got'[j]) = TableSize
      BY <2>1 DEF IterComplete
    <3>1. CASE j # i
      BY <2>2, <3>1 DEF DInv, IterComplete
    <3>2. CASE j = i
      <4>1. i \notin done
        BY <1>2, <1>6, BindingAssumption DEF DInv, IterComplete
      <4>2. \A k \in 1 .. Len(got[i]) : got[i][k] = <<i, k - 1>>
        BY DEF DInv, IterComplete
      <4>3. ASSUME NEW k \in 1 .. Len(got[i]) + 1 PROVE got'[i][k] = <<i, k - 1>>
        <5>1. CASE k \in 1 .. Len(got[i])
          BY <1>2, <2>2, <4>2, <5>1
        <5>2. CASE k = Len(got[i]) + 1
          BY <1>2, <2>2, <5>2
        <5>3. k \in 1 .. Len(got[i]) \/ k = Len(got[i]) + 1
          BY <1>2, <4>3
        <5> QED BY <5>1, <5>2, <5>3
      <4> QED BY <2>2, <3>2, <4>1, <4>3
    <3> QED BY <3>1, <3>2
  <2> QED BY <1>4, <2>5, <2>6
<1>7. CASE ~(Len(got[i]) < TableSize)
  <2>1. Len(got[i]) \in 0 .. TableSize
    <3>1. stack[Len(stack)].at \in 0 .. TableSize
      BY <1>1, TopType DEF DInv
    <3> QED BY <1>5, <3>1
  <2>2. Len(got[i]) = TableSize
    BY <1>7, <2>1, BindingAssumption
  <2>3. done' = done \cup {i} /\ UNCHANGED <<stack, got, state>>
    BY <1>1, <1>5, <1>7, <2>2 DEF IterNext
  <2> QED BY <1>3, <1>4, <2>2, <2>3 DEF DInv, StackIsIterators, IterComplete
<1> QED BY <1>6, <1>7

\* Dropping the innermost iterator pops exactly its own two slots.
LEMMA DropStep ==
    ASSUME DInv, Disciplined, NEW i \in Iters, DropIter(i)
    PROVE  StackIsIterators' /\ Distinct' /\ IterComplete'
<1> DEFINE n == Len(iters)
<1>1. n \in Nat \ {0} /\ i = iters[n] /\ Len(stack) = 2 * n
  BY TopIsInnermost DEF DropIter
<1>2. stack \in Seq(Slots) /\ iters \in Seq(Iters)
  BY DEF DInv, TypeOK
<1>3. Len(iters') = n - 1 /\ \A k \in 1 .. n - 1 : iters'[k] = iters[k]
  <2>1. n = CHOOSE k \in 1 .. Len(iters) : iters[k] = i
    <3>1. \A k \in 1 .. Len(iters) : iters[k] = i <=> k = n
      BY <1>1 DEF DInv, Distinct
    <3> QED BY <1>1, <3>1
  <2>2. iters' = [j \in 1 .. n - 1 |-> IF j < n THEN iters[j] ELSE iters[j + 1]]
    BY <2>1 DEF DropIter, Without
  <2> QED BY <1>1, <2>2
<1>4. /\ Len(stack') = 2 * (n - 1) /\ state' = "running"
      /\ \A k \in 1 .. 2 * (n - 1) : stack'[k] = stack[k]
  <2>1. stack' = Resize(stack, 2 * n - 2) /\ UNCHANGED state
    BY <1>1 DEF DropIter, PopTo
  <2>2. stack' = [k \in 1 .. 2 * n - 2 |-> IF k <= 2 * n THEN stack[k] ELSE Tmp]
    BY <1>1, <2>1 DEF Resize
  <2>3. 2 * n - 2 \in Nat /\ 2 * n - 2 = 2 * (n - 1)
    BY <1>1
  <2> QED BY <1>1, <2>1, <2>2, <2>3 DEF DropIter
<1>5. UNCHANGED <<got, done>>
  BY DEF DropIter
<1>6. StackIsIterators'
  <2>1. ASSUME NEW k \in 1 .. n - 1
        PROVE  /\ stack'[2 * k - 1] = Tab(iters'[k])
               /\ stack'[2 * k] = Pos(iters'[k], Len(got[iters'[k]]))
    <3>1. k \in 1 .. n /\ 2 * k - 1 \in 1 .. 2 * (n - 1) /\ 2 * k \in 1 .. 2 * (n - 1)
      BY <1>1
    <3> QED BY <1>3, <1>4, <3>1 DEF DInv, StackIsIterators
  <2> QED BY <1>3, <1>4, <1>5, <2>1 DEF StackIsIterators
<1>7. Distinct'
  BY <1>1, <1>3 DEF Distinct, DInv
<1>8. IterComplete'
  BY <1>5 DEF IterComplete, DInv
<1> QED BY <1>6, <1>7, <1>8

\* The inductive step of the discipline.
LEMMA DInvStep == Disciplined /\ DInv /\ [Next]_vars => DInv'
<1> SUFFICES ASSUME Disciplined, DInv, [Next]_vars PROVE DInv'
  OBVIOUS
<1>1. TypeOK'
  BY TypeStep DEF DInv
<1>2. CASE UNCHANGED vars
  BY <1>1, <1>2 DEF vars, DInv, StackIsIterators, Distinct, IterComplete
<1>3. ASSUME NEW m \in Methods, NEW o \in m.api, Invoke(m, o) PROVE DInv'
  <2>1. m.name \notin Unbalanced
    BY <1>3 DEF Invoke, Disciplined
  <2>2. UNCHANGED <<stack, state>>
    BY <1>3, <2>1, InvokeBalanced DEF DInv
  <2> QED BY <1>1, <1>3, <2>2 DEF Invoke, DInv, StackIsIterators, Distinct, IterComplete
<1>4. ASSUME NEW n \in 0 .. MaxArgs, NEW o \in sq_call(n + 1), Call(n, o) PROVE DInv'
  <2>1. UNCHANGED <<stack, state>>
    BY <1>4, CallBalanced DEF DInv
  <2> QED BY <1>1, <1>4, <2>1 DEF Call, DInv, StackIsIterators, Distinct, IterComplete
<1>5. ASSUME NEW n \in 0 .. MaxArgs, NEW f \in FrameSizes, CallSuspends(n, f) PROVE DInv'
  BY <1>5 DEF CallSuspends, Disciplined
<1>9. ASSUME NEW m \in Methods, NEW o \in m.api, NEW f \in FrameSizes, InvokeSuspends(m, o, f)
      PROVE  DInv'
  BY <1>9 DEF InvokeSuspends, Disciplined
<1>6. ASSUME NEW i \in Iters, TableIter(i) PROVE DInv'
  BY <1>1, <1>6, IterStep DEF DInv, TableIter
<1>7. ASSUME NEW i \in Iters, IterNext(i) PROVE DInv'
  BY <1>1, <1>7, NextStep DEF DInv, IterNext
<1>8. ASSUME NEW i \in Iters, DropIter(i) PROVE DInv'
  BY <1>1, <1>8, DropStep DEF DInv, DropIter
<1> QED BY <1>2, <1>3, <1>4, <1>5, <1>6, <1>7, <1>8, <1>9 DEF Next

\* The invariant of a disciplined program.
LEMMA DisciplineInvariant == Disciplined => (Spec => []DInv)
<1> SUFFICES ASSUME Disciplined PROVE Spec => []DInv
  OBVIOUS
<1>1. Init => DInv
  <2> SUFFICES ASSUME Init PROVE DInv
    OBVIOUS
  <2>1. TypeOK
    BY InitType
  <2> QED BY <2>1 DEF Init, DInv, StackIsIterators, Distinct, IterComplete
<1>2. DInv /\ [Next]_vars => DInv'
  BY DInvStep
<1> QED BY <1>1, <1>2, PTL DEF Spec

\* A disciplined program never panics in pop, leaks no slot and keeps every
\* iterator's slots in place, on every path of every method.
THEOREM StackDiscipline == Disciplined => (Spec => []StackIsIterators)
<1>1. DInv => StackIsIterators
  BY DEF DInv
<1> QED BY <1>1, DisciplineInvariant, PTL

\* In a disciplined program an iterator yields each slot of its own table once,
\* in order, and ends only when it has yielded them all (TableSlots::next).
THEOREM IteratorsComplete == Disciplined => (Spec => []IterComplete)
<1>1. DInv => IterComplete
  BY DEF DInv
<1> QED BY <1>1, DisciplineInvariant, PTL
=============================================================================
