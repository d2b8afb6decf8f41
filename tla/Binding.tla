------------------------------ MODULE Binding ------------------------------
(***************************************************************************)
(* The stack discipline of the bindings. Every method of a handle (Table,  *)
(* Array, Class, Instance, Closure, ...) pushes operands on the VM stack,  *)
(* makes one API call, and pops what the API call left there. How much an  *)
(* API function pops depends on the function and on the path it took, so   *)
(* the number a method pops has to agree with sqapi.cpp path by path.      *)
(*                                                                         *)
(* A method is a record: the slots it pushes, the outcomes of its API call *)
(* (taken from sqapi.cpp), and the slots it pops after an error and after  *)
(* a success. TableSlots iterators keep their table and their position in  *)
(* two stack slots for as long as they live. Handles are not on the stack. *)
(***************************************************************************)
EXTENDS Integers, Sequences

CONSTANTS
    Iters,          \* TableSlots values that may exist in one behaviour
    TableSize,      \* slots of each iterated table
    MaxArgs,        \* bound: arguments of a call
    MaxDepth,       \* bound: slots of the visible frame
    FrameSizes,     \* _stacksize of the script functions that suspend the VM
    Unused,         \* names of the methods the program does not call
    Nested,         \* TRUE: iterators are used and dropped innermost first
    Suspends,       \* TRUE: scripts may call suspend() on the root VM
    None

ASSUME BindingAssumption ==
    /\ TableSize \in Nat /\ MaxArgs \in Nat /\ MaxDepth \in Nat
    /\ FrameSizes \subseteq Nat \ {0}
    /\ Nested \in BOOLEAN /\ Suspends \in BOOLEAN
    /\ None \notin Iters

VARIABLES
    stack,      \* the slots from _stackbase to _top
    below,      \* slots under _stackbase, out of reach of the API
    suspended,  \* SQVM::_suspended
    iters,      \* the live TableSlots values, oldest first
    got,        \* got[i]: the <<table, position>> pairs that i has yielded
    done,       \* the iterators whose next() has returned None
    state       \* "running", "panicked" (Rust assertion), "wild" (read below
                \* the frame or of a slot that is not the iterator's)

vars == <<stack, below, suspended, iters, got, done, state>>

-----------------------------------------------------------------------------
(* sqapi.cpp: what each function leaves on the stack                        *)

Ok(pops, pushes) == [res |-> "ok", pops |-> pops, pushes |-> pushes]
Err(pops)        == [res |-> "err", pops |-> pops, pushes |-> 0]
\* A metamethod ran suspend() on the root VM: Call returns inside the frame of
\* the metamethod, and its arguments and the API function's operands are popped
\* there. `pushes` is what the API function had pushed before.
Susp(args, pops, pushes) == [res |-> "susp", pops |-> args + pops, pushes |-> pushes]

\* Functions that only push an object.
sq_push          == {Ok(0, 1)}
\* Functions that read or modify the object at idx in place.
sq_inplace       == {Ok(0, 0)}
\* _get of a delegate or of a class; arrays and classes have none.
sq_get(kind)     == {Ok(1, 1), Err(1)}
                      \cup (IF kind \in {"table", "instance"} THEN {Susp(2, 0, 0)} ELSE {})
\* A null key is the only error; the result of SQVM::NewSlot, and so that of
\* _newslot, is ignored.
sq_newslot(kind) == {Ok(2, 0), Err(0)} \cup (IF kind = "table" THEN {Susp(3, 2, 0)} ELSE {})
sq_set(kind)     == {Ok(2, 0), Err(0)}
                      \cup (IF kind \in {"table", "instance"} THEN {Susp(3, 2, 0)} ELSE {})
\* A null key leaves the key, a failed DeleteSlot pops it. _delslot.
sq_deleteslot    == {Ok(1, 1), Err(0), Err(1), Susp(2, 0, 0)}
sq_rawget        == {Ok(1, 1), Err(1)}
\* A null key pops key and value; a missing key of an instance pops nothing.
sq_rawset(kind)  == {Ok(2, 0), Err(2)} \cup (IF kind = "instance" THEN {Err(0)} ELSE {})
sq_rawdeleteslot == {Ok(1, 1)}
sq_setdelegate   == {Ok(1, 0), Err(0)}
\* _cloned runs above the null that the clone will replace.
sq_clone         == {Ok(0, 1), Err(0), Susp(2, 0, 1)}
sq_arrayappend   == {Ok(1, 0)}
sq_arraypop      == {Ok(0, 1), Err(0)}
sq_arrayresize   == {Ok(0, 0), Err(0)}
sq_arrayremove   == {Ok(0, 0), Err(0)}
\* The value is popped before the error is returned.
sq_arrayinsert   == {Ok(1, 0), Err(1)}
sq_newclass(hasbase) == {Ok(IF hasbase THEN 1 ELSE 0, 1)}
\* A null key leaves the three operands, a failed NewSlotA pops them.
sq_rawnewmember  == {Ok(3, 0), Err(0), Err(3)}
\* The same with _newmember.
sq_newmember     == sq_rawnewmember \cup {Susp(5, 3, 0)}
sq_getmemberhandle == {Ok(1, 0), Err(0)}
sq_setclassudsize == {Ok(0, 0), Err(0)}
sq_newclosure(nfreevars) == {Ok(nfreevars, 1)}
sq_compilebuffer == {Ok(0, 1), Err(0)}
\* While the VM is suspended a successful call does not pop its parameters.
sq_call(params)  == {Ok(IF suspended THEN 0 ELSE params, 1), Err(params)}

-----------------------------------------------------------------------------
(* The methods of the handles                                              *)

\* Push `push` operands, call api, pop onErr or onOk slots.
M(name, push, api, onErr, onOk) ==
    [name |-> name, push |-> push, api |-> api, onErr |-> onErr, onOk |-> onOk,
     reset |-> FALSE]

\* As M, but after an error resize_stack restores the depth of the entry.
MReset(name, push, api, onOk) ==
    [name |-> name, push |-> push, api |-> api, onErr |-> 0, onOk |-> onOk,
     reset |-> TRUE]

\* Fault: Table::delete pops a fixed number of slots instead of restoring the
\* depth, although sq_deleteslot pops its key on one of its error paths only.
TableMethods_DeletePops ==
    { M("Table::new", 0, sq_push, 0, 1),
      M("Table::get", 2, sq_get("table"), 1, 2),
      M("Table::set", 3, sq_newslot("table"), 3, 1),
      M("Table::assign", 3, sq_set("table"), 3, 1),
      M("Table::delete", 2, sq_deleteslot, 2, 2) }

\* Table: new, with_capacity, get, set, assign, delete
TableMethods ==
    { M("Table::new", 0, sq_push, 0, 1),
      M("Table::get", 2, sq_get("table"), 1, 2),
      M("Table::set", 3, sq_newslot("table"), 3, 1),
      M("Table::assign", 3, sq_set("table"), 3, 1),
      MReset("Table::delete", 2, sq_deleteslot, 2) }

\* Table: the raw methods, contains_key, delegates, len, clear, clone_value
TableRawMethods ==
    { M("Table::clear", 1, sq_inplace, 0, 1),
      M("Table::raw_get", 2, sq_rawget, 1, 2),
      M("Table::raw_set", 3, sq_rawset("table"), 1, 1),
      M("Table::raw_delete", 2, sq_rawdeleteslot, 0, 2),
      M("Table::contains_key", 2, sq_rawget, 1, 2),
      M("Table::set_delegate", 2, sq_setdelegate, 2, 1),
      M("Table::get_delegate", 1, sq_push, 0, 2),
      M("Table::len", 1, sq_inplace, 0, 1),
      M("Table::clone_value", 1, sq_clone, 1, 2) }

ArrayMethods ==
    { M("Array::new", 0, sq_push, 0, 1),
      M("Array::get", 2, sq_get("array"), 1, 2),
      M("Array::set", 3, sq_set("array"), 3, 1),
      M("Array::append", 2, sq_arrayappend, 0, 1),
      M("Array::pop", 1, sq_arraypop, 1, 2),
      M("Array::len", 1, sq_inplace, 0, 1),
      M("Array::insert", 2, sq_arrayinsert, 2, 1),
      M("Array::remove", 1, sq_arrayremove, 1, 1),
      M("Array::reverse", 1, sq_inplace, 0, 1),
      M("Array::clear", 1, sq_inplace, 0, 1),
      M("Array::resize", 1, sq_arrayresize, 1, 1),
      M("Array::clone_value", 1, sq_push, 0, 2) }

\* Class: construction, base, raw_instantiate, new_member, raw_new_member
ClassMethods ==
    { M("Class::new", 0, sq_newclass(FALSE), 0, 1),
      M("Class::with_base", 1, sq_newclass(TRUE), 0, 1),
      M("Class::base", 1, sq_push, 0, 2),
      M("Class::raw_instantiate", 1, sq_push, 0, 2),
      MReset("Class::new_member", 4, sq_newmember, 1),
      MReset("Class::raw_new_member", 4, sq_rawnewmember, 1) }

\* Fault: Class::new_slot pops one slot after an error, as after a success.
ClassSlotMethods_FixedPops ==
    { M("Class::new_slot", 3, sq_newslot("class"), 1, 1),
      M("Class::get", 2, sq_get("class"), 1, 2),
      M("Class::raw_get", 2, sq_rawget, 1, 2),
      M("Class::raw_set", 3, sq_rawset("class"), 1, 1),
      M("Class::member_handle", 2, sq_getmemberhandle, 2, 1),
      M("Class::set_instance_user_data_size", 1, sq_setclassudsize, 1, 1) }

\* Class: new_slot, get, raw_get, raw_set, member_handle, user data size
ClassSlotMethods ==
    { M("Class::new_slot", 3, sq_newslot("class"), 3, 1),
      M("Class::get", 2, sq_get("class"), 1, 2),
      M("Class::raw_get", 2, sq_rawget, 1, 2),
      M("Class::raw_set", 3, sq_rawset("class"), 1, 1),
      M("Class::member_handle", 2, sq_getmemberhandle, 2, 1),
      M("Class::set_instance_user_data_size", 1, sq_setclassudsize, 1, 1) }

\* Instance; call_method is get followed by call_with.
InstanceMethods ==
    { M("Instance::class", 1, sq_push, 0, 2),
      M("Instance::instance_of", 2, sq_inplace, 0, 2),
      M("Instance::get", 2, sq_get("instance"), 1, 2),
      M("Instance::set", 3, sq_set("instance"), 3, 1),
      M("Instance::raw_get", 2, sq_rawget, 1, 2),
      M("Instance::raw_set", 3, sq_rawset("instance"), 1, 1) }

\* compile_str (eval keeps the root table under it while it compiles) and the
\* closure of create_function, over its user data.
VmMethods ==
    { M("Squirrel::compile_str", 0, sq_compilebuffer, 0, 1),
      M("Squirrel::create_function", 1, sq_newclosure(1), 0, 1) }

\* UserData: new, and the payload behind borrow and borrow_mut
UserDataMethods ==
    { M("UserData::new", 0, sq_push, 0, 1),
      M("UserData::payload", 1, sq_inplace, 0, 1) }

StringMethods ==
    { M("String::new", 0, sq_push, 0, 1),
      M("String::from_object", 1, sq_inplace, 0, 1) }

Methods == TableMethods \cup TableRawMethods \cup ArrayMethods \cup ClassMethods
             \cup ClassSlotMethods \cup InstanceMethods \cup VmMethods
             \cup UserDataMethods \cup StringMethods

-----------------------------------------------------------------------------
(* Slots and iterators                                                     *)

Tmp      == [kind |-> "tmp", of |-> None, at |-> 0]
Tab(i)   == [kind |-> "tab", of |-> i, at |-> 0]
Pos(i, n) == [kind |-> "pos", of |-> i, at |-> n]
Slots == {Tmp} \cup {Tab(i) : i \in Iters}
           \cup {Pos(i, n) : i \in Iters, n \in 0 .. TableSize}

\* s cut to, or extended with temporaries to, n slots.
Resize(s, n) == [k \in 1 .. n |-> IF k <= Len(s) THEN s[k] ELSE Tmp]

Live == {iters[k] : k \in 1 .. Len(iters)}

\* The live iterators without i, in the same order.
Without(i) ==
    LET k == CHOOSE k \in 1 .. Len(iters) : iters[k] = i
    IN  [j \in 1 .. Len(iters) - 1 |-> IF j < k THEN iters[j] ELSE iters[j + 1]]

Init ==
    /\ stack = <<>> /\ below = <<>>
    /\ suspended = FALSE
    /\ iters = <<>>
    /\ got = [i \in Iters |-> <<>>]
    /\ done = {}
    /\ state = "running"

\* Squirrel::pop(count) on a frame of depth slots, whose lowest ones are those
\* of frame: the assertion, then sq_pop.
PopTo(frame, depth, count) ==
    IF count > depth
      THEN state' = "panicked" /\ stack' = Resize(frame, depth)
      ELSE stack' = Resize(frame, depth - count) /\ UNCHANGED state

-----------------------------------------------------------------------------
(* Actions                                                                 *)

\* The depth of the frame when the API call of m has returned o.
DepthAfter(m, o) == Len(stack) + m.push - o.pops + o.pushes

\* One complete call of a method whose API call takes the path o and returns in
\* the frame of the caller.
Invoke(m, o) ==
    /\ state = "running" /\ m.name \notin Unused /\ o.res # "susp"
    /\ Len(stack) + m.push <= MaxDepth
    /\ IF m.reset /\ o.res = "err"
         THEN UNCHANGED <<stack, state>>
         ELSE PopTo(stack, DepthAfter(m, o), IF o.res = "err" THEN m.onErr ELSE m.onOk)
    /\ UNCHANGED <<below, suspended, iters, got, done>>

\* Closure::call, call_with, NativeClosure, Class::instantiate: the callee, its
\* `this` and n arguments are pushed, then call_closure.
Call(n, o) ==
    /\ state = "running"
    /\ Len(stack) + n + 2 <= MaxDepth
    /\ o \in sq_call(n + 1)
    /\ PopTo(stack, Len(stack) + n + 2 - o.pops + o.pushes,
             IF o.res = "err" THEN 1 ELSE 2)
    /\ UNCHANGED <<below, suspended, iters, got, done>>

\* The API call of m runs a metamethod of f slots that calls suspend(): Execute
\* returns without leaving the frame of the metamethod, the API function goes on
\* in it as after a success, below its base if it has too few slots, and the
\* method pops its onOk slots there.
InvokeSuspends(m, o, f) ==
    /\ state = "running" /\ m.name \notin Unused /\ o.res = "susp"
    /\ Suspends /\ ~suspended
    /\ Len(stack) + m.push <= MaxDepth
    /\ suspended' = TRUE
    /\ below' = Resize(stack, Len(stack) + m.push + o.pushes)
    /\ IF o.pops > f
         THEN state' = "wild" /\ stack' = <<>>
         ELSE PopTo(<<>>, f - o.pops, m.onOk)
    /\ UNCHANGED <<iters, got, done>>

\* The same for a call: sq_call pushes the result in the frame of the callee and
\* call_closure pops two slots of that frame.
CallSuspends(n, f) ==
    /\ state = "running" /\ Suspends /\ ~suspended
    /\ Len(stack) + n + 2 <= MaxDepth
    /\ suspended' = TRUE
    /\ below' = Resize(stack, Len(stack) + 1)
    /\ PopTo(<<>>, f + 1, 2)
    /\ UNCHANGED <<iters, got, done>>

\* Fault: the iterator starts at the slot after the first one.
TableIter_SkipsFirst(i) ==
    /\ state = "running" /\ i \notin Live /\ TableSize > 0
    /\ Len(stack) + 2 <= MaxDepth
    /\ stack' = stack \o <<Tab(i), Pos(i, 1)>>
    /\ iters' = Append(iters, i)
    /\ got' = [got EXCEPT ![i] = <<>>]
    /\ done' = done \ {i}
    /\ UNCHANGED <<below, suspended, state>>

\* Table::iter pushes the table and a null position.
TableIter(i) ==
    /\ state = "running" /\ i \notin Live
    /\ Len(stack) + 2 <= MaxDepth
    /\ stack' = stack \o <<Tab(i), Pos(i, 0)>>
    /\ iters' = Append(iters, i)
    /\ got' = [got EXCEPT ![i] = <<>>]
    /\ done' = done \ {i}
    /\ UNCHANGED <<below, suspended, state>>

\* The iterator whose method runs: any live one, or the innermost.
Usable(i) == i \in Live /\ (Nested => i = iters[Len(iters)])

\* What sq_next(v, -2) finds: a table and its own position on the top.
TopIsIterator ==
    /\ Len(stack) >= 2
    /\ stack[Len(stack)].kind = "pos"
    /\ stack[Len(stack) - 1] = Tab(stack[Len(stack)].of)

\* What an iterator has yielded, kept up to one item more than its table has.
Record(s, item) == IF Len(s) <= TableSize THEN Append(s, item) ELSE s

\* Fault: sq_next goes one position past the end of the table.
IterNext_PastEnd(i) ==
    /\ state = "running" /\ Usable(i)
    /\ Len(stack) + 2 <= MaxDepth
    /\ LET pos == stack[Len(stack)]
       IN  \/ /\ ~TopIsIterator
              /\ state' = "wild"
              /\ UNCHANGED <<stack, got, done>>
           \/ /\ TopIsIterator /\ pos.at <= TableSize
              /\ got' = [got EXCEPT ![i] = Record(@, <<pos.of, pos.at>>)]
              /\ stack' = [stack EXCEPT ![Len(stack)] = Pos(pos.of, pos.at + 1)]
              /\ UNCHANGED <<done, state>>
           \/ /\ TopIsIterator /\ pos.at > TableSize
              /\ done' = done \cup {i}
              /\ UNCHANGED <<stack, got, state>>
    /\ UNCHANGED <<below, suspended, iters>>

\* TableSlots::next: sq_next reads the table at -2 and the position at -1,
\* whichever iterator they belong to, and stores the new position at -1. The
\* key and the value it pushes are popped again.
IterNext(i) ==
    /\ state = "running" /\ Usable(i)
    /\ Len(stack) + 2 <= MaxDepth
    /\ LET pos == stack[Len(stack)]
       IN  \/ /\ ~TopIsIterator
              /\ state' = "wild"
              /\ UNCHANGED <<stack, got, done>>
           \/ /\ TopIsIterator /\ pos.at < TableSize
              /\ got' = [got EXCEPT ![i] = Record(@, <<pos.of, pos.at>>)]
              /\ stack' = [stack EXCEPT ![Len(stack)] = Pos(pos.of, pos.at + 1)]
              /\ UNCHANGED <<done, state>>
           \/ /\ TopIsIterator /\ pos.at = TableSize
              /\ done' = done \cup {i}
              /\ UNCHANGED <<stack, got, state>>
    /\ UNCHANGED <<below, suspended, iters>>

\* Drop for TableSlots: pop(2), whatever is there.
DropIter(i) ==
    /\ state = "running" /\ Usable(i)
    /\ PopTo(stack, Len(stack), 2)
    /\ iters' = Without(i)
    /\ UNCHANGED <<below, suspended, got, done>>

-----------------------------------------------------------------------------
Next ==
    \/ \E m \in Methods : \E o \in m.api : Invoke(m, o)
    \/ \E n \in 0 .. MaxArgs : \E o \in sq_call(n + 1) : Call(n, o)
    \/ \E m \in Methods : \E o \in m.api : \E f \in FrameSizes : InvokeSuspends(m, o, f)
    \/ \E n \in 0 .. MaxArgs : \E f \in FrameSizes : CallSuspends(n, f)
    \/ \E i \in Iters : TableIter(i)
    \/ \E i \in Iters : IterNext(i)
    \/ \E i \in Iters : DropIter(i)

Spec == Init /\ [][Next]_vars

-----------------------------------------------------------------------------
(* Properties                                                              *)

\* A slot is a temporary, an iterated table or a position of an iterator, and
\* no position runs past the end of its table.
TypeOK ==
    /\ stack \in Seq(Slots) /\ below \in Seq(Slots)
    /\ suspended \in BOOLEAN
    /\ iters \in Seq(Iters)
    /\ got \in [Iters -> Seq(Iters \X (0 .. TableSize))]
    /\ done \in SUBSET Iters
    /\ state \in {"running", "panicked", "wild"}

\* Between two calls the stack holds the slots of the live iterators, in the
\* order they were made, and nothing else: no path of any method leaks a slot
\* or takes one that is not its own, so pop never panics and sq_next never
\* reads a foreign slot (the assertion `sq.stack_depth() == 0` of the tests,
\* carried through iteration).
StackIsIterators ==
    /\ state = "running"
    /\ Len(stack) = 2 * Len(iters)
    /\ \A k \in 1 .. Len(iters) :
         /\ stack[2 * k - 1] = Tab(iters[k])
         /\ stack[2 * k] = Pos(iters[k], Len(got[iters[k]]))

\* An iterator yields the slots of its own table, each once and in order, and
\* ends only when it has yielded them all (TableSlots::next).
IterComplete ==
    \A i \in Iters :
        /\ \A k \in 1 .. Len(got[i]) : got[i][k] = <<i, k - 1>>
        /\ i \in done => Len(got[i]) = TableSize

\* Methods of which an error path is known to unbalance the stack.
Unbalanced == {"Array::insert", "Instance::raw_set"}

\* Even when another call has unbalanced the stack, or a script has suspended
\* the VM, a method puts back exactly what it pushed, on success and on every
\* error path of the API (to_runtime_error's count, resize_stack). The exceptions
\* are errors of the two methods above, calls into a suspended VM, and the call
\* or the metamethod of Table or Instance get, set, assign, delete, clone_value or
\* Class::new_member that suspends it: from then on the frame is another one.
MethodsBalanced ==
    [][/\ \A m \in Methods : \A o \in m.api :
            Invoke(m, o) \/ (\E f \in FrameSizes : InvokeSuspends(m, o, f))
              => \/ UNCHANGED <<stack, state>>
                 \/ m.name \in Unbalanced /\ o.res = "err"
                 \/ o.res = "susp" /\ suspended'
       /\ \A n \in 0 .. MaxArgs :
            (\E o \in sq_call(n + 1) : Call(n, o)) \/ (\E f \in FrameSizes : CallSuspends(n, f))
              => UNCHANGED <<stack, state>> \/ suspended \/ suspended']_vars
=============================================================================
