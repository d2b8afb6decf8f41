-------------------------------- MODULE Heap --------------------------------
(***************************************************************************)
(* Reference counts, weak references, the handle table and the cycle       *)
(* collector of one VM, and the Object handles the Rust crate keeps on it. *)
(*                                                                         *)
(* A cell is a block of memory: a collectable object, or a weak reference. *)
(* Every object has two fields (Fields names what each one is for its      *)
(* kind).  What one C++ call releases it releases in nested calls; `work`  *)
(* is that call stack, its head the next thing to do, so an order of       *)
(* releases in which a freed cell is used again is a state of the model.   *)
(* Release hooks drop a payload that is Send + 'static and cannot hold a   *)
(* handle, so no program step runs while work is pending.                  *)
(*                                                                         *)
(* uses is what the program makes use of in a behaviour (a key of Programs): *)
(* the kinds of object it creates, and "weakref", "handle", "collect".     *)
(***************************************************************************)
EXTENDS Integers, FiniteSets, Sequences, FiniteSetsExt

CONSTANTS
    Cells,      \* addresses of heap blocks
    Root,       \* the cell of the root VM
    RefSlots,   \* AllocNodes' size for a new RefTable (4 in the code)
    Programs,   \* Programs[u]: bound on the steps of a program that uses u
    MaxHeld,    \* bound: handles to one object
    None        \* OT_NULL, and a NULL pointer

ASSUME CellsAssumption == Cells \subseteq Nat /\ IsFiniteSet(Cells) /\ Root \in Cells
ASSUME BoundsAssumption ==
    /\ RefSlots \in Nat \ {0} /\ MaxHeld \in Nat
    /\ \A u \in DOMAIN Programs : Programs[u] \in Nat
ASSUME NoneAssumption == None \notin Cells

VARIABLES
    heap,       \* the cells
    chain,      \* the members of the list that _gc_chain heads
    lost,       \* the lists that _gc_chain does not head any more
    place,      \* where an object is in its list: its last has 1
    table,      \* RefTable: bucket number -> its nodes
    held,       \* Rust handles alive, per object
    leaked,     \* Rust handles that were forgotten (mem::forget), per object
    work,       \* what the running C++ call has still to do
    uses,       \* the features this program uses
    ops,        \* steps the program has taken
    status      \* "open", "closing" (in sq_close), "closed"

lists == <<chain, lost, place>>
vars == <<heap, chain, lost, place, table, held, leaked, work, uses, ops, status>>

Kinds == {"table", "userdata", "class", "instance", "closure", "outer", "thread"}

\* Field 1: SQDelegable::_delegate, SQClass::_base, SQInstance::_class,
\* SQClosure::_base, a stack slot.  Field 2: the value of a table node, of a
\* class member, of an instance, a captured variable, SQOuter::_value, a slot.
Fields(k) == CASE k = "userdata" -> {1} [] k = "outer" -> {2} [] OTHER -> {1, 2}

NoCell == [kind |-> "free", refs |-> 0, marked |-> FALSE, fields |-> <<None, None>>,
           link |-> None, open |-> <<>>, box |-> "none"]

\* link is _weakref of an object and _obj of a weak reference; open is the
\* stack slot that _valptr of an outer points to, <<>> once it is closed; box
\* is the boxed payload of a userdata.
Cell == [kind : Kinds \cup {"weakref", "free"}, refs : Nat, marked : BOOLEAN,
         fields : [1..2 -> Cells \cup {None}], link : Cells \cup {None},
         open : {<<>>} \cup (Cells \X {1, 2}),
         box : {"none", "full", "dropped", "twice", "leaked"}]

Live == {c \in Cells : heap[c].kind # "free"}
Collectable == {c \in Live : heap[c].kind # "weakref"}
FreeCells == Cells \ Live

-----------------------------------------------------------------------------
(* Pending C++ work.                                                       *)

Task(op, c) == [op |-> op, cell |-> c, field |-> 0, todo |-> {}, ending |-> ""]
NullTask(c, f) == [Task("null", c) EXCEPT !.field = f]
NextTask(c, todo, ending) == [Task("advance", c) EXCEPT !.todo = todo, !.ending = ending]
Drop(v) == IF v = None THEN <<>> ELSE <<Task("drop", v)>>

\* A plain pointer (__ObjRelease) and an SQObjectPtr that is destroyed stay in
\* their field until the release returns; SQObjectPtr::Null and operator= write
\* the field first.  `fields` is what is counted: a pointer that is released
\* and still in its field is in the `todo` of a pending "clear".
Lingers(c, f) ==
    \/ f = 1 /\ heap[c].kind # "thread"
    \/ heap[c].refs = 0 /\ heap[c].kind \in {"table", "closure", "outer"}
ClearTask(c, f, v) == [Task("clear", c) EXCEPT !.field = f, !.todo = {v}]
LetGo(c, f, v) ==
    Drop(v) \o (IF v # None /\ Lingers(c, f) THEN <<ClearTask(c, f, v)>> ELSE <<>>)
Unwritten(c, f) ==
    {i \in DOMAIN work : work[i].op = "clear" /\ work[i].cell = c /\ work[i].field = f}
Pointer(c, f) ==
    IF Unwritten(c, f) = {} THEN heap[c].fields[f]
    ELSE CHOOSE v \in UNION {work[i].todo : i \in Unwritten(c, f)} : TRUE

FinalizeTasks_ClassOnly(c) ==
    CASE heap[c].kind \in {"table", "class"} -> <<NullTask(c, 2), NullTask(c, 1)>>
      [] heap[c].kind \in {"instance", "userdata"} -> <<NullTask(c, 1)>>
      [] heap[c].kind \in {"closure", "outer"} -> <<NullTask(c, 2)>>
      [] heap[c].kind = "thread" ->
            <<Task("closeouters", c), NullTask(c, 1), NullTask(c, 2)>>
FinalizeTasks_HookToo(c) ==
    CASE heap[c].kind = "userdata" -> <<Task("hook", c), NullTask(c, 1)>>
      [] heap[c].kind \in {"closure", "outer"} -> <<NullTask(c, 2)>>
      [] OTHER -> <<Task("closeouters", c), NullTask(c, 1), NullTask(c, 2)>>

\* SQCollectable::Finalize of each kind.
FinalizeTasks(c) ==
    CASE heap[c].kind \in {"table", "class"} -> <<NullTask(c, 2), NullTask(c, 1)>>
      [] heap[c].kind = "instance" -> <<NullTask(c, 1), NullTask(c, 2)>>
      [] heap[c].kind = "userdata" -> <<NullTask(c, 1)>>
      [] heap[c].kind \in {"closure", "outer"} -> <<NullTask(c, 2)>>
      [] heap[c].kind = "thread" ->
            <<Task("closeouters", c), NullTask(c, 1), NullTask(c, 2)>>

\* Release of each kind: its destructor, and the end of the block.
ReleaseTasks(c) ==
    LET gone == <<Task("unchain", c)>>
        free == <<Task("free", c)>>
    IN  CASE heap[c].kind = "table" ->
                <<NullTask(c, 1)>> \o gone \o <<NullTask(c, 2)>> \o free
          [] heap[c].kind = "userdata" ->
                <<Task("hook", c)>> \o gone \o <<NullTask(c, 1)>> \o free
          [] heap[c].kind \in {"class", "instance", "outer"} ->
                gone \o FinalizeTasks(c) \o free
          [] heap[c].kind = "closure" ->
                <<NullTask(c, 2), NullTask(c, 1)>> \o gone \o free
          [] heap[c].kind = "thread" -> FinalizeTasks(c) \o gone \o free
          [] heap[c].kind = "weakref" -> free

AddRefTo(h, v) == IF v = None THEN h ELSE [h EXCEPT ![v].refs = @ + 1]

Doing(op) == work # <<>> /\ Head(work).op = op
Then(tasks) == work' = tasks \o Tail(work)
Here == Head(work).cell

DropRef_TestFirst ==
    /\ Doing("drop")
    /\ heap' = [heap EXCEPT ![Here].refs = @ - 1]
    /\ Then(IF heap[Here].refs = 0 /\ ~heap[Here].marked THEN ReleaseTasks(Here) ELSE <<>>)
    /\ UNCHANGED <<lists, table, held, leaked, uses, ops, status>>

\* __Release: one reference less; MARK_FLAG is a bit of _uiRef, so a marked
\* object is never released.
DropRef ==
    /\ Doing("drop")
    /\ LET left == heap[Here].refs - 1 IN
       /\ heap' = [heap EXCEPT ![Here].refs = left]
       /\ Then(IF left = 0 /\ ~heap[Here].marked THEN ReleaseTasks(Here) ELSE <<>>)
    /\ UNCHANGED <<lists, table, held, leaked, uses, ops, status>>

\* SQObjectPtr::Null, ~SQObjectPtr and __ObjRelease.
NullField ==
    /\ Doing("null")
    /\ LET f == Head(work).field IN
       /\ heap' = [heap EXCEPT ![Here].fields[f] = None]
       /\ Then(LetGo(Here, f, Pointer(Here, f)))
    /\ UNCHANGED <<lists, table, held, leaked, uses, ops, status>>

\* The second half of __ObjRelease and SetDelegate: the field is written.
ClearField ==
    /\ Doing("clear")
    /\ Then(<<>>)
    /\ UNCHANGED <<heap, lists, table, held, leaked, uses, ops, status>>

\* The lists of collectable objects.
Lists == {chain} \cup lost
Listed == {c \in Cells : \E l \in Lists : c \in l}
Mates(c) == {x \in Cells : \E l \in Lists : {c, x} \subseteq l}

\* AddToChain of an object, or of another one and then of c: it goes in front of
\* the list that _gc_chain heads.
AddToChain(objs, c) ==
    /\ chain' = chain \cup objs /\ lost' = lost
    /\ place' = [x \in Cells |->
                   IF x \notin objs THEN place[x]
                   ELSE Cardinality(chain) + IF x = c THEN Cardinality(objs) ELSE 1]

\* RemoveFromChain of the objects of gone, the one with the lowest turn first.
\* One that is then the first of its list (_prev is NULL) makes *chain =
\* c->_next, whatever list that is: _gc_chain heads what is left of it, and the
\* list that _gc_chain headed is lost.
Resets(gone, turn) ==
    {c \in gone : \A x \in Mates(c) :
        place[x] > place[c] => x \in gone /\ turn[x] < turn[c]}
Heads(l, gone, turn) ==
    LET resets == Resets(gone, turn) IN
    IF resets = {} THEN l = chain
    ELSE \E c \in resets : c \in l /\ \A d \in resets : turn[d] <= turn[c]
RemoveFromChain(gone, turn) ==
    /\ \E l \in Lists : /\ Heads(l, gone, turn)
                       /\ chain' = l \ gone
                       /\ lost' = {k \ gone : k \in Lists \ {l}} \ {{}}
    /\ place' = [c \in Cells |-> IF c \in gone THEN turn[c] ELSE
                    Cardinality({x \in Mates(c) \ gone : place[x] <= place[c]})]

\* REMOVE_FROM_CHAIN in a destructor.
Unchain ==
    /\ Doing("unchain")
    /\ IF heap[Here].marked THEN UNCHANGED lists
       ELSE RemoveFromChain({Here}, [c \in Cells |-> 0])
    /\ Then(<<>>)
    /\ UNCHANGED <<heap, table, held, leaked, uses, ops, status>>

\* The release hook of a userdata drops its Box<Payload>.
RunHook ==
    /\ Doing("hook")
    /\ heap' = [heap EXCEPT ![Here].box = IF @ = "full" THEN "dropped" ELSE "twice"]
    /\ Then(<<>>)
    /\ UNCHANGED <<lists, table, held, leaked, uses, ops, status>>

\* ~SQRefCounted and SQWeakRef::Release unlink an object and its weak
\* reference, whichever goes first; then the block is returned.
Unlinked_Never(h, c) == h
Unlinked(h, c) == IF h[c].link = None THEN h ELSE [h EXCEPT ![h[c].link].link = None]

FreeCell ==
    /\ Doing("free")
    /\ heap' = [Unlinked(heap, Here) EXCEPT
                  ![Here] = [NoCell EXCEPT !.box = IF heap[Here].box \in {"full", "twice"}
                                                   THEN "leaked" ELSE "none"]]
    /\ Then(<<>>)
    /\ UNCHANGED <<lists, table, held, leaked, uses, ops, status>>

OpenOuters(th) == {c \in Live : heap[c].kind = "outer" /\ heap[c].open # <<>> /\ heap[c].open[1] = th}

CloseOuters_KeepsRef ==
    /\ Doing("closeouters")
    /\ LET open == OpenOuters(Here) IN
       IF open = {} THEN heap' = heap /\ Then(<<>>)
       ELSE LET o == CHOOSE o \in open : TRUE
                v == heap[Here].fields[heap[o].open[2]]
            IN  /\ heap' = AddRefTo([heap EXCEPT ![o].fields[2] = v, ![o].open = <<>>], v)
                /\ Then(<<Task("closeouters", Here)>>)
    /\ UNCHANGED <<lists, table, held, leaked, uses, ops, status>>

\* SQVM::CloseOuters: each open outer, from the top of the stack, takes the
\* value of its slot and leaves the list, which held a reference to it.
CloseOuters ==
    /\ Doing("closeouters")
    /\ LET open == OpenOuters(Here) IN
       IF open = {} THEN heap' = heap /\ Then(<<>>)
       ELSE LET o == CHOOSE o \in open : \A p \in open : heap[p].open[2] <= heap[o].open[2]
                v == heap[Here].fields[heap[o].open[2]]
            IN  /\ heap' = AddRefTo([heap EXCEPT ![o].fields[2] = v, ![o].open = <<>>], v)
                /\ Then(<<Task("drop", o), Task("closeouters", Here)>>)
    /\ UNCHANGED <<lists, table, held, leaked, uses, ops, status>>

-----------------------------------------------------------------------------
(* The handle table.                                                       *)

Buckets(n) == 0..n - 1
NewTable(n) == [b \in Buckets(n) |-> {}]
Nodes == UNION {table[b] : b \in DOMAIN table}
Slots == Cardinality(DOMAIN table)
Bucket(c, n) == c % n           \* HashObj(obj) & (_numofslots - 1)

\* RefTable::Get: the node of c in the bucket where it is looked for.
Found(c) == {n \in table[Bucket(c, Slots)] : n.obj = c}

\* RefTable::Resize, called when every node is used.
Resized == [b \in Buckets(2 * Slots) |-> {n \in Nodes : Bucket(n.obj, 2 * Slots) = b}]

\* RefTable::Get with add: a new node goes where Resize, if it ran, puts it.
WithNode_OldBucket(c) ==
    LET t == IF Cardinality(Nodes) = Slots THEN Resized ELSE table
    IN  [t EXCEPT ![Bucket(c, Slots)] = @ \cup {[obj |-> c, refs |-> 1]}]
WithNode(c) ==
    LET t == IF Cardinality(Nodes) = Slots THEN Resized ELSE table
    IN  [t EXCEPT ![Bucket(c, Cardinality(DOMAIN t))] = @ \cup {[obj |-> c, refs |-> 1]}]

SetRefs(n, r) ==
    [table EXCEPT ![Bucket(n.obj, Slots)] =
        (@ \ {n}) \cup (IF r = 0 THEN {} ELSE {[n EXCEPT !.refs = r]})]

\* sq_addref: RefTable::AddRef.  A new node holds a reference of its own.
sq_addref(c) ==
    IF Found(c) = {}
    THEN /\ table' = WithNode(c)
         /\ heap' = AddRefTo(heap, c)
    ELSE /\ \E n \in Found(c) : table' = SetRefs(n, n.refs + 1)
         /\ UNCHANGED heap

\* sq_release: RefTable::Release; assert(0) when the object has no node.
sq_release(c) ==
    IF Found(c) = {} THEN UNCHANGED <<table, work>>
    ELSE \E n \in Found(c) :
            /\ table' = SetRefs(n, n.refs - 1)
            /\ work' = IF n.refs = 1 THEN Drop(c) ELSE <<>>

-----------------------------------------------------------------------------
(* The collector.                                                          *)

Closure(from, Succ(_)) ==
    LET upto[n \in 0..Cardinality(Cells)] ==
            IF n = 0 THEN from
            ELSE LET was == upto[n - 1] IN was \cup UNION {Succ(c) : c \in was}
    IN  upto[Cardinality(Cells)]

Refers(c) == {heap[c].fields[f] : f \in 1..2} \ {None}

\* The Mark methods follow every field that is a collectable object (not a
\* weak reference; SQOuter::Mark not the slot an open outer points to, and
\* SQVM::Mark not _openouters).
MarkSucc(c) == Refers(c) \cap Collectable
RunMark_StackOnly == Closure({Root}, MarkSucc)
RunMark == Closure({Root} \cup ({n.obj : n \in Nodes} \cap Collectable), MarkSucc)

\* The order in which RunMark moves them to tchain: an object after all that
\* its Mark reaches.  An entry of the stack is a Mark that is to be called, or
\* its END_MARK.
MarkStep(m) ==
    LET c == Head(m.stack)[1] IN
    CASE m.stack = <<>> -> m
      [] m.stack # <<>> /\ Head(m.stack)[2] ->
            [m EXCEPT !.stack = Tail(@), !.order = Append(@, c)]
      [] m.stack # <<>> /\ ~Head(m.stack)[2] ->
            IF c \in m.seen \/ c \notin Collectable THEN [m EXCEPT !.stack = Tail(@)]
            ELSE [m EXCEPT !.seen = @ \cup {c},
                           !.stack = <<<<heap[c].fields[1], FALSE>>, <<heap[c].fields[2], FALSE>>,
                                       <<c, TRUE>>>> \o Tail(@)]
MarkOrder(from) ==
    LET upto[n \in 0..5 * Cardinality(Cells) + 1] ==
            IF n = 0 THEN [stack |-> from, seen |-> {}, order |-> <<>>] ELSE MarkStep(upto[n - 1])
    IN  upto[5 * Cardinality(Cells) + 1].order

\* The root VM comes before the objects that have a handle.  The default
\* delegates, which are always there, come last; Root stands for them.
MarkTurns ==
    LET handles == {n.obj : n \in Nodes}
        nodes == CHOOSE s \in [1..Cardinality(handles) -> handles] : Range(s) = handles
        order == MarkOrder(<<<<Root, FALSE>>>> \o [i \in DOMAIN nodes |-> <<nodes[i], FALSE>>])
        at(c) == IF c = Root THEN Len(order) + 1 ELSE Min({i \in DOMAIN order : order[i] = c})
    IN  [c \in Cells |-> Cardinality({x \in RunMark : c \in RunMark /\ at(x) <= at(c)})]

\* The loop of CollectGarbage and ~SQSharedState over _gc_chain: the object
\* that is finalized is pinned by a reference, and so is the next one before
\* the pin of this one is dropped.  t->_next stays in the list of t, which is
\* pinned: what is left of todo in any list is left in that one.
Pinned_Not(c) == heap
Pinned(c) == AddRefTo(heap, c)
Sweep_Again(todo, ending, before) ==
    IF todo \cap Listed = {}
    THEN heap' = heap /\ Then(before \o <<Task(ending, None)>>)
    ELSE \E c \in todo \cap Listed :
            /\ heap' = Pinned(c)
            /\ Then(before \o FinalizeTasks(c) \o <<NextTask(c, todo, ending)>>)
Sweep(todo, ending, before) ==
    IF todo \cap Listed = {}
    THEN heap' = heap /\ Then(before \o <<Task(ending, None)>>)
    ELSE \E c \in todo \cap Listed :
            /\ heap' = Pinned(c)
            /\ Then(before \o FinalizeTasks(c) \o <<NextTask(c, todo \ {c}, ending)>>)

StartSweep ==
    /\ Doing("sweepall")
    /\ Sweep(chain, "closed", <<>>)
    /\ UNCHANGED <<lists, table, held, leaked, uses, ops, status>>

Advance ==
    /\ Doing("advance")
    /\ Sweep(Head(work).todo, Head(work).ending, <<Task("drop", Here)>>)
    /\ UNCHANGED <<lists, table, held, leaked, uses, ops, status>>

\* The end of CollectGarbage: UnMark, and _gc_chain = tchain.
Unmark ==
    /\ Doing("unmark")
    /\ chain' = {c \in Live : heap[c].marked}
    /\ lost' = Lists \ {{}}
    /\ heap' = [c \in Cells |-> [heap[c] EXCEPT !.marked = FALSE]]
    /\ Then(<<>>)
    /\ UNCHANGED <<place, table, held, leaked, uses, ops, status>>

FinalizeTable_Nothing ==
    /\ Doing("reftable") /\ Then(<<>>)
    /\ UNCHANGED <<heap, lists, table, held, leaked, uses, ops, status>>

\* RefTable::Finalize: the object of one node after the other is dropped.
FinalizeTable ==
    /\ Doing("reftable")
    /\ IF Nodes = {} THEN table' = table /\ Then(<<>>)
       ELSE \E n \in Nodes :
              /\ table' = [b \in DOMAIN table |-> table[b] \ {n}]
              /\ Then(Drop(n.obj) \o <<Task("reftable", None)>>)
    /\ UNCHANGED <<heap, lists, held, leaked, uses, ops, status>>

Closed ==
    /\ Doing("closed")
    /\ status' = "closed"
    /\ Then(<<>>)
    /\ UNCHANGED <<heap, lists, table, held, leaked, uses, ops>>

Work == \/ DropRef \/ NullField \/ ClearField \/ Unchain \/ RunHook \/ FreeCell \/ CloseOuters
        \/ StartSweep \/ Advance \/ Unmark \/ FinalizeTable \/ Closed

-----------------------------------------------------------------------------
(* The program: bytecode, base library and handle methods.                 *)

\* An open outer leads to the stack slot it points to.
ReachSucc(c) ==
    Refers(c) \cup
    (IF heap[c].open = <<>> THEN {}
     ELSE {heap[heap[c].open[1]].fields[heap[c].open[2]]} \ {None})
Reach == Closure({Root} \cup {c \in Live : held[c] + leaked[c] > 0}, ReachSucc)
InReach == Closure({Root}, ReachSucc)
Values == {c \in InReach : heap[c].kind # "outer" /\ c # Root}
OfKind(k) == {c \in InReach : heap[c].kind = k}

Idle == work = <<>> /\ status = "open"
Program ==
    /\ Idle /\ ops < Programs[uses]
    /\ ops' = ops + 1
    /\ UNCHANGED <<uses, status>>

\* h with v in field f of c (SQObjectPtr::operator=): the new value gets its
\* reference before the old one is released.
Stored_NoAddRef(h, c, f, v) == [h EXCEPT ![c].fields[f] = v]
Stored(h, c, f, v) == AddRefTo([h EXCEPT ![c].fields[f] = v], v)
Old(c, f) == Drop(heap[c].fields[f])

\* A new object of kind k whose fields are already counted, in stack slot s.
Created(h, c, k, fs, s) ==
    LET new == [NoCell EXCEPT !.kind = k, !.fields = fs,
                              !.box = IF k = "userdata" THEN "full" ELSE "none"]
    IN  Stored(AddRefTo(AddRefTo([h EXCEPT ![c] = new], fs[1]), fs[2]), Root, s, c)
NewObject(k, s) ==
    /\ Program /\ k \in uses \cap {"table", "userdata", "thread"} /\ FreeCells # {}
    /\ heap' = Created(heap, Min(FreeCells), k, <<None, None>>, s)
    /\ AddToChain({Min(FreeCells)}, Min(FreeCells))
    /\ work' = Old(Root, s)
    /\ UNCHANGED <<table, held, leaked>>

\* SQClass::SQClass copies the members of its base, SQInstance::SQInstance
\* the default values of its class.
NewDerived(k, from, s) ==
    /\ Program /\ k \in uses \cap {"class", "instance"} /\ FreeCells # {}
    /\ from # None \/ k = "class"
    /\ heap' = Created(heap, Min(FreeCells), k,
                       <<from, IF from = None THEN None ELSE heap[from].fields[2]>>, s)
    /\ AddToChain({Min(FreeCells)}, Min(FreeCells))
    /\ work' = Old(Root, s)
    /\ UNCHANGED <<table, held, leaked>>

\* _OP_CLOSURE in a function that runs on th and captures its slot g:
\* SQVM::FindOuter takes the open outer of the slot, or makes one, which the
\* open list holds too.
NewClosure(th, g, s) ==
    /\ Program /\ "closure" \in uses
    /\ LET known == {o \in OpenOuters(th) : heap[o].open[2] = g}
           c == Min(FreeCells)
           o == IF known = {} THEN Min(FreeCells \ {c}) ELSE CHOOSE k \in known : TRUE
           otr == [NoCell EXCEPT !.kind = "outer", !.refs = 1, !.open = <<th, g>>]
           h == IF known = {} THEN [heap EXCEPT ![o] = otr] ELSE heap
       IN  /\ Cardinality(FreeCells) >= IF known = {} THEN 2 ELSE 1
           /\ heap' = Created(h, c, "closure", <<None, o>>, s)
           /\ IF known = {} THEN AddToChain({c, o}, o) ELSE AddToChain({c}, c)
    /\ work' = Old(Root, s)
    /\ UNCHANGED <<table, held, leaked>>

\* SQClass::NewSlot of a closure in a derived class stores a clone of it
\* whose _base is the base class.
AddMethod(k, c) ==
    /\ Program /\ heap[k].fields[1] # None /\ FreeCells # {}
    /\ LET new == Min(FreeCells)
           clone == [NoCell EXCEPT !.kind = "closure",
                                   !.fields = <<heap[k].fields[1], heap[c].fields[2]>>]
           h == AddRefTo(AddRefTo([heap EXCEPT ![new] = clone], clone.fields[1]), clone.fields[2])
       IN  heap' = Stored(h, k, 2, new) /\ AddToChain({new}, new)
    /\ work' = Old(k, 2)
    /\ UNCHANGED <<table, held, leaked>>

\* A write to a stack slot, a table, an unlocked class, an instance or a
\* captured variable.
Target(c) == IF heap[c].open = <<>> THEN <<c, 2>> ELSE heap[c].open
Locked(k) == \E i \in Live : heap[i].kind = "instance" /\ heap[i].fields[1] = k
Writable ==
    {t \in InReach \X {1, 2} :
        \/ heap[t[1]].kind = "thread"
        \/ t[2] = 2 /\ heap[t[1]].kind \in {"table", "instance"}
        \/ t[2] = 2 /\ heap[t[1]].kind = "class" /\ ~Locked(t[1])}
    \cup {Target(c) : c \in OfKind("outer")}

Assign(c, f, v) ==
    /\ Program /\ heap[c].fields[f] # v
    /\ ~(heap[c].kind = "class" /\ v \in OfKind("closure"))
    /\ heap' = Stored(heap, c, f, v)
    /\ work' = Old(c, f)
    /\ UNCHANGED <<lists, table, held, leaked>>

\* SQDelegable::SetDelegate, which refuses a cycle of delegates.  The object is
\* on the stack of the call.
DelegateSucc(c) == {heap[c].fields[1]} \ {None}
SetDelegate(c, v) ==
    /\ Program /\ heap[c].fields[1] # v
    /\ c \notin Closure({v} \ {None}, DelegateSucc)
    /\ heap' = AddRefTo(Stored(heap, c, 1, v), c)
    /\ work' = LetGo(c, 1, heap[c].fields[1]) \o Drop(c)
    /\ UNCHANGED <<lists, table, held, leaked>>

\* The end of a scope with captured variables (_OP_CLOSE, LeaveFrame).
CloseScope(th) ==
    /\ Program /\ OpenOuters(th) # {}
    /\ work' = <<Task("closeouters", th)>>
    /\ UNCHANGED <<heap, lists, table, held, leaked>>

\* obj.weakref(): SQRefCounted::GetWeakRef, and the result in slot s.
MakeWeakRef(c, s) ==
    /\ Program /\ "weakref" \in uses
    /\ LET w == IF heap[c].link = None THEN Min(FreeCells) ELSE heap[c].link
           made == [NoCell EXCEPT !.kind = "weakref", !.link = c]
           h == IF heap[c].link = None
                THEN [heap EXCEPT ![c].link = w, ![w] = made] ELSE heap
       IN  /\ heap[c].link # None \/ FreeCells # {}
           /\ heap[Root].fields[s] # w
           /\ heap' = Stored(h, Root, s, w)
    /\ work' = Old(Root, s)
    /\ UNCHANGED <<lists, table, held, leaked>>

\* ref(): the object of a weak reference, or null, in slot s.
Deref(w, s) ==
    /\ Program /\ heap[Root].fields[s] # heap[w].link
    /\ heap' = Stored(heap, Root, s, heap[w].link)
    /\ work' = Old(Root, s)
    /\ UNCHANGED <<lists, table, held, leaked>>

\* Object::from_stack (a value on the stack), Clone for Object (one held).
TakeHandle(c) ==
    /\ Program /\ "handle" \in uses /\ held[c] + leaked[c] < MaxHeld
    /\ sq_addref(c)
    /\ held' = [held EXCEPT ![c] = @ + 1]
    /\ UNCHANGED <<lists, leaked, work>>

\* Object::push_into_stack.
PushHandle(c, s) ==
    /\ Program /\ heap[Root].fields[s] # c
    /\ heap' = Stored(heap, Root, s, c)
    /\ work' = Old(Root, s)
    /\ UNCHANGED <<lists, table, held, leaked>>

\* Drop for Object.
DropHandle(c) ==
    /\ Idle /\ UNCHANGED <<uses, ops, status>>
    /\ sq_release(c)
    /\ held' = [held EXCEPT ![c] = @ - 1]
    /\ UNCHANGED <<heap, lists, leaked>>

\* mem::forget of an Object: its count stays in the table for good.
ForgetHandle(c) ==
    /\ Program
    /\ held' = [held EXCEPT ![c] = @ - 1]
    /\ leaked' = [leaked EXCEPT ![c] = @ + 1]
    /\ UNCHANGED <<heap, lists, table, work>>

\* SQSharedState::CollectGarbage: mark, which moves what it reaches to a list of
\* its own, then sweep what is left behind _gc_chain.
CollectGarbage ==
    /\ Program /\ "collect" \in uses
    /\ LET live == RunMark
           h == [c \in Cells |-> [heap[c] EXCEPT !.marked = c \in live]]
       IN  /\ RemoveFromChain(live, MarkTurns)
           /\ IF chain' = {} THEN heap' = h /\ work' = <<Task("unmark", None)>>
              ELSE \E c \in chain' :
                     /\ heap' = AddRefTo(h, c)
                     /\ work' = FinalizeTasks(c) \o <<NextTask(c, chain' \ {c}, "unmark")>>
    /\ UNCHANGED <<table, held, leaked>>

\* Drop for Squirrel: sq_close and ~SQSharedState.  Handles borrow the
\* Squirrel, so none is left but the forgotten ones.
sq_close ==
    /\ Idle
    /\ \A c \in Cells : held[c] = 0
    /\ status' = "closing"
    /\ work' = FinalizeTasks(Root) \o FinalizeTasks(Root)
               \o <<Task("drop", Root), Task("reftable", None), Task("sweepall", None)>>
    /\ UNCHANGED <<heap, lists, table, held, leaked, uses, ops>>

Init ==
    /\ heap = [c \in Cells |-> IF c = Root THEN [NoCell EXCEPT !.kind = "thread", !.refs = 1]
                               ELSE NoCell]
    /\ chain = {Root} /\ lost = {} /\ place = [c \in Cells |-> IF c = Root THEN 1 ELSE 0]
    /\ table = NewTable(RefSlots)
    /\ held = [c \in Cells |-> 0] /\ leaked = [c \in Cells |-> 0]
    /\ work = <<>> /\ ops = 0 /\ status = "open"
    /\ uses \in DOMAIN Programs

ProgramStep ==
    \/ \E s \in 1..2 :
         \/ \E k \in Kinds : NewObject(k, s)
         \/ \E k \in Kinds, from \in OfKind("class") \cup {None} : NewDerived(k, from, s)
         \/ \E th \in OfKind("thread"), g \in 1..2 : NewClosure(th, g, s)
         \/ \E c \in Values \cap Collectable : MakeWeakRef(c, s)
         \/ \E w \in OfKind("weakref") : Deref(w, s)
         \/ \E c \in {h \in Cells : held[h] > 0} : PushHandle(c, s)
    \/ \E k \in OfKind("class"), c \in OfKind("closure") : AddMethod(k, c)
    \/ \E t \in Writable, v \in Values \cup {None} : Assign(t[1], t[2], v)
    \/ \E c \in OfKind("table") \cup OfKind("userdata"), v \in OfKind("table") \cup {None} :
         SetDelegate(c, v)
    \/ \E th \in OfKind("thread") : CloseScope(th)
    \/ \E c \in Refers(Root) \cup {h \in Cells : held[h] > 0} : TakeHandle(c)
    \/ \E c \in {h \in Cells : held[h] > 0} : DropHandle(c) \/ ForgetHandle(c)
    \/ CollectGarbage
    \/ sq_close

Next == Work \/ (Idle /\ ProgramStep)

\* A C++ call that has started runs to its end.
Spec == Init /\ [][Next]_vars /\ WF_vars(Work)

-----------------------------------------------------------------------------
(* Properties.                                                             *)

Tasks(op, c) == {i \in DOMAIN work : work[i].op = op /\ work[i].cell = c}

\* Every variable has its type.
TypeOK ==
    /\ heap \in [Cells -> Cell] /\ Lists \subseteq SUBSET Cells
    /\ place \in [Cells -> Nat]
    /\ \A n \in Nodes : n.obj \in Cells /\ n.refs \in Nat
    /\ held \in [Cells -> Nat] /\ leaked \in [Cells -> Nat]
    /\ status \in {"open", "closing", "closed"} /\ ops \in 0..Programs[uses]

\* _uiRef counts the references there are, at every step of a release, a
\* sweep or a close: fields, table nodes, the root VM's own, open outers in
\* their list, and what a running call has taken out but not yet released.
RefsExact ==
    \A c \in Live : heap[c].refs =
        Cardinality({p \in Live \X {1, 2} : heap[p[1]].fields[p[2]] = c})
        + Cardinality({n \in Nodes : n.obj = c})
        + Cardinality(Tasks("drop", c)) + Cardinality(Tasks("advance", c))
        + (IF c = Root /\ status = "open" THEN 1 ELSE 0)
        + (IF heap[c].open # <<>> THEN 1 ELSE 0)

\* Nothing that can still be followed leads to a freed block: no field, no
\* slot of an open outer, no handle or table node, no weak reference, and
\* nothing the running release or sweep is about to touch.  A pointer that
\* __ObjRelease has released and not yet overwritten may lead to one, but its
\* object is still there when it is overwritten, and nothing that is done
\* before reads it: no call that the release makes releases it again.
NoDangling ==
    /\ \A c \in Live : /\ Refers(c) \cup {heap[c].link} \subseteq Live \cup {None}
                       /\ heap[c].open = <<>> \/ heap[c].open[1] \in Live
    /\ \A c \in Cells : held[c] > 0 => c \in Live
    /\ \A n \in Nodes : n.obj \in Live
    /\ \A i \in DOMAIN work : work[i].cell \in Live \cup {None}
    /\ \A i, j \in DOMAIN work :
          i < j /\ work[i].op = "null" /\ work[j].op = "clear" =>
             <<work[i].cell, work[i].field>> # <<work[j].cell, work[j].field>>

\* A block is being released when and only when its count is zero, and once:
\* recursive releases neither free it twice nor forget it.
ReleasedOnce ==
    \A c \in Cells : Cardinality(Tasks("free", c)) =
        IF c \in Live /\ heap[c].refs = 0 /\ ~heap[c].marked THEN 1 ELSE 0

\* While the VM is open the handle table has one node per object with
\* handles, in the bucket where it is looked for, with their number.
HandlesExact ==
    status = "open" =>
        \A c \in Cells :
            LET n == held[c] + leaked[c]
                mine == {x \in Nodes : x.obj = c}
            IN  /\ mine = Found(c)
                /\ mine = IF n = 0 THEN {} ELSE {[obj |-> c, refs |-> n]}

\* The release hook drops the payload of a userdata exactly once before its
\* block is gone, whatever released it: a count, a collection or sq_close.
PayloadOnce == \A c \in Cells : heap[c].box \notin {"twice", "leaked"}

\* An object and its weak reference know each other, or neither does.
WeakLinks ==
    \A c \in Live : heap[c].link # None =>
        /\ heap[heap[c].link].link = c
        /\ (heap[c].kind = "weakref") # (heap[heap[c].link].kind = "weakref")

\* What the collector finalizes is garbage: no object that the program can
\* reach from the stack, from a handle or from a captured variable.
SweepsGarbage ==
    \A i \in DOMAIN work :
        work[i].op = "advance" /\ status = "open" => work[i].cell \notin Reach

\* The doc's promise of collectgarbage: when a collection is over, what is
\* left is what can be reached, and all of it stays under the collector.
CollectsAll ==
    /\ Doing("unmark") => \A c \in Collectable : heap[c].marked
    /\ Idle => chain = Collectable

\* A collection leaves no garbage but an open outer, which its thread's list
\* still holds: every reference cycle is found and deleted.
FindsCycles ==
    Doing("unmark") => \A c \in Collectable : heap[c].marked \/ heap[c].open # <<>>

\* sq_close leaves nothing behind: "assert(_gc_chain==NULL); //just to proove
\* a theory", and neither a weak reference nor a node.
ClosesClean == status = "closed" => Live = {} /\ Listed = {} /\ Nodes = {}

\* Every cascade of releases and every sweep comes to its end, also on cyclic
\* data, so sq_close returns.
Drains == []<>(work = <<>>)
=============================================================================
