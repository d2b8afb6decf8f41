# A TLA+ verification of squirrels

`squirrels` is a Rust binding of the Squirrel 3.2 scripting language.
`squirrels-sys` compiles the C++ virtual machine and holds a small shim for the
print functions; `squirrels` wraps VMs, objects and calls in safe handles. This
directory models the parts in which state is shared, ordered or kept in step
by hand, checks them with TLC and proves the main results with TLAPS.

## The system

| Part | State | Operations | Hard because |
|---|---|---|---|
| VM lifecycle (`squirrels/src/lib.rs`, `compiler_error_handler.rs`, `squirrels-sys/src/lib.rs`) | the `HSQUIRRELVM` of a `Squirrel`; two process-wide registries behind a `Mutex`, keyed by VM address: the compile error, the print callbacks | `new`, `compile_str`, `set_print_fn`, `set_eprint_fn`, `::print`, `::error`, `Drop` | threads run different VMs at once and malloc hands a freed address to another one; a coroutine is a second `SQVM` with its own address |
| Handle methods (`table.rs`, `array.rs`, `class.rs`, `instance.rs`, `closure.rs`, `user_data.rs`, `string.rs`, `errors.rs`) | the stack of the VM | push the operands, one call of the C API, pop | what the API has popped depends on the function and on the error path; `TableSlots` keeps two slots while it lives |
| Hash tables (`sqtable.cpp`, `sqtable.h`) | nodes with key, value and link; `_firstfree`, `_usednodes` | `Get`, `Set`, `NewSlot`, `Remove`, `Clear`, `Clone`, `Next` | a colliding node is moved, removed nodes stay in chains, a rebuild may happen in an insertion or a removal, iteration runs through all of it |
| Compiler (`sqcompiler.cpp`, `sqfuncstate.cpp`) | registers, target stack, scopes, break and trap counters, instructions, constants | one function per construct of the language | peephole rewriting across jump targets, scopes left in the middle, byte-sized registers |
| Interpreter (`sqvm.cpp`, `sqobject.cpp`, `sqclosure.h`, `sqclass.*`) | value stack, frames, traps, open free variables, counters of nested calls; per coroutine | opcodes, calls, delegates and metamethods, generators, coroutines, errors | `Execute` re-enters itself through metamethods and natives; errors and suspensions leave through all of them; the stack moves when it grows |
| Heap (`object.rs`, `sqstate.cpp`, `sqobject.*`) | reference counts, `RefTable` of handles, collector chain, weak references, open outers | addref, release, mark, sweep, release hooks, `sq_close` | releases nest, three owners of an object must agree, a sweep runs over a list that it changes |
| Arrays (`sqarray.h`, `sqbaselib.cpp`, `ArrayItems`) | elements, capacity; local state of a native function across its callbacks | append to reverse; sort, map, apply, filter, reduce; `iter`, `next` | a callback (a function, or the `_cmp` of an element) changes the array, throws or contradicts itself |
| User data (`user_data.rs`) | payload in a `RefCell`, release hook | borrow, borrow_mut, release | the hook must run once |
| Lexer, strings, standard library | - | - | sequential computation; not modelled |

Interactions: handle methods call the API on the stack of one VM; the API calls
the interpreter, which calls tables, classes and the heap, and calls back into
Rust through the closure trampoline, the print shims, the compiler error handler
and release hooks. The registries are the only state VMs share.

What makes each part correct: a VM sees its own errors and callbacks and leaves
nothing behind; a method puts back the stack on every path; an iterator yields its
own table; a table is a map; a compiled chunk does what it says, and an error, a
`yield` or a `suspend` leaves frames, traps, counters and free variables in step;
objects live exactly as long as they can be reached, and hooks run once; a
native function survives what its callback does.

## Modules

| Module | Models | Composes |
|---|---|---|
| `VmRegistry` | VM lifecycle, both registries, coroutine addresses | |
| `VmRegistryProofs` | theorems about it | `VmRegistry` |
| `Binding` | stack effect of every handle method, calls, `TableSlots` | |
| `BindingProofs` | theorems about it | `Binding` |
| `TableSpec` | abstract specification: a table is a finite map | |
| `HashTable` | `SQTable` and one iteration over it | implements `TableSpec` |
| `HashTableProofs` | its inductive invariant, theorems, and the refinement of `TableSpec` | `HashTable`, `Induction` |
| `Objects` | values, arithmetic and comparison, classes, instances, delegates | |
| `CodeGen` | `SQCompiler` and `SQFuncState`: a syntax tree becomes instructions | `Objects` |
| `Vm` | stack, frames, calls, free variables, generators, coroutines, metamethods, natives that call back | `CodeGen` |
| `Interp` | `SQVM::Execute`: an action per instruction or family of them | `Vm` |
| `Semantics` | abstract specification: what a chunk of the core language means | compared with `Interp` |
| `Heap` | counts, weak references, `RefTable` and `Object` handles, collector, `sq_close` | |
| `HeapProofs` | its inductive invariant; the steps of a running release, sweep or close | `Heap`, `Induction` |
| `HeapResults` | the steps of the program and the theorems on counts, handles and weak references | `HeapProofs` |
| `HeapSweepProofs` | a second inductive invariant: what a collection and `sq_close` leave | `HeapResults` |
| `Arrays` | `SQArray`, its functions with callbacks, `ArrayItems` | |
| `ArraysProofs` | its inductive invariant; theorems on ranges, on permutations and on what the functions compute | `Arrays`, `Induction` |
| `Induction` | least elements and recursive functions, in a form the provers can use | |
| `MCVmRegistry`, `MCBinding`, `MCHashTable`, `MCInterp`, `MCHeap`, `MCArrays` | instances for TLC | |

**VmRegistry.** `pc[t]` is where a thread is in the life of its `Squirrel`. A
`Squirrel` is owned by one thread at a time, so the steps of a thread on its own VM
are not split further; each critical section of a registry's `Mutex` is one action.
`Drop` is three actions, `ClearPrintFns`, `SqClose`, `UnregisterVm`, in the order
of the code. `block` is what malloc knows: which addresses belong to which VM.
`Arena[t]` says which addresses malloc may give to thread `t`. A value of a registry
records the VM that wrote it, so that a mix-up is visible.

**Binding.** A method is a record: the slots it pushes, the outcomes of its API
call (taken from `sqapi.cpp`, one per return path, with what it pops and pushes),
and what the Rust code pops after an error and after a success; methods that use
`resize_stack` after an error say so. `Invoke` is a complete method call.
`PopTo` has the assertion of `Squirrel::pop`. `CallSuspends` is a script that
suspends the root VM: the frame of the callee stays and `call_closure` pops two
of its slots. A metamethod that the API call runs may do the same (`Susp`, `InvokeSuspends`): the API function and the
method then pop their operands in the frame of the metamethod. `TableSlots` appears as `TableIter`, `IterNext`, `DropIter`, which use the
top of the stack as the code does. The table under an iterator is its number of
slots here; `HashTable` has the real one.

**HashTable.** `Place`, `CorrectFree`, `Put`, `Insert` are the parts of `NewSlot`;
`NewSize` and `Rebuild` are `Rehash`. `Insert` keeps the order of the code: when the
last free node goes, the key is already in its node but not counted, the table is
rebuilt with it, and a second `NewSlot` finds it there. `NewSlot` inside `Rebuild`
cannot call `Rehash` again; that is the invariant `RebuildFits`, and `full` would
show it. `Pow2` is the loop of the constructor. Hashes are constants, chosen to collide. `TableSpec` says exactly what each
operation returns. The code returns something else on two paths, which `path` records: `NewSlot` after a rebuild
(`table_newslot`) and `Set` of a null key that meets a free node. The refinement maps the result to `Promised`, which is the
code's own result on every other path.

**CodeGen, Vm, Interp.** A chunk is a syntax tree (the lexer and the grammar are left out;
the tree is what the parser sees). `Compile` is a fold over it that emits code with
the functions of `SQFuncState`: `PushTarget`, `PopTarget`, `AddInst` with its rewriting of the last
instruction, `SnoozeOpt`, `BeginScope` and the other macros by name. The machine is one record; its fields
are the members of `SQVM`, those of the other coroutines are parked. C++ recursion (an
instruction that calls a metamethod that runs `Execute` that calls a native that calls `sq_call`) is
a stack of activations, each with a list of continuations: what the C++ code does with the
result, `Deliver`, or with the failure, `FailK`. A step of that recursion notes what follows in `todo`, and
`Run` carries it out. One action runs one instruction up to the next, as `Execute` does; the compiled
chunk is part of the state. Undefined behaviour (a write past the stack, a stale reference, an undefined
quotient) sets `undefined`, which `StackInBounds` forbids. Integers have the width `IntBits`, operands
the width `ArgBits`; floats and string contents are left out. 1784 runs of chunks, the ones of `MCInterp`
and others, were compared with the real interpreter and printed the same.

**Semantics** gives the core of the language (no tables, classes, generators,
coroutines) its meaning without registers: variables are cells, scopes are mappings, statements end
normally or by break, continue, return or throw. `RunsAsWritten` compares.

**Heap.** A cell is a block of memory. What one C++ call has still to do is `work`, a stack of
tasks: `SQObjectPtr` destructors nest, so an order of releases in which a freed block is used
again is a state of the model. `__ObjRelease`, `SetDelegate` and the destructor of an `SQObjectPtr` release a pointer while it is
still in its field. `fields` has what is counted; a pointer that is released and not yet overwritten is in a pending "clear" task,
and `Pointer` is what a read of the field finds. The doubly linked lists of `SQCollectable` are sets of cells with a `place` for each:
`chain` is the list that `_gc_chain` heads, `lost` has the lists that it heads no more. `RemoveFromChain` keeps the
branch `*chain = c->_next` of an object without `_prev`, whichever list that object is in. `MarkTurns` is the order in which `Mark` moves what it
reaches to the other list, on which the last such reset depends. `MarkSucc` has what each `Mark` visits, `Sweep`, `Advance` and `Unmark`
are `CollectGarbage`, `FinalizeTable` and `Closed` belong to `~SQSharedState`. A handle is `TakeHandle`,
`PushHandle`, `DropHandle` (or `ForgetHandle`). A behaviour uses one of several sets of features, each with
its bound on program steps, so that the interesting mixes are explored to a useful depth.

**Arrays.** `job` holds the local variables of the native function that runs; between its
steps, in its callback, the program may take any of its own actions. A sort without a compare
function compares with `ObjCmp`: null and numbers have an order, two values of `Objs` stand for objects
with a `_cmp` and call back, and an object cannot be compared with a number. Only after a compare function
the code looks whether the array is still the same, so a sort whose `_cmp` has shrunk it may use an
index outside: it is then at `"lost"`, and nothing is said of what follows.

Definitions named `X_Something` with a comment "Fault" are variants of `X` with a
plausible mistake. No specification uses them; they show that a property
notices the mistake.

## Runs

| Run | Shows |
|---|---|
| `registry_shared` | two threads with one private address each and one that both may get, three VMs: blocks in use and open VMs agree, prints reach the printing VM's own callbacks, registry entries belong to live VMs, no slot leaks, a VM at a private address always has its own compile error |
| `registry_reuse` (violation) | with shared addresses `unregister_vm` after `sq_close` removes the slot of the VM that got the address, and `compile_str` there panics |
| `binding_nested` | three iterators, used innermost first, all methods but two: the stack is exactly the iterators' slots, iterators are complete |
| `binding_balanced` | all methods, any order of iterators, suspension in calls and in metamethods: only iterators, errors of two methods, the suspension itself and calls into a suspended VM move the stack |
| `binding_iterators` (violation) | two iterators used in turn yield each other's slots |
| `table_run` | four colliding keys, two values, 4 and 8 nodes: `HashTable` implements `TableSpec`; `NodesSound`: chains end, keys are found, `_firstfree` is free, colliding nodes lie above it; `SizesSound`: counts are right, rebuilds fit; with three keys, an iteration under `Set` and `Remove` is exact as long as nothing is inserted or rebuilt |
| `table_newslot` (violation) | an insertion that takes the last free node reports a new slot as one that was already there |
| `interp_run` | chunks for every pair of nested constructs around every way of leaving them, closures, expressions, calls, classes, delegates and metamethods, generators and coroutines, with and without line information, two inputs: `RunsAsWritten`, and at every instruction `TrapsBalanced`, `OpenOuters`, `StackInBounds`, `GeneratorFrames`, `CallsCounted`, `InstanceLayout`, `TargetsBalanced` |
| `interp_scope` (violation) | `break` or `continue` in an inner block of a loop leaves the captured locals of the body open, and a closure reads another variable |
| `heap_run` | six mixes of tables, user data, classes, instances, closures, coroutines, weak references, handles and collections: `RefsExact`, `HandlesExact`, `NoDangling`, `ReleasedOnce`, `PayloadOnce`, `WeakLinks`, `SweepsGarbage`, `CollectsAll`, `ClosesClean`, and that every cascade ends (`Drains`) |
| `heap_outer` (violation) | an open outer whose closure is dead is swept and lives on outside of the chain; when a new closure captures the variable again, marking the outer resets the head of the chain, and a garbage cycle is not found (`FindsCycles`) |
| `arrays_run` | six arrays, two of them with objects, three changes or calls: `SortInRange`, `SortKeepsItems`, `Computes`; every native function ends or gets lost (`JobsEnd`), a loop over `ArrayItems` ends or meets an element that cannot be had |

Bounds. `MaxVms` = 3 is one VM more than threads: enough for an address to be
freed, taken by the other thread and used there. `MaxDepth` 8 leaves
room for four operands over two iterators, 5 (`binding_balanced`) for three over one; a method sees the stack only relative
to its top, so a deeper stack repeats the same steps. 4 and 8 nodes are the two
smallest sizes, with growth, shrinking and forced rebuilds between them. Growth in a removal
needs seven keys in 8 nodes and is not reached. `MaxNodes` cuts larger tables off.
`StackSize` 28 with the code's overhead of 15 makes the deeper chunks move the stack,
and `MaxNativeCalls` 12 lets a recursion reach the limit. Six cells hold a root VM, a cycle
of two, a weak reference, a closure with its outer; `RefSlots` 1 makes the second handle
double the handle table (the code starts with 4). Arrays of up to four elements have
a heap of three levels, in which both comparisons of a sift-down occur; `MinCap` 0 lets them shrink.
Deadlock is not checked where the program may stop (all VMs dropped, `MaxVms`
used up, the VM closed) or where a violation ends it.

What the passing runs leave out, because the code does not have the property there: in
`interp_run`, leaving a loop from an inner block, or a `try` block by an exception, after a capture there; generators that yield inside `try` under
`foreach`; functions with more than half of the registers; stack moves while `_inherited` or a callback of `filter` or `reduce` runs; `acall`
with more elements (the chunks pass two) than the stack's overhead of 15 has room for, as its pushes are not reserved; quotients of the smallest integer and -1; in `heap_run`,
captured variables together with collections. In `arrays_run` nothing is left out, but `SortInRange` names the
sort that a `_cmp` leads out of the array. The section on disagreements says what happens in these cases.

Fairness. The registries, `Binding`, `HashTable` and `Interp` are safety specifications:
nothing in them waits for another party. `Heap` has `WF(Work)`: a C++ call that
has begun goes on until it returns. `Arrays` has `WF(Native)`: callbacks return and the native
function goes on (that it could go on for ever is what `JobsEnd` excludes), and `WF(IterNext)`: a `for`
loop calls `next` until it gets `None`. No fairness is assumed of the program.

## Proofs

Everything is proved for arbitrary constants, from the `ASSUME`s of the modules.

*VmRegistry.* The assumptions are that the marker values differ from numbers and
from each other. `IInv` is `TypeOK`, `PrintEntryLive`, `ErrSlotOwned`, `DispatchIsOwn` and
`Lifecycle`: an open VM owns the block at its address, VM numbers do not exceed `opened`,
two open VMs are different, and a block in use belongs to an open VM. `Lifecycle` is what makes the rest inductive: that a
new address carries no print entry follows because an entry has a live owner, the owner
has the block, and `sq_open` takes a free one. `CompileErrorsCaptured` is about
addresses that only one thread is given; `CInv` adds that a VM there has its slot and, after a
failed compilation, its own error. `registry_reuse` shows that a shared address
has no such guarantee.

*Binding.* `MethodBalance` compares, for each method and each path of its API call, what is
pushed and popped; `MethodsAreBalanced` follows for every program. `StackDiscipline`
and `IteratorsComplete` hold for `Disciplined` programs: iterators used innermost
first, no suspension of the root VM, neither `Array::insert` nor
`Instance::raw_set`. The inductive invariant `DInv` adds to the two properties that live
iterators are distinct, so that a step of the innermost one cannot move the
recorded position of another. Each part of `Disciplined` is needed: `binding_iterators` drops the
first, and `MethodsBalanced` has the other two as its exceptions: two methods with an error path, and suspension, by a call or by
a metamethod.

*Induction.* The library's induction theorems take an operator, which the provers cannot
instantiate. `LeastNat` (a non-empty set of naturals has a least element) and
`FiniteRecursion` (a function defined by recursion over `0..n` satisfies its equations)
say the same about sets and functions, and a proof can cite them. That is how the
results on loops and recursive functions below are reached.

*Arrays.* `ArraysAssumption` says that the values are integers or `Nil`, that the initial arrays fit `MaxLen`, and
that `MinCap`, `MaxLen` and `MaxSteps` are naturals. `IInv` has the types of the array, its capacity and the
locals of a native function, and for a sort where `_hsort` is: the heap is `0..bottom`, `root` lies in it, and
the child that is compared does too. This is what `SortStaysInRange` needs: a sort
with a compare function goes on only when the array has the length it had before the comparison, so an index in the heap is an
index in the array; for one without that holds only while no `_cmp` has changed the array, and `Unaware` names the rest.
`SortPermutes` adds `KeepInv`: every value is in the array as often as at the start, because each step at most swaps two
elements. `FunctionsCompute` adds, for the loops, that what was computed so far is the reference on
the elements so far (`FiniteRecursion` for `Filtered` and `Reduced`); for a sort it has the heap property
at every node already sifted, with one possible exception at `root` whose children are not larger than its parent, and that
the elements behind the heap are in order and not less than those in it. That is for arrays without objects (`Plain`), whose
comparisons call nothing; a `_cmp` may order as it likes.

*Heap.* `CellsAssumption`: finitely many cells, the root among them; `BoundsAssumption`:
the bounds are naturals, `RefSlots` is not 0; `NoneAssumption`: null is no cell. The theorems of `HeapResults` hold for every
set of `Programs`, those that mix captured variables and collections included. `TypeOK`,
`RefsExact`, `NoDangling`, `ReleasedOnce`, `HandlesExact`, `PayloadOnce` and `WeakLinks` all follow from one
inductive invariant, because a step that gets one of them wrong breaks the others later. It speaks of the
pending tasks as numbered from the oldest (`Pile`), so that a task keeps its number while calls nest above
it. Its parts, and why each is needed:

- `Shape`, `ChainOK`: a free cell is empty, an open outer holds nothing itself and points to a thread, weak links are
  mutual, what is in a list is an object and not marked.
- `Exact`: `refs` is the number of fields, nodes, pending releases, the sweep's hold and the two
  implicit references (the VM's own, an open outer's), for free cells too. `RefsExact` says it of cells in use; freeing
  a cell needs to know that a free one has none.
- `Released`: there is exactly one pending `free` for a cell with no references that is not marked.
- `TasksOK`: a task on a cell lies above one that still keeps that cell, so no task meets a freed
  block; the task of a sweep is the lowest. A "clear" lies above a task that keeps its object, and no "null" of the same field is
  above it: this is why `NoDangling` holds although the field may lead to a freed block while `__ObjRelease` runs.
- `FreesOK`: for a pending `free`, each thing that must have happened before (fields cleared, taken off the
  chain, hook run, outers closed) has happened or is pending above it. So nothing is left in
  a block when it goes, whatever order the releases nest in.
- `MarksOK`: marks exist only within a collection, and a marked object is held by the root, a node
  or another marked object. So the sweep, which clears fields of unmarked objects only, cannot
  take the last reference from a marked one: `CollectGarbage` adds a reference to the object it
  sweeps and to no other.
- `ScopeOK`: while a scope is closed the thread stays, and the values that go through its
  outers are in its stack, so no release starts a cascade in the middle of `CloseOuters`.
- `TableOK`, `HandlesInv`: a node is in the bucket of its object, one per object, its count the number of Rust
  handles; this survives the growth of `RefTable` and the removal of a node at 0.

*What a sweep leaves* (`HeapSweepProofs`). `SQOuter::Mark` does not follow an open outer to the stack slot it points to, and
`SQVM::Mark` does not visit the list of open outers. So three properties of `Heap` depend on what a program uses, and
their theorems say so. `CollectionsAreComplete` (`CollectsAll`) and `ClosesCleanly` (`ClosesClean`) are about programs that are `Apart`: captured variables
or `collectgarbage`, not both. `OnlyGarbageSwept` (`SweepsGarbage`) is about those
that are `Untangled`: not captured variables, coroutines and `collectgarbage` together. Neither hypothesis can be dropped. For the
first, `heap_outer` is the counterexample: an outer outside of the chain takes the head of the chain away from the objects in it, in a
collection, and just as well in `sq_close`. For the second, TLC finds it with `Programs` = `{"thread", "closure",
"collect"} :> 5`: a closure captures a variable of a coroutine that is otherwise garbage, and the variable holds the
coroutine. The collector reaches the outer but not the stack behind it, so it finalizes a coroutine that the
program reaches through the closure.

The invariant `CInv` stands on `IInv`. Its parts, and why each is needed:

- `KindsOK`, `UsesOK`: only closures hold outers, in one field; outers have no handle and no weak reference; the kinds of object follow from
  what the program uses. This is how the hypothesis on the program reaches the heap.
- `Covered`, `UnchainsOK`: an object is in a list, marked, or being freed, and what leaves the lists is being freed. Only an
  outer may be elsewhere, once a collection has run.
- `LInv`: in programs that are `Apart` there is one list, the one of `_gc_chain`. A reset of the head by an object of that list moves it to the
  next one, so it loses nothing; only an object of another list could do harm, and one comes to be only when a collection ends with
  something unmarked (`EndMarked`). Together with `Covered` this is what makes a sweep of the chain a sweep of the heap.
- `MarkedOK`: during a collection a marked object leads to marked objects and weak references only, and no marked thread has its
  outers closed. Marking makes it true (`MarkClosed`: as many rounds as there are cells are enough), and a sweep keeps it, because it clears fields
  of unmarked objects only. `OnlyGarbageSwept` is then a closure argument: what lasts contains the roots and is closed under
  references and open outers, and the object at hand (`PinOK`) does not last.
- `SweptOK`: an object that the sweep has passed has empty fields and no open outers, or a pending task will see to it. `Finalize` of a closure leaves its
  `_base` alone, and that is a class. So when the last turn is over an unmarked object other than an outer can only be a class held by an unmarked
  closure; there is no such closure, as it would be held that way itself; and since counts are exact, no unmarked object is left (`EndClean`).
- `TableGone`, `AllGone`: `~SQSharedState` empties the handle table before it sweeps, so forgotten handles keep nothing alive; after it
  no cell is in use.

*HashTable.* `HashAssumption`: hashes are naturals; `NullAssumption`: the null key is not one of `Keys`, `Nil` no value and
no node; `SizesAssumption` and `CapacityAssumption`: capacities and `MaxNodes` are naturals, and the tables the program
starts with fit `MaxNodes`; `ProgramsAssumption`: a program uses keys and values of `Keys` and `Vals`. The set of keys may be infinite, the hash function is arbitrary. `Inv` says of the table
that it is `OK`, and of the iteration that it is `IterOK`. The parts of `OK`, and why each is needed:

- `Acyclic`: some rank falls along every link. A move of a colliding node reorders a chain, and what survives is that
  a rank exists; that chains end within `n` steps (`WalkEnds`) follows by a pigeonhole argument.
- `Reached`: the node of a key lies in every set of nodes that contains its main position and is closed under links.
  Reachability by closed sets needs no induction along the chain: a set closed in the new table is, up to the moved node, closed in the old one.
- `OnePrevious`, `LinksAbove`: no two nodes link to the same one, and nothing links to `_firstfree`. So the one
  link `NewSlot` redirects is the only one to the node it moves, and the node it takes is in no chain, although
  `Remove` leaves links to empty nodes behind.
- `StraysAbove`, `StraysAlone`: a colliding key lies above `_firstfree` and is not the main position of any key in the table. The first makes the
  test `mp > n` right; because of the second nobody but its own chain loses a node when it moves.
- `Counted`, `Unique`, `IsPower`: the count is the number of keys, and the number of nodes 4, 8, 16 and so on. With these `NewSizeFits` shows
  that every size `Rehash` chooses exceeds the number of keys, the one not yet counted included.

`RebuildGood` shows that a rebuild with more nodes than keys succeeds. Its induction over the nodes of the old table needs
`Fresh`: in a table from which nothing was removed a node without a key is unlinked and not above `_firstfree`, so the search for a free
node fails only when every node has a key. That would put `n` distinct keys among fewer than `n`. Without `Fresh` it may fail earlier, which
is why `NewSlot` may overflow a table with empty nodes (`Overflows`) and rebuilds with the same size. The refinement `TableImplementsMap`
compares the slots before and after each operation (`With`, `Without`, `SameSlots`).

### Only model-checked

- The compiler and the interpreter, and `RunsAsWritten`: their recursive operators
  are out of the prover's reach.
- Liveness: `Drains`, `JobsEnd`, `IterEndsOrFails`.

## Disagreements between code and documentation

Five runs end in a violation; `PROJECT.json` quotes the lines. Each of the following
was seen while modelling, the ones marked * also on the real interpreter:

- `::print` in a coroutine finds no callback; it looks for one under the coroutine's address.
- `Array::insert` out of range pops a slot too many and panics on an empty frame; `Instance::raw_set` of a
  missing key leaves two slots.
- `SQTable::Set` of a null key writes into a free node and reports success; `NewSlot` returns false for a
  new slot when it had to rebuild the table.
- `Table::raw_set` and `Class::raw_set` are documented for an "already existing" key and create one;
  `Table::set` does not report an error of `_newslot` (`sq_newslot` drops it).
- A `_cmp` that shrinks the array under a sort without a compare function makes the sort index outside of it: the
  check for a resized array is on the other path only (`sqbaselib.cpp:806`).
- `ArrayItems::next` repeats an error for ever: the iterator yields more items than its `size_hint`.
- `Table::set_delegate` does not check that the delegate is of the same VM; a print callback is dropped under
  the registry's lock.
- * A call result for a register above 127 is lost: its number is read as a signed byte.
- * An exception caught in its own function closes no captured locals: after `try { local x = 1; f = function() { return x }; throw 3 } catch(e) {}`
  the function reads whatever local gets the register of `x` next.
- `local function f[env]()` leaves the target of `env` on the compiler's stack (`TargetsBalanced` counts them); nothing else pops it.
- * `foreach` over a generator that yields inside `try` unbalances the traps (`assert(traps==0)`).
- * `_inherited` is called while the instruction's target register is held by reference; the stack may move.
- * `filter`, `reduce`, and `filter` and `map` of tables push their environment through a reference to a stack slot that
  the callback may have moved.
- * The collector empties a table captured from a suspended coroutine that is garbage itself; the coroutine itself, when it is what is captured,
  leaves `_gc_chain` and may outlive `sq_close`.
- * A collection with a variable that is captured again after its first closure died and was collected finds no garbage: `collectgarbage()` returns 0
  with a new self-referring table around, and 1 without the capture (`heap_outer`).
- `closure.call` tests its last argument, not the closure, for a generator; `_OP_MOD` ignores a failing metamethod;
  a division by -1 is guarded by `INT_MIN`, not by the smallest `SQInteger`.

## Plan

Every safety invariant of `VmRegistry`, `Binding`, `HashTable`, `Arrays` and `Heap` that a run checks is proved, in the cases in
which it holds. Left to the model checker are the invariants of `Interp` and the comparison with `Semantics`,
which are recursive operators, and liveness.

Not modelled: the lexer and the text of messages; floats, string contents and the string table;
`ResurrectUnreachable`; the loop behind `assert(_gc_chain==NULL)` in `~SQSharedState`, which `ClosesClean` shows to find nothing; saving and loading bytecode; the debug hook; plain functions of the base library;
conversions of values (stateless); `RefCell` borrows (a call of `try_borrow`); `sqstdlib` and `sq.c` (not compiled
by `build.rs`); build scripts. These are sequential computations on their arguments.
