---------------------------- MODULE VmRegistry ----------------------------
(***************************************************************************)
(* The life of `Squirrel` values on several threads, and the two process-  *)
(* wide registries keyed by the address of a VM:                           *)
(*   errs    compiler_error_handler::registry(), the compile error of a VM *)
(*   prints  squirrels_sys::registry(), the print functions of a VM        *)
(*                                                                         *)
(* A Squirrel value belongs to one thread at a time (Send, not Sync), so   *)
(* what a thread does to its own VM needs no interleaving; every access to *)
(* a registry is one critical section of its Mutex and is one action here. *)
(* Addresses come from malloc: a block freed by one thread may be handed   *)
(* to the next sq_open or sq_newthread of any thread.                      *)
(***************************************************************************)
EXTENDS Naturals

CONSTANTS
    Threads,    \* threads that open, use and drop VMs
    Addrs,      \* addresses the allocator can return for a VM
    Arena,      \* Arena[t]: the addresses malloc may return to thread t
    MaxVms,     \* bound: VMs opened in one behaviour
    Free,       \* a block that is not allocated
    Absent,     \* no entry in a registry
    None,       \* an empty Option, and "nothing happened yet"
    Panic,      \* compile_str panicked
    Lost        \* a print found no callback although one is set on the VM

ASSUME ArenaAssumption == Arena \in [Threads -> SUBSET Addrs]
ASSUME MaxVmsAssumption == MaxVms \in Nat
ASSUME MarkersAssumption ==
    /\ {Free, Absent, None, Panic, Lost} \cap Nat = {}
    /\ Absent # None /\ None \notin {Panic, Lost}
    /\ None \notin Addrs
    /\ Absent \notin [{"print", "error"} -> Nat \cup {None}]

VARIABLES
    pc,         \* where each thread is in the life of its VM
    addr,       \* the HSQUIRRELVM of the thread's Squirrel value
    vmId,       \* which VM that is (VMs are numbered in opening order)
    opened,     \* number of VMs opened so far
    block,      \* block[a]: the VM the memory at a belongs to, or Free
    errs,       \* compile-error registry: Absent, None, or the VM of the error
    prints,     \* print registry: Absent, or one optional callback per channel
    got,        \* the outcome of the thread's last compile_str
    out         \* the outcome of the thread's last ::print / ::error

vars == <<pc, addr, vmId, opened, block, errs, prints, got, out>>

VmIds == Nat
Channels == {"print", "error"}
PrintFns == [Channels -> VmIds \cup {None}]

\* Points at which the VM is usable by scripts and by the thread.
Usable == {"ready", "compiling", "failed"}
\* The memory of the VM is allocated: sq_open has returned, sq_close has not.
Open == Usable \cup {"opened", "cleared"}
Phases == Open \cup {"idle", "closed"}

Init ==
    /\ pc = [t \in Threads |-> "idle"]
    /\ addr = [t \in Threads |-> None]
    /\ vmId = [t \in Threads |-> 0]
    /\ opened = 0
    /\ block = [a \in Addrs |-> Free]
    /\ errs = [a \in Addrs |-> Absent]
    /\ prints = [a \in Addrs |-> Absent]
    /\ got = [t \in Threads |-> None]
    /\ out = [t \in Threads |-> None]

-----------------------------------------------------------------------------
(* Squirrel::new                                                           *)

\* sq_open: a free block becomes the root VM.
SqOpen(t, a) ==
    /\ pc[t] = "idle" /\ opened < MaxVms
    /\ a \in Arena[t] /\ block[a] = Free
    /\ opened' = opened + 1
    /\ vmId' = [vmId EXCEPT ![t] = opened + 1]
    /\ addr' = [addr EXCEPT ![t] = a]
    /\ block' = [block EXCEPT ![a] = opened + 1]
    /\ pc' = [pc EXCEPT ![t] = "opened"]
    /\ got' = [got EXCEPT ![t] = None]
    /\ out' = [out EXCEPT ![t] = None]
    /\ UNCHANGED <<errs, prints>>

\* register_vm inserts a default slot over whatever is there; setting the
\* handler and install_print_shims only write the thread's own VM.
RegisterVm(t) ==
    /\ pc[t] = "opened"
    /\ errs' = [errs EXCEPT ![addr[t]] = None]
    /\ pc' = [pc EXCEPT ![t] = "ready"]
    /\ UNCHANGED <<addr, vmId, opened, block, prints, got, out>>

\* coroutine.create / sq_newthread: a second SQVM of the same shared state.
SqNewThread(t, a) ==
    /\ pc[t] = "ready"
    /\ a \in Arena[t] /\ block[a] = Free
    /\ block' = [block EXCEPT ![a] = vmId[t]]
    /\ UNCHANGED <<pc, addr, vmId, opened, errs, prints, got, out>>

\* The last reference to a coroutine goes: its block is freed.
ReleaseThread(t, a) ==
    /\ pc[t] = "ready"
    /\ block[a] = vmId[t] /\ a # addr[t]
    /\ block' = [block EXCEPT ![a] = Free]
    /\ UNCHANGED <<pc, addr, vmId, opened, errs, prints, got, out>>

-----------------------------------------------------------------------------
(* set_print_fn, set_eprint_fn and the print shims                          *)

\* entry(v).or_default(), then one of the two callbacks is replaced.
SetPrintFn(t, ch) ==
    /\ pc[t] = "ready"
    /\ LET entry == IF prints[addr[t]] = Absent
                      THEN [c \in Channels |-> None] ELSE prints[addr[t]]
       IN  prints' = [prints EXCEPT ![addr[t]] = [entry EXCEPT ![ch] = vmId[t]]]
    /\ UNCHANGED <<pc, addr, vmId, opened, block, errs, got, out>>

\* The callback that dispatch finds under the address v of the running SQVM.
Lookup(v, ch) == IF prints[v] = Absent THEN None ELSE prints[v][ch]

\* ::print or ::error in a script running on v, the root VM or a coroutine.
Dispatch(t, v, ch) ==
    /\ pc[t] = "ready" /\ block[v] = vmId[t]
    /\ out' = [out EXCEPT ![t] =
                 IF Lookup(v, ch) # None THEN Lookup(v, ch)
                 ELSE IF Lookup(addr[t], ch) # None THEN Lost ELSE None]
    /\ UNCHANGED <<pc, addr, vmId, opened, block, errs, prints, got>>

-----------------------------------------------------------------------------
(* compile_str                                                             *)

\* Fault: clear_error removes the slot of the VM instead of emptying it.
ClearError_RemovesSlot(t) ==
    /\ pc[t] = "ready"
    /\ errs' = [errs EXCEPT ![addr[t]] = Absent]
    /\ pc' = [pc EXCEPT ![t] = "compiling"]
    /\ UNCHANGED <<addr, vmId, opened, block, prints, got, out>>

\* clear_error
ClearError(t) ==
    /\ pc[t] = "ready"
    /\ errs' = [errs EXCEPT ![addr[t]] = IF @ = Absent THEN Absent ELSE None]
    /\ pc' = [pc EXCEPT ![t] = "compiling"]
    /\ UNCHANGED <<addr, vmId, opened, block, prints, got, out>>

\* sq_compilebuffer succeeds.
CompileOk(t) ==
    /\ pc[t] = "compiling"
    /\ pc' = [pc EXCEPT ![t] = "ready"]
    /\ UNCHANGED <<addr, vmId, opened, block, errs, prints, got, out>>

\* sq_compilebuffer fails: compiler_error_handler stores the error if the
\* VM has a slot.
CompileFail(t) ==
    /\ pc[t] = "compiling"
    /\ errs' = [errs EXCEPT ![addr[t]] = IF @ = Absent THEN Absent ELSE vmId[t]]
    /\ pc' = [pc EXCEPT ![t] = "failed"]
    /\ UNCHANGED <<addr, vmId, opened, block, prints, got, out>>

\* take_error, and the `expect` that panics when it returns None. The panic
\* unwinds through the owner of the Squirrel, which may still use or drop it.
TakeError(t) ==
    /\ pc[t] = "failed"
    /\ got' = [got EXCEPT ![t] =
                 IF errs[addr[t]] \in {Absent, None} THEN Panic ELSE errs[addr[t]]]
    /\ errs' = [errs EXCEPT ![addr[t]] = IF @ = Absent THEN Absent ELSE None]
    /\ pc' = [pc EXCEPT ![t] = "ready"]
    /\ UNCHANGED <<addr, vmId, opened, block, prints, out>>

-----------------------------------------------------------------------------
(* Drop for Squirrel: three steps in this order                             *)

\* Faults: Drop leaves the callbacks in the registry; keeps an entry without
\* callbacks.
ClearPrintFns_Forgotten(t) ==
    /\ pc[t] = "ready"
    /\ pc' = [pc EXCEPT ![t] = "cleared"]
    /\ UNCHANGED <<addr, vmId, opened, block, errs, prints, got, out>>

ClearPrintFns_KeepsEntry(t) ==
    /\ pc[t] = "ready"
    /\ prints' = [prints EXCEPT ![addr[t]] = [ch \in Channels |-> None]]
    /\ pc' = [pc EXCEPT ![t] = "cleared"]
    /\ UNCHANGED <<addr, vmId, opened, block, errs, got, out>>

\* clear_print_fns
ClearPrintFns(t) ==
    /\ pc[t] = "ready"
    /\ prints' = [prints EXCEPT ![addr[t]] = Absent]
    /\ pc' = [pc EXCEPT ![t] = "cleared"]
    /\ UNCHANGED <<addr, vmId, opened, block, errs, got, out>>

\* Fault: sq_close frees the root VM and leaves its coroutines allocated.
SqClose_RootOnly(t) ==
    /\ pc[t] = "cleared"
    /\ block' = [block EXCEPT ![addr[t]] = Free]
    /\ pc' = [pc EXCEPT ![t] = "closed"]
    /\ UNCHANGED <<addr, vmId, opened, errs, prints, got, out>>

\* sq_release of the root table, then sq_close: every block of the VM is freed.
SqClose(t) ==
    /\ pc[t] = "cleared"
    /\ block' = [a \in Addrs |-> IF block[a] = vmId[t] THEN Free ELSE block[a]]
    /\ pc' = [pc EXCEPT ![t] = "closed"]
    /\ UNCHANGED <<addr, vmId, opened, errs, prints, got, out>>

\* Fault: unregister_vm is not called.
UnregisterVm_Forgotten(t) ==
    /\ pc[t] = "closed"
    /\ pc' = [pc EXCEPT ![t] = "idle"]
    /\ addr' = [addr EXCEPT ![t] = None]
    /\ UNCHANGED <<vmId, opened, block, errs, prints, got, out>>

\* unregister_vm: removes whatever slot the address has by now.
UnregisterVm(t) ==
    /\ pc[t] = "closed"
    /\ errs' = [errs EXCEPT ![addr[t]] = Absent]
    /\ pc' = [pc EXCEPT ![t] = "idle"]
    /\ addr' = [addr EXCEPT ![t] = None]
    /\ UNCHANGED <<vmId, opened, block, prints, got, out>>

-----------------------------------------------------------------------------
Step(t) ==
    \/ \E a \in Addrs : SqOpen(t, a)
    \/ RegisterVm(t)
    \/ \E a \in Addrs : SqNewThread(t, a)
    \/ \E a \in Addrs : ReleaseThread(t, a)
    \/ \E ch \in Channels : SetPrintFn(t, ch)
    \/ \E v \in Addrs, ch \in Channels : Dispatch(t, v, ch)
    \/ ClearError(t)
    \/ CompileOk(t)
    \/ CompileFail(t)
    \/ TakeError(t)
    \/ ClearPrintFns(t)
    \/ SqClose(t)
    \/ UnregisterVm(t)

Next == \E t \in Threads : Step(t)

Spec == Init /\ [][Next]_vars
-----------------------------------------------------------------------------
(* Properties                                                              *)

\* Every thread is at a point of the life cycle, and a registry entry is
\* absent, an Option of an error, or a pair of Options of callbacks.
TypeOK ==
    /\ pc \in [Threads -> Phases]
    /\ addr \in [Threads -> Addrs \cup {None}]
    /\ vmId \in [Threads -> VmIds]
    /\ opened \in Nat
    /\ block \in [Addrs -> VmIds \cup {Free}]
    /\ errs \in [Addrs -> VmIds \cup {Absent, None}]
    /\ prints \in [Addrs -> PrintFns \cup {Absent}]
    /\ got \in [Threads -> VmIds \cup {None, Panic}]
    /\ out \in [Threads -> VmIds \cup {None, Lost}]

\* Memory and VMs agree while VMs and coroutines of all threads come and go: an
\* open VM owns the block at its address, two open VMs are different, and a
\* block in use belongs to a VM between sq_open and sq_close, which frees the
\* coroutines too (Squirrel::new, sq_newthread, Drop for Squirrel).
Lifecycle ==
    /\ \A t \in Threads : pc[t] # "idle" => addr[t] \in Addrs
    /\ \A t \in Threads : vmId[t] <= opened
    /\ \A t \in Threads : pc[t] \in Open => block[addr[t]] = vmId[t]
    /\ \A t, u \in Threads :
         t # u /\ pc[t] \in Open /\ pc[u] \in Open => vmId[t] # vmId[u]
    /\ \A a \in Addrs : block[a] # Free =>
         \E t \in Threads : pc[t] \in Open /\ block[a] = vmId[t]

\* What a script prints never reaches a callback of another VM, nor one of a
\* closed VM that lived at the same address: clear_print_fns runs before
\* sq_close gives the address back (Drop for Squirrel, dispatch).
DispatchIsOwn == \A t \in Threads : out[t] \in VmIds => out[t] = vmId[t]

\* The print registry holds entries of live VMs only: an entry belongs to the
\* root VM at its address, and its callbacks were set on that very VM.
PrintEntryLive ==
    \A a \in Addrs : prints[a] # Absent =>
        \E t \in Threads :
            /\ addr[t] = a /\ pc[t] \in Usable /\ block[a] = vmId[t]
            /\ \A ch \in Channels : prints[a][ch] \in {None, vmId[t]}

\* The compile-error registry does not leak: a slot is accounted for by a
\* thread between register_vm and unregister_vm of a VM at that address.
ErrSlotOwned ==
    \A a \in Addrs : errs[a] # Absent =>
        \E t \in Threads :
            addr[t] = a /\ pc[t] \in Usable \cup {"cleared", "closed"}

\* compile_str reports the error of its own compilation and never reaches the
\* panic "sq_compilebuffer failed but no compile error was captured".
CompileErrorCaptured == \A t \in Threads : got[t] \in {None, vmId[t]}

\* Address a goes to thread t only.
Private(a, t) == \A u \in Threads \ {t} : a \notin Arena[u]

\* A VM at an address that malloc gives to no other thread always reports the
\* error of its own compilation: only unregister_vm of another thread, late on
\* a reused address, can take its slot away.
PrivateErrorCaptured ==
    \A t \in Threads : pc[t] # "idle" /\ Private(addr[t], t) => got[t] \in {None, vmId[t]}
=============================================================================
