------------------------- MODULE VmRegistryProofs -------------------------
(***************************************************************************)
(* VmRegistry for any number of threads, addresses and VMs: the print      *)
(* registry is isolated whatever the allocator does, and compile errors    *)
(* are captured when no address moves between threads.                     *)
(***************************************************************************)
EXTENDS VmRegistry, TLAPS

USE DEF VmIds, Usable, Open, Phases

\* The inductive invariant for an arbitrary allocator.
IInv == TypeOK /\ Lifecycle /\ PrintEntryLive /\ ErrSlotOwned /\ DispatchIsOwn

\* The type of an entry of the print registry after SetPrintFn.
LEMMA EntryType ==
    ASSUME TypeOK, NEW t \in Threads, addr[t] \in Addrs, NEW ch \in Channels,
           NEW e, e = IF prints[addr[t]] = Absent
                        THEN [c \in Channels |-> None] ELSE prints[addr[t]]
    PROVE  [e EXCEPT ![ch] = vmId[t]] \in PrintFns
BY DEF TypeOK, PrintFns

\* What Lookup can return.
LEMMA LookupType ==
    ASSUME TypeOK, NEW v \in Addrs, NEW ch \in Channels
    PROVE  Lookup(v, ch) \in VmIds \cup {None}
BY DEF TypeOK, PrintFns, Lookup

\* Every step of every thread preserves the types of the variables.
LEMMA TypeStep == TypeOK /\ Lifecycle /\ [Next]_vars => TypeOK'
<1> SUFFICES ASSUME TypeOK, Lifecycle, [Next]_vars PROVE TypeOK'
  OBVIOUS
<1> USE ArenaAssumption, MaxVmsAssumption
<1>1. CASE UNCHANGED vars
  BY <1>1 DEF vars, TypeOK
<1>2. ASSUME NEW t \in Threads, NEW a \in Addrs, SqOpen(t, a) PROVE TypeOK'
  BY <1>2 DEF SqOpen, TypeOK
<1>3. ASSUME NEW t \in Threads, RegisterVm(t) PROVE TypeOK'
  BY <1>3 DEF RegisterVm, TypeOK, Lifecycle
<1>4. ASSUME NEW t \in Threads, NEW a \in Addrs, SqNewThread(t, a) PROVE TypeOK'
  BY <1>4 DEF SqNewThread, TypeOK
<1>5. ASSUME NEW t \in Threads, NEW a \in Addrs, ReleaseThread(t, a) PROVE TypeOK'
  BY <1>5 DEF ReleaseThread, TypeOK
<1>6. ASSUME NEW t \in Threads, NEW ch \in Channels, SetPrintFn(t, ch) PROVE TypeOK'
  <2>1. addr[t] \in Addrs
    BY <1>6 DEF SetPrintFn, Lifecycle
  <2> DEFINE e == IF prints[addr[t]] = Absent
                    THEN [c \in Channels |-> None] ELSE prints[addr[t]]
  <2>2. [e EXCEPT ![ch] = vmId[t]] \in PrintFns
    BY <2>1, EntryType
  <2>3. prints' = [prints EXCEPT ![addr[t]] = [e EXCEPT ![ch] = vmId[t]]]
    BY <1>6 DEF SetPrintFn
  <2>4. UNCHANGED <<pc, addr, vmId, opened, block, errs, got, out>>
    BY <1>6 DEF SetPrintFn
  <2> HIDE DEF e
  <2>5. prints' \in [Addrs -> PrintFns \cup {Absent}]
    BY <2>1, <2>2, <2>3 DEF TypeOK
  <2> QED BY <2>4, <2>5 DEF TypeOK
<1>7. ASSUME NEW t \in Threads, NEW v \in Addrs, NEW ch \in Channels,
             Dispatch(t, v, ch)
      PROVE  TypeOK'
  <2>1. Lookup(v, ch) \in VmIds \cup {None}
    BY LookupType
  <2> QED BY <1>7, <2>1 DEF Dispatch, TypeOK
<1>8. ASSUME NEW t \in Threads, ClearError(t) PROVE TypeOK'
  BY <1>8 DEF ClearError, TypeOK
<1>9. ASSUME NEW t \in Threads, CompileOk(t) PROVE TypeOK'
  BY <1>9 DEF CompileOk, TypeOK
<1>10. ASSUME NEW t \in Threads, CompileFail(t) PROVE TypeOK'
  BY <1>10 DEF CompileFail, TypeOK
<1>11. ASSUME NEW t \in Threads, TakeError(t) PROVE TypeOK'
  <2>1. addr[t] \in Addrs
    BY <1>11 DEF TakeError, Lifecycle
  <2> QED BY <1>11, <2>1 DEF TakeError, TypeOK
<1>12. ASSUME NEW t \in Threads, ClearPrintFns(t) PROVE TypeOK'
  BY <1>12 DEF ClearPrintFns, TypeOK
<1>13. ASSUME NEW t \in Threads, SqClose(t) PROVE TypeOK'
  BY <1>13 DEF SqClose, TypeOK
<1>14. ASSUME NEW t \in Threads, UnregisterVm(t) PROVE TypeOK'
  BY <1>14 DEF UnregisterVm, TypeOK
<1> QED
  BY <1>1, <1>2, <1>3, <1>4, <1>5, <1>6, <1>7, <1>8, <1>9, <1>10, <1>11,
     <1>12, <1>13, <1>14 DEF Next, Step

\* Opening, closing and coroutines never make two open VMs share a block.
LEMMA LifecycleStep == TypeOK /\ Lifecycle /\ [Next]_vars => Lifecycle'
<1> SUFFICES ASSUME TypeOK, Lifecycle, [Next]_vars PROVE Lifecycle'
  OBVIOUS
<1> USE MarkersAssumption DEF Lifecycle
<1>1. CASE UNCHANGED vars
  BY <1>1 DEF vars
<1>2. ASSUME NEW t \in Threads, NEW a \in Addrs, SqOpen(t, a) PROVE Lifecycle'
  BY <1>2 DEF SqOpen, TypeOK
<1>3. ASSUME NEW t \in Threads, RegisterVm(t) PROVE Lifecycle'
  BY <1>3 DEF RegisterVm, TypeOK
<1>4. ASSUME NEW t \in Threads, NEW a \in Addrs, SqNewThread(t, a) PROVE Lifecycle'
  BY <1>4 DEF SqNewThread, TypeOK
<1>5. ASSUME NEW t \in Threads, NEW a \in Addrs, ReleaseThread(t, a) PROVE Lifecycle'
  BY <1>5 DEF ReleaseThread, TypeOK
<1>6. ASSUME NEW t \in Threads, NEW ch \in Channels, SetPrintFn(t, ch) PROVE Lifecycle'
  BY <1>6 DEF SetPrintFn, TypeOK
<1>7. ASSUME NEW t \in Threads, NEW v \in Addrs, NEW ch \in Channels,
             Dispatch(t, v, ch)
      PROVE  Lifecycle'
  BY <1>7 DEF Dispatch, TypeOK
<1>8. ASSUME NEW t \in Threads, ClearError(t) PROVE Lifecycle'
  BY <1>8 DEF ClearError, TypeOK
<1>9. ASSUME NEW t \in Threads, CompileOk(t) PROVE Lifecycle'
  BY <1>9 DEF CompileOk, TypeOK
<1>10. ASSUME NEW t \in Threads, CompileFail(t) PROVE Lifecycle'
  BY <1>10 DEF CompileFail, TypeOK
<1>11. ASSUME NEW t \in Threads, TakeError(t) PROVE Lifecycle'
  BY <1>11 DEF TakeError, TypeOK
<1>12. ASSUME NEW t \in Threads, ClearPrintFns(t) PROVE Lifecycle'
  BY <1>12 DEF ClearPrintFns, TypeOK
<1>13. ASSUME NEW t \in Threads, SqClose(t) PROVE Lifecycle'
  BY <1>13 DEF SqClose, TypeOK
<1>14. ASSUME NEW t \in Threads, UnregisterVm(t) PROVE Lifecycle'
  BY <1>14 DEF UnregisterVm, TypeOK
<1> QED
  BY <1>1, <1>2, <1>3, <1>4, <1>5, <1>6, <1>7, <1>8, <1>9, <1>10, <1>11,
     <1>12, <1>13, <1>14 DEF Next, Step

\* Entries of the print registry stay those of live VMs: clear_print_fns comes
\* before sq_close, so an address is given back without an entry.
LEMMA PrintEntryStep == TypeOK /\ Lifecycle /\ PrintEntryLive /\ [Next]_vars => PrintEntryLive'
<1> SUFFICES ASSUME TypeOK, Lifecycle, PrintEntryLive, [Next]_vars PROVE PrintEntryLive'
  OBVIOUS
<1> USE MarkersAssumption DEF PrintEntryLive, Lifecycle
<1>1. CASE UNCHANGED vars
  BY <1>1 DEF vars
<1>2. ASSUME NEW t \in Threads, NEW a \in Addrs, SqOpen(t, a) PROVE PrintEntryLive'
  BY <1>2 DEF SqOpen, TypeOK
<1>3. ASSUME NEW t \in Threads, RegisterVm(t) PROVE PrintEntryLive'
  BY <1>3 DEF RegisterVm, TypeOK
<1>4. ASSUME NEW t \in Threads, NEW a \in Addrs, SqNewThread(t, a) PROVE PrintEntryLive'
  BY <1>4 DEF SqNewThread, TypeOK
<1>5. ASSUME NEW t \in Threads, NEW a \in Addrs, ReleaseThread(t, a) PROVE PrintEntryLive'
  BY <1>5 DEF ReleaseThread, TypeOK
<1>6. ASSUME NEW t \in Threads, NEW ch \in Channels, SetPrintFn(t, ch) PROVE PrintEntryLive'
  BY <1>6 DEF SetPrintFn, TypeOK
<1>7. ASSUME NEW t \in Threads, NEW v \in Addrs, NEW ch \in Channels, Dispatch(t, v, ch) PROVE PrintEntryLive'
  BY <1>7 DEF Dispatch, TypeOK
<1>8. ASSUME NEW t \in Threads, ClearError(t) PROVE PrintEntryLive'
  BY <1>8 DEF ClearError, TypeOK
<1>9. ASSUME NEW t \in Threads, CompileOk(t) PROVE PrintEntryLive'
  BY <1>9 DEF CompileOk, TypeOK
<1>10. ASSUME NEW t \in Threads, CompileFail(t) PROVE PrintEntryLive'
  BY <1>10 DEF CompileFail, TypeOK
<1>11. ASSUME NEW t \in Threads, TakeError(t) PROVE PrintEntryLive'
  BY <1>11 DEF TakeError, TypeOK
<1>12. ASSUME NEW t \in Threads, ClearPrintFns(t) PROVE PrintEntryLive'
  BY <1>12 DEF ClearPrintFns, TypeOK
<1>13. ASSUME NEW t \in Threads, SqClose(t) PROVE PrintEntryLive'
  BY <1>13 DEF SqClose, TypeOK
<1>14. ASSUME NEW t \in Threads, UnregisterVm(t) PROVE PrintEntryLive'
  BY <1>14 DEF UnregisterVm, TypeOK
<1> QED
  BY <1>1, <1>2, <1>3, <1>4, <1>5, <1>6, <1>7, <1>8, <1>9, <1>10, <1>11,
     <1>12, <1>13, <1>14 DEF Next, Step

\* A slot of the compile-error registry stays accounted for.
LEMMA ErrSlotStep == TypeOK /\ Lifecycle /\ ErrSlotOwned /\ [Next]_vars => ErrSlotOwned'
<1> SUFFICES ASSUME TypeOK, Lifecycle, ErrSlotOwned, [Next]_vars PROVE ErrSlotOwned'
  OBVIOUS
<1> USE MarkersAssumption DEF ErrSlotOwned, Lifecycle
<1>1. CASE UNCHANGED vars
  BY <1>1 DEF vars
<1>2. ASSUME NEW t \in Threads, NEW a \in Addrs, SqOpen(t, a) PROVE ErrSlotOwned'
  BY <1>2 DEF SqOpen, TypeOK
<1>3. ASSUME NEW t \in Threads, RegisterVm(t) PROVE ErrSlotOwned'
  BY <1>3 DEF RegisterVm, TypeOK
<1>4. ASSUME NEW t \in Threads, NEW a \in Addrs, SqNewThread(t, a) PROVE ErrSlotOwned'
  BY <1>4 DEF SqNewThread, TypeOK
<1>5. ASSUME NEW t \in Threads, NEW a \in Addrs, ReleaseThread(t, a) PROVE ErrSlotOwned'
  BY <1>5 DEF ReleaseThread, TypeOK
<1>6. ASSUME NEW t \in Threads, NEW ch \in Channels, SetPrintFn(t, ch) PROVE ErrSlotOwned'
  BY <1>6 DEF SetPrintFn, TypeOK
<1>7. ASSUME NEW t \in Threads, NEW v \in Addrs, NEW ch \in Channels, Dispatch(t, v, ch) PROVE ErrSlotOwned'
  BY <1>7 DEF Dispatch, TypeOK
<1>8. ASSUME NEW t \in Threads, ClearError(t) PROVE ErrSlotOwned'
  BY <1>8 DEF ClearError, TypeOK
<1>9. ASSUME NEW t \in Threads, CompileOk(t) PROVE ErrSlotOwned'
  BY <1>9 DEF CompileOk, TypeOK
<1>10. ASSUME NEW t \in Threads, CompileFail(t) PROVE ErrSlotOwned'
  BY <1>10 DEF CompileFail, TypeOK
<1>11. ASSUME NEW t \in Threads, TakeError(t) PROVE ErrSlotOwned'
  BY <1>11 DEF TakeError, TypeOK
<1>12. ASSUME NEW t \in Threads, ClearPrintFns(t) PROVE ErrSlotOwned'
  BY <1>12 DEF ClearPrintFns, TypeOK
<1>13. ASSUME NEW t \in Threads, SqClose(t) PROVE ErrSlotOwned'
  BY <1>13 DEF SqClose, TypeOK
<1>14. ASSUME NEW t \in Threads, UnregisterVm(t) PROVE ErrSlotOwned'
  BY <1>14 DEF UnregisterVm, TypeOK
<1> QED
  BY <1>1, <1>2, <1>3, <1>4, <1>5, <1>6, <1>7, <1>8, <1>9, <1>10, <1>11,
     <1>12, <1>13, <1>14 DEF Next, Step

\* A callback that runs was set on the VM that prints: its entry belongs to a
\* live VM, and the block the script runs on belongs to no other.
LEMMA DispatchStep == IInv /\ [Next]_vars => DispatchIsOwn'
<1> SUFFICES ASSUME IInv, [Next]_vars PROVE DispatchIsOwn'
  OBVIOUS
<1> USE MarkersAssumption DEF IInv, DispatchIsOwn
<1>1. CASE UNCHANGED vars
  BY <1>1 DEF vars
<1>2. ASSUME NEW t \in Threads, NEW a \in Addrs, SqOpen(t, a) PROVE DispatchIsOwn'
  BY <1>2 DEF SqOpen, TypeOK
<1>3. ASSUME NEW t \in Threads, RegisterVm(t) PROVE DispatchIsOwn'
  BY <1>3 DEF RegisterVm, TypeOK
<1>4. ASSUME NEW t \in Threads, NEW a \in Addrs, SqNewThread(t, a) PROVE DispatchIsOwn'
  BY <1>4 DEF SqNewThread, TypeOK
<1>5. ASSUME NEW t \in Threads, NEW a \in Addrs, ReleaseThread(t, a) PROVE DispatchIsOwn'
  BY <1>5 DEF ReleaseThread, TypeOK
<1>6. ASSUME NEW t \in Threads, NEW ch \in Channels, SetPrintFn(t, ch) PROVE DispatchIsOwn'
  BY <1>6 DEF SetPrintFn, TypeOK
<1>7. ASSUME NEW t \in Threads, NEW v \in Addrs, NEW ch \in Channels, Dispatch(t, v, ch) PROVE DispatchIsOwn'
  <2>1. Lookup(v, ch) \in {None, vmId[t]}
    <3>1. CASE prints[v] = Absent
      BY <3>1 DEF Lookup
    <3>2. CASE prints[v] # Absent
      <4>1. PICK u \in Threads :
              /\ addr[u] = v /\ pc[u] \in Usable /\ block[v] = vmId[u]
              /\ \A c \in Channels : prints[v][c] \in {None, vmId[u]}
        BY <3>2 DEF PrintEntryLive
      <4>2. u = t
        BY <1>7, <4>1 DEF Dispatch, Lifecycle, TypeOK
      <4> QED BY <3>2, <4>1, <4>2 DEF Lookup
    <3> QED BY <3>1, <3>2
  <2> QED BY <1>7, <2>1 DEF Dispatch, TypeOK
<1>8. ASSUME NEW t \in Threads, ClearError(t) PROVE DispatchIsOwn'
  BY <1>8 DEF ClearError, TypeOK
<1>9. ASSUME NEW t \in Threads, CompileOk(t) PROVE DispatchIsOwn'
  BY <1>9 DEF CompileOk, TypeOK
<1>10. ASSUME NEW t \in Threads, CompileFail(t) PROVE DispatchIsOwn'
  BY <1>10 DEF CompileFail, TypeOK
<1>11. ASSUME NEW t \in Threads, TakeError(t) PROVE DispatchIsOwn'
  BY <1>11 DEF TakeError, TypeOK
<1>12. ASSUME NEW t \in Threads, ClearPrintFns(t) PROVE DispatchIsOwn'
  BY <1>12 DEF ClearPrintFns, TypeOK
<1>13. ASSUME NEW t \in Threads, SqClose(t) PROVE DispatchIsOwn'
  BY <1>13 DEF SqClose, TypeOK
<1>14. ASSUME NEW t \in Threads, UnregisterVm(t) PROVE DispatchIsOwn'
  BY <1>14 DEF UnregisterVm, TypeOK
<1> QED
  BY <1>1, <1>2, <1>3, <1>4, <1>5, <1>6, <1>7, <1>8, <1>9, <1>10, <1>11,
     <1>12, <1>13, <1>14 DEF Next, Step

\* IInv is an inductive invariant.
THEOREM RegistryInvariant == Spec => []IInv
<1>1. Init => IInv
  BY MarkersAssumption
     DEF Init, IInv, TypeOK, Lifecycle, PrintEntryLive, ErrSlotOwned, DispatchIsOwn
<1>2. IInv /\ [Next]_vars => IInv'
  <2> SUFFICES ASSUME IInv, [Next]_vars PROVE IInv'
    OBVIOUS
  <2> TypeOK /\ Lifecycle /\ PrintEntryLive /\ ErrSlotOwned
    BY DEF IInv
  <2> QED
    BY TypeStep, LifecycleStep, PrintEntryStep, ErrSlotStep, DispatchStep DEF IInv
<1> QED BY <1>1, <1>2, PTL DEF Spec

\* For any allocator, open VMs own their blocks and every block in use belongs
\* to an open VM (sq_open, sq_newthread, sq_close).
THEOREM VmsOwnTheirBlocks == Spec => []Lifecycle
BY RegistryInvariant, PTL DEF IInv

\* Type correctness of the registries and of the VM life cycle.
THEOREM RegistryTypes == Spec => []TypeOK
BY RegistryInvariant, PTL DEF IInv

\* For any allocator, a print callback only ever runs for the VM it was set
\* on, also when addresses are reused across threads (Drop for Squirrel).
THEOREM PrintIsolation == Spec => []DispatchIsOwn
BY RegistryInvariant, PTL DEF IInv

\* For any allocator, the print registry keeps no entry of a closed VM.
THEOREM PrintEntriesAreLive == Spec => []PrintEntryLive
BY RegistryInvariant, PTL DEF IInv

\* For any allocator, the compile-error registry leaks no slot.
THEOREM ErrSlotsAreOwned == Spec => []ErrSlotOwned
BY RegistryInvariant, PTL DEF IInv

-----------------------------------------------------------------------------
(* Compile errors at addresses that no other thread gets                    *)

\* A usable VM at a private address has its slot, and after a failed
\* compilation its own error. Every VM is at an address of its thread's arena.
SlotInPlace ==
    /\ \A t \in Threads : pc[t] # "idle" => addr[t] \in Arena[t]
    /\ \A t \in Threads :
         pc[t] \in Usable /\ Private(addr[t], t) => errs[addr[t]] # Absent
    /\ \A t \in Threads :
         pc[t] = "failed" /\ Private(addr[t], t) => errs[addr[t]] = vmId[t]

\* The inductive invariant for private addresses.
CInv == TypeOK /\ Lifecycle /\ SlotInPlace /\ PrivateErrorCaptured

\* unregister_vm of another thread cannot hit the slot at a private address.
LEMMA SlotStep == CInv /\ [Next]_vars => (SlotInPlace /\ PrivateErrorCaptured)'
<1> SUFFICES ASSUME CInv, [Next]_vars PROVE (SlotInPlace /\ PrivateErrorCaptured)'
  OBVIOUS
<1> USE MarkersAssumption, ArenaAssumption
     DEF CInv, Lifecycle, SlotInPlace, PrivateErrorCaptured, Private
<1>1. CASE UNCHANGED vars
  BY <1>1 DEF vars
<1>2. ASSUME NEW t \in Threads, NEW a \in Addrs, SqOpen(t, a) PROVE (SlotInPlace /\ PrivateErrorCaptured)'
  BY <1>2 DEF SqOpen, TypeOK
<1>3. ASSUME NEW t \in Threads, RegisterVm(t) PROVE (SlotInPlace /\ PrivateErrorCaptured)'
  BY <1>3 DEF RegisterVm, TypeOK
<1>4. ASSUME NEW t \in Threads, NEW a \in Addrs, SqNewThread(t, a) PROVE (SlotInPlace /\ PrivateErrorCaptured)'
  BY <1>4 DEF SqNewThread, TypeOK
<1>5. ASSUME NEW t \in Threads, NEW a \in Addrs, ReleaseThread(t, a) PROVE (SlotInPlace /\ PrivateErrorCaptured)'
  BY <1>5 DEF ReleaseThread, TypeOK
<1>6. ASSUME NEW t \in Threads, NEW ch \in Channels, SetPrintFn(t, ch) PROVE (SlotInPlace /\ PrivateErrorCaptured)'
  BY <1>6 DEF SetPrintFn, TypeOK
<1>7. ASSUME NEW t \in Threads, NEW v \in Addrs, NEW ch \in Channels, Dispatch(t, v, ch) PROVE (SlotInPlace /\ PrivateErrorCaptured)'
  BY <1>7 DEF Dispatch, TypeOK
<1>8. ASSUME NEW t \in Threads, ClearError(t) PROVE (SlotInPlace /\ PrivateErrorCaptured)'
  BY <1>8 DEF ClearError, TypeOK
<1>9. ASSUME NEW t \in Threads, CompileOk(t) PROVE (SlotInPlace /\ PrivateErrorCaptured)'
  BY <1>9 DEF CompileOk, TypeOK
<1>10. ASSUME NEW t \in Threads, CompileFail(t) PROVE (SlotInPlace /\ PrivateErrorCaptured)'
  BY <1>10 DEF CompileFail, TypeOK
<1>11. ASSUME NEW t \in Threads, TakeError(t) PROVE (SlotInPlace /\ PrivateErrorCaptured)'
  BY <1>11 DEF TakeError, TypeOK
<1>12. ASSUME NEW t \in Threads, ClearPrintFns(t) PROVE (SlotInPlace /\ PrivateErrorCaptured)'
  BY <1>12 DEF ClearPrintFns, TypeOK
<1>13. ASSUME NEW t \in Threads, SqClose(t) PROVE (SlotInPlace /\ PrivateErrorCaptured)'
  BY <1>13 DEF SqClose, TypeOK
<1>14. ASSUME NEW t \in Threads, UnregisterVm(t) PROVE (SlotInPlace /\ PrivateErrorCaptured)'
  BY <1>14 DEF UnregisterVm, TypeOK
<1> QED
  BY <1>1, <1>2, <1>3, <1>4, <1>5, <1>6, <1>7, <1>8, <1>9, <1>10, <1>11,
     <1>12, <1>13, <1>14 DEF Next, Step

\* For any allocator, compile_str finds the error of its own compilation at an
\* address that no other thread is given (compile_str, take_error).
THEOREM CompileErrorsCaptured == Spec => []PrivateErrorCaptured
<1>1. Init => CInv
  BY MarkersAssumption
     DEF Init, CInv, TypeOK, Lifecycle, SlotInPlace, PrivateErrorCaptured
<1>2. CInv /\ [Next]_vars => CInv'
  BY TypeStep, LifecycleStep, SlotStep DEF CInv
<1>3. CInv => PrivateErrorCaptured
  BY DEF CInv
<1> QED BY <1>1, <1>2, <1>3, PTL DEF Spec
=============================================================================
