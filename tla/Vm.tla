---------------------------------- MODULE Vm ----------------------------------
(***************************************************************************)
(* The virtual machine of Squirrel below its instruction loop: the stack,  *)
(* call frames and free variables (sqvm.cpp), generators (sqobject.cpp),   *)
(* calls of closures, native functions and classes, exceptions, member     *)
(* access through delegates and metamethods, coroutines, and the natives   *)
(* of sqbaselib.cpp that call back into a script.                          *)
(*                                                                         *)
(* The machine is a record m.  Its fields `stk' to `handler' are those of  *)
(* the running SQVM; the other coroutines' are in m.parked.                *)
(*                                                                         *)
(* SQVM::Execute calls itself, through metamethods and natives.  m.cs is   *)
(* the C stack: one activation [traps, raise, ks] per Execute in progress. *)
(* What C code does when a call returns is a sequence ks of continuation   *)
(* records: Deliver runs it on a result, FailK on a failure; at its end    *)
(* the instruction loop of the innermost activation goes on or throws.     *)
(* Call, RunNative, Throw, Deliver and FailK end an operator: they only    *)
(* record in m.todo what follows, which Run carries out.                   *)
(***************************************************************************)
EXTENDS CodeGen

CONSTANTS
    Programs,        \* a sequence of chunks, as syntax trees
    Compiled(_, _),  \* what the compiler makes of a chunk, with or without line information
    StackSize,       \* initialstacksize
    StackOverhead,   \* MIN_STACK_OVERHEAD
    MaxNativeCalls   \* MAX_NATIVE_CALLS

ASSUME VmAssumption ==
    StackSize \in Nat /\ StackOverhead \in Nat /\ MaxNativeCalls \in Nat \ {0}

\* The function prototype at the end of a path of indices into _functions.
FunctionAt(m, path) ==
    FoldLeft(LAMBDA f, k : f.functions[k + 1], m.chunk.proto, path)
FunctionOf(m, clo) == FunctionAt(m, Obj(m, clo).fn)

Root == <<"obj", 1>>

-----------------------------------------------------------------------------
(* The stack                                                               *)

\* A write outside the stack is undefined behaviour.
Put(m, i, x) ==
    IF i \in DOMAIN m.stk THEN [m EXCEPT !.stk[i] = x] ELSE [m EXCEPT !.undefined = TRUE]
At(m, i) == IF i \in DOMAIN m.stk THEN m.stk[i] ELSE NullVal

\* STK(r) and TARGET
Reg(m, r) == At(m, m.base + r)
SetReg(m, r, x) == Put(m, m.base + r, x)
SetTarget(m, r, x) == IF r = NoReg THEN m ELSE SetReg(m, r, x)

Nullify(m, from, to) ==
    [m EXCEPT !.stk = [i \in DOMAIN @ |-> IF i \in from..to THEN NullVal ELSE @[i]]]
Push(m, x) == [Put(m, m.top, x) EXCEPT !.top = @ + 1]
PushAll(m, xs) == FoldLeft(Push, m, xs)
Pop(m, n) == [Nullify(m, m.top - n, m.top - 1) EXCEPT !.top = @ - n]

Raise(m, msg) == [m EXCEPT !.lasterror = StrVal(msg)]
Frame(m) == Last(m.ci)
Jump(m, n) == [m EXCEPT !.ci[Len(m.ci)].ip = @ + n]

-----------------------------------------------------------------------------
(* Free variables: a cell is open while it stands for a stack slot.  alloc *)
(* names the allocation of the stack its pointer points into.              *)

CloseOuters(m, idx) ==
    LET gone == {c \in Range(m.open) : m.cells[c].idx >= idx}
    IN  [m EXCEPT
          !.cells = [c \in DOMAIN @ |->
                       IF c \in gone THEN [@[c] EXCEPT !.open = FALSE, !.val = m.stk[m.cells[c].idx]]
                       ELSE @[c]],
          !.open = SelectSeq(@, LAMBDA c : c \notin gone)]

\* The list is kept sorted, the topmost slot first.
FindOuter(m, idx) ==
    LET found == {c \in Range(m.open) : m.cells[c].idx = idx}
        new == Len(m.cells) + 1
        above == SelectSeq(m.open, LAMBDA c : m.cells[c].idx > idx)
    IN  IF found # {} THEN <<m, Min(found)>>
        ELSE <<[m EXCEPT !.cells = Append(@, [open |-> TRUE, idx |-> idx, val |-> NullVal,
                                              alloc |-> m.alloc, th |-> m.cur]),
                         !.open = above \o <<new>> \o SubSeq(@, Len(above) + 1, Len(@))], new>>

\* Mutant: the pointers still point into the old stack.
RelocateOuters_Forgotten(m) == m

RelocateOuters(m) ==
    [m EXCEPT !.cells = [c \in DOMAIN @ |->
        IF c \in Range(m.open) THEN [@[c] EXCEPT !.alloc = m.alloc] ELSE @[c]]]

\* The slot may be on the stack of another coroutine.
GetOuter(m, c) ==
    LET o == m.cells[c]
    IN  IF ~o.open THEN o.val ELSE IF o.th = m.cur THEN At(m, o.idx) ELSE m.parked[o.th].stk[o.idx]
SetOuter(m, c, x) ==
    LET o == m.cells[c]
    IN  IF ~o.open THEN [m EXCEPT !.cells[c].val = x]
        ELSE IF o.th = m.cur THEN Put(m, o.idx, x) ELSE [m EXCEPT !.parked[o.th].stk[o.idx] = x]

-----------------------------------------------------------------------------
(* Frames                                                                  *)

\* The frame is pushed before the stack is found to be too small.
EnterFrame(m, newbase, newtop, tailcall) ==
    LET f == [clo |-> NullVal, ip |-> 0, target |-> -1, prevbase |-> newbase - m.base,
              prevtop |-> m.top - m.base, etraps |-> 0, root |-> FALSE, gen |-> NullVal]
        e == [m EXCEPT !.ci = IF tailcall THEN @ ELSE Append(@, f), !.base = newbase, !.top = newtop]
        size == newtop + 4 * StackOverhead
        grown == [i \in 0..(size - 1) |-> IF i \in DOMAIN m.stk THEN m.stk[i] ELSE NullVal]
    IN  IF newtop + StackOverhead <= Cardinality(DOMAIN m.stk) THEN <<TRUE, e>>
        ELSE IF m.nmeta > 0
             THEN <<FALSE, Raise(e, "stack overflow, cannot resize stack while in a metamethod")>>
             ELSE <<TRUE, RelocateOuters([e EXCEPT !.stk = grown, !.alloc = @ + 1])>>

LeaveFrame(m) ==
    LET f == Frame(m)
        newbase == m.base - f.prevbase
        newtop == newbase + f.prevtop
        c == CloseOuters([m EXCEPT !.ci = Front(@), !.base = newbase, !.top = newtop], m.base)
    IN  Nullify(c, newtop, m.top)

\* SQVM::Return: the value goes to the caller's register, or (root) to the
\* C caller.
ReturnValue(m, arg0, arg1) == IF arg0 # NoReg THEN Reg(m, arg1) ELSE NullVal
Return(m, arg0, arg1) ==
    LET f == Frame(m)
        dest == m.base - f.prevbase + f.target
    IN  LeaveFrame(IF f.root \/ f.target = -1 THEN m ELSE Put(m, dest, ReturnValue(m, arg0, arg1)))

-----------------------------------------------------------------------------
(* Generators                                                              *)

\* SQGenerator::Yield: registers 1..target-1 and the frame's traps are saved
\* relative to the base.
Yield(m, gen, target) ==
    LET g == Obj(m, gen)
        size == m.top - m.base
        n == Frame(m).etraps
        traps == SubSeq(m.etraps, Len(m.etraps) - n + 1, Len(m.etraps))
        saved == [g EXCEPT
            !.state = "suspended", !.frame = [Frame(m) EXCEPT !.gen = NullVal],
            !.stack = [i \in 0..(size - 1) |-> IF i < target THEN Reg(m, i) ELSE NullVal],
            !.etraps = [i \in DOMAIN traps |->
                [traps[i] EXCEPT !.base = @ - m.base, !.top = @ - m.base]]]
        d == Nullify(Update(m, gen, saved), m.base, m.top - 1)
    IN  IF g.state = "running"
        THEN <<TRUE, [d EXCEPT !.etraps = SubSeq(@, 1, Len(@) - n)]>>
        ELSE <<FALSE, Raise(m, "internal vm error, yielding dead generator")>>

\* SQGenerator::Resume: the frame is entered on top of the stack; dest is the
\* register of the resuming frame that receives the next value.
Resume(m, gen, dest) ==
    LET g == Obj(m, gen)
        newbase == m.top
        e == EnterFrame(m, newbase, newbase + Cardinality(DOMAIN g.stack), FALSE)
        f == [Frame(e[2]) EXCEPT !.gen = gen, !.target = dest, !.clo = g.frame.clo,
                 !.ip = g.frame.ip, !.etraps = g.frame.etraps, !.root = g.frame.root]
        stk == [i \in DOMAIN e[2].stk |->
                  IF i - newbase \in DOMAIN g.stack THEN g.stack[i - newbase] ELSE e[2].stk[i]]
        d == [e[2] EXCEPT !.ci[Len(e[2].ci)] = f, !.stk = stk,
                 !.etraps = @ \o [i \in DOMAIN g.etraps |->
                     [g.etraps[i] EXCEPT !.base = @ + newbase, !.top = @ + newbase]]]
    IN  IF g.state # "suspended" THEN <<FALSE, Raise(m, "resuming generator")>>
        ELSE IF ~e[1] THEN e
        ELSE <<TRUE, Update(d, gen, [g EXCEPT !.state = "running", !.stack = <<>>, !.etraps = <<>>])>>

\* Mutant: a generator that ends stays running.
Kill_KeepsState(m, gen) == m

\* SQGenerator::Kill
Kill(m, gen) ==
    IF gen = NullVal THEN m
    ELSE Update(m, gen, [Obj(m, gen) EXCEPT !.state = "dead", !.stack = <<>>, !.clo = NullVal])

-----------------------------------------------------------------------------
(* Calls of closures                                                       *)

\* The parameters that vargs stands for are gathered in an array.
BindVarArgs(m, np, args, stackbase) ==
    LET vargs == [i \in 1..(args - np) |-> At(m, stackbase + np + i - 1)]
        Store(n) == Put(n[1], stackbase + np, n[2])
    IN  Store(New(Nullify(m, stackbase + np, stackbase + args - 1), NewArray(vargs)))

BindDefaults(m, defs, missing, from) ==
    LET Default(d, i) == Put(d, from + i - 1, defs[Len(defs) - missing + i])
    IN  FoldLeft(Default, m, [i \in 1..missing |-> i])

\* The arguments as the callee expects them, or the wrong number of them.
BindArgs(m, func, defs, args, stackbase) ==
    LET np == func.nparams - (IF func.varparams THEN 1 ELSE 0)
    IN  IF func.varparams /\ args >= np THEN <<TRUE, BindVarArgs(m, np, args, stackbase)>>
        ELSE IF ~func.varparams /\ np - args \in 0..Len(defs)
             THEN <<TRUE, BindDefaults(m, defs, np - args, stackbase + args)>>
             ELSE <<FALSE, Raise(m, "wrong number of parameters")>>

\* The frame that was entered runs clo.
SetFrame(m, clo, target) ==
    LET n == Len(m.ci) IN [m EXCEPT !.ci[n].clo = clo, !.ci[n].ip = 0, !.ci[n].target = target]

\* A generator is suspended before its first instruction.
NewGenerator(m, clo) ==
    New(m, [type |-> "generator", state |-> "running", clo |-> clo, stack |-> <<>>,
            etraps |-> <<>>, frame |-> Frame(m)])
SuspendNew(g, size, target) == SetReg(Return(Yield(g[1], g[2], size)[2], 1, target), target, g[2])

StartFrame(e, clo, func, target) ==
    IF ~e[1] THEN e
    ELSE IF func.generator
         THEN <<TRUE, SuspendNew(NewGenerator(SetFrame(e[2], clo, target), clo), func.size, target)>>
         ELSE <<TRUE, SetFrame(e[2], clo, target)>>

StartBound(b, clo, func, env, target, stackbase, tailcall) ==
    IF ~b[1] THEN b
    ELSE StartFrame(EnterFrame(IF env = NullVal THEN b[2] ELSE Put(b[2], stackbase, env),
                               stackbase, stackbase + func.size, tailcall), clo, func, target)

StartFunction(m, clo, func, o, target, args, stackbase, tailcall) ==
    StartBound(BindArgs(m, func, o.defs, args, stackbase), clo, func, o.env, target, stackbase,
               tailcall)

StartCall(m, clo, target, args, stackbase, tailcall) ==
    StartFunction(m, clo, FunctionOf(m, clo), Obj(m, clo), target, args, stackbase, tailcall)

-----------------------------------------------------------------------------
(* Calls in general, and what follows them                                 *)

Nothing == [do |-> "nothing"]
Deliver(m, ks, val) == [m EXCEPT !.todo = [do |-> "deliver", ks |-> ks, val |-> val]]
FailK(m, ks) == [m EXCEPT !.todo = [do |-> "fail", ks |-> ks]]
Throw(m) == [m EXCEPT !.todo = [do |-> "throw"]]
RunNative(m, fn, st, ks) == [m EXCEPT !.todo = [do |-> "native", fn |-> fn, st |-> st, ks |-> ks]]
Call(m, f, nparams, stackbase, raise, ks) ==
    [m EXCEPT !.todo = [do |-> "call", f |-> f, nparams |-> nparams, stackbase |-> stackbase,
                        raise |-> raise, ks |-> ks]]

\* The innermost Execute returns to its C caller.
ExecuteEnd(m) == [m EXCEPT !.cs = Front(@), !.nnative = @ - 1]
ExecuteReturn(m, val) == Deliver(ExecuteEnd(m), Last(m.cs).ks, val)
ExecuteFail(m) == FailK(ExecuteEnd(m), Last(m.cs).ks)

\* SQVM::CallErrorHandler
CallErrorHandler(m, err, ks) ==
    IF m.handler = NullVal THEN Deliver(m, ks, NullVal)
    ELSE LET d == PushAll(m, <<Root, err>>)
         IN  Call(d, m.handler, 2, d.top - 2, FALSE, <<[op |-> "handler"]>> \o ks)

\* SQVM::Execute with ET_CALL.  The generator case reads the register that
\* StartCall wrote, counted from the base although it is an absolute index.
Activate(m, raise, ks) ==
    [m EXCEPT !.nnative = @ + 1, !.cs = Append(@, [traps |-> 0, raise |-> raise, ks |-> ks])]
ExecuteStarted(r, depth, nargs) ==
    IF ~r[1] THEN IF r[2].ci = <<>>
                  THEN CallErrorHandler(r[2], r[2].lasterror, <<[op |-> "abort"]>>)
                  ELSE ExecuteFail(r[2])
    ELSE IF Len(r[2].ci) = depth THEN ExecuteReturn(r[2], Reg(r[2], r[2].top - nargs))
    ELSE [r[2] EXCEPT !.ci[Len(r[2].ci)].root = TRUE]
Execute(m, clo, nargs, stackbase, raise, ks) ==
    IF m.nnative + 1 > MaxNativeCalls THEN FailK(Raise(m, "Native stack overflow"), ks)
    ELSE ExecuteStarted(StartCall(Activate(m, raise, ks), clo, m.top - nargs, nargs, stackbase, FALSE),
                        Len(m.ci), nargs)

\* SQVM::Execute with ET_RESUME_VM or ET_RESUME_THROW_VM
ResumeVm(m, throw, raise, ks) ==
    LET a == [m EXCEPT !.nnative = @ + 1, !.ci[Len(m.ci)].root = m.sroot, !.suspended = FALSE,
                       !.cs = Append(@, [traps |-> m.straps, raise |-> raise, ks |-> ks])]
    IN  IF throw THEN Throw(a) ELSE a

\* The innermost trap of the frames of this Execute catches the error.
RECURSIVE Unwind(_, _, _)
Unwind(m, err, lasttop) ==
    LET n == Len(m.ci)
        et == Last(m.etraps)
        caught == Put([m EXCEPT !.ci[n].ip = et.ip, !.ci[n].etraps = @ - 1, !.top = et.top,
                                !.base = et.base, !.etraps = Front(@),
                                !.cs[Len(m.cs)].traps = @ - 1], et.base + et.ext, err)
        left == LeaveFrame(Kill(m, Frame(m).gen))
    IN  IF n = 0 THEN ExecuteFail([m EXCEPT !.lasterror = err])
        ELSE IF Frame(m).etraps > 0 THEN Nullify(caught, et.top, lasttop)
        ELSE IF Frame(m).root THEN ExecuteFail([left EXCEPT !.lasterror = err])
        ELSE Unwind(left, err, lasttop)

\* The label exception_trap of Execute: m.lasterror is thrown.
ThrowNow(m) ==
    LET k == <<[op |-> "unwind", err |-> m.lasterror, top |-> m.top]>>
    IN  IF Last(m.cs).traps = 0 /\ Last(m.cs).raise THEN CallErrorHandler(m, m.lasterror, k)
        ELSE Unwind(m, m.lasterror, m.top)

-----------------------------------------------------------------------------
(* Native functions: their parameter check (_nparamscheck, _typecheck).    *)

AnyType == {"null", "int", "bool", "str", "native", "closure", "table", "array", "class", "instance",
        "generator", "thread"}
Fun == {"closure", "native"}
Checks ==
    [print |-> <<2, <<>>>>, input |-> <<1, <<>>>>, seterrorhandler |-> <<2, <<>>>>,
     suspend |-> <<-1, <<>>>>, newthread |-> <<2, <<AnyType, Fun>>>>,
     closure_call |-> <<-1, <<Fun>>>>, closure_pcall |-> <<-1, <<Fun>>>>,
     closure_acall |-> <<2, <<Fun, {"array"}>>>>, closure_pacall |-> <<2, <<Fun, {"array"}>>>>,
     closure_bindenv |-> <<2, <<Fun, {"table", "class", "instance"}>>>>,
     generator_getstatus |-> <<1, <<{"generator"}>>>>,
     thread_call |-> <<-1, <<{"thread"}>>>>, thread_wakeup |-> <<-1, <<{"thread"}>>>>,
     thread_wakeupthrow |-> <<-2, <<{"thread"}, AnyType, {"bool"}>>>>,
     thread_getstatus |-> <<1, <<{"thread"}>>>>,
     table_setdelegate |-> <<2, <<AnyType, {"table", "null"}>>>>,
     table_rawset |-> <<3, <<{"table"}>>>>, table_rawget |-> <<2, <<{"table"}>>>>,
     array_append |-> <<2, <<{"array"}>>>>, array_len |-> <<1, <<{"array"}>>>>,
     array_map |-> <<2, <<{"array"}, Fun>>>>, array_apply |-> <<2, <<{"array"}, Fun>>>>,
     array_filter |-> <<2, <<{"array"}, Fun>>>>, array_reduce |-> <<-2, <<{"array"}, Fun>>>>]

\* SQVM::InvokeDefaultDelegate: the members every object of a type has.
DefaultDelegate ==
    [closure |-> [call |-> "closure_call", pcall |-> "closure_pcall", acall |-> "closure_acall",
                  pacall |-> "closure_pacall", bindenv |-> "closure_bindenv"],
     generator |-> [getstatus |-> "generator_getstatus"],
     thread |-> [call |-> "thread_call", wakeup |-> "thread_wakeup",
                 wakeupthrow |-> "thread_wakeupthrow", getstatus |-> "thread_getstatus"],
     table |-> [setdelegate |-> "table_setdelegate", rawset |-> "table_rawset",
                rawget |-> "table_rawget"],
     array |-> [append |-> "array_append", len |-> "array_len", map |-> "array_map",
                apply |-> "array_apply", filter |-> "array_filter", reduce |-> "array_reduce"]]

DefaultMember(m, x, key) ==
    LET t == IF TypeOf(m, x) = "native" THEN "closure" ELSE TypeOf(m, x)
    IN  IF t \in DOMAIN DefaultDelegate /\ key[1] = "str" /\ key[2] \in DOMAIN DefaultDelegate[t]
        THEN Native(DefaultDelegate[t][key[2]]) ELSE NullVal

\* The C function returns 1 or 0 values, fails, suspends or tail calls.
NativeReturn(m, ret, ks) ==
    LET val == IF ret = 0 THEN NullVal ELSE At(m, m.top - 1)
    IN  Deliver(LeaveFrame([m EXCEPT !.nnative = @ - 1]), ks, val)
NativePush(m, x, ks) == NativeReturn(Push(m, x), 1, ks)
\* Mutant: an error leaves the count of native calls as it was.
NativeError_KeepsCount(m, ks) == FailK(LeaveFrame(m), ks)

NativeError(m, ks) == FailK(LeaveFrame([m EXCEPT !.nnative = @ - 1]), ks)

\* Suspend: the instruction loop that called the native returns to its C
\* caller and leaves its frames on the stack.
NativeSuspend(m, ks) ==
    LET val == At(m, m.top - 1)
        d == LeaveFrame([m EXCEPT !.nnative = @ - 1])
    IN  IF ks = <<>> \/ Head(ks).op # "callres" THEN Deliver(d, ks, val)
        ELSE ExecuteReturn([d EXCEPT !.suspended = TRUE, !.starget = Signed(Head(ks).r),
                                     !.sroot = Frame(d).root, !.straps = Last(d.cs).traps], val)

\* sq_tailcall and SQVM::TailCall: the arguments move down to the base of the
\* native's frame, in which the closure runs.
MoveArgs(m, from, n) ==
    [m EXCEPT !.stk = [j \in DOMAIN @ |->
        IF j - m.base \in 0..(n - 1) THEN Reg(m, from + j - m.base) ELSE @[j]]]
KeepTop(m, top) == [m EXCEPT !.top = Max({@, top})]
AfterTailcall(ok, m, ks) ==
    IF ~ok THEN NativeError(m, ks)
    ELSE IF ks # <<>> /\ Head(ks).op = "callres" THEN [m EXCEPT !.nnative = @ - 1]
    ELSE Deliver([m EXCEPT !.nnative = @ - 1], ks, NullVal)
TailCall(r, top, ks) == AfterTailcall(r[1], KeepTop(r[2], top), ks)
SqTailcall(m, nparams, ks) ==
    LET clo == At(m, m.top - nparams - 1)
    IN  IF TypeOf(m, clo) # "closure"
        THEN NativeError(Raise(m, "only closure can be tail called"), ks)
        ELSE IF FunctionOf(m, clo).generator
        THEN NativeError(Raise(m, "generators cannot be tail called"), ks)
        ELSE IF Frame(m).root THEN NativeError(Raise(m, "root calls cannot invoke tailcalls"), ks)
        ELSE TailCall(StartCall(MoveArgs(m, m.top - nparams - m.base, nparams), clo, Frame(m).target,
                                nparams, m.base, TRUE), m.top, ks)

\* sq_call from a native: the function is below its n arguments; st is where
\* the native goes on, with the result pushed.
SqCall(m, n, raise, fn, st, ks) ==
    Call(m, At(m, m.top - n - 1), n, m.top - n, raise,
         <<[op |-> "sqcall", n |-> n, fn |-> fn, st |-> st]>> \o ks)

-----------------------------------------------------------------------------
(* Coroutines                                                              *)

ThreadFields == {"stk", "base", "top", "ci", "etraps", "open", "lasterror", "nmeta", "nnative",
                 "suspended", "starget", "sroot", "straps", "handler", "alloc"}

NewThread(m, size) ==
    [stk |-> [i \in 0..(size - 1) |-> NullVal], base |-> 0, top |-> 0, ci |-> <<>>,
     etraps |-> <<>>, open |-> <<>>, lasterror |-> NullVal, nmeta |-> 0, nnative |-> 0,
     suspended |-> FALSE, starget |-> -1, sroot |-> FALSE, straps |-> -1, handler |-> m.handler,
     alloc |-> 0]

Fields(m) == [f \in ThreadFields |-> m[f]]
SwitchTo(m, t) ==
    IF t = m.cur THEN m
    ELSE m.parked[t] @@ [m EXCEPT !.parked[m.cur] = Fields(m), !.cur = t]
Thread(m, t) == IF t = m.cur THEN Fields(m) ELSE m.parked[t]

\* sq_getvmstate
VmState(th) == IF th.suspended THEN "suspended" ELSE IF th.ci # <<>> THEN "running" ELSE "idle"

SetTop(m, n) == IF m.top > m.base + n THEN Pop(m, m.top - m.base - n) ELSE m

\* Mutant: a value is popped that nobody pushed.
WakeupVm_PopsAlways(m, wakeupret, throw, ks) ==
    LET val == IF wakeupret THEN At(m, m.top - 1) ELSE NullVal
        d == IF m.starget = -1 THEN m ELSE SetReg(m, m.starget, val)
    IN  ResumeVm(Pop(d, 1), throw, TRUE, ks)

\* sq_wakeupvm, called on the thread
WakeupVm(m, wakeupret, throw, ks) ==
    LET val == IF wakeupret THEN At(m, m.top - 1) ELSE NullVal
        d == IF m.starget = -1 THEN m ELSE SetReg(m, m.starget, val)
    IN  ResumeVm(IF wakeupret THEN Pop(d, 1) ELSE d, throw, TRUE, ks)

-----------------------------------------------------------------------------
(* Member access.  Get and Set try places in an order that FallBackGet and *)
(* FallBackSet fix on the way down the chain of delegates, before any      *)
(* metamethod runs.                                                        *)

Places(how, xs) == [i \in DOMAIN xs |-> [how |-> how, x |-> xs[i]]]

RECURSIVE GetPlan(_, _, _)
GetPlan(m, self, selfidx) ==
    LET chain == Chain(m, self)
        MetaThenDefault(x) == <<[how |-> "meta", x |-> x], [how |-> "default", x |-> x]>>
    IN  Places("slot", chain)
        \o FoldLeft(LAMBDA p, x : p \o MetaThenDefault(x), <<>>, Reverse(chain))
        \o (IF selfidx = 0 THEN GetPlan(m, Root, -1) ELSE <<>>)

SetPlan(m, self, selfidx) ==
    Places("slot", Chain(m, self)) \o Places("meta", Reverse(Chain(m, self)))
    \o (IF selfidx = 0 THEN <<[how |-> "slot", x |-> Root]>> ELSE <<>>)

\* A metamethod runs with nmeta raised: the stack cannot be resized.
CallMeta(m, mm, args, ks) ==
    LET d == [PushAll(m, args) EXCEPT !.nmeta = @ + 1]
    IN  Call(d, mm, Len(args), d.top - Len(args), FALSE, ks)
AfterMeta(m, n) == [Pop(m, n) EXCEPT !.nmeta = @ - 1]
CallMetaMethod(m, mm, args, ks) == CallMeta(m, mm, args, <<[op |-> "meta", n |-> Len(args)]>> \o ks)

RECURSIVE TryGet(_, _, _, _, _)
TryGet(m, self, key, places, ks) ==
    LET p == Head(places)
        mm == MetaMethod(m, p.x, "_get")
    IN  IF places = <<>> THEN FailK(Raise(m, "the index does not exist"), ks)
        ELSE CASE p.how = "slot" /\ HasSlot(m, p.x, key) -> Deliver(m, ks, SlotOf(m, p.x, key))
               [] p.how = "default" /\ DefaultMember(m, p.x, key) # NullVal ->
                     Deliver(m, ks, DefaultMember(m, p.x, key))
               [] p.how = "meta" /\ mm # NullVal ->
                     CallMeta(m, mm, <<p.x, key>>, <<[op |-> "getmm", self |-> self, key |-> key,
                                                      places |-> places]>> \o ks)
               [] OTHER -> TryGet(m, self, key, Tail(places), ks)

Get(m, self, key, selfidx, ks) ==
    IF TypeOf(m, self) = "array" /\ key[1] = "int" /\ ~HasSlot(m, self, key)
    THEN FailK(Raise(m, "the index does not exist"), ks)
    ELSE TryGet(m, self, key, GetPlan(m, self, selfidx), ks)

RECURSIVE TrySet(_, _, _, _, _, _)
TrySet(m, self, key, val, places, ks) ==
    LET p == Head(places)
        mm == MetaMethod(m, p.x, "_set")
    IN  IF places = <<>> THEN FailK(Raise(m, "the index does not exist"), ks)
        ELSE CASE p.how = "slot" /\ CanSet(m, p.x, key) -> Deliver(SetSlot(m, p.x, key, val), ks, val)
               [] p.how = "meta" /\ mm # NullVal ->
                     CallMeta(m, mm, <<p.x, key, val>>, <<[op |-> "setmm", self |-> self, key |-> key,
                                                           val |-> val, places |-> places]>> \o ks)
               [] OTHER -> TrySet(m, self, key, val, Tail(places), ks)

Set(m, self, key, val, selfidx, ks) ==
    CASE IsType(m, self, {"table", "instance"}) ->
            TrySet(m, self, key, val, SetPlan(m, self, selfidx), ks)
      [] TypeOf(m, self) = "array" ->
            IF CanSet(m, self, key) THEN Deliver(SetSlot(m, self, key, val), ks, val)
            ELSE FailK(Raise(m, "the index does not exist"), ks)
      [] OTHER -> FailK(Raise(m, "trying to set"), ks)

\* A failed metamethod ends the lookup only if it is the object's own and
\* the error is not null; a delegate's failure counts as "not found".
AfterGetMeta(m, k, ks) ==
    LET p == Head(k.places)
        rest == Tail(k.places)
    IN  IF m.lasterror = NullVal THEN TryGet(m, k.self, k.key, rest, ks)
        ELSE IF p.x = k.self THEN FailK(m, ks) ELSE TryGet(m, k.self, k.key, Tail(rest), ks)

AfterSetMeta(m, k, ks) ==
    IF m.lasterror # NullVal /\ Head(k.places).x = k.self THEN FailK(m, ks)
    ELSE TrySet(m, k.self, k.key, k.val, Tail(k.places), ks)

NewSlot(m, self, key, val, static, ks) ==
    LET mm == MetaMethod(m, self, "_newslot")
        new == ClassNewSlot(m, self, key, val, static)
        ByMeta == CallMetaMethod(m, mm, <<self, key, val>>, <<[op |-> "value", val |-> val]>> \o ks)
    IN  CASE key = NullVal -> FailK(Raise(m, "null cannot be used as index"), ks)
          [] key # NullVal /\ TypeOf(m, self) = "table" ->
                IF mm # NullVal /\ ~HasSlot(m, self, key) THEN ByMeta
                ELSE Deliver(TableNewSlot(m, self, key, val), ks, val)
          [] key # NullVal /\ TypeOf(m, self) = "instance" ->
                IF mm # NullVal THEN ByMeta
                ELSE FailK(Raise(m, "class instances do not support the new slot operator"), ks)
          [] key # NullVal /\ TypeOf(m, self) = "class" ->
                IF new[1] THEN Deliver(new[2], ks, val)
                ELSE FailK(Raise(m, "trying to modify a class that has already been instantiated"), ks)
          [] OTHER -> FailK(Raise(m, "indexing"), ks)

SetAttributes(m, c, key, attrs) ==
    IF attrs = NullVal \/ key \notin DOMAIN Obj(m, c).members THEN m
    ELSE Update(m, c, [Obj(m, c) EXCEPT !.members[key].attrs = attrs])

NewSlotA(m, self, key, val, attrs, static, ks) ==
    LET mm == Obj(m, self).mm
    IN  IF TypeOf(m, self) # "class" THEN FailK(Raise(m, "object must be a class"), ks)
        ELSE IF "_newmember" \in DOMAIN mm
             THEN CallMetaMethod(m, mm["_newmember"], <<self, key, val, attrs, BoolVal(static)>>, ks)
             ELSE NewSlot(m, self, key, val, static,
                          <<[op |-> "attrs", self |-> self, key |-> key, attrs |-> attrs]>> \o ks)

DeleteSlot(m, self, key, ks) ==
    LET mm == MetaMethod(m, self, "_delslot")
    IN  CASE IsType(m, self, {"table", "instance"}) /\ mm # NullVal ->
                CallMetaMethod(m, mm, <<self, key>>, ks)
          [] TypeOf(m, self) = "table" /\ mm = NullVal ->
                IF HasSlot(m, self, key)
                THEN Deliver(TableRemove(m, self, key), ks, SlotOf(m, self, key))
                ELSE FailK(Raise(m, "the index does not exist"), ks)
          [] OTHER -> FailK(Raise(m, "cannot delete a slot"), ks)

\* SQVM::Clone; _cloned is called on the new object.
Clone(m, self, ks) ==
    LET new == New(m, Obj(m, self))
        mm == MetaMethod(new[1], new[2], "_cloned")
    IN  IF ~IsType(m, self, {"table", "instance", "array"}) THEN FailK(Raise(m, "cloning"), ks)
        ELSE IF mm = NullVal THEN Deliver(new[1], ks, new[2])
        ELSE CallMetaMethod(new[1], mm, <<new[2], self>>, <<[op |-> "value", val |-> new[2]]>> \o ks)

-----------------------------------------------------------------------------
(* Operators                                                               *)

Outcome(m, r, ks) ==
    CASE r.ok = "yes" -> Deliver(m, ks, r.val)
      [] r.ok = "no" -> FailK([m EXCEPT !.lasterror = r.val], ks)
      [] OTHER -> [m EXCEPT !.undefined = TRUE]

StringOf(m, x, ks) ==
    LET mm == MetaMethod(m, x, "_tostring")
    IN  IF TypeOf(m, x) = "str" THEN Deliver(m, ks, x)
        ELSE IF mm = NullVal THEN Deliver(m, ks, <<"cat", <<x>>>>)
        ELSE CallMetaMethod(m, mm, <<x>>, <<[op |-> "tostring", x |-> x]>> \o ks)

\* SQVM::ARITH_OP; with fast the macro of the opcode is tried first.
Arith(m, op, x, y, fast, ks) ==
    LET name == [ADD |-> "_add", SUB |-> "_sub", MUL |-> "_mul", DIV |-> "_div", MOD |-> "_modulo"]
        mm == MetaMethod(m, x, name[op])
    IN  CASE x[1] = "int" /\ y[1] = "int" ->
                Outcome(m, IF fast THEN FastArith(op, x[2], y[2]) ELSE IntArith(op, x[2], y[2]), ks)
          [] op = "ADD" /\ "str" \in {TypeOf(m, x), TypeOf(m, y)} ->
                StringOf(m, x, <<[op |-> "cat", y |-> y]>> \o ks)
          [] OTHER -> IF mm = NullVal THEN FailK(Raise(m, "arith op"), ks)
                      ELSE CallMetaMethod(m, mm, <<x, y>>, ks)

Cmp(m, op, x, y, ks) ==
    LET mm == MetaMethod(m, x, "_cmp")
        k == <<[op |-> "cmp", cmp |-> op]>> \o ks
    IN  IF x # y /\ TypeOf(m, x) = TypeOf(m, y) /\ mm # NullVal
        THEN CallMetaMethod(m, mm, <<x, y>>, k)
        ELSE Outcome(m, ObjCmp(m, x, y), k)

\* SQVM::DerefInc: Get, ARITH_OP, Set; a postfix operator yields the old value.
DerefInc(m, op, self, key, incr, postfix, selfidx, ks) ==
    Get(m, self, key, selfidx,
        <<[op |-> "derefinc", aop |-> op, self |-> self, key |-> key, incr |-> incr,
           postfix |-> postfix, idx |-> selfidx]>> \o ks)

\* The metamethod of a unary operator, or the operator on a plain value.
UnaryMeta(m, x, name, plain, ks) ==
    LET mm == MetaMethod(m, x, name)
    IN  IF mm # NullVal THEN CallMetaMethod(m, mm, <<x>>, ks) ELSE Outcome(m, plain, ks)

Neg(m, x, ks) ==
    UnaryMeta(m, x, "_unm", IF x[1] = "int" THEN Ok(IntVal(Wrap(-x[2]))) ELSE Err("negate"), ks)
TypeOfOp(m, x, ks) == UnaryMeta(m, x, "_typeof", Ok(StrVal(TypeOf(m, x))), ks)

\* SQVM::CLOSURE_OP
CaptureOuter(m, v) ==
    IF v.type = "local" THEN FindOuter(m, m.base + v.src)
    ELSE <<m, Obj(m, Frame(m).clo).outers[v.src + 1]>>

ClosureOp(m, r, k, bound) ==
    LET path == Append(Obj(m, Frame(m).clo).fn, k)
        func == FunctionAt(m, path)
        cap == FoldLeft(LAMBDA a, v : LET b == CaptureOuter(a[1], v) IN <<b[1], Append(a[2], b[2])>>,
                        <<m, <<>>>>, func.outervalues)
        env == IF bound = NoReg THEN NullVal ELSE Reg(m, bound)
        new == New(cap[1], [type |-> "closure", fn |-> path, outers |-> cap[2], env |-> env,
                            defs |-> [i \in DOMAIN func.defs |-> Reg(m, func.defs[i])],
                            base |-> NullVal])
    IN  IF bound # NoReg /\ ~IsType(m, env, {"table", "class", "instance", "array"})
        THEN Throw(Raise(cap[1], "cannot bind as environment object"))
        ELSE SetReg(new[1], r, new[2])

\* SQVM::CLASS_OP: _inherited is called without raising nmeta, so the stack
\* may move while `target' refers to a register.
ClassOp(m, r, base, attrs) ==
    LET b == IF base = -1 THEN NullVal ELSE Reg(m, base)
        at == IF attrs = NoReg THEN NullVal ELSE Reg(m, attrs)
        new == New(m, NewClass(m, b))
        d == SetReg(new[1], r, new[2])
        mm == Obj(d, new[2]).mm
        p == PushAll(d, <<new[2], at>>)
        k == [op |-> "inherited", class |-> new[2], attrs |-> at, alloc |-> m.alloc, called |-> TRUE]
    IN  IF base # -1 /\ TypeOf(m, b) # "class" THEN Throw(Raise(m, "trying to inherit"))
        ELSE IF "_inherited" \in DOMAIN mm
             THEN Call(p, mm["_inherited"], 2, p.top - 2, FALSE, <<k>>)
             ELSE Deliver(d, <<[k EXCEPT !.called = FALSE]>>, NullVal)

-----------------------------------------------------------------------------
(* The natives, and SQVM::Call                                             *)

Arg(m, i) == Reg(m, i - 1)          \* stack_get(v, i)
NArgs(m) == m.top - m.base          \* sq_gettop(v)

\* __map_array pushes two to four values but passes as many as the callback
\* has parameters.
MapArgs(m, f) ==
    IF TypeOf(m, f) = "closure" THEN FunctionOf(m, f).nparams
    ELSE IF Checks[f[2]][1] > 0 THEN Checks[f[2]][1] ELSE 4

MapNext(m, fn, st, ks) ==
    LET src == Arg(m, 1)
        n == MapArgs(m, Arg(m, 2))
        val == IF InArray(Obj(m, src), IntVal(st.n)) THEN Obj(m, src).vals[st.n + 1] ELSE st.temp
        p == PushAll(m, <<src, val>> \o (IF n >= 3 THEN <<IntVal(st.n)>> ELSE <<>>)
                        \o (IF n >= 4 THEN <<src>> ELSE <<>>))
    IN  IF st.n < st.size THEN SqCall(p, n, FALSE, fn, [st EXCEPT !.temp = val], ks)
        ELSE IF fn = "array_map" THEN NativePush(Pop(m, 1), st.ret, ks)
        ELSE NativeReturn(Pop(Pop(m, 1), 1), 1, ks)

\* array_filter and array_reduce push the array through a reference to their
\* slot, taken before the first callback: it is stale once the stack has moved.
PushSlot(m, st) == Push([m EXCEPT !.undefined = @ \/ st.alloc # m.alloc], Arg(m, 1))

FilterNext(m, st, ks) ==
    LET a == Obj(m, Arg(m, 1)).vals
        val == IF st.n < Len(a) THEN a[st.n + 1] ELSE st.temp
    IN  IF st.n < st.size
        THEN SqCall(PushAll(PushSlot(m, st), <<IntVal(st.n), val>>), 3, FALSE, "array_filter",
                    [st EXCEPT !.temp = val], ks)
        ELSE NativePush(m, st.ret, ks)

ReduceNext(m, st, ks) ==
    LET a == Obj(m, Arg(m, 1)).vals
        other == IF st.n < Len(a) THEN a[st.n + 1] ELSE st.temp
    IN  IF st.n < st.size
        THEN SqCall(PushAll(PushSlot(m, st), <<st.ret, other>>), 3, FALSE, "array_reduce",
                    [st EXCEPT !.temp = other], ks)
        ELSE NativePush(Pop(m, 1), st.ret, ks)

ArrayCallback(m, fn, st, ks) ==
    LET res == At(m, m.top - 1)
        a == Obj(m, Arg(m, 1)).vals
        size == Len(a)
        start == [pc |-> 1, n |-> 0, size |-> size, temp |-> NullVal, ret |-> NullVal,
                  alloc |-> m.alloc]
        fresh == New(m, NewArray(IF fn = "array_map" THEN [i \in 1..size |-> NullVal] ELSE <<>>))
        next == [st EXCEPT !.n = @ + 1]
        popped == Pop(m, 1)
        dest == IF fn = "array_map" THEN st.ret ELSE Arg(m, 1)
        stored == IF CanSet(m, dest, IntVal(st.n)) THEN SetSlot(popped, dest, IntVal(st.n), res)
                  ELSE popped
        kept == IF IsFalse(res) THEN popped
                ELSE Update(popped, st.ret, [Obj(m, st.ret) EXCEPT !.vals = Append(@, st.temp)])
        \* array_reduce starts from its third argument or the first element.
        init == IF NArgs(m) > 2 THEN [start EXCEPT !.ret = Arg(m, 3)]
                ELSE [start EXCEPT !.ret = a[1], !.n = 1]
    IN  CASE fn = "array_map" /\ st.pc = 0 ->
                MapNext(Push(fresh[1], Arg(m, 2)), fn, [start EXCEPT !.ret = fresh[2]], ks)
          [] fn = "array_apply" /\ st.pc = 0 -> MapNext(Push(m, Arg(m, 2)), fn, start, ks)
          [] fn \in {"array_map", "array_apply"} /\ st.pc = 1 -> MapNext(stored, fn, next, ks)
          [] fn = "array_filter" ->
                IF st.pc = 0 THEN FilterNext(fresh[1], [start EXCEPT !.ret = fresh[2]], ks)
                ELSE FilterNext(kept, next, ks)
          [] fn = "array_reduce" /\ st.pc = 0 ->
                IF size = 0 /\ NArgs(m) <= 2 THEN NativeReturn(m, 0, ks)
                ELSE IF init.n < size THEN ReduceNext(Push(m, Arg(m, 2)), init, ks)
                ELSE NativePush(m, init.ret, ks)
          [] OTHER -> ReduceNext(popped, [next EXCEPT !.ret = res], ks)

\* thread_call, thread_wakeup and thread_wakeupthrow run code on the stack of
\* another thread; st.from is the calling thread.
ThreadStart(m, fn, ks) ==
    LET t == Obj(m, Arg(m, 1)).th
        state == VmState(Thread(m, t))
        args == [i \in 1..(NArgs(m) - 1) |-> Arg(m, i + 1)]
        there == SwitchTo(m, t)
        st == [pc |-> 1, from |-> m.cur]
        wake == [op |-> "wake", from |-> m.cur,
                 rethrow |-> fn = "thread_wakeup" \/ NArgs(m) <= 2 \/ ~IsFalse(Arg(m, 3))]
        thrown == [there EXCEPT !.lasterror = Arg(m, 2)]
    IN  CASE fn = "thread_call" ->
                SqCall(PushAll(there, <<Root>> \o args), NArgs(m), TRUE, fn, st, ks)
          [] fn # "thread_call" /\ state # "suspended" ->
                NativeError(Raise(m, "cannot wakeup a thread that is not suspended"), ks)
          [] fn = "thread_wakeup" /\ state = "suspended" ->
                IF args = <<>> THEN WakeupVm(there, FALSE, FALSE, <<wake>> \o ks)
                ELSE WakeupVm(Push(there, args[1]), TRUE, FALSE, <<wake>> \o ks)
          [] OTHER -> WakeupVm(thrown, FALSE, TRUE, <<wake>> \o ks)

\* A native at its beginning (st.pc = 0) or after its sq_call.
NativeStep(m, fn, st, ks) ==
    LET last == At(m, m.top - 1)
        closure == Obj(m, Arg(m, 1))
        acall == PushAll(m, <<Arg(m, 1)>> \o Obj(m, Arg(m, 2)).vals)
        del == SetDelegate(m, Arg(m, 1), Arg(m, 2))
        bound == New(m, [closure EXCEPT !.env = Arg(m, 2)])
        size == Max({StackOverhead + 2, 2 * FunctionOf(m, Arg(m, 2)).size + 2})
        thread == New(m, [type |-> "thread", th |-> Len(m.parked) + 1])
        parked == [NewThread(m, size) EXCEPT !.stk[0] = Arg(m, 2), !.top = 1]
    IN  CASE fn = "print" -> NativeReturn([m EXCEPT !.out = Append(@, Arg(m, 2))], 0, ks)
          [] fn = "input" -> NativePush([m EXCEPT !.ins = Tail(@)], Head(m.ins), ks)
          [] fn = "seterrorhandler" -> NativeReturn([m EXCEPT !.handler = Arg(m, 2)], 0, ks)
          [] fn = "suspend" ->
                IF m.suspended \/ m.nnative # 2
                THEN NativeError(Raise(m, "cannot suspend through native calls/metamethods"), ks)
                ELSE NativeSuspend(m, ks)
          [] fn = "newthread" ->
                NativePush([thread[1] EXCEPT !.parked = Append(@, parked)], thread[2], ks)
          [] fn = "closure_call" /\ st.pc = 0 ->
                IF TypeOf(m, last) = "closure" /\ ~FunctionOf(m, last).generator
                THEN SqTailcall(m, NArgs(m) - 1, ks)
                ELSE SqCall(m, NArgs(m) - 1, TRUE, fn, [pc |-> 1], ks)
          [] fn = "closure_pcall" /\ st.pc = 0 -> SqCall(m, NArgs(m) - 1, FALSE, fn, [pc |-> 1], ks)
          [] fn \in {"closure_acall", "closure_pacall"} /\ st.pc = 0 ->
                SqCall(acall, Len(Obj(m, Arg(m, 2)).vals), fn = "closure_acall", fn, [pc |-> 1], ks)
          [] fn \in {"closure_call", "closure_pcall", "closure_acall", "closure_pacall"} /\ st.pc = 1 ->
                NativeReturn(m, 1, ks)
          [] fn = "closure_bindenv" -> NativePush(Pop(bound[1], 1), bound[2], ks)
          [] fn = "generator_getstatus" -> NativePush(m, StrVal(closure.state), ks)
          [] fn = "thread_getstatus" -> NativePush(m, StrVal(VmState(Thread(m, closure.th))), ks)
          [] fn = "thread_call" /\ st.pc = 1 -> NativePush(SwitchTo(Pop(m, 1), st.from), last, ks)
          [] fn \in {"thread_call", "thread_wakeup", "thread_wakeupthrow"} /\ st.pc = 0 ->
                ThreadStart(m, fn, ks)
          [] fn = "table_setdelegate" ->
                IF ~del[1] THEN NativeError(Raise(m, "delegate cycle"), ks)
                ELSE NativePush(Pop(del[2], 1), Arg(m, 1), ks)
          [] fn = "table_rawset" ->
                IF Arg(m, 2) = NullVal THEN NativeError(Raise(m, "null key"), ks)
                ELSE NativeReturn(Pop(TableNewSlot(m, Arg(m, 1), Arg(m, 2), Arg(m, 3)), 2), 1, ks)
          [] fn = "table_rawget" ->
                IF HasSlot(m, Arg(m, 1), Arg(m, 2))
                THEN NativePush(Pop(m, 1), SlotOf(m, Arg(m, 1), Arg(m, 2)), ks)
                ELSE NativeError(Raise(m, "the index doesn't exist"), ks)
          [] fn = "array_append" ->
                NativeReturn(Pop(Update(m, Arg(m, 1), [closure EXCEPT !.vals = Append(@, Arg(m, 2))]), 1),
                             1, ks)
          [] fn = "array_len" -> NativePush(m, IntVal(Len(closure.vals)), ks)
          [] OTHER -> ArrayCallback(m, fn, st, ks)

\* SQVM::CallNative up to the call of the C function.
CallNative(m, nclo, nargs, newbase, target, ks) ==
    LET check == Checks[nclo[2]]
        wrong == \/ check[1] > 0 /\ nargs # check[1]
                 \/ check[1] < 0 /\ nargs < -check[1]
        badtype == \E i \in 1..nargs : /\ i <= Len(check[2])
                                       /\ TypeOf(m, At(m, newbase + i - 1)) \notin check[2][i]
        e == EnterFrame(m, newbase, newbase + nargs, FALSE)
        d == [e[2] EXCEPT !.ci[Len(e[2].ci)].clo = nclo, !.ci[Len(e[2].ci)].target = target,
                          !.nnative = @ + 1]
    IN  CASE m.nnative + 1 > MaxNativeCalls -> FailK(Raise(m, "Native stack overflow"), ks)
          [] ~(m.nnative + 1 > MaxNativeCalls) /\ wrong ->
                FailK(Raise(m, "wrong number of parameters"), ks)
          [] ~(m.nnative + 1 > MaxNativeCalls) /\ ~wrong /\ badtype ->
                FailK(Raise(m, "invalid type"), ks)
          [] OTHER -> IF e[1] THEN RunNative(d, nclo[2], [pc |-> 0], ks) ELSE FailK(e[2], ks)

\* SQVM::Call
CallNow(m, f, nparams, stackbase, raise, ks) ==
    LET inst == CreateInstance(m, f)
        ctor == Constructor(inst[1], f)
    IN  CASE TypeOf(m, f) = "closure" -> Execute(m, f, nparams, stackbase, raise, ks)
          [] TypeOf(m, f) = "native" -> CallNative(m, f, nparams, stackbase, -1, ks)
          [] TypeOf(m, f) = "class" ->
                IF IsFunction(inst[1], ctor)
                THEN Call(Put(inst[1], stackbase, inst[2]), ctor, nparams, stackbase, raise,
                          <<[op |-> "value", val |-> inst[2]]>> \o ks)
                ELSE Deliver(inst[1], ks, inst[2])
          [] OTHER -> FailK(Raise(m, "attempt to call"), ks)

\* sq_call failed in native fn.
NativeFail(m, fn, st, ks) ==
    IF fn # "thread_call" THEN NativeError(m, ks)
    ELSE NativeError([SwitchTo(m, st.from) EXCEPT !.lasterror = m.lasterror], ks)

\* thread_wakeup after sq_wakeupvm
WakeDone(m, k, val, ks) ==
    NativePush(SwitchTo(IF VmState(Fields(m)) = "idle" THEN SetTop(m, 1) ELSE m, k.from), val, ks)
WakeFail(m, k, ks) ==
    LET d == SwitchTo(SetTop(m, 1), k.from)
    IN  IF k.rethrow THEN NativeError([d EXCEPT !.lasterror = m.lasterror], ks)
        ELSE NativeReturn(d, 0, ks)

-----------------------------------------------------------------------------
(* Continuations                                                           *)

DeliverNow(m, ks, val) ==
    LET k == Head(ks)
        rest == Tail(ks)
        attributed == Update(m, k.class, [Obj(m, k.class) EXCEPT !.attrs = k.attrs])
    IN  IF ks = <<>> THEN m
        ELSE CASE k.op = "reg" -> Deliver(SetTarget(m, k.r, val), rest, val)
               [] k.op = "prepcall" -> Deliver(SetReg(m, k.r, Reg(m, k.self)), rest, val)
               [] k.op = "callres" ->
                     Deliver(IF Signed(k.r) = -1 THEN m ELSE SetReg(m, k.r, val), rest, val)
               [] k.op = "jz" -> IF IsFalse(val) THEN Jump(m, k.n) ELSE m
               [] k.op = "value" -> Deliver(m, rest, k.val)
               [] k.op = "ignore" -> Deliver(m, rest, val)
               [] k.op = "attrs" -> Deliver(SetAttributes(m, k.self, k.key, k.attrs), rest, val)
               [] k.op = "meta" -> Deliver(AfterMeta(m, k.n), rest, val)
               [] k.op = "getmm" -> Deliver(AfterMeta(m, 2), rest, val)
               [] k.op = "setmm" -> Deliver(AfterMeta(m, 3), rest, k.val)
               [] k.op = "cmp" ->
                     IF val[1] # "int" THEN FailK(Raise(m, "_cmp must return an integer"), rest)
                     ELSE Deliver(m, rest, CmpResult(k.cmp, val[2]))
               [] k.op = "tostring" ->
                     Deliver(m, rest, IF TypeOf(m, val) = "str" THEN val ELSE <<"cat", <<k.x>>>>)
               [] k.op = "cat" -> StringOf(m, k.y, <<[op |-> "cat2", a |-> val]>> \o rest)
               [] k.op = "cat2" -> Deliver(m, rest, <<"cat", <<k.a, val>>>>)
               [] k.op = "derefinc" ->
                     Arith(m, k.aop, val, k.incr, FALSE,
                           <<[op |-> "store", self |-> k.self, key |-> k.key, idx |-> k.idx]>>
                           \o (IF k.postfix THEN <<[op |-> "value", val |-> val]>> ELSE <<>>) \o rest)
               [] k.op = "store" -> Set(m, k.self, k.key, val, k.idx, rest)
               [] k.op = "plocal" -> Deliver(SetReg(SetTarget(m, k.r, k.old), k.src, val), rest, val)
               [] k.op = "nexti" ->
                     LET d == SetReg(SetReg(m, k.r, val), k.r + 2, val)
                     IN  IF val = NullVal THEN Jump(d, k.exit)
                         ELSE Get(d, k.self, val, -1, <<[op |-> "nextval", r |-> k.r + 1]>>)
               [] k.op = "nextval" -> Jump(SetReg(m, k.r, val), 1)
               [] k.op = "inherited" ->
                     [(IF k.called THEN Pop(attributed, 2) ELSE attributed)
                        EXCEPT !.undefined = @ \/ k.alloc # m.alloc]
               [] k.op = "sqcall" ->
                     RunNative(Push(IF m.suspended THEN m ELSE Pop(m, k.n), val), k.fn, k.st, rest)
               [] k.op = "wake" -> WakeDone(m, k, val, rest)
               [] k.op = "handler" -> Deliver(Pop(m, 2), rest, val)
               [] k.op = "abort" -> ExecuteFail(m)
               [] k.op = "unwind" -> Unwind(m, k.err, k.top)
               [] k.op = "host" ->
                     [m EXCEPT !.status = IF m.suspended THEN "suspended" ELSE "done", !.result = val]

FailNow(m, ks) ==
    LET k == Head(ks)
        rest == Tail(ks)
    IN  IF ks = <<>> THEN Throw(m)
        ELSE CASE k.op = "meta" -> FailK(AfterMeta(m, k.n), rest)
               [] k.op = "getmm" -> AfterGetMeta(AfterMeta(m, 2), k, rest)
               [] k.op = "setmm" -> AfterSetMeta(AfterMeta(m, 3), k, rest)
               [] k.op = "nextval" -> FailK(Raise(m, "_nexti returned an invalid idx"), rest)
               [] k.op = "inherited" -> FailK(Pop(m, 2), rest)
               [] k.op = "ignore" -> m
               [] k.op = "sqcall" -> NativeFail(Pop(m, k.n), k.fn, k.st, rest)
               [] k.op = "wake" -> WakeFail(m, k, rest)
               [] k.op = "handler" -> Deliver(Pop(m, 2), rest, NullVal)
               [] k.op = "host" -> [m EXCEPT !.status = "failed", !.result = m.lasterror]
               [] OTHER -> FailK(m, rest)

\* All that C code does until the next instruction is fetched.
RECURSIVE Run(_)
Run(m) ==
    LET t == m.todo
        d == [m EXCEPT !.todo = Nothing]
    IN  CASE t.do = "nothing" -> m
          [] t.do = "deliver" -> Run(DeliverNow(d, t.ks, t.val))
          [] t.do = "fail" -> Run(FailNow(d, t.ks))
          [] t.do = "throw" -> Run(ThrowNow(d))
          [] t.do = "native" -> Run(NativeStep(d, t.fn, t.st, t.ks))
          [] t.do = "call" -> Run(CallNow(d, t.f, t.nparams, t.stackbase, t.raise, t.ks))
=============================================================================
