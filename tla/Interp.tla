-------------------------------- MODULE Interp --------------------------------
(***************************************************************************)
(* SQVM::Execute: one action per instruction, or per family of them.  A    *)
(* behaviour is the run of one compiled chunk, started by the host with    *)
(* sq_call(v, 1, _, SQTrue).                                               *)
(***************************************************************************)
EXTENDS Vm

CONSTANT Inputs     \* the sequences of values that input() may return

VARIABLE vm

Instruction(m) == FunctionOf(m, Frame(m).clo).code[Frame(m).ip + 1]
Literal(m, k) == FunctionOf(m, Frame(m).clo).lits[k + 1]

BaseNames == {"print", "input", "seterrorhandler", "suspend", "newthread"}
Result(r) == <<[op |-> "reg", r |-> r]>>

\* The host has compiled the chunk and pushed the closure and the root table.
Start(prog, chunk, ins) ==
    LET root == [NewTable EXCEPT !.slots =
                    [k \in {StrVal(n) : n \in BaseNames} |-> Native(k[2])]]
        main == [type |-> "closure", fn |-> <<>>, outers |-> <<>>, env |-> NullVal, defs |-> <<>>,
                 base |-> NullVal]
        m == [prog |-> prog, chunk |-> chunk, given |-> ins, ins |-> ins, out |-> <<>>, result |-> NullVal, todo |-> Nothing,
              heap |-> <<root, main>>, cells |-> <<>>, cs |-> <<>>, cur |-> 1, parked |-> <<<<>>>>,
              status |-> "running", undefined |-> FALSE, handler |-> Native("print")]
        v == PushAll(m @@ NewThread(m, StackSize), <<<<"obj", 2>>, Root>>)
    IN  IF chunk.err # "" THEN [v EXCEPT !.status = "rejected"]
        ELSE Run(Call(v, <<"obj", 2>>, 1, v.top - 1, TRUE, <<[op |-> "host"]>>))

Init ==
    \E p \in DOMAIN Programs, lineinfo \in BOOLEAN :
        LET chunk == Compiled(Programs[p], lineinfo)
        IN  \E ins \in Inputs : vm = Start(p, chunk, ins)

Running == vm.status = "running" /\ ~vm.undefined

\* The instruction i is fetched, ip moves on, and F does the rest, of which Run
\* carries out what F has left to do; a Simple instruction leaves nothing.
Simple(ops, F(_, _)) ==
    /\ Running
    /\ Instruction(vm).op \in ops
    /\ vm' = F(Jump(vm, 1), Instruction(vm))

Exec(ops, F(_, _)) ==
    /\ Running
    /\ Instruction(vm).op \in ops
    /\ vm' = Run(F(Jump(vm, 1), Instruction(vm)))

-----------------------------------------------------------------------------
(* Loads, moves, jumps                                                     *)

DoLoad(m, i) ==
    CASE i.op = "LINE" -> m
      [] i.op = "LOAD" -> SetReg(m, i.a0, Literal(m, i.a1))
      [] i.op = "LOADINT" -> SetReg(m, i.a0, IntVal(i.a1))
      [] i.op = "LOADBOOL" -> SetReg(m, i.a0, BoolVal(i.a1 # 0))
      [] i.op = "LOADROOT" -> SetReg(m, i.a0, Root)
      [] i.op = "LOADNULLS" -> Nullify(m, m.base + i.a0, m.base + i.a0 + i.a1 - 1)
      [] i.op = "DLOAD" -> SetReg(SetReg(m, i.a0, Literal(m, i.a1)), i.a2, Literal(m, i.a3))
      [] i.op = "GETBASE" -> SetReg(m, i.a0, Obj(m, Frame(m).clo).base)
LoadOp == Simple({"LINE", "LOAD", "LOADINT", "LOADBOOL", "LOADROOT", "LOADNULLS", "DLOAD", "GETBASE"},
                 DoLoad)

DoMove(m, i) ==
    LET d == SetReg(m, i.a0, Reg(m, i.a1))
    IN  IF i.op = "MOVE" THEN d ELSE SetReg(d, i.a2, Reg(d, i.a3))
MoveOp == Simple({"MOVE", "DMOVE"}, DoMove)

JumpIf(m, cond, i) == IF cond THEN Jump(m, i.a1) ELSE m
DoJump(m, i) ==
    CASE i.op = "JMP" -> Jump(m, i.a1)
      [] i.op = "JZ" -> JumpIf(m, IsFalse(Reg(m, i.a0)), i)
      [] i.op = "AND" -> IF IsFalse(Reg(m, i.a2)) THEN Jump(SetReg(m, i.a0, Reg(m, i.a2)), i.a1) ELSE m
      [] i.op = "OR" -> IF IsFalse(Reg(m, i.a2)) THEN m ELSE Jump(SetReg(m, i.a0, Reg(m, i.a2)), i.a1)
      [] i.op = "JCMP" -> Cmp(m, i.a3, Reg(m, i.a2), Reg(m, i.a0), <<[op |-> "jz", n |-> i.a1]>>)
JumpOp == Exec({"JMP", "JZ", "AND", "OR", "JCMP"}, DoJump)

-----------------------------------------------------------------------------
(* Calls and returns                                                       *)

\* A result of StartCall or Resume: go on, or throw.
Guard(r) == IF r[1] THEN r[2] ELSE Throw(r[2])

\* SQVM::Execute, _OP_CALL on a class: the instance goes to the register and
\* to the first argument of the constructor.
CallConstructor(m, ctor, inst, i, args) ==
    CASE TypeOf(m, ctor) = "closure" ->
            Guard(StartCall(Put(m, args, inst), ctor, -1, i.a3, args, FALSE))
      [] TypeOf(m, ctor) = "native" -> CallNative(Put(m, args, inst), ctor, i.a3, args, -1, <<>>)
      [] OTHER -> m
Construct(made, f, i, args) ==
    CallConstructor(IF Signed(i.a0) = -1 THEN made[1] ELSE SetReg(made[1], i.a0, made[2]),
                    Constructor(made[1], f), made[2], i, args)

\* The register of the callee's result is sarg0: a signed operand.
DoCall(m, i) ==
    LET f == Reg(m, i.a1)
        args == m.base + i.a2
        mm == MetaMethod(m, f, "_call")
    IN  CASE TypeOf(m, f) = "closure" -> Guard(StartCall(m, f, Signed(i.a0), i.a3, args, FALSE))
          [] TypeOf(m, f) = "native" ->
                CallNative(m, f, i.a3, args, Signed(i.a0), <<[op |-> "callres", r |-> i.a0]>>)
          [] TypeOf(m, f) = "class" -> Construct(CreateInstance(m, f), f, i, args)
          [] IsType(m, f, {"table", "instance"}) /\ mm # NullVal ->
                CallMetaMethod(m, mm, <<f>> \o [j \in 1..i.a3 |-> Reg(m, i.a2 + j - 1)],
                               <<[op |-> "callres", r |-> i.a0]>>)
          [] OTHER -> Throw(Raise(m, "attempt to call"))

\* The arguments move down to the caller's frame, which the callee takes over.
TailCalled(r, top) == IF r[1] THEN KeepTop(r[2], top) ELSE Throw(r[2])
DoTailCall(m, i) ==
    LET f == Reg(m, i.a1)
    IN  IF TypeOf(m, f) = "closure" /\ ~FunctionOf(m, f).generator
        THEN TailCalled(StartCall(MoveArgs(CloseOuters(m, m.base), i.a2, i.a3), f, Frame(m).target,
                                  i.a3, m.base, TRUE), m.top)
        ELSE DoCall(m, i)

DoPrepCall(m, i) ==
    LET o == Reg(m, i.a2)
        key == IF i.op = "PREPCALLK" THEN Literal(m, i.a1) ELSE Reg(m, i.a1)
    IN  Get(m, o, key, i.a2, <<[op |-> "prepcall", self |-> i.a2, r |-> i.a3]>> \o Result(i.a0))

DoReturn(m, i) ==
    LET k == Kill(m, Frame(m).gen)
    IN  IF Frame(m).root THEN ExecuteReturn(Return(k, i.a0, i.a1), ReturnValue(m, i.a0, i.a1))
        ELSE Return(k, i.a0, i.a1)

CallOp == Exec({"CALL"}, DoCall)
TailCallOp == Exec({"TAILCALL"}, DoTailCall)
PrepCallOp == Exec({"PREPCALL", "PREPCALLK"}, DoPrepCall)
ReturnOp == Exec({"RETURN"}, DoReturn)

-----------------------------------------------------------------------------
(* Objects                                                                 *)

DoMember(m, i) ==
    LET a1 == Reg(m, i.a1)
        a2 == Reg(m, i.a2)
        a3 == Reg(m, i.a3)
        attrs == IF i.a0 % 2 = 1 THEN Reg(m, i.a2 - 1) ELSE NullVal
    IN  CASE i.op = "GET" -> Get(m, a1, a2, i.a1, Result(i.a0))
          [] i.op = "GETK" -> Get(m, a2, Literal(m, i.a1), i.a2, Result(i.a0))
          [] i.op = "SET" -> Set(m, a1, a2, a3, i.a1, Result(i.a0))
          [] i.op = "NEWSLOT" -> NewSlot(m, a1, a2, a3, FALSE, Result(i.a0))
          [] i.op = "NEWSLOTA" -> NewSlotA(m, a1, a2, a3, attrs, i.a0 >= 2, <<>>)
          [] i.op = "DELETE" -> DeleteSlot(m, a1, a2, Result(i.a0))
          [] i.op = "EXISTS" -> SetReg(m, i.a0, BoolVal(HasSlot(m, a1, a2)))
MemberOp == Exec({"GET", "GETK", "SET", "NEWSLOT", "NEWSLOTA", "DELETE", "EXISTS"}, DoMember)

DoNewObj(m, i) ==
    LET table == New(m, NewTable)
        array == New(m, NewArray(<<>>))
    IN  CASE i.a3 = 0 -> SetReg(table[1], i.a0, table[2])
          [] i.a3 = 1 -> SetReg(array[1], i.a0, array[2])
          [] OTHER -> ClassOp(m, i.a0, i.a1, i.a2)
NewObjOp == Exec({"NEWOBJ"}, DoNewObj)

DoAppend(m, i) ==
    LET val == CASE i.a2 = 0 -> Reg(m, i.a1)
                 [] i.a2 = 1 -> Literal(m, i.a1)
                 [] i.a2 = 2 -> IntVal(i.a1)
                 [] i.a2 = 4 -> BoolVal(i.a1 # 0)
        arr == Reg(m, i.a0)
    IN  Update(m, arr, [Obj(m, arr) EXCEPT !.vals = Append(@, val)])
AppendOp == Simple({"APPENDARRAY"}, DoAppend)

DoClosure(m, i) == ClosureOp(m, i.a0, i.a1, i.a2)
ClosureMake == Exec({"CLOSURE"}, DoClosure)

DoOuter(m, i) ==
    LET cell == Obj(m, Frame(m).clo).outers[i.a1 + 1]
    IN  CASE i.op = "GETOUTER" -> SetReg(m, i.a0, GetOuter(m, cell))
          [] i.op = "SETOUTER" -> SetTarget(SetOuter(m, cell, Reg(m, i.a2)), i.a0, Reg(m, i.a2))
          [] i.op = "CLOSE" -> CloseOuters(m, m.base + i.a1)
OuterOp == Simple({"GETOUTER", "SETOUTER", "CLOSE"}, DoOuter)

-----------------------------------------------------------------------------
(* Operators                                                               *)

\* The failure of a modulo is not checked.
DoArith(m, i) ==
    LET x == Reg(m, i.a2)
        y == Reg(m, i.a1)
    IN  CASE i.op = "MOD" -> Arith(m, i.op, x, y, FALSE, <<[op |-> "ignore"]>> \o Result(i.a0))
          [] i.op = "BITW" ->
                Outcome(m, IF x[1] = "int" /\ y[1] = "int" THEN BitOp(i.a3, x[2], y[2])
                           ELSE Err("bitwise op"), Result(i.a0))
          [] OTHER -> Arith(m, i.op, x, y, TRUE, Result(i.a0))
ArithOps == Exec({"ADD", "SUB", "MUL", "DIV", "MOD", "BITW"}, DoArith)

DoCompare(m, i) ==
    LET y == IF i.a3 # 0 THEN Literal(m, i.a1) ELSE Reg(m, i.a1)
    IN  CASE i.op = "EQ" -> SetReg(m, i.a0, BoolVal(IsEqual(Reg(m, i.a2), y)))
          [] i.op = "NE" -> SetReg(m, i.a0, BoolVal(~IsEqual(Reg(m, i.a2), y)))
          [] i.op = "CMP" -> Cmp(m, i.a3, Reg(m, i.a2), Reg(m, i.a1), Result(i.a0))
CompareOp == Exec({"EQ", "NE", "CMP"}, DoCompare)

DoInstanceOf(m, i) ==
    LET c == Reg(m, i.a1)
        x == Reg(m, i.a2)
    IN  IF TypeOf(m, c) # "class" THEN Throw(Raise(m, "cannot apply instanceof"))
        ELSE SetReg(m, i.a0, BoolVal(TypeOf(m, x) = "instance" /\ DerivesFrom(m, Obj(m, x).class, c)))
InstanceOfOp == Exec({"INSTANCEOF"}, DoInstanceOf)

DoUnary(m, i) ==
    LET x == Reg(m, i.a1)
    IN  CASE i.op = "NEG" -> Neg(m, x, Result(i.a0))
          [] i.op = "NOT" -> SetReg(m, i.a0, BoolVal(IsFalse(x)))
          [] i.op = "BWNOT" -> Outcome(m, IF x[1] = "int" THEN Ok(IntVal(-x[2] - 1))
                                          ELSE Err("bitwise op"), Result(i.a0))
          [] i.op = "TYPEOF" -> TypeOfOp(m, x, Result(i.a0))
          [] i.op = "CLONE" -> Clone(m, x, Result(i.a0))
UnaryOp == Exec({"NEG", "NOT", "BWNOT", "TYPEOF", "CLONE"}, DoUnary)

\* ++, -- and op= on members (DerefInc) and on locals.
DoIncrement(m, i) ==
    LET diff == IntVal(Signed(i.a3))
        x == Reg(m, i.a1)
    IN  CASE i.op = "COMPARITH" -> DerefInc(m, i.a3, Reg(m, i.a1[1]), Reg(m, i.a2), Reg(m, i.a1[2]),
                                            FALSE, i.a1[1], Result(i.a0))
          [] i.op \in {"INC", "PINC"} ->
                DerefInc(m, "ADD", x, Reg(m, i.a2), diff, i.op = "PINC", i.a1, Result(i.a0))
          [] i.op = "INCL" -> Arith(m, "ADD", x, diff, TRUE, Result(i.a1))
          [] i.op = "PINCL" -> Arith(m, "ADD", x, diff, TRUE,
                                     <<[op |-> "plocal", r |-> i.a0, src |-> i.a1, old |-> x]>>)
IncrementOp == Exec({"COMPARITH", "INC", "PINC", "INCL", "PINCL"}, DoIncrement)

-----------------------------------------------------------------------------
(* Generators and iteration                                                *)

AddTrap(m, n) == [m EXCEPT !.cs[Len(m.cs)].traps = @ + n]

\* The free variables of the frame are closed, so that they survive the move
\* of the registers into the generator.
DoYield(m, i) ==
    LET gen == Frame(m).gen
        val == Reg(m, i.a1)
        y == Yield(CloseOuters(m, m.base), gen, i.a2)
        d == SetReg(AddTrap(y[2], -Frame(m).etraps), i.a1, val)
        r == Return(d, i.a0, i.a1)
    IN  IF gen = NullVal THEN Throw(Raise(m, "only generators can yield"))
        ELSE IF ~y[1] THEN Throw(y[2])
        ELSE IF Frame(m).root THEN ExecuteReturn(r, ReturnValue(d, i.a0, i.a1)) ELSE r
YieldOp == Exec({"YIELD"}, DoYield)

DoResume(m, i) ==
    LET r == Resume(m, Reg(m, i.a1), i.a0)
    IN  IF TypeOf(m, Reg(m, i.a1)) # "generator" THEN Throw(Raise(m, "only generators can be resumed"))
        ELSE IF r[1] THEN AddTrap(r[2], Frame(r[2]).etraps) ELSE Throw(r[2])
ResumeOp == Exec({"RESUME"}, DoResume)

\* The pairs an array, table or class is iterated over, by position.
Pairs(m, x) ==
    LET o == Obj(m, x)
        f == IF o.type = "table" THEN o.slots ELSE [k \in DOMAIN o.members |-> o.members[k].val]
        keys == SetToSeq(DOMAIN f)
    IN  IF o.type = "array" THEN [n \in DOMAIN o.vals |-> <<IntVal(n - 1), o.vals[n]>>]
        ELSE [n \in DOMAIN keys |-> <<keys[n], f[keys[n]]>>]

\* FOREACH_OP: container in a0, key, value and position in a2, a2+1, a2+2.
\* A generator is resumed without adding its traps to those of this Execute.
DoForeach(m, i) ==
    LET x == Reg(m, i.a0)
        pos == IF Reg(m, i.a2 + 2)[1] = "int" THEN Reg(m, i.a2 + 2)[2] ELSE 0
        pairs == Pairs(m, x)
        next == SetReg(SetReg(SetReg(m, i.a2, pairs[pos + 1][1]), i.a2 + 1, pairs[pos + 1][2]),
                       i.a2 + 2, IntVal(pos + 1))
        idx == IntVal(IF Reg(m, i.a2 + 2)[1] = "int" THEN pos + 1 ELSE 0)
        r == Resume(SetReg(SetReg(m, i.a2, idx), i.a2 + 2, idx), x, i.a2 + 1)
        mm == MetaMethod(m, x, "_nexti")
    IN  CASE IsType(m, x, {"table", "array", "class"}) ->
                IF pos < Len(pairs) THEN Jump(next, 1) ELSE Jump(m, i.a1)
          [] TypeOf(m, x) = "instance" ->
                IF mm = NullVal THEN Throw(Raise(m, "_nexti failed"))
                ELSE CallMetaMethod(m, mm, <<x, Reg(m, i.a2 + 2)>>,
                        <<[op |-> "nexti", self |-> x, r |-> i.a2, exit |-> i.a1]>>)
          [] TypeOf(m, x) = "generator" /\ Obj(m, x).state = "dead" -> Jump(m, i.a1)
          [] TypeOf(m, x) = "generator" /\ Obj(m, x).state = "suspended" ->
                IF r[1] THEN r[2] ELSE [r[2] EXCEPT !.undefined = TRUE]
          [] OTHER -> Throw(Raise(m, "cannot iterate"))

DoPostForeach(m, i) == JumpIf(m, Obj(m, Reg(m, i.a0)).state = "dead", [i EXCEPT !.a1 = @ - 1])
ForeachOp == Exec({"FOREACH"}, DoForeach)
PostForeachOp == Simple({"POSTFOREACH"}, DoPostForeach)

-----------------------------------------------------------------------------
(* Exceptions                                                              *)

DoTrap(m, i) ==
    LET n == Len(m.ci)
        et == [top |-> m.top, base |-> m.base, ip |-> Frame(m).ip + i.a1, ext |-> i.a0]
    IN  IF i.op = "PUSHTRAP"
        THEN AddTrap([m EXCEPT !.etraps = Append(@, et), !.ci[n].etraps = @ + 1], 1)
        ELSE AddTrap([m EXCEPT !.etraps = SubSeq(@, 1, Len(@) - i.a0), !.ci[n].etraps = @ - i.a0], -i.a0)
TrapOp == Simple({"PUSHTRAP", "POPTRAP"}, DoTrap)

DoThrow(m, i) == Throw([m EXCEPT !.lasterror = Reg(m, i.a0)])
ThrowOp == Exec({"THROW"}, DoThrow)

-----------------------------------------------------------------------------
Step ==
    \/ LoadOp \/ MoveOp \/ JumpOp \/ CallOp \/ TailCallOp \/ PrepCallOp \/ ReturnOp \/ MemberOp
    \/ NewObjOp \/ AppendOp \/ ClosureMake \/ OuterOp \/ ArithOps \/ CompareOp \/ InstanceOfOp
    \/ UnaryOp \/ IncrementOp \/ YieldOp \/ ResumeOp \/ ForeachOp \/ PostForeachOp \/ TrapOp
    \/ ThrowOp

Halted == ~Running /\ UNCHANGED vm

Next == Step \/ Halted

Spec == Init /\ [][Next]_vm

-----------------------------------------------------------------------------
(* Properties                                                              *)

Threads == DOMAIN vm.parked
SumOver(S, F(_)) == FoldSet(LAMBDA x, n : n + F(x), 0, S)
TrapsOf(frames) == SumOver(DOMAIN frames, LAMBDA k : frames[k].etraps)

\* Exceptions are caught by the innermost try that is still open: the traps
\* on the trap stack are those the frames count, and those the activations of
\* Execute count (`traps', which decides whether an error is reported and must
\* be 0 when the root frame returns) together with the suspended coroutines.
TrapsBalanced ==
    /\ \A t \in Threads : Len(Thread(vm, t).etraps) = TrapsOf(Thread(vm, t).ci)
    /\ SumOver(DOMAIN vm.cs, LAMBDA k : vm.cs[k].traps)
       + SumOver({t \in Threads : Thread(vm, t).suspended}, LAMBDA t : Thread(vm, t).straps)
       = SumOver(Threads, LAMBDA t : Len(Thread(vm, t).etraps))

\* The list of open free variables is sorted by stack position, as FindOuter
\* and CloseOuters rely on; each one points into the stack in use (not one
\* that EnterFrame replaced) at a slot that is still alive; no other variable
\* is open.
OpenOuters ==
    /\ \A t \in Threads :
         LET th == Thread(vm, t)
         IN  \A i \in DOMAIN th.open :
                LET o == vm.cells[th.open[i]]
                IN  /\ o.open /\ o.th = t /\ o.alloc = th.alloc /\ o.idx < th.top
                    /\ \A j \in DOMAIN th.open : i < j => o.idx > vm.cells[th.open[j]].idx
    /\ \A c \in DOMAIN vm.cells : vm.cells[c].open => Contains(Thread(vm, vm.cells[c].th).open, c)

\* The window of the running function lies in the stack, no write goes past
\* the stack's end and no operation the build leaves undefined is reached.
StackInBounds ==
    /\ ~vm.undefined
    /\ vm.status = "running" =>
          /\ vm.top <= Cardinality(DOMAIN vm.stk)
          /\ vm.base + FunctionOf(vm, Frame(vm).clo).size <= vm.top

\* A generator is running exactly while one frame of one coroutine is its,
\* so that it is never resumed twice and never loses its frame.
GeneratorFrames ==
    \A x \in DOMAIN vm.heap : vm.heap[x].type = "generator" =>
        SumOver(Threads, LAMBDA t : Cardinality({k \in DOMAIN Thread(vm, t).ci :
                                        Thread(vm, t).ci[k].gen = <<"obj", x>>}))
            = (IF vm.heap[x].state = "running" THEN 1 ELSE 0)

\* _nnativecalls counts the activations of Execute and the native frames, and
\* _nmetamethodscall the metamethods in progress, on every path out of them:
\* the limit of native calls (never exceeded), suspend and the growth of the
\* stack depend on it.
CallsCounted ==
    LET native == SumOver(Threads, LAMBDA t : Cardinality(
                      {k \in DOMAIN Thread(vm, t).ci : Thread(vm, t).ci[k].clo[1] = "native"}))
        meta == SumOver(DOMAIN vm.cs, LAMBDA a : Cardinality(
                      {k \in DOMAIN vm.cs[a].ks : vm.cs[a].ks[k].op \in {"meta", "getmm", "setmm"}}))
    IN  /\ SumOver(Threads, LAMBDA t : Thread(vm, t).nnative) = Len(vm.cs) + native
        /\ SumOver(Threads, LAMBDA t : Thread(vm, t).nmeta) = meta
        /\ \A t \in Threads : Thread(vm, t).nnative \in 0..MaxNativeCalls

\* The layout of a class does not change once it has instances, however the
\* class, its bases or the instances are used: instances are indexed by it.
InstanceLayout ==
    \A x \in DOMAIN vm.heap : vm.heap[x].type = "instance" =>
        LET c == Obj(vm, vm.heap[x].class)
        IN  DOMAIN vm.heap[x].vals = {k \in DOMAIN c.members : c.members[k].field}

\* The compiler's stack of targets is empty at the end of every function, but
\* for one target that each `local function f[env]()' leaves behind
\* (LocalDeclStatement does not let CreateFunction pop it), and no register was
\* freed that was not the last one (the assertions of PopTarget and of
\* ParseTableOrClass).
TargetsBalanced ==
    LET c == vm.chunk
    IN  vm.status # "rejected" => c.targetsLeft = c.boundLocals /\ c.assertOk
=============================================================================
