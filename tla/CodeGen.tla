------------------------------- MODULE CodeGen -------------------------------
(***************************************************************************)
(* The compiler of Squirrel: sqcompiler.cpp (SQCompiler) and               *)
(* sqfuncstate.cpp (SQFuncState), from the syntax tree of a chunk to the   *)
(* SQFunctionProto that SQVM::Execute runs.                                *)
(*                                                                         *)
(* A syntax tree is a tuple whose first element names its form.  The code  *)
(* parses and emits in one pass; here the tree stands for the tokens, and  *)
(* what the code learns by peeking at _token is the argument `next'.       *)
(* The compiler's state is a record c: the stack fs of function states     *)
(* (the last one is _fs), _es, _scope, the table _consts and the first     *)
(* error.  Every operator maps c to the c the function leaves behind.      *)
(* Registers, positions and jumps count from 0 as in the code.             *)
(***************************************************************************)
EXTENDS Objects

CONSTANT ArgBits    \* width of the operands _arg0, _arg2, _arg3: 8 in the code

ASSUME CodeGenAssumption == ArgBits \in 2..8

None == <<"none">>

\* MAX_FUNC_STACKSIZE, which is also the operand that means "no register".
NoReg == 2^ArgBits - 1
Byte(n) == n % 2^ArgBits
\* sarg0, sarg3: the operand read as a signed char.
Signed(n) == IF n < 2^(ArgBits - 1) THEN n ELSE n - 2^ArgBits

Instr(op, a0, a1, a2, a3) ==
    [op |-> op, a0 |-> Byte(a0), a1 |-> a1, a2 |-> Byte(a2), a3 |-> Byte(a3)]

-----------------------------------------------------------------------------
(* SQFuncState                                                             *)

NewFuncState ==
    [code |-> <<>>, lits |-> <<>>, vlocals |-> <<>>, targets |-> <<>>, size |-> 0,
     traps |-> 0, outers |-> 0, opt |-> TRUE, returnexp |-> 0, params |-> <<>>,
     defs |-> <<>>, varparams |-> FALSE, generator |-> FALSE, outervalues |-> <<>>,
     functions |-> <<>>, breaks |-> <<>>, continues |-> <<>>,
     ubreaks |-> <<>>, ucontinues |-> <<>>]

Fs(c) == c.fs[Len(c.fs)]
WithFs(c, f) == [c EXCEPT !.fs[Len(c.fs)] = f]
Fail(c, msg) == IF c.err = "" THEN [c EXCEPT !.err = msg] ELSE c
\* What follows c is d, unless an error has ended the compilation.
GoOn(c, d) == IF c.err # "" THEN c ELSE d

GetCurrentPos(c) == Len(Fs(c).code) - 1
GetStackSize(c) == Len(Fs(c).vlocals)
\* Mutant: the optimizer looks across the target of a jump.
SnoozeOpt_Nothing(c) == c

SnoozeOpt(c) == [c EXCEPT !.fs[Len(c.fs)].opt = FALSE]

IsLocalIn(f, reg) == reg < Len(f.vlocals) /\ f.vlocals[reg + 1].name # ""
IsLocal(c, reg) == IsLocalIn(Fs(c), reg)

PushVar(f, name) ==
    LET v == Append(f.vlocals, [name |-> name, outer |-> FALSE])
    IN  [f EXCEPT !.vlocals = v, !.size = Max({@, Len(v)})]

PushLocalVariable(c, name) == WithFs(c, PushVar(Fs(c), name))

AllocStackPos(c) ==
    LET f == Fs(c)
        d == WithFs(c, PushVar(f, ""))
    IN  IF Len(f.vlocals) + 1 > f.size /\ f.size > NoReg
        THEN Fail(d, "too many locals") ELSE d

\* PushTarget(n): an existing register, or (PushNew) a fresh one.
PushTarget(c, n) == [c EXCEPT !.fs[Len(c.fs)].targets = Append(@, n)]
PushNew(c) == PushTarget(AllocStackPos(c), GetStackSize(c))
TopTarget(c) == Last(Fs(c).targets)

\* The last local goes, whichever register the target names: the assertion
\* of the code is that the target is one of the function's registers.
PopTarget(c) ==
    LET f == Fs(c)
        t == Last(f.targets)
        d == [f EXCEPT !.targets = Front(@),
                       !.vlocals = IF IsLocalIn(f, t) \/ @ = <<>> THEN @ ELSE Front(@)]
    IN  IF t < Len(f.vlocals) THEN WithFs(c, d)
        ELSE [WithFs(c, d) EXCEPT !.assertOk = FALSE]

PopTargets(c, n) == FoldLeft(LAMBDA d, i : PopTarget(d), c, [i \in 1..n |-> i])

SetStackSize(c, n) ==
    LET f == Fs(c)
        gone == {k \in 1..Len(f.vlocals) : k > n /\ f.vlocals[k].outer}
    IN  IF Len(f.vlocals) <= n THEN c
        ELSE WithFs(c, [f EXCEPT !.vlocals = SubSeq(@, 1, n),
                                 !.outers = @ - Cardinality(gone)])

CountOuters(c, stacksize) ==
    Cardinality({k \in 1..GetStackSize(c) : k > stacksize /\ Fs(c).vlocals[k].outer})

GetConstant(c, v) ==
    LET f == Fs(c)
    IN  IF Contains(f.lits, v) THEN c ELSE WithFs(c, [f EXCEPT !.lits = Append(@, v)])
LitIndex(c, v) == (CHOOSE k \in DOMAIN Fs(c).lits : Fs(c).lits[k] = v) - 1

FindLocal(f, name) == Max({k - 1 : k \in {j \in DOMAIN f.vlocals : f.vlocals[j].name = name}} \cup {-1})
GetLocalVariable(c, name) == FindLocal(Fs(c), name)

\* GetOuterVariable of the function state at `level': the index of the free
\* variable, or -1, and the state in which it is registered on the way.
RECURSIVE GetOuterVariable(_, _, _)
GetOuterVariable(c, level, name) ==
    LET f == c.fs[level]
        known == {k \in DOMAIN f.outervalues : f.outervalues[k].name = name}
        Register(d, type, src) ==
            <<[d EXCEPT !.fs[level].outervalues =
                   Append(@, [name |-> name, type |-> type, src |-> src])],
              Len(f.outervalues)>>
        pos == FindLocal(c.fs[level - 1], name)
        up == GetOuterVariable(c, level - 1, name)
    IN  CASE known # {} -> <<c, Min(known) - 1>>
          [] known = {} /\ level = 1 -> <<c, -1>>
          [] known = {} /\ level > 1 /\ pos # -1 ->
                Register([c EXCEPT !.fs[level - 1].vlocals[pos + 1].outer = TRUE,
                                   !.fs[level - 1].outers = @ + 1], "local", pos)
          [] OTHER -> IF up[2] = -1 THEN <<c, -1>> ELSE Register(up[1], "outer", up[2])

-----------------------------------------------------------------------------
(* AddInstruction and its optimizer: i either is appended or changes the   *)
(* previous instruction.                                                   *)

FoldableMoves ==
    {"GET", "ADD", "SUB", "MUL", "DIV", "MOD", "BITW", "LOADINT", "LOADBOOL", "LOAD"}
AppendKind == [LOAD |-> 1, LOADINT |-> 2, LOADBOOL |-> 4]

\* An instruction that needs no store of its result.
Discards(i) ==
    IF \/ i.op \in {"SET", "NEWSLOT"} /\ i.a0 = i.a3
       \/ i.op = "SETOUTER" /\ i.a0 = i.a2
    THEN [i EXCEPT !.a0 = NoReg] ELSE i

AddInst(c, i) ==
    LET f == Fs(c)
        n == Len(f.code)
        p == f.code[n]
        Prev(op, reg) == p.op = op /\ p.a0 = reg /\ ~IsLocalIn(f, reg)
        Becomes(q) == WithFs(c, [f EXCEPT !.code[n] = q])
        Push(g, j) == WithFs(c, [g EXCEPT !.code = Append(@, j), !.opt = TRUE])
    IN  IF n = 0 \/ ~f.opt THEN Push(f, i) ELSE
        CASE i.op = "JZ" /\ p.op = "CMP" /\ p.a1 < NoReg ->
                Becomes([p EXCEPT !.op = "JCMP", !.a0 = Byte(p.a1), !.a1 = i.a1])
          [] i.op = "RETURN" /\ Len(c.fs) > 1 /\ i.a0 # NoReg /\ p.op = "CALL"
                /\ f.returnexp < n - 1 ->
                Push([f EXCEPT !.code[n].op = "TAILCALL"], i)
          [] i.op = "RETURN" /\ p.op = "CLOSE" -> Becomes(i)
          [] i.op = "GET" /\ Prev("LOAD", i.a2) ->
                Becomes([p EXCEPT !.op = "GETK", !.a0 = i.a0, !.a2 = Byte(i.a1)])
          [] i.op = "PREPCALL" /\ Prev("LOAD", i.a1) ->
                Becomes([p EXCEPT !.op = "PREPCALLK", !.a0 = i.a0, !.a2 = i.a2, !.a3 = i.a3])
          [] i.op = "APPENDARRAY" /\ p.op \in DOMAIN AppendKind /\ Prev(p.op, i.a1) ->
                Becomes(Instr("APPENDARRAY", i.a0, p.a1, AppendKind[p.op], NoReg))
          [] i.op = "MOVE" /\ p.op \in FoldableMoves /\ p.a0 = i.a1 ->
                WithFs(c, [f EXCEPT !.code[n].a0 = i.a0, !.opt = FALSE])
          [] i.op = "MOVE" /\ p.op = "MOVE" ->
                Becomes([p EXCEPT !.op = "DMOVE", !.a2 = i.a0, !.a3 = Byte(i.a1)])
          [] i.op = "LOAD" /\ p.op = "LOAD" /\ i.a1 <= NoReg ->
                Becomes([p EXCEPT !.op = "DLOAD", !.a2 = i.a0, !.a3 = Byte(i.a1)])
          [] i.op \in {"EQ", "NE"} /\ Prev("LOAD", i.a1) ->
                Becomes([p EXCEPT !.op = i.op, !.a0 = i.a0, !.a2 = i.a2, !.a3 = NoReg])
          [] i.op = "LOADNULLS" /\ p.op = "LOADNULLS" /\ p.a0 + p.a1 = i.a0 ->
                Becomes([p EXCEPT !.a1 = @ + 1])
          [] i.op = "LINE" /\ p.op = "LINE" -> Push([f EXCEPT !.code = Front(@)], i)
          [] OTHER -> Push(f, Discards(i))

Add(c, op, a0, a1, a2, a3) == AddInst(c, Instr(op, a0, a1, a2, a3))
\* AddInstruction(op, PushTarget(), ...)
AddNew(c, op, a1, a2, a3) == LET d == PushNew(c) IN Add(d, op, TopTarget(d), a1, a2, a3)
LoadConst(c, v) == LET d == GetConstant(PushNew(c), v)
                   IN  Add(d, "LOAD", TopTarget(d), LitIndex(d, v), 0, 0)

SetParam(c, pos, field, val) ==
    [c EXCEPT !.fs[Len(c.fs)].code[pos + 1][field] =
         IF field = "a1" THEN val ELSE Byte(val)]
\* Makes the jump at pos land after the last instruction.
JumpHere(c, pos) == SetParam(c, pos, "a1", GetCurrentPos(c) - pos)

AddLineInfos(c) == IF c.lineinfo THEN Add(c, "LINE", 0, 0, 0, 0) ELSE c

DiscardTarget(c) ==
    LET t == TopTarget(c)
        d == PopTarget(c)
        f == Fs(d)
        n == Len(f.code)
        unused == /\ n > 0 /\ f.opt /\ f.code[n].a0 = t
                  /\ f.code[n].op \in {"SET", "NEWSLOT", "SETOUTER", "CALL"}
    IN  GoOn(c, IF unused THEN WithFs(d, [f EXCEPT !.code[n].a0 = NoReg]) ELSE d)

BuildProto(f) ==
    [code |-> f.code, lits |-> f.lits, size |-> f.size, nparams |-> Len(f.params),
     params |-> f.params, defs |-> f.defs, varparams |-> f.varparams,
     generator |-> f.generator, outervalues |-> f.outervalues, functions |-> f.functions]

-----------------------------------------------------------------------------
(* Scopes and breakable blocks                                             *)

BeginScope(c) == [c EXCEPT !.scope = [outers |-> Fs(c).outers, size |-> GetStackSize(c)]]

\* RESOLVE_OUTERS: break and continue close the locals of the innermost scope.
ResolveOuters(c) ==
    IF GetStackSize(c) # c.scope.size /\ CountOuters(c, c.scope.size) > 0
    THEN Add(c, "CLOSE", 0, c.scope.size, 0, 0) ELSE c

EndScopeNoClose(c, old) == [SetStackSize(c, c.scope.size) EXCEPT !.scope = old]

EndScope(c, old) ==
    LET d == SetStackSize(c, c.scope.size)
        e == IF Fs(d).outers # Fs(c).outers THEN Add(d, "CLOSE", 0, c.scope.size, 0, 0) ELSE d
    IN  [e EXCEPT !.scope = old]

BeginBreakable(c) ==
    [c EXCEPT !.fs[Len(c.fs)].breaks = Append(@, 0), !.fs[Len(c.fs)].continues = Append(@, 0)]

\* The last n jumps of `pending' jump to target.
Resolve(f, pending, n, target) ==
    FoldLeft(LAMBDA g, p : [g EXCEPT !.code[p + 1] = Instr(@.op, 0, target - p, 0, 0)],
             f, SubSeq(pending, Len(pending) - n + 1, Len(pending)))

ResolveBreaks(c, n) ==
    LET f == Resolve(Fs(c), Fs(c).ubreaks, n, GetCurrentPos(c))
    IN  WithFs(c, [f EXCEPT !.ubreaks = SubSeq(@, 1, Len(@) - n)])

ResolveContinues(c, n, target) ==
    LET f == Resolve(Fs(c), Fs(c).ucontinues, n, target)
    IN  WithFs(c, [f EXCEPT !.ucontinues = SubSeq(@, 1, Len(@) - n)])

\* b is the compiler at BEGIN_BREAKBLE_BLOCK.
EndBreakable(c, b, target) ==
    LET d == ResolveContinues(c, Len(Fs(c).ucontinues) - Len(Fs(b).ucontinues), target)
        e == ResolveBreaks(d, Len(Fs(d).ubreaks) - Len(Fs(b).ubreaks))
    IN  [e EXCEPT !.fs[Len(e.fs)].breaks = Front(@), !.fs[Len(e.fs)].continues = Front(@)]

-----------------------------------------------------------------------------
(* Expressions                                                             *)

RECURSIVE Expression(_, _), LogicalOrExp(_, _, _), PrefixedExpr(_, _, _)
RECURSIVE Statement(_, _, _), Closure(_, _, _)

FreshEs == [etype |-> "expr", epos |-> -1, donotGet |-> FALSE]
Etype(c, t) == [c EXCEPT !.es.etype = t]

\* `next' is what the parser finds after the expression: an assignment, a
\* call, an increment, a dereference or something else.
NeedGet(c, next) ==
    next \notin {"assign", "call", "incdec"} /\ (~c.es.donotGet \/ next = "deref")

EmitDerefOp(c, op) ==
    LET val == TopTarget(c)                  c1 == PopTarget(c)
        key == TopTarget(c1)                 c2 == PopTarget(c1)
        src == TopTarget(c2)                 c3 == PopTarget(c2)
    IN  AddNew(c3, op, src, key, val)

Emit2ArgsOP(c, op, p3) ==
    LET p2 == TopTarget(c)  c1 == PopTarget(c)
        p1 == TopTarget(c1) c2 == PopTarget(c1)
    IN  AddNew(c2, op, p1, p2, p3)

MoveIfCurrentTargetIsLocal(c) ==
    LET t == TopTarget(c)
    IN  IF IsLocal(c, t) THEN AddNew(PopTarget(c), "MOVE", t, 0, 0) ELSE c

\* A value computed in another register is moved to trg.
MoveTo(c, trg, src) == IF trg = src THEN c ELSE Add(c, "MOVE", trg, src, 0, 0)

ArithOp == [x \in {"+=", "-=", "*=", "/=", "%="} |->
    CASE x = "+=" -> "ADD" [] x = "-=" -> "SUB" [] x = "*=" -> "MUL"
      [] x = "/=" -> "DIV" [] OTHER -> "MOD"]

EmitCompoundArith(c, tok, etype, pos) ==
    LET val == TopTarget(c)   c1 == PopTarget(c)
        key == TopTarget(c1)  c2 == PopTarget(c1)
        src == TopTarget(c2)  c3 == PushNew(PopTarget(c2))
        tmp == TopTarget(PushNew(c))
        o1 == Add(PushNew(c), "GETOUTER", tmp, pos, 0, 0)
        o2 == Add(o1, ArithOp[tok], tmp, val, tmp, 0)
    IN  CASE etype = "local" ->
                SnoozeOpt(Add(PushTarget(c2, key), ArithOp[tok], key, val, key, 0))
          [] etype \in {"object", "base"} ->
                AddInst(c3, [op |-> "COMPARITH", a0 |-> TopTarget(c3), a1 |-> <<src, val>>,
                             a2 |-> key, a3 |-> ArithOp[tok]])
          [] OTHER -> AddNew(PopTarget(PopTarget(o2)), "SETOUTER", pos, tmp, 0)

\* The right-hand side of an assignment has been evaluated.
Assign(c, tok, ds, pos) ==
    LET src == TopTarget(c)
        d == PopTarget(c)
    IN  CASE tok = "<-" /\ ds \in {"object", "base"} -> EmitDerefOp(c, "NEWSLOT")
          [] tok = "<-" /\ ds \notin {"object", "base"} -> Fail(c, "can't 'create' a local slot")
          [] tok = "=" /\ ds = "local" -> Add(d, "MOVE", TopTarget(d), src, 0, 0)
          [] tok = "=" /\ ds \in {"object", "base"} -> EmitDerefOp(c, "SET")
          [] tok = "=" /\ ds = "outer" -> AddNew(d, "SETOUTER", pos, src, 0)
          [] OTHER -> EmitCompoundArith(c, tok, ds, pos)

\* e1 ? e2 : e3, the condition already in the top target.
Conditional(c, e2, e3) ==
    LET c1 == Add(PopTarget(c), "JZ", TopTarget(c), 0, 0, 0)
        jzpos == GetCurrentPos(c1)
        c2 == PushNew(c1)
        trg == TopTarget(c2)
        c3 == Expression(c2, e2)
        c4 == MoveTo(PopTarget(c3), trg, TopTarget(c3))
        endfirst == GetCurrentPos(c4)
        c5 == Add(c4, "JMP", 0, 0, 0, 0)
        jmppos == GetCurrentPos(c5)
        c6 == Expression(c5, e3)
        c7 == MoveTo(PopTarget(c6), trg, TopTarget(c6))
    IN  SnoozeOpt(SetParam(JumpHere(c7, jmppos), jzpos, "a1", endfirst - jzpos + 1))

\* The first error ends the compilation; a fresh target stands for the value
\* of an expression that is not compiled any more.
Expression(c, e) ==
    LET fresh == [c EXCEPT !.es = FreshEs]
        lhs == LogicalOrExp(fresh, e[3], "assign")
        d == CASE e[1] = "assign" ->
                    IF lhs.es.etype = "expr" THEN Fail(lhs, "can't assign expression")
                    ELSE IF lhs.es.etype = "base" THEN Fail(lhs, "'base' cannot be modified")
                    ELSE Assign(Expression(lhs, e[4]), e[2], lhs.es.etype, lhs.es.epos)
               [] e[1] = "cond" -> Conditional(LogicalOrExp(fresh, e[2], "other"), e[3], e[4])
               [] OTHER -> LogicalOrExp(fresh, e, "other")
    IN  IF c.err # "" THEN PushNew(c) ELSE [d EXCEPT !.es = c.es]

InvokeExp(c, e) ==
    [LogicalOrExp([c EXCEPT !.es = FreshEs], e, "other") EXCEPT !.es = c.es]

BinExp(c, op, e1, e2, op3) ==
    LET c1 == InvokeExp(LogicalOrExp(c, e1, "other"), e2)
        r2 == TopTarget(c1)  c2 == PopTarget(c1)
        r1 == TopTarget(c2)
    IN  Etype(AddNew(PopTarget(c2), op, r2, r1, op3), "expr")

\* LogicalOrExp and LogicalAndExp for || and &&: op is OR or AND.
ShortCircuit(c, op, e1, e2) ==
    LET c1 == LogicalOrExp(c, e1, "other")
        first == TopTarget(c1)
        c2 == PushNew(PopTarget(c1))
        trg == TopTarget(c2)
        c3 == Add(c2, op, trg, 0, first, 0)
        jpos == GetCurrentPos(c3)
        c4 == SnoozeOpt(InvokeExp(MoveTo(c3, trg, first), e2))
        c5 == SnoozeOpt(MoveTo(PopTarget(c4), trg, TopTarget(c4)))
    \* trg stays on the target stack as the value of the expression
    IN  Etype(JumpHere(c5, jpos), "expr")

\* Mutant: the values before the last comma stay on the target stack.
CommaExpr_KeepsTargets(c, e) ==
    IF e[1] = "comma" THEN FoldLeft(Expression, Expression(c, Head(e[2])), Tail(e[2]))
    ELSE Expression(c, e)

CommaExpr(c, e) ==
    IF e[1] = "comma"
    THEN FoldLeft(LAMBDA d, x : Expression(PopTarget(d), x), Expression(c, Head(e[2])), Tail(e[2]))
    ELSE Expression(c, e)

LogicalOrExp(c, e, next) ==
    CASE e[1] = "or" -> ShortCircuit(c, "OR", e[2], e[3])
      [] e[1] = "and" -> ShortCircuit(c, "AND", e[2], e[3])
      [] e[1] = "bin" -> BinExp(c, e[2], e[4], e[5], e[3])
      [] OTHER -> PrefixedExpr(c, e, next)

UnaryOP(c, op, e) ==
    LET d == PrefixedExpr(c, e, "other") IN AddNew(PopTarget(d), op, TopTarget(d), 0, 0)

\* A member of an object, after '.' or '[': the key is in the top target.
Deref(c, next) ==
    IF c.es.etype = "base"
    THEN LET d == Emit2ArgsOP(c, "GET", 0)
         IN  [d EXCEPT !.es.etype = "expr", !.es.epos = TopTarget(d)]
    ELSE Etype(IF NeedGet(c, next) THEN Emit2ArgsOP(c, "GET", 0) ELSE c, "object")

PostIncDec(c, diff) ==
    LET c1 == PushNew(c)   t1 == TopTarget(c1)
        c2 == PushNew(c1)  t2 == TopTarget(c2)
        o1 == Add(c2, "GETOUTER", t2, c.es.epos, 0, 0)
        o2 == Add(o1, "PINCL", t1, t2, 0, diff)
    IN  CASE c.es.etype = "expr" -> Fail(c, "can't '++' or '--' an expression")
          [] c.es.etype \in {"object", "base"} ->
                IF c.es.donotGet THEN Fail(c, "can't '++' or '--' an expression")
                ELSE Emit2ArgsOP(c, "PINC", diff)
          [] c.es.etype = "local" -> AddNew(PopTarget(c), "PINCL", TopTarget(c), 0, diff)
          [] OTHER -> PopTarget(Add(o2, "SETOUTER", t2, c.es.epos, t2, 0))

PrefixIncDec(c, e, diff) ==
    LET c1 == PrefixedExpr([c EXCEPT !.es.donotGet = TRUE], e, "other")
        src == TopTarget(c1)
        c2 == PushNew(c1)
        tmp == TopTarget(c2)
        o1 == Add(c2, "GETOUTER", tmp, c1.es.epos, 0, 0)
        o2 == Add(o1, "INCL", tmp, tmp, 0, diff)
        d == CASE c1.es.etype = "expr" -> Fail(c1, "can't '++' or '--' an expression")
               [] c1.es.etype \in {"object", "base"} -> Emit2ArgsOP(c1, "INC", diff)
               [] c1.es.etype = "local" -> Add(c1, "INCL", src, src, 0, diff)
               [] OTHER -> Add(o2, "SETOUTER", tmp, c1.es.epos, tmp, 0)
    IN  [d EXCEPT !.es = c.es]

DeleteExpr(c, e) ==
    LET c1 == PrefixedExpr([c EXCEPT !.es.donotGet = TRUE], e, "other")
        d == CASE c1.es.etype = "expr" -> Fail(c1, "can't delete an expression")
               [] c1.es.etype \in {"object", "base"} -> Emit2ArgsOP(c1, "DELETE", 0)
               [] OTHER -> Fail(c1, "cannot delete an (outer) local")
    IN  [d EXCEPT !.es = c.es]

\* key = value pairs: a key is an identifier or an expression in brackets.
Slot(c, m) ==
    CASE m[1] = "name" -> Expression(LoadConst(c, StrVal(m[2])), m[3])
      [] m[1] = "computed" -> Expression(CommaExpr(c, m[2]), m[3])
      [] OTHER -> \* a function or a constructor
            Closure(LoadConst(c, StrVal(m[2])), m[3], TRUE)

FunctionCallArgs(c, args, rawcall, set) ==
    LET c1 == FoldLeft(LAMBDA d, a : MoveIfCurrentTargetIsLocal(Expression(d, a)), c, args)
        nargs == Len(args) + (IF rawcall THEN -1 ELSE 1)
        c2 == PopTargets(c1, nargs - 1)
        c3 == PopTarget(c2)
        c4 == AddNew(PopTarget(c3), "CALL", TopTarget(c3), TopTarget(c2), nargs)
        retval == TopTarget(c4)
        SetMember(d, m) ==
            LET d1 == Slot(d, m)
                d2 == PopTarget(d1)
            IN  Add(PopTarget(d2), "SET", NoReg, retval, TopTarget(d2), TopTarget(d1))
    IN  IF nargs < 1 THEN Fail(PushNew(c), "rawcall requires at least 2 parameters")
        ELSE GoOn(c1, FoldLeft(SetMember, c4, set))

PrepareCall(c) ==
    LET key == TopTarget(c)      c1 == PopTarget(c)
        table == TopTarget(c1)   c2 == PushNew(PopTarget(c1))
        closure == TopTarget(c2) c3 == PushNew(c2)
    IN  CASE c.es.etype = "object" -> Add(c3, "PREPCALL", closure, key, table, TopTarget(c3))
          [] c.es.etype = "outer" -> AddNew(AddNew(c, "GETOUTER", c.es.epos, 0, 0), "MOVE", 0, 0, 0)
          [] OTHER -> AddNew(c, "MOVE", 0, 0, 0)

\* Table members are emitted with NEWSLOT, class members with NEWSLOTA; a
\* member is <<kind, key, value, attributes, static>>.
RECURSIVE ParseTableOrClass(_, _, _)
ParseTableOrClass(c, members, isClass) ==
    LET tpos == GetCurrentPos(c)
        Member(d, m) ==
            LET hasattrs == isClass /\ m[4] # <<>>
                d1 == IF hasattrs
                      THEN ParseTableOrClass(AddNew(d, "NEWOBJ", 0, 0, 0), m[4], FALSE) ELSE d
                d2 == Slot(d1, m)
                val == TopTarget(d2)  d3 == PopTarget(d2)
                key == TopTarget(d3)  d4 == PopTarget(d3)
                d5 == IF hasattrs
                      THEN [PopTarget(d4) EXCEPT !.assertOk = @ /\ TopTarget(d4) = key - 1] ELSE d4
                flags == (IF hasattrs THEN 1 ELSE 0) + (IF m[5] THEN 2 ELSE 0)
            IN  GoOn(d, GoOn(d2,
                    IF isClass THEN Add(d5, "NEWSLOTA", flags, TopTarget(d5), key, val)
                    ELSE Add(d5, "NEWSLOT", NoReg, TopTarget(d5), key, val)))
        e == FoldLeft(Member, c, members)
    IN  IF isClass THEN e ELSE SetParam(e, tpos, "a1", Len(members))

\* class extends base </ attrs /> { members }
ClassExp(c, e) ==
    LET c1 == IF e[2] = None THEN c ELSE Expression(c, e[2])
        base == IF e[2] = None THEN -1 ELSE TopTarget(c1)
        c2 == IF e[3] = <<>> THEN c1
              ELSE ParseTableOrClass(AddNew(c1, "NEWOBJ", 0, 0, 0), e[3], FALSE)
        attrs == IF e[3] = <<>> THEN -1 ELSE TopTarget(c2)
        c3 == IF e[3] = <<>> THEN c2 ELSE PopTarget(c2)
        c4 == IF e[2] = None THEN c3 ELSE PopTarget(c3)
    IN  ParseTableOrClass(AddNew(c4, "NEWOBJ", base, attrs, 2), e[4], TRUE)

ArrayExp(c, es) ==
    LET c1 == AddNew(c, "NEWOBJ", 0, 0, 1)
        Element(d, x) == LET d1 == Expression(d, x)
                             d2 == PopTarget(d1)
                         IN  GoOn(d1, Add(d2, "APPENDARRAY", TopTarget(d2), TopTarget(d1), 0, 0))
        c2 == FoldLeft(Element, c1, es)
    IN  GoOn(c2, SetParam(c2, GetCurrentPos(c1), "a1", Len(es)))

\* An integer is an operand of its instruction if it fits in a C int.
EmitLoadConst(c, v) ==
    CASE v[1] = "int" /\ CIntMin < v[2] /\ v[2] < -CIntMin -> AddNew(c, "LOADINT", v[2], 0, 0)
      [] v[1] = "bool" -> AddNew(c, "LOADBOOL", v[2], 0, 0)
      [] v[1] = "null" -> AddNew(c, "LOADNULLS", 1, 0, 0)
      [] OTHER -> LoadConst(c, v)

\* An identifier: a local, a free variable, a constant or a field of `this'.
Identifier(c, id, next) ==
    LET pos == GetLocalVariable(c, id)
        out == GetOuterVariable(c, Len(c.fs), id)
        get == PushNew(out[1])
        field == LoadConst(PushTarget(c, 0), StrVal(id))
    IN  CASE pos # -1 -> [PushTarget(c, pos) EXCEPT !.es.etype = "local", !.es.epos = pos]
          [] pos = -1 /\ out[2] # -1 ->
                IF NeedGet(c, next)
                THEN [Add(get, "GETOUTER", TopTarget(get), out[2], 0, 0)
                        EXCEPT !.es.epos = TopTarget(get)]
                ELSE [out[1] EXCEPT !.es.etype = "outer", !.es.epos = out[2]]
          [] pos = -1 /\ out[2] = -1 /\ id \in DOMAIN c.consts ->
                Etype(EmitLoadConst(c, c.consts[id]), "expr")
          [] OTHER -> Etype(IF NeedGet(c, next) THEN Emit2ArgsOP(field, "GET", 0) ELSE field, "object")

\* E.A where E is an enumeration and no variable.
IsEnum(c, e) ==
    /\ e[1] = "dot" /\ e[2][1] = "id" /\ e[2][2] \in DOMAIN c.enums
    /\ GetLocalVariable(c, e[2][2]) = -1
    /\ GetOuterVariable(c, Len(c.fs), e[2][2])[2] = -1

EnumConstant(c, e) ==
    LET enum == c.enums[e[2][2]]
    IN  IF e[3] \in DOMAIN enum THEN Etype(EmitLoadConst(c, enum[e[3]]), "expr")
        ELSE Fail(Etype(PushNew(c), "expr"), "invalid constant")

Factor(c, e, next) ==
    CASE e[1] = "id" -> Identifier(c, e[2], next)
      [] e[1] = "base" -> LET d == AddNew(c, "GETBASE", 0, 0, 0)
                          IN  [d EXCEPT !.es.etype = "base", !.es.epos = TopTarget(d)]
      [] e[1] = "root" -> Deref(LoadConst(Etype(AddNew(c, "LOADROOT", 0, 0, 0), "object"),
                                          StrVal(e[2])), next)
      [] OTHER -> Etype(
            CASE e[1] = "const" -> EmitLoadConst(c, e[2])
              [] e[1] = "array" -> ArrayExp(c, e[2])
              [] e[1] = "table" -> ParseTableOrClass(AddNew(c, "NEWOBJ", 0, 0, 0), e[2], FALSE)
              [] e[1] = "class" -> ClassExp(c, e)
              [] e[1] = "function" -> Closure(c, e[2], TRUE)
              [] e[1] = "unary" -> UnaryOP(c, e[2], e[3])
              [] e[1] = "rawcall" -> FunctionCallArgs(c, e[2], TRUE, <<>>)
              [] e[1] = "preinc" -> PrefixIncDec(c, e[2], e[3])
              [] e[1] = "delete" -> DeleteExpr(c, e[2])
              [] e[1] = "paren" -> CommaExpr(c, e[2])
              [] OTHER -> Fail(PushNew(c), "expression expected"), "expr")

PrefixedExpr(c, e, next) ==
    CASE IsEnum(c, e) -> EnumConstant(c, e)
      [] e[1] = "dot" /\ ~IsEnum(c, e) ->
            Deref(LoadConst(PrefixedExpr(c, e[2], "deref"), StrVal(e[3])), next)
      [] e[1] = "index" -> Deref(Expression(PrefixedExpr(c, e[2], "deref"), e[3]), next)
      [] e[1] = "postinc" -> PostIncDec(PrefixedExpr(c, e[2], "incdec"), e[3])
      [] e[1] = "call" ->
            FunctionCallArgs(Etype(PrepareCall(PrefixedExpr(c, e[2], "call")), "expr"),
                             e[3], FALSE, e[4])
      [] OTHER -> Factor(c, e, next)

-----------------------------------------------------------------------------
(* Functions.  fn is [bound, params, varargs, lambda, body]: a parameter   *)
(* is <<name, default or None>>.                                           *)

BadParams(fn) ==
    \/ \E i, j \in DOMAIN fn.params : i < j /\ fn.params[i][2] # None /\ fn.params[j][2] = None
    \/ fn.varargs /\ \E i \in DOMAIN fn.params : fn.params[i][2] # None

CreateFunction(c, fn, popBound) ==
    LET names == <<"this">> \o [i \in DOMAIN fn.params |-> fn.params[i][1]]
                 \o (IF fn.varargs THEN <<"vargv">> ELSE <<>>)
        defaults == SelectSeq(fn.params, LAMBDA p : p[2] # None)
        c1 == FoldLeft(LAMBDA d, p : Expression(d, p[2]), c, defaults)
        regs == SubSeq(Fs(c1).targets, Len(Fs(c).targets) + 1, Len(Fs(c1).targets))
        c2 == PopTargets(c1, Len(defaults) + (IF popBound THEN 1 ELSE 0))
        child == FoldLeft(PushVar, [NewFuncState EXCEPT !.params = names, !.defs = regs,
                                                        !.varparams = fn.varargs], names)
        c3 == [IF BadParams(fn) THEN Fail(c2, "expected '=' or ')'") ELSE c2
                 EXCEPT !.fs = Append(@, child)]
        lam == Expression(c3, fn.body)
        c4 == IF fn.lambda THEN GoOn(lam, Add(PopTarget(lam), "RETURN", 1, TopTarget(lam), 0, 0))
              ELSE Statement(c3, fn.body, FALSE)
        c5 == Add(AddLineInfos(c4), "RETURN", -1, 0, 0, 0)
        proto == BuildProto(Fs(SetStackSize(c5, 0)))
        c6 == [c5 EXCEPT !.fs = Front(@), !.targetsLeft = @ + Len(Fs(c5).targets)]
    IN  IF c4.err # "" THEN [c4 EXCEPT !.fs = Front(@)]
        ELSE [c6 EXCEPT !.fs[Len(c6.fs)].functions = Append(@, proto)]

\* [env] and the closure; a bound environment sits in the top target.
Closure(c, fn, popBound) ==
    LET hasEnv == fn.bound # None
        c1 == IF hasEnv THEN Expression(c, fn.bound) ELSE c
        bound == IF hasEnv THEN TopTarget(c1) ELSE NoReg
        c2 == CreateFunction(c1, fn, popBound /\ hasEnv)
    IN  GoOn(c, GoOn(c2, AddNew(c2, "CLOSURE", Len(Fs(c2).functions) - 1, bound, 0)))

-----------------------------------------------------------------------------
(* Statements                                                              *)

RECURSIVE Statements(_, _)
Statements(c, ss) ==
    GoOn(c, IF ss = <<>> THEN c ELSE Statements(Statement(c, Head(ss), TRUE), Tail(ss)))

\* { statements }
Block(c, ss, close) ==
    LET d == Statements(BeginScope(c), ss)
    IN  GoOn(d, IF close THEN EndScope(d, c.scope) ELSE EndScopeNoClose(d, c.scope))

\* A statement in a scope of its own.
Scoped(c, s) ==
    LET d == Statement(BeginScope(c), s, TRUE) IN GoOn(d, EndScope(d, c.scope))

PopTraps(c, n) == IF n > 0 THEN Add(c, "POPTRAP", n, 0, 0, 0) ELSE c

\* return and yield; traps are popped only by a return.
ReturnStatement(c, op, e) ==
    LET retexp == GetCurrentPos(c) + 1
        g == IF op = "YIELD" THEN [c EXCEPT !.fs[Len(c.fs)].generator = TRUE] ELSE c
        v == IF e = None THEN g ELSE CommaExpr(g, e)
        d == IF op = "RETURN" THEN PopTraps(v, Fs(v).traps) ELSE v
        r == [d EXCEPT !.fs[Len(d.fs)].returnexp = IF e = None THEN -1 ELSE retexp]
        p == PopTarget(r)
    IN  GoOn(v, IF e = None THEN Add(r, op, NoReg, 0, GetStackSize(r), 0)
                ELSE Add(p, op, 1, TopTarget(r), GetStackSize(p), 0))

\* Mutant: a break leaves the traps of the try blocks it leaves.
BreakStatement_KeepsTraps(c) ==
    LET d == Add(ResolveOuters(c), "JMP", 0, -1234, 0, 0)
    IN  IF Fs(c).breaks = <<>> THEN Fail(c, "'break' has to be in a loop block")
        ELSE [d EXCEPT !.fs[Len(d.fs)].ubreaks = Append(@, GetCurrentPos(d))]

BreakStatement(c) ==
    LET d == Add(ResolveOuters(PopTraps(c, Last(Fs(c).breaks))), "JMP", 0, -1234, 0, 0)
    IN  IF Fs(c).breaks = <<>> THEN Fail(c, "'break' has to be in a loop block")
        ELSE [d EXCEPT !.fs[Len(d.fs)].ubreaks = Append(@, GetCurrentPos(d))]

ContinueStatement(c) ==
    LET d == Add(ResolveOuters(PopTraps(c, Last(Fs(c).continues))), "JMP", 0, -1234, 0, 0)
    IN  IF Fs(c).continues = <<>> THEN Fail(c, "'continue' has to be in a loop block")
        ELSE [d EXCEPT !.fs[Len(d.fs)].ucontinues = Append(@, GetCurrentPos(d))]

LocalDecl(c, v) ==
    LET c1 == Expression(c, v[2])
        src == TopTarget(c1)
        c2 == PushNew(PopTarget(c1))
        c3 == IF v[2] = None THEN AddNew(c, "LOADNULLS", 1, 0, 0)
              ELSE MoveTo(c2, TopTarget(c2), src)
    IN  GoOn(IF v[2] = None THEN c3 ELSE c1, PushLocalVariable(PopTarget(c3), v[1]))

\* The target of a bound environment of a local function is never popped;
\* boundLocals counts such functions.
LocalDeclStatement(c, s) ==
    LET d == Closure(c, s[3], FALSE)
        n == IF s[3].bound = None THEN 0 ELSE 1
    IN  IF s[1] = "localfunction"
        THEN [PushLocalVariable(PopTarget(d), s[2]) EXCEPT !.boundLocals = @ + n]
        ELSE FoldLeft(LocalDecl, c, s[2])

IfBlock(c, s) == IF s[1] = "block" THEN Block(c, s[2], TRUE) ELSE Statement(c, s, TRUE)

IfStatement(c, s) ==
    LET c1 == CommaExpr(c, s[2])
        c2 == Add(PopTarget(c1), "JZ", TopTarget(c1), 0, 0, 0)
        jnepos == GetCurrentPos(c2)
        c3 == IfBlock(c2, s[3])
        endifblock == GetCurrentPos(c3)
        c4 == Add(c3, "JMP", 0, 0, 0, 0)
        c5 == IfBlock(c4, s[4])
        c6 == JumpHere(c5, GetCurrentPos(c4))
    IN  GoOn(c3, IF s[4] = None THEN SetParam(c3, jnepos, "a1", endifblock - jnepos)
                 ELSE GoOn(c5, SetParam(c6, jnepos, "a1", endifblock - jnepos + 1)))

WhileStatement(c, s) ==
    LET jmppos == GetCurrentPos(c)
        c1 == CommaExpr(c, s[2])
        b == BeginBreakable(c1)
        c2 == Add(PopTarget(b), "JZ", TopTarget(b), 0, 0, 0)
        jzpos == GetCurrentPos(c2)
        c3 == Scoped(c2, s[3])
        c4 == Add(c3, "JMP", 0, jmppos - GetCurrentPos(c3) - 1, 0, 0)
    IN  GoOn(c3, EndBreakable(JumpHere(c4, jzpos), c1, jmppos))

DoWhileStatement(c, s) ==
    LET jmptrg == GetCurrentPos(c)
        c1 == Scoped(BeginBreakable(c), s[2])
        continuetrg == GetCurrentPos(c1)
        c2 == CommaExpr(c1, s[3])
        c3 == Add(PopTarget(c2), "JZ", TopTarget(c2), 1, 0, 0)
        c4 == Add(c3, "JMP", 0, jmptrg - GetCurrentPos(c3) - 1, 0, 0)
    IN  GoOn(c1, EndBreakable(c4, c, continuetrg))

\* The step expression is compiled first, cut out and emitted again after
\* the body.
ForStatement(c, s) ==
    LET init == BeginScope(c)
        c1 == SnoozeOpt(CASE s[2] = None -> init
                          [] s[2][1] = "local" -> LocalDeclStatement(init, s[2])
                          [] OTHER -> PopTarget(CommaExpr(init, s[2])))
        jmppos == GetCurrentPos(c1)
        cond == CommaExpr(c1, s[3])
        c2 == IF s[3] = None THEN c1 ELSE Add(PopTarget(cond), "JZ", TopTarget(cond), 0, 0, 0)
        jzpos == IF s[3] = None THEN -1 ELSE GetCurrentPos(c2)
        c3 == SnoozeOpt(c2)
        expstart == GetCurrentPos(c3) + 1
        c4 == SnoozeOpt(IF s[4] = None THEN c3 ELSE PopTarget(CommaExpr(c3, s[4])))
        exp == SubSeq(Fs(c4).code, expstart + 1, Len(Fs(c4).code))
        c5 == WithFs(c4, [Fs(c4) EXCEPT !.code = SubSeq(@, 1, expstart)])
        c6 == Statement(BeginBreakable(c5), s[5], TRUE)
        continuetrg == GetCurrentPos(c6)
        c7 == FoldLeft(AddInst, c6, exp)
        c8 == Add(c7, "JMP", 0, jmppos - GetCurrentPos(c7) - 1, 0, 0)
        c9 == IF jzpos > 0 THEN JumpHere(c8, jzpos) ELSE c8
    IN  GoOn(c6, EndScope(EndBreakable(c9, c5, continuetrg), c.scope))

ForEachStatement(c, s) ==
    LET idxname == IF s[2] = "" THEN "@INDEX@" ELSE s[2]
        c1 == Expression(BeginScope(c), s[4])
        container == TopTarget(c1)
        PushNullVar(d, name) ==
            LET d1 == PushLocalVariable(d, name)
            IN  Add(d1, "LOADNULLS", GetStackSize(d), 1, 0, 0)
        indexpos == GetStackSize(c1)
        c2 == PushNullVar(PushNullVar(PushNullVar(c1, idxname), s[3]), "@ITERATOR@")
        jmppos == GetCurrentPos(c2)
        c3 == Add(c2, "FOREACH", container, 0, indexpos, 0)
        foreachpos == GetCurrentPos(c3)
        c4 == Add(c3, "POSTFOREACH", container, 0, indexpos, 0)
        c5 == Statement(BeginBreakable(c4), s[5], TRUE)
        c6 == Add(c5, "JMP", 0, jmppos - GetCurrentPos(c5) - 1, 0, 0)
        c7 == SetParam(JumpHere(c6, foreachpos), foreachpos + 1, "a1", GetCurrentPos(c6) - foreachpos)
    IN  GoOn(c5, EndScope(PopTarget(EndBreakable(c7, c4, foreachpos - 1)), c.scope))

\* One case: `sw' carries the compiler, the jump to the next condition and
\* whether this is the first case.
SwitchCase(sw, case, expr) ==
    LET c0 == sw.c
        c1 == IF sw.first THEN c0 ELSE Add(c0, "JMP", 0, 0, 0, 0)
        skip == GetCurrentPos(c1)
        c2 == IF sw.first THEN c1 ELSE JumpHere(c1, sw.tonext)
        c3 == Expression(c2, case[1])
        trg == TopTarget(c3)
        c4 == PopTarget(c3)
        local == IsLocal(c4, trg)
        c5 == IF local THEN PushNew(c4) ELSE c4
        eqtarget == IF local THEN TopTarget(c5) ELSE trg
        c6 == Add(Add(c5, "EQ", eqtarget, trg, expr, 0), "JZ", eqtarget, 0, 0, 0)
        c7 == IF local THEN PopTarget(c6) ELSE c6
        c8 == IF sw.first THEN c7 ELSE JumpHere(c7, skip)
        c9 == Block(c8, case[2], TRUE)
    IN  [c |-> c9, first |-> FALSE, tonext |-> GetCurrentPos(c7)]

SwitchStatement(c, s) ==
    LET c1 == CommaExpr(c, s[2])
        b == [c1 EXCEPT !.fs[Len(c1.fs)].breaks = Append(@, 0)]
        sw == FoldLeft(LAMBDA w, k : SwitchCase(w, k, TopTarget(c1)),
                       [c |-> b, first |-> TRUE, tonext |-> -1], s[3])
        c2 == IF sw.tonext = -1 THEN sw.c ELSE JumpHere(sw.c, sw.tonext)
        c3 == IF s[4] = None THEN c2
              ELSE Block(c2, s[4][2], TRUE)
        c4 == PopTarget(c3)
        c5 == ResolveBreaks(c4, Len(Fs(c4).ubreaks) - Len(Fs(c1).ubreaks))
    IN  [c5 EXCEPT !.fs[Len(c5.fs)].breaks = Front(@)]

\* The innermost break and continue targets count the traps to pop.
AddTraps(c, n) ==
    LET AddTop(s) == IF s = <<>> THEN s ELSE [s EXCEPT ![Len(s)] = @ + n]
        f == Fs(c)
    IN  WithFs(c, [f EXCEPT !.traps = @ + n, !.breaks = AddTop(@), !.continues = AddTop(@)])

TryCatchStatement(c, s) ==
    LET c1 == AddTraps(Add(c, "PUSHTRAP", 0, 0, 0, 0), 1)
        trappos == GetCurrentPos(c1)
        body == Scoped(c1, s[2])
        c2 == AddTraps(Add(body, "POPTRAP", 1, 0, 0, 0), -1)
        c3 == Add(c2, "JMP", 0, 0, 0, 0)
        jmppos == GetCurrentPos(c3)
        c4 == BeginScope(JumpHere(c3, trappos))
        c5 == SetParam(PushLocalVariable(c4, s[3]), trappos, "a0", GetStackSize(c4))
        c6 == Statement(c5, s[4], TRUE)
    IN  GoOn(body, GoOn(c6, EndScope(JumpHere(c6, jmppos), c3.scope)))

\* function a::b::c(...) {...}
FunctionStatement(c, s) ==
    LET Path(d, name) == LoadConst(Emit2ArgsOP(d, "GET", 0), StrVal(name))
        c1 == FoldLeft(Path, LoadConst(PushTarget(c, 0), StrVal(Head(s[2]))), Tail(s[2]))
        c2 == Closure(c1, s[3], TRUE)
    IN  GoOn(c2, PopTarget(EmitDerefOp(c2, "NEWSLOT")))

ClassStatement(c, s) ==
    LET c1 == PrefixedExpr([c EXCEPT !.es.donotGet = TRUE], s[2], "other")
        class == ClassExp(c1, s[3])
        d == CASE c1.es.etype = "expr" -> Fail(c1, "invalid class name")
               [] c1.es.etype \in {"object", "base"} ->
                     GoOn(class, PopTarget(EmitDerefOp(class, "NEWSLOT")))
               [] OTHER -> Fail(c1, "cannot create a class in a local")
    IN  [d EXCEPT !.es = c.es]

\* Members without a value are numbered among themselves.
EnumStatement(c, s) ==
    LET Auto(k) == Cardinality({j \in 1..(k - 1) : s[3][j][2] = None})
        Value(k) == IF s[3][k][2] = None THEN IntVal(Auto(k)) ELSE s[3][k][2]
        enum == [n \in {s[3][k][1] : k \in DOMAIN s[3]} |->
                    Value(Max({k \in DOMAIN s[3] : s[3][k][1] = n}))]
    IN  [c EXCEPT !.enums = [n \in DOMAIN @ \cup {s[2]} |-> IF n = s[2] THEN enum ELSE @[n]]]

ConstStatement(c, s) ==
    [c EXCEPT !.consts = [n \in DOMAIN @ \cup {s[2]} |-> IF n = s[2] THEN s[3] ELSE @[n]]]

Statement(c, s, closeframe) ==
    LET d == AddLineInfos(c)
        thrown == CommaExpr(d, s[2])
    IN  IF c.err # "" THEN c ELSE SnoozeOpt(
        CASE s[1] = "empty" -> d
          [] s[1] = "if" -> IfStatement(d, s)
          [] s[1] = "while" -> WhileStatement(d, s)
          [] s[1] = "do" -> DoWhileStatement(d, s)
          [] s[1] = "for" -> ForStatement(d, s)
          [] s[1] = "foreach" -> ForEachStatement(d, s)
          [] s[1] = "switch" -> SwitchStatement(d, s)
          [] s[1] \in {"local", "localfunction"} -> LocalDeclStatement(d, s)
          [] s[1] = "return" -> ReturnStatement(d, "RETURN", s[2])
          [] s[1] = "yield" -> ReturnStatement(d, "YIELD", s[2])
          [] s[1] = "break" -> BreakStatement(d)
          [] s[1] = "continue" -> ContinueStatement(d)
          [] s[1] = "functionstmt" -> FunctionStatement(d, s)
          [] s[1] = "classstmt" -> ClassStatement(d, s)
          [] s[1] = "enum" -> EnumStatement(d, s)
          [] s[1] = "constdecl" -> ConstStatement(d, s)
          [] s[1] = "block" -> Block(d, s[2], closeframe)
          [] s[1] = "try" -> TryCatchStatement(d, s)
          [] s[1] = "throw" -> Add(PopTarget(thrown), "THROW", TopTarget(thrown), 0, 0, 0)
          [] OTHER -> DiscardTarget(CommaExpr(d, s[2])))

NewCompiler(lineinfo) ==
    LET names == <<"this", "vargv">>
    IN  [fs |-> <<FoldLeft(PushVar, [NewFuncState EXCEPT !.params = names, !.varparams = TRUE],
                           names)>>,
         es |-> FreshEs, scope |-> [outers |-> 0, size |-> 0], lineinfo |-> lineinfo,
         consts |-> <<>>, enums |-> <<>>, err |-> "", assertOk |-> TRUE, targetsLeft |-> 0,
         boundLocals |-> 0]

\* The main function of a chunk, or the first error; with lineinfo a _OP_LINE
\* is emitted for every statement.
Compile(chunk, lineinfo) ==
    LET c == Statements(NewCompiler(lineinfo), chunk)
        d == SetStackSize(c, 2)
        e == Add(AddLineInfos(d), "RETURN", NoReg, 0, 0, 0)
    IN  [err |-> c.err, assertOk |-> c.assertOk,
         targetsLeft |-> c.targetsLeft + Len(Fs(c).targets), boundLocals |-> c.boundLocals,
         proto |-> BuildProto(Fs(SetStackSize(e, 0)))]
=============================================================================
