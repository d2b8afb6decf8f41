------------------------------ MODULE Semantics ------------------------------
(***************************************************************************)
(* What a chunk means, without registers, instructions, frames or traps: a *)
(* definitional interpreter of the core of the language.  A variable is a  *)
(* cell; a scope is a mapping from names to cells; a closure is a function *)
(* with the scope it was written in.  Interp, which runs the compiled      *)
(* code, is compared with it.                                              *)
(*                                                                         *)
(* s is the state of the evaluation.  s.how tells how the last statement   *)
(* ended: go (normally), break, continue, return or throw, with s.val.     *)
(***************************************************************************)
EXTENDS Interp

\* Only the core is covered: no tables, classes, generators or coroutines.
RECURSIVE InCore(_)
InCore(t) ==
    LET Parts(xs) == \A i \in DOMAIN xs : InCore(xs[i])
    IN  CASE t[1] \in {"const", "empty", "break", "continue", "none"} -> TRUE
          [] t[1] = "id" -> t[2] \notin BaseNames \ {"print", "input"}
          [] t[1] \in {"preinc", "postinc"} -> t[2][1] = "id"
          [] t[1] = "assign" -> t[3][1] = "id" /\ t[2] # "<-" /\ InCore(t[4])
          [] t[1] = "bin" -> t[2] \in {"ADD", "SUB", "MUL", "CMP", "EQ"} /\ InCore(t[4]) /\ InCore(t[5])
          [] t[1] \in {"and", "or", "cond", "if", "while", "do", "for", "index", "return", "throw",
                       "expr", "paren"} -> Parts(Tail(t))
          [] t[1] = "call" -> /\ (t[2][1] = "dot" /\ t[2][3] = "append" /\ InCore(t[2][2])) \/ InCore(t[2])
                              /\ Parts(t[3]) /\ t[4] = <<>>
          [] t[1] \in {"array", "block"} -> Parts(t[2])
          [] t[1] = "function" -> /\ t[2].bound = None /\ ~t[2].varargs /\ InCore(t[2].body)
                                  /\ \A i \in DOMAIN t[2].params : t[2].params[i][2] = None
          [] t[1] = "local" -> \A i \in DOMAIN t[2] : InCore(t[2][i][2])
          [] t[1] = "foreach" -> InCore(t[4]) /\ InCore(t[5])
          [] t[1] = "try" -> InCore(t[2]) /\ InCore(t[4])
          [] t[1] = "switch" -> /\ InCore(t[2]) /\ (t[4] = None \/ Parts(t[4][2]))
                                /\ \A i \in DOMAIN t[3] : InCore(t[3][i][1]) /\ Parts(t[3][i][2])
          [] OTHER -> FALSE

-----------------------------------------------------------------------------
Go(s, v) == [s EXCEPT !.val = v]
Stop(s, how, v) == [s EXCEPT !.how = how, !.val = v]
Declare(s, name, v) == [s EXCEPT !.cells = Append(@, v), !.env = With(@, name, Len(s.cells) + 1)]
Assigned(s, name, v) == [s EXCEPT !.cells[s.env[name]] = v, !.val = v]
Leave(s, old) == [s EXCEPT !.env = old.env]

\* The state after t: after the expression t, its value is in s.val.
RECURSIVE Meaning(_, _)

\* The values of es, gathered in s.val.
RECURSIVE EvalAll(_, _, _)
EvalAll(s, es, vals) ==
    IF es = <<>> THEN Go(s, vals)
    ELSE LET v == Meaning(s, Head(es))
         IN  IF v.how # "go" THEN v ELSE EvalAll(v, Tail(es), Append(vals, v.val))

\* Evaluates es, then goes on with F on the state and the values.
Then(s, es, F(_, _)) ==
    LET v == EvalAll(s, es, <<>>) IN IF v.how = "go" THEN F(v, v.val) ELSE v

Binary(op, arg, a, b) ==
    CASE op = "CMP" -> CmpResult(arg, Order(a[2], b[2]))
      [] op = "EQ" -> BoolVal(a = b)
      [] OTHER -> IntArith(op, a[2], b[2]).val

Apply(s, f, args) ==
    LET fn == f[3]
        called == FoldLeft(LAMBDA d, i : Declare(d, fn.params[i][1], args[i]),
                           [s EXCEPT !.env = f[2]], [i \in DOMAIN args |-> i])
        body == Meaning(called, fn.body)
        value == IF fn.lambda \/ body.how = "return" THEN body.val ELSE NullVal
    IN  CASE f = Native("print") -> Go([s EXCEPT !.out = Append(@, args[1])], NullVal)
          [] f = Native("input") -> Go([s EXCEPT !.ins = Tail(@)], Head(s.ins))
          [] OTHER -> IF body.how = "throw" THEN Leave(body, s)
                      ELSE [Leave(body, s) EXCEPT !.how = "go", !.val = value]

Expressions == {"const", "id", "paren", "assign", "preinc", "postinc", "bin", "cond", "and", "or", "array",
                "index", "function", "call"}

Value(s, e) ==
    CASE e[1] = "const" -> Go(s, e[2])
      [] e[1] = "id" -> Go(s, IF e[2] \in DOMAIN s.env THEN s.cells[s.env[e[2]]] ELSE Native(e[2]))
      [] e[1] = "paren" -> Meaning(s, e[2])
      [] e[1] = "assign" ->
            Then(s, <<e[4]>>, LAMBDA d, v :
                Assigned(d, e[3][2], IF e[2] = "=" THEN v[1]
                                     ELSE Binary(ArithOp[e[2]], 0, d.cells[d.env[e[3][2]]], v[1])))
      [] e[1] \in {"preinc", "postinc"} ->
            LET old == Meaning(s, e[2]).val
                d == Assigned(s, e[2][2], IntVal(Wrap(old[2] + e[3])))
            IN  IF e[1] = "preinc" THEN d ELSE Go(d, old)
      [] e[1] = "bin" -> Then(s, <<e[4], e[5]>>, LAMBDA d, v : Go(d, Binary(e[2], e[3], v[1], v[2])))
      [] e[1] = "cond" -> Then(s, <<e[2]>>, LAMBDA d, v : Meaning(d, IF IsFalse(v[1]) THEN e[4] ELSE e[3]))
      [] e[1] = "and" -> Then(s, <<e[2]>>, LAMBDA d, v : IF IsFalse(v[1]) THEN Go(d, v[1]) ELSE Meaning(d, e[3]))
      [] e[1] = "or" -> Then(s, <<e[2]>>, LAMBDA d, v : IF IsFalse(v[1]) THEN Meaning(d, e[3]) ELSE Go(d, v[1]))
      [] e[1] = "array" ->
            Then(s, e[2], LAMBDA d, v : Go([d EXCEPT !.arrays = Append(@, v)], <<"list", Len(d.arrays) + 1>>))
      [] e[1] = "index" -> Then(s, <<e[2], e[3]>>, LAMBDA d, v : Go(d, d.arrays[v[1][2]][v[2][2] + 1]))
      [] e[1] = "function" -> Go(s, <<"fun", s.env, e[2]>>)
      [] e[1] = "call" /\ e[2][1] = "dot" ->
            Then(s, <<e[2][2]>> \o e[3], LAMBDA d, v :
                Go([d EXCEPT !.arrays[v[1][2]] = Append(@, v[2])], v[1]))
      [] OTHER -> Then(s, <<e[2]>> \o e[3], LAMBDA d, v : Apply(d, v[1], Tail(v)))

-----------------------------------------------------------------------------
(* Statements                                                              *)

RECURSIVE Seqn(_, _)
Seqn(s, ss) ==
    IF ss = <<>> \/ s.how # "go" THEN s ELSE Seqn(Meaning(s, Head(ss)), Tail(ss))
Scope(s, ss) == Leave(Seqn(s, ss), s)

\* while cond { body; step }
RECURSIVE Loop(_, _, _, _)
Loop(s, cond, body, step) ==
    LET c == IF cond = None THEN Go(s, IntVal(1)) ELSE Meaning(s, cond)
        b == Scope(c, <<body>>)
        on == [b EXCEPT !.how = "go"]
        n == IF step = None THEN on ELSE Meaning(on, step)
    IN  IF c.how # "go" \/ IsFalse(c.val) THEN c
        ELSE IF b.how = "break" THEN on
        ELSE IF b.how \in {"return", "throw"} THEN b
        ELSE IF n.how # "go" THEN n ELSE Loop(n, cond, body, step)

\* Sets the variable to the elements from position i on.
RECURSIVE Elements(_, _, _, _, _)
Elements(s, name, list, i, body) ==
    LET b == Scope(Assigned(s, name, s.arrays[list][i]), <<body>>)
        on == [b EXCEPT !.how = "go"]
    IN  IF i > Len(s.arrays[list]) THEN s
        ELSE IF b.how = "break" THEN on
        ELSE IF b.how \in {"return", "throw"} THEN b
        ELSE Elements(on, name, list, i + 1, body)

\* The statements from the matching case on, in scopes of their own.
RECURSIVE Cases(_, _, _, _)
Cases(s, v, cases, default) ==
    LET c == Meaning(s, Head(cases)[1])
        FallThrough(d, k) == IF d.how = "go" THEN Scope(d, k[2]) ELSE d
        rest == cases \o (IF default = None THEN <<>> ELSE <<default>>)
    IN  IF cases = <<>> THEN IF default = None THEN s ELSE Scope(s, default[2])
        ELSE IF c.how # "go" THEN c
        ELSE IF c.val = v THEN FoldLeft(FallThrough, c, rest) ELSE Cases(c, v, Tail(cases), default)

Effect(s, t) ==
    CASE t[1] \in {"empty", "none"} -> s
      [] t[1] = "expr" -> Meaning(s, t[2])
      [] t[1] = "block" -> Scope(s, t[2])
      [] t[1] = "local" ->
            FoldLeft(LAMBDA d, v : IF d.how # "go" THEN d
                                   ELSE IF v[2] = None THEN Declare(d, v[1], NullVal)
                                   ELSE Then(d, <<v[2]>>, LAMBDA x, y : Declare(x, v[1], y[1])), s, t[2])
      [] t[1] = "if" -> Then(s, <<t[2]>>, LAMBDA d, v : Meaning(d, IF IsFalse(v[1]) THEN t[4] ELSE t[3]))
      [] t[1] = "while" -> Loop(s, t[2], t[3], None)
      [] t[1] = "do" ->
            LET b == Scope(s, <<t[2]>>)
                on == [b EXCEPT !.how = "go"]
            IN  IF b.how = "break" THEN on ELSE IF b.how \in {"return", "throw"} THEN b
                ELSE Loop(on, t[3], t[2], None)
      [] t[1] = "for" ->
            LET d == IF t[2][1] = "local" THEN Meaning(s, t[2])
                     ELSE IF t[2] = None THEN s ELSE Meaning(s, t[2])
            IN  IF d.how # "go" THEN d ELSE Leave(Loop(d, t[3], t[5], t[4]), s)
      [] t[1] = "foreach" ->
            Then(s, <<t[4]>>, LAMBDA d, v :
                Leave(Elements(Declare(d, t[3], NullVal), t[3], v[1][2], 1, t[5]), s))
      [] t[1] = "switch" ->
            Then(s, <<t[2]>>, LAMBDA d, v :
                LET c == Cases(d, v[1], t[3], t[4])
                IN  IF c.how = "break" THEN [c EXCEPT !.how = "go"] ELSE c)
      [] t[1] \in {"break", "continue"} -> Stop(s, t[1], NullVal)
      [] t[1] \in {"return", "throw"} ->
            IF t[2] = None THEN Stop(s, t[1], NullVal)
            ELSE Then(s, <<t[2]>>, LAMBDA d, v : Stop(d, t[1], v[1]))
      [] t[1] = "try" ->
            LET b == Scope(s, <<t[2]>>)
                caught == Declare([b EXCEPT !.how = "go"], t[3], b.val)
            IN  IF b.how # "throw" THEN b ELSE Leave(Meaning(caught, t[4]), s)

Meaning(s, t) == IF t[1] \in Expressions THEN Value(s, t) ELSE Effect(s, t)

\* The outcome of a chunk: what it prints and how it ends.  An error nobody
\* catches goes to the error handler, which prints it.
Outcomes(chunk, ins) ==
    LET s == Seqn([env |-> <<>>, cells |-> <<>>, arrays |-> <<>>, out |-> <<>>, ins |-> ins,
                   how |-> "go", val |-> NullVal], chunk)
    IN  IF s.how = "throw" THEN [out |-> Append(s.out, s.val), status |-> "failed", result |-> s.val]
        ELSE [out |-> s.out, status |-> "done",
              result |-> IF s.how = "return" THEN s.val ELSE NullVal]

\* A chunk of the core, once compiled and run, prints what it means and ends
\* the same way: registers, jumps, scopes, free variables and traps, as
\* SQCompiler emits and SQVM::Execute runs them, do not show.
RunsAsWritten ==
    (~Running /\ vm.status # "rejected" /\ InCore(<<"block", Programs[vm.prog]>>)) =>
        [out |-> vm.out, status |-> vm.status, result |-> vm.result]
            = Outcomes(Programs[vm.prog], vm.given)
=============================================================================
