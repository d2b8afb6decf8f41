------------------------------- MODULE MCInterp -------------------------------
(***************************************************************************)
(* The programs on which the compiler and the interpreter are checked:     *)
(* chunks as the syntax trees that module CodeGen compiles.                *)
(***************************************************************************)
EXTENDS Semantics

Id(n) == <<"id", n>>
Num(n) == <<"const", IntVal(n)>>
Text(s) == <<"const", StrVal(s)>>
Null == <<"const", NullVal>>
False == <<"const", BoolVal(FALSE)>>
Dot(e, n) == <<"dot", e, n>>
Item(e, k) == <<"index", e, k>>
App(f, args) == <<"call", f, args, <<>>>>
Let(l, r) == <<"assign", "=", l, r>>
Make(l, r) == <<"assign", "<-", l, r>>
Update2(op, l, r) == <<"assign", op, l, r>>
Op(op, a, b) == <<"bin", op, 0, a, b>>
Plus(a, b) == Op("ADD", a, b)
Less(a, b) == <<"bin", "CMP", CMP_L, a, b>>
List(es) == <<"array", es>>
Members(ms) == [i \in DOMAIN ms |-> <<"name", ms[i][1], ms[i][2], <<>>, FALSE>>]
Table(ms) == <<"table", Members(ms)>>
Method(n, fn) == <<"method", n, fn, <<>>, FALSE>>
Field(n, e) == <<"name", n, e, <<>>, FALSE>>
Class(base, ms) == <<"class", base, <<>>, ms>>

Body(ss) == <<"block", ss>>
Params(ns) == [i \in DOMAIN ns |-> <<ns[i], None>>]
FnOf(ns, ss) == [bound |-> None, params |-> Params(ns), varargs |-> FALSE, lambda |-> FALSE,
                 body |-> Body(ss)]
Fn(ns, ss) == <<"function", FnOf(ns, ss)>>
Lambda(ns, e) == <<"function", [FnOf(ns, <<>>) EXCEPT !.lambda = TRUE, !.body = e]>>

Do(e) == <<"expr", e>>
Say(e) == Do(App(Id("print"), <<e>>))
Ask == App(Id("input"), <<>>)
Var(n, e) == <<"local", <<<<n, e>>>>>>
Ret(e) == <<"return", e>>
Give(e) == <<"yield", e>>
Raises(e) == <<"throw", e>>
Break == <<"break">>
Continue == <<"continue">>
If(e, s) == <<"if", e, s, None>>
While(e, ss) == <<"while", e, Body(ss)>>
ForUp(i, n, ss) == <<"for", Var(i, Num(0)), Less(Id(i), Num(n)), <<"postinc", Id(i), 1>>, Body(ss)>>
Each(v, e, ss) == <<"foreach", "", v, e, Body(ss)>>
Try(ss, ts) == <<"try", Body(ss), "err", Body(ts)>>
Default(ss) == <<"default", ss>>
Define(n, ns, ss) == <<"functionstmt", <<n>>, FnOf(ns, ss)>>

-----------------------------------------------------------------------------
(* Control flow: every pair of nested constructs around every way of       *)
(* leaving them.  d makes the names of a level different.                  *)

Name(d, n) == IF d = 1 THEN n ELSE n \o "2"

Around(kind, d, ss) ==
    LET i == Name(d, "i")
        f == Name(d, "f")
    IN  CASE kind = "while" -> <<Var(i, Num(0)), While(Less(Id(i), Num(2)), <<Do(Update2("+=", Id(i), Num(1)))>> \o ss)>>
          [] kind = "do" -> <<Var(i, Num(0)),
                              <<"do", Body(<<Do(<<"preinc", Id(i), 1>>)>> \o ss), Less(Id(i), Num(2))>>>>
          [] kind = "for" -> <<ForUp(i, 2, ss)>>
          [] kind = "foreach" -> <<Each(i, List(<<Num(3), Num(4)>>), <<Say(Id(i))>> \o ss)>>
          [] kind = "switch" -> <<<<"switch", Ask, <<<<Num(1), ss>>, <<Num(2), <<Say(Num(7)), Break>>>>>>,
                                    Default(<<Say(Num(8))>>)>>>>
          [] kind = "if" -> <<<<"if", Ask, Body(ss), Body(<<Say(Num(9))>>)>>>>
          [] kind = "try" -> <<Try(ss, <<Say(Id("err"))>>)>>
          [] kind = "catch" -> <<Try(<<Raises(Num(5))>>, <<Say(Id("err"))>> \o ss)>>
          [] kind = "call" -> <<Var(f, Fn(<<>>, ss)), Say(App(Id(f), <<>>))>>
Kinds == <<"while", "do", "for", "foreach", "switch", "if", "try", "catch", "call">>

Exits == [plain |-> Say(Num(0)), break |-> Break, continue |-> Continue, throw |-> Raises(Num(6)),
          return |-> Ret(Ask)]
ExitNames == <<"plain", "break", "continue", "throw", "return">>

Nested(k1, k2, x) ==
    Around(k1, 1, <<Say(Num(1))>> \o Around(k2, 2, <<If(Ask, Exits[x]), Say(Num(2))>>) \o <<Say(Num(3))>>)
    \o <<Say(Num(4))>>

FlowChunks ==
    [n \in 1..(Len(Kinds) * Len(Kinds) * Len(ExitNames)) |->
        LET x == (n - 1) % Len(ExitNames)
            k == (n - 1) \div Len(ExitNames)
        IN  Nested(Kinds[(k % Len(Kinds)) + 1], Kinds[(k \div Len(Kinds)) + 1], ExitNames[x + 1])]

-----------------------------------------------------------------------------
(* Closures: a captured variable is one variable, shared by all that see   *)
(* it, also when the stack moves, the frame ends or the value is changed.  *)

Counter == Fn(<<>>, <<Var("n", Num(0)),
    Ret(List(<<Fn(<<>>, <<Ret(<<"preinc", Id("n"), 1>>)>>), Lambda(<<>>, Id("n"))>>))>>)

\* Each round captures a local and may be left by the statement `exit'.
Capture(exit) ==
    <<Var("fs", List(<<>>)),
      ForUp("i", 2, <<Var("k", Plus(Id("i"), Num(5))),
                      Do(App(Dot(Id("fs"), "append"), <<Lambda(<<>>, Id("k"))>>)), If(Ask, exit)>>),
      Var("z", Num(1)), Var("y", Num(2)), Each("f", Id("fs"), <<Say(App(Id("f"), <<>>))>>)>>

ClosureChunks == <<
    Capture(Break), Capture(Continue),
    <<Var("mk", Counter), Var("a", App(Id("mk"), <<>>)), Var("b", App(Id("mk"), <<>>)),
      Do(App(Item(Id("a"), Num(0)), <<>>)), Do(App(Item(Id("a"), Num(0)), <<>>)), Do(App(Item(Id("b"), Num(0)), <<>>)),
      Say(App(Item(Id("a"), Num(1)), <<>>)), Say(App(Dot(Id("b"), "get"), <<>>))>>,
    \* a variable of each round of a loop
    <<Var("fs", List(<<>>)),
      ForUp("i", 3, <<Var("k", Id("i")), Do(App(Dot(Id("fs"), "append"), <<Lambda(<<>>, Id("k"))>>)),
                      Do(Update2("+=", Id("k"), Num(5)))>>),
      Each("f", Id("fs"), <<Say(App(Id("f"), <<>>))>>)>>,
    \* the stack is reallocated below an open variable
    <<Var("x", Num(1)), Var("rec", Null), Var("see", Lambda(<<>>, Id("x"))),
      Do(Let(Id("rec"), Fn(<<"n">>, <<Do(Update2("+=", Id("x"), Num(1))), If(Less(Num(0), Id("n")),
          <<"expr", App(Id("rec"), <<Op("SUB", Id("n"), Num(1))>>)>>), Ret(Id("n"))>>))),
      Do(App(Id("rec"), <<Num(3)>>)), Say(App(Id("see"), <<>>)), Say(Id("x"))>>,
    \* a free variable of a free variable, assigned from the innermost function
    <<Var("x", Num(1)),
      Var("f", Fn(<<>>, <<Var("g", Fn(<<>>, <<Do(Let(Id("x"), Num(7))), Ret(<<"postinc", Id("x"), -1>>)>>)),
                          Ret(App(Id("g"), <<>>))>>)),
      Say(App(Id("f"), <<>>)), Say(Id("x"))>>,
    \* a tail call closes the variables of the frame it takes over
    <<Var("g", Fn(<<"f", "n">>, <<Ret(Plus(App(Id("f"), <<>>), Id("n")))>>)),
      Var("h", Fn(<<"a">>, <<Var("k", Num(4)), Var("l", Lambda(<<>>, Plus(Id("k"), Id("a")))), Ret(App(Id("g"), <<Id("l"), Num(1)>>))>>)),
      Say(App(Id("h"), <<Num(2)>>))>>,
    \* a captured variable across try, throw and the handler
    <<Var("x", Num(0)), Var("f", Fn(<<>>, <<Do(<<"preinc", Id("x"), 1>>), If(Ask, Raises(Num(9))), Ret(Id("x"))>>)),
      Try(<<Say(App(Id("f"), <<>>)), Say(App(Id("f"), <<>>)), Say(App(Id("f"), <<>>))>>, <<Say(Id("err"))>>), Say(Id("x"))>>>>

\* Expressions of every form, on locals, free variables, fields and constants.
ExpressionChunks == <<
    <<Var("x", Num(0)), Var("y", Num(4)), Do(Let(Id("x"), <<"cond", Ask, Num(1), Id("y")>>)), Say(Id("x")),
      Do(Let(Id("y"), <<"or", Ask, Num(3)>>)), Say(Id("y")), Do(Let(Id("x"), <<"and", Ask, Plus(Id("x"), Id("y"))>>)),
      Say(Id("x")), Ret(<<"cond", Ask, Id("y"), Num(2)>>)>>,
    <<<<"enum", "E", <<<<"A", None>>, <<"B", IntVal(9)>>, <<"C", None>>>>>>, <<"constdecl", "K", StrVal("k")>>,
      Say(<<"dot", Id("E"), "C">>), Say(Id("K")), Var("t", Table(<<<<"k", Num(3)>>, <<"j", Num(1)>>>>)),
      Say(Item(Id("t"), Id("K"))), Do(Update2("-=", Dot(Id("t"), "k"), Num(1))), Do(<<"postinc", Dot(Id("t"), "k"), 1>>),
      Do(<<"preinc", Dot(Id("t"), "k"), 1>>), Say(Dot(Id("t"), "k")), Say(<<"delete", Dot(Id("t"), "j")>>),
      Say(Op("EXISTS", Text("j"), Id("t"))), Say(Op("EXISTS", Text("k"), Id("t")))>>,
    <<Var("a", Ask), Var("b", Ask), Say(<<"and", Id("a"), Id("b")>>), Say(<<"or", Id("b"), Id("a")>>),
      Say(<<"cond", Id("a"), Num(5), Id("b")>>), Say(Plus(<<"paren", <<"cond", Id("b"), Num(5), Id("a")>>>>, Num(1))),
      Say(<<"or", <<"and", Id("a"), Less(Id("a"), Id("b"))>>, <<"unary", "NOT", Id("b")>>>>),
      <<"if", <<"bin", "CMP", CMP_GE, Id("a"), Id("b")>>, Say(Num(1)), Say(Num(2))>>>>,
    <<Var("a", Ask), Var("b", Ask),
      Say(<<"bin", "CMP", CMP_3W, Id("a"), Id("b")>>), Say(Op("EQ", Id("a"), Num(1))), Say(Op("NE", Id("b"), Null)),
      Say(<<"bin", "BITW", BW_SHIFTL, Num(3), Num(2)>>), Say(<<"bin", "BITW", BW_USHIFTR, Num(6), Num(1)>>),
      Say(<<"bin", "BITW", BW_XOR, <<"unary", "BWNOT", Num(6)>>, Num(3)>>), Say(<<"unary", "NEG", Id("a")>>),
      Say(Op("DIV", Op("MUL", Num(7), Num(3)), Num(-2))), Say(Op("MOD", Num(-7), Num(3))),
      Say(<<"unary", "TYPEOF", List(<<>>)>>)>>,
    <<Var("f", <<"function", [FnOf(<<"a">>, <<Say(Id("a")), Say(Id("b")), Ret(Id("c"))>>)
                                EXCEPT !.params = <<<<"a", None>>, <<"b", Num(2)>>, <<"c", Id("K")>>>>]>>),
      Do(Make(Id("K"), Num(8))), Say(App(Id("f"), <<Num(1), Num(3), Num(4)>>))>>,
    <<Do(Make(<<"root", "K">>, Num(8))),
      Var("f", <<"function", [FnOf(<<>>, <<Say(Id("b")), Ret(Id("c"))>>)
                                EXCEPT !.params = <<<<"b", Num(2)>>, <<"c", Id("K")>>>>]>>),
      Say(App(Id("f"), <<>>)), Say(App(Id("f"), <<Num(1)>>)), Do(App(Id("f"), <<Num(1), Num(2), Num(3)>>))>>,
    <<Var("f", <<"function", [FnOf(<<"a">>, <<Say(Id("a")), Ret(Id("vargv"))>>) EXCEPT !.varargs = TRUE]>>),
      Each("v", App(Id("f"), <<Num(1), Num(2), Num(3)>>), <<Say(Id("v"))>>), Do(App(Id("f"), <<>>))>>,
    <<Var("t", Table(<<<<"x", Num(5)>>>>)), Var("f", <<"function", [FnOf(<<>>, <<Ret(Id("x"))>>) EXCEPT !.bound = Id("t")]>>),
      Say(App(Id("f"), <<>>)), Say(App(App(Dot(Fn(<<>>, <<Ret(Id("x"))>>), "bindenv"), <<Id("t")>>), <<>>)),
      <<"functionstmt", <<"t", "m">>, FnOf(<<>>, <<Ret(Plus(Id("x"), Num(1)))>>)>>,
      <<"localfunction", "g", FnOf(<<>>, <<Ret(Id("x"))>>)>>, Do(App(Id("g"), <<>>))>>,
    \* local functions with an environment, that of a local and that of an expression
    <<Var("t", Table(<<<<"x", Num(5)>>>>)),
      If(Ask, <<"block", <<<<"localfunction", "f", [FnOf(<<>>, <<Ret(Id("x"))>>) EXCEPT !.bound = Table(<<<<"x", Num(200)>>>>)]>>,
                           Var("y", Num(7)), Say(App(Id("f"), <<>>)), Say(Id("y"))>>>>),
      <<"localfunction", "g", [FnOf(<<>>, <<
            <<"localfunction", "h", [FnOf(<<>>, <<Ret(Id("x"))>>) EXCEPT !.bound = Id("this")]>>, Ret(App(Id("h"), <<>>))>>)
                                 EXCEPT !.bound = Id("t")]>>,
      Var("z", Num(8)), Say(App(Id("g"), <<>>)), Say(Id("z"))>>,
    <<Var("a", List(<<Num(1), Text("s"), False, Ask, Null>>)), Do(Let(Item(Id("a"), Num(0)), Num(4))),
      Do(<<"comma", <<Update2("*=", Item(Id("a"), Num(0)), Num(2)), <<"postinc", Item(Id("a"), Num(3)), 1>>>>>>),
      Each("v", <<"unary", "CLONE", Id("a")>>, <<Say(Id("v"))>>), Say(Op("MOD", Num(1), Num(0))), Say(Item(Id("a"), Num(9)))>>>>

\* Calls through natives: errors cross them, results come back through them.
CallChunks == <<
    <<Var("f", Fn(<<"a">>, <<If(Ask, Raises(Num(3))), Ret(Plus(Id("a"), Num(1)))>>)),
      Try(<<Say(App(Dot(Id("f"), "call"), <<Null, Num(1)>>)), Say(App(Dot(Id("f"), "pcall"), <<Null, Num(2)>>)),
            Say(App(Dot(Id("f"), "acall"), <<List(<<Null, Num(3)>>)>>))>>, <<Say(Id("err"))>>),
      Do(App(Dot(Id("f"), "pacall"), <<List(<<Null, Num(4)>>)>>))>>,
    \* map's callback has the largest frame: the stack moves in it and not in
    \* the callbacks of filter and reduce
    <<Var("t", Num(0)), Var("a", List(<<Num(1), Num(2), Num(3)>>)),
      Each("v", App(Dot(Id("a"), "map"), <<Fn(<<"v">>, <<Var("p", Num(0)), Var("q", Num(0)), Var("r", Num(0)), Var("s", Num(0)),
                                                        Do(Update2("+=", Id("t"), Id("v"))), Ret(Plus(Id("v"), Num(1)))>>)>>), <<Say(Id("v"))>>),
      Try(<<Do(App(Dot(Id("a"), "apply"), <<Fn(<<"v">>, <<If(Ask, Raises(Num(8))), Ret(Num(0))>>)>>))>>, <<Say(Id("err"))>>),
      Each("v", App(Dot(Id("a"), "filter"), <<Fn(<<"i", "v">>, <<Ret(Id("v"))>>)>>), <<Say(Id("v"))>>),
      Say(App(Dot(Id("a"), "reduce"), <<Fn(<<"x", "y">>, <<Ret(Plus(Id("x"), Id("y")))>>), Num(1)>>)), Say(Id("t")),
      Say(App(Dot(List(<<Num(5), Num(6)>>), "reduce"), <<Lambda(<<"x", "y">>, Op("SUB", Id("x"), Id("y")))>>)),
      Say(App(Dot(List(<<>>), "reduce"), <<Id("print")>>)), Say(App(Dot(Id("a"), "len"), <<>>))>>,
    \* the array shrinks below the callback of map: no such operation, it grows
    <<Var("a", List(<<Num(1)>>)), Each("v", App(Dot(Id("a"), "map"), <<Fn(<<"v", "i", "b">>,
          <<Do(App(Dot(Id("a"), "append"), <<Id("i")>>)), Ret(Plus(Id("v"), Num(1)))>>)>>), <<Say(Id("v"))>>),
      Say(App(Dot(Id("a"), "len"), <<>>))>>,
    <<Do(App(Id("seterrorhandler"), <<Fn(<<"e">>, <<Say(Text("handled")), Say(Id("e"))>>)>>)), Var("f", Fn(<<>>, <<Raises(Num(2))>>)),
      Try(<<Do(App(Id("f"), <<>>))>>, <<Say(Id("err"))>>), Do(App(Dot(Id("f"), "pcall"), <<Null>>))>>,
    <<Do(App(Id("seterrorhandler"), <<Fn(<<"e">>, <<Say(Id("e")), Raises(Num(4))>>)>>)), Do(App(Num(1), <<>>))>>,
    <<Do(App(Id("seterrorhandler"), <<Null>>)), Do(App(Id("print"), <<>>))>>,
    \* recursion through natives ends at MAX_NATIVE_CALLS
    <<Var("f", Null), Var("n", Num(0)), Do(Let(Id("f"), Fn(<<>>, <<Do(<<"preinc", Id("n"), 1>>), Ret(App(Dot(Id("f"), "acall"), <<List(<<Null>>)>>))>>))),
      Try(<<Do(App(Id("f"), <<>>))>>, <<Say(Id("err"))>>), Say(Less(Num(0), Id("n")))>>,
    <<Say(<<"rawcall", <<Fn(<<"a">>, <<Ret(Id("a"))>>), Null, Num(6)>>>>), Do(<<"rawcall", <<>>>>)>>>>

\* Classes, instances, metamethods and delegates.
Meta(n, ns, ss) == Method(n, FnOf(ns, ss))
This == Id("this")
ObjectChunks == <<
    <<<<"classstmt", Id("A"), Class(None, <<Field("x", Num(1)), <<"name", "s", Num(4), <<>>, TRUE>>,
          Method("constructor", FnOf(<<"v">>, <<Do(Let(Dot(This, "x"), Id("v")))>>)),
          Method("get", FnOf(<<>>, <<Ret(Dot(This, "x"))>>))>>)>>,
      <<"classstmt", Id("B"), Class(Id("A"), <<Field("y", Num(2)),
          Method("constructor", FnOf(<<"v">>, <<Do(App(Dot(<<"base">>, "constructor"), <<Id("v")>>)), Do(Update2("+=", Id("x"), Num(1)))>>)),
          Method("get", FnOf(<<>>, <<Ret(Plus(App(Dot(<<"base">>, "get"), <<>>), Id("y")))>>))>>)>>,
      Var("b", App(Id("B"), <<Num(5)>>)), Say(App(Dot(Id("b"), "get"), <<>>)), Say(Op("INSTANCEOF", Id("b"), Id("A"))),
      Say(Op("INSTANCEOF", App(Id("A"), <<Num(1)>>), Id("B"))), Say(Dot(Id("b"), "s")),
      Var("c", <<"call", Id("A"), <<Num(6)>>, <<Field("x", Num(8))>>>>), Say(App(Dot(Id("c"), "get"), <<>>)),
      Try(<<Do(Make(Dot(Id("A"), "z"), Num(3)))>>, <<Say(Id("err"))>>), Do(Make(Dot(Id("A"), "h"), Fn(<<>>, <<Ret(Num(2))>>))),
      Say(App(Dot(Id("c"), "h"), <<>>)), Do(App(Dot(Id("b"), "h"), <<>>))>>,
    <<<<"classstmt", Id("N"), Class(None, <<Field("n", Num(1)), Meta("constructor", <<"n">>, <<Do(Let(Dot(This, "n"), Id("n")))>>),
          Meta("_unm", <<>>, <<Ret(Num(-9))>>), Meta("_cmp", <<"o">>, <<Ret(Op("SUB", Dot(This, "n"), Dot(Id("o"), "n")))>>),
          Meta("_add", <<"o">>, <<Var("sum", Plus(Dot(This, "n"), Dot(Id("o"), "n"))), Ret(App(Id("N"), <<Id("sum")>>))>>)>>)>>,
      Var("a", App(Id("N"), <<Num(4)>>)), Var("b", App(Id("N"), <<Num(2)>>)), Say(Dot(<<"paren", Plus(Id("a"), Id("b"))>>, "n")),
      Say(<<"unary", "NEG", Id("a")>>), Say(Less(Id("a"), Id("b"))), <<"if", Less(Id("b"), Id("a")), Say(Num(1)), Say(Num(2))>>>>,
    <<<<"classstmt", Id("R"), Class(None, <<Field("n", Num(4)),
          Meta("_get", <<"k">>, <<If(Op("EQ", Id("k"), Text("q")), Ret(Num(77))), Raises(Null)>>),
          Meta("_set", <<"k", "v">>, <<If(Ask, Raises(Num(3))), Do(Let(Dot(This, "n"), Id("v")))>>),
          Meta("_newslot", <<"k", "v">>, <<Do(Let(Dot(This, "n"), Id("v")))>>), Meta("_delslot", <<"k">>, <<Ret(Num(5))>>)>>)>>,
      <<"classstmt", Id("N"), Class(Id("R"), <<Meta("_call", <<"self", "a">>, <<Ret(Plus(Dot(This, "n"), Id("a")))>>),
          Meta("_typeof", <<>>, <<Ret(Text("N"))>>), Meta("_tostring", <<>>, <<Ret(Text("t"))>>),
          Meta("_cloned", <<"o">>, <<Do(<<"preinc", Dot(This, "n"), 1>>)>>),
          Meta("_nexti", <<"i">>, <<If(Op("EQ", Id("i"), Null), Ret(Text("n"))), Ret(Null)>>)>>)>>, Var("a", App(Id("N"), <<>>)),
      Say(Dot(Id("a"), "q")), Try(<<Do(Let(Dot(Id("a"), "w"), Num(6)))>>, <<Say(Id("err"))>>), Do(Let(Dot(Id("a"), "w"), Num(6))),
      Say(App(Id("a"), <<Num(1)>>)), Say(<<"unary", "TYPEOF", Id("a")>>), Say(Plus(Text("x"), Id("a"))),
      Say(Dot(<<"paren", <<"unary", "CLONE", Id("a")>>>>, "n")), Do(Make(Dot(Id("a"), "z"), Num(3))), Say(<<"delete", Dot(Id("a"), "z")>>),
      <<"foreach", "k", "v", Id("a"), Body(<<Say(Id("k")), Say(Id("v"))>>)>>, Say(Dot(Id("a"), "none"))>>,
    <<Var("d", Table(<<<<"x", Num(1)>>, <<"_get", Fn(<<"k">>, <<If(Ask, Raises(Num(4))), Ret(Num(5))>>)>>,
                       <<"_newslot", Fn(<<"k", "v">>, <<Do(App(Dot(This, "rawset"), <<Id("k"), Plus(Id("v"), Num(1))>>))>>)>>>>)),
      Var("t", App(Dot(Table(<<<<"y", Num(2)>>>>), "setdelegate"), <<Id("d")>>)),
      Try(<<Say(Dot(Id("t"), "x")), Say(Dot(Id("t"), "w"))>>, <<Say(Id("err"))>>), Say(Dot(Id("t"), "w")),
      Do(Make(Dot(Id("t"), "z"), Num(7))), Say(Dot(Id("t"), "z")), Do(Make(Dot(Id("t"), "y"), Num(1))), Say(App(Dot(Id("t"), "rawget"), <<Text("y")>>)),
      Try(<<Do(App(Dot(Id("d"), "setdelegate"), <<Id("t")>>))>>, <<Say(Id("err"))>>), Do(Let(Dot(Id("t"), "x"), Num(6))), Say(Dot(Id("d"), "x")),
      Try(<<Do(Make(Item(Id("t"), Null), Num(1)))>>, <<Say(Id("err"))>>), Do(App(Dot(Id("t"), "setdelegate"), <<Null>>)), Do(Dot(Id("t"), "x"))>>,
    <<<<"classstmt", Id("P"), Class(None, <<<<"name", "f", Num(1), <<Field("a", Num(2))>>, FALSE>>,
          Meta("_inherited", <<"at">>, <<Do(Make(Dot(This, "g"), Num(6)))>>)>>)>>,
      <<"classstmt", Id("Q"), <<"class", Id("P"), <<Field("t", Num(0))>>, <<Field("h", Num(3))>>>>>>,
      Say(Dot(App(Id("Q"), <<>>), "g")), Say(Dot(App(Id("Q"), <<>>), "f")), Do(Make(Dot(Id("P"), "late"), Num(1)))>>,
    <<<<"classstmt", Id("M"), Class(None, <<Meta("_newmember", <<"k", "v", "at", "st">>, <<Say(Id("k")),
          Do(Make(Item(This, Id("k")), Plus(Id("v"), Num(1))))>>), Field("u", Num(1))>>)>>,
      Say(Dot(App(Id("M"), <<>>), "u")), <<"classstmt", Id("X"), Class(Num(1), <<>>)>>>>,
    \* a constructor that fails, through a native and in a script
    <<<<"classstmt", Id("F"), Class(None, <<Field("x", Num(1)), Meta("constructor", <<>>, <<If(Ask, Raises(Num(2)))>>)>>)>>,
      Try(<<Do(App(Id("F"), <<>>))>>, <<Say(Id("err"))>>), Say(Dot(App(Id("F"), <<>>), "x")), Say(Dot(App(Id("F"), <<>>), "x"))>>>>

\* Generators: what they hold between two resumes, how they end.
Gen(ss) == Define("gen", <<"a">>, ss)
GeneratorChunks == <<
    <<Gen(<<Var("n", Num(0)), While(Less(Id("n"), Id("a")), <<Give(Id("n")), Do(<<"preinc", Id("n"), 1>>)>>), Ret(Num(9))>>),
      Var("g", App(Id("gen"), <<Num(2)>>)), Say(App(Dot(Id("g"), "getstatus"), <<>>)), Say(<<"unary", "RESUME", Id("g")>>),
      Say(<<"unary", "RESUME", Id("g")>>), Say(<<"unary", "RESUME", Id("g")>>), Say(App(Dot(Id("g"), "getstatus"), <<>>)),
      Try(<<Do(<<"unary", "RESUME", Id("g")>>)>>, <<Say(Id("err"))>>), Do(<<"unary", "RESUME", Num(1)>>)>>,
    \* yield inside try: the trap is saved and restored with the frame
    <<Gen(<<Try(<<Give(Num(1)), If(Ask, Raises(Num(2))), Give(Num(3))>>, <<Say(Id("err")), Give(Num(4))>>), Give(Num(5))>>),
      Var("g", App(Id("gen"), <<Num(2)>>)), Try(<<Say(<<"unary", "RESUME", Id("g")>>), Say(<<"unary", "RESUME", Id("g")>>), Raises(Num(8))>>, <<Say(Id("err"))>>),
      Say(<<"unary", "RESUME", Id("g")>>), Raises(Num(6))>>,
    \* a generator that dies of an error, iterated by foreach
    <<Gen(<<Give(Num(1)), If(Ask, Raises(Num(2))), Give(Id("a"))>>), Var("g", App(Id("gen"), <<Num(3)>>)),
      Try(<<Each("v", Id("g"), <<Say(Id("v"))>>)>>, <<Say(Id("err"))>>), Say(App(Dot(Id("g"), "getstatus"), <<>>)),
      Each("v", App(Id("gen"), <<Num(4)>>), <<Say(Id("v")), If(Ask, Break)>>)>>,
    \* generators that resume generators, and one that resumes itself
    <<Gen(<<If(Less(Num(0), Id("a")), Each("v", App(Id("gen"), <<Op("SUB", Id("a"), Num(1))>>), <<Give(Plus(Id("v"), Num(1)))>>)), Give(Id("a"))>>),
      Each("v", App(Id("gen"), <<Num(2)>>), <<Say(Id("v"))>>)>>,
    <<Var("g", Null), Var("f", Fn(<<>>, <<Give(Num(1)), Do(<<"unary", "RESUME", Id("g")>>), Give(Num(2))>>)), Do(Let(Id("g"), App(Id("f"), <<>>))),
      Say(<<"unary", "RESUME", Id("g")>>), Try(<<Say(<<"unary", "RESUME", Id("g")>>)>>, <<Say(Id("err"))>>), Say(App(Dot(Id("g"), "getstatus"), <<>>))>>,
    \* the free variables of a suspended generator
    <<Gen(<<Var("k", Num(1)), Var("f", Lambda(<<>>, Id("k"))), Give(Id("f")), Do(Let(Id("k"), Num(5))), Give(Id("k"))>>),
      Var("g", App(Id("gen"), <<Num(0)>>)), Var("f", <<"unary", "RESUME", Id("g")>>), Say(App(Id("f"), <<>>)), Say(<<"unary", "RESUME", Id("g")>>)>>,
    <<Give(Num(1))>>>>

\* Coroutines: frames and traps are kept by a suspension and thrown into.
Suspend(e) == App(Id("suspend"), <<e>>)
CoChunks == <<
    <<Define("co", <<"a">>, <<Say(Id("a")), Var("b", Suspend(Num(2))), Say(Id("b")), Ret(Num(4))>>),
      Var("t", App(Id("newthread"), <<Id("co")>>)), Say(App(Dot(Id("t"), "getstatus"), <<>>)), Say(App(Dot(Id("t"), "call"), <<Num(1)>>)),
      Say(App(Dot(Id("t"), "getstatus"), <<>>)), Say(App(Dot(Id("t"), "wakeup"), <<Num(3)>>)), Say(App(Dot(Id("t"), "getstatus"), <<>>)),
      Do(App(Dot(Id("t"), "wakeup"), <<>>))>>,
    <<Define("co", <<>>, <<Try(<<Do(Suspend(Num(1))), Do(Suspend(Num(2)))>>, <<Say(Id("err")), Do(Suspend(Num(3)))>>), Raises(Num(4))>>),
      Var("t", App(Id("newthread"), <<Id("co")>>)), Say(App(Dot(Id("t"), "call"), <<>>)), Try(<<
        Say(App(Dot(Id("t"), "wakeup"), <<>>)), Say(App(Dot(Id("t"), "wakeupthrow"), <<Num(7)>>)), Say(App(Dot(Id("t"), "wakeup"), <<>>))>>,
        <<Say(Id("err"))>>), Say(App(Dot(Id("t"), "getstatus"), <<>>)), Say(App(Dot(Id("t"), "call"), <<>>)),
      Say(App(Dot(Id("t"), "wakeupthrow"), <<Num(5), False>>)), Do(App(Dot(Id("t"), "wakeupthrow"), <<Num(5), False>>))>>,
    \* a coroutine runs another; a captured variable of the main stack
    <<Var("x", Num(0)), Define("inner", <<>>, <<Do(<<"preinc", Id("x"), 1>>), Do(Suspend(Num(1))), Do(Update2("+=", Id("x"), Num(5))), Ret(Id("x"))>>),
      Define("outer", <<>>, <<Var("i", App(Id("newthread"), <<Id("inner")>>)), Do(App(Dot(Id("i"), "call"), <<>>)), Var("v", Suspend(Id("x"))),
                              Ret(Plus(App(Dot(Id("i"), "wakeup"), <<>>), Id("v")))>>),
      Var("t", App(Id("newthread"), <<Id("outer")>>)), Say(App(Dot(Id("t"), "call"), <<>>)), Say(App(Dot(Id("t"), "wakeup"), <<Num(2)>>)), Say(Id("x"))>>,
    \* suspend below a native or a metamethod is refused; the main chunk may suspend
    <<Define("susp", <<"v">>, <<Ret(Suspend(Num(1)))>>),
      Define("co", <<>>, <<Try(<<Do(App(Dot(List(<<Num(1)>>), "map"), <<Id("susp")>>))>>, <<Say(Id("err"))>>), Ret(Num(0))>>),
      Say(App(Dot(App(Id("newthread"), <<Id("co")>>), "call"), <<>>)), Do(Suspend(Num(5))), Say(Num(1))>>>>

-----------------------------------------------------------------------------
(* The instances                                                           *)

C_Programs == FlowChunks \o ClosureChunks \o ExpressionChunks \o CallChunks \o ObjectChunks
              \o GeneratorChunks \o CoChunks
C_Compiled(chunk, lineinfo) == LET translation == Compile(chunk, lineinfo) IN translation

Ints(s) == [i \in DOMAIN s |-> IntVal(s[i])]
C_Inputs == {Ints(<<1, 0, 1, 1, 0, 1, 0>>), Ints(<<0, 1, 1, 0, 1, 0, 1>>)}

\* Locals captured by closures, in a loop left from an inner block.
C_ScopePrograms == <<Capture(Body(<<Break>>)), Capture(Body(<<Continue>>))>>
=============================================================================
