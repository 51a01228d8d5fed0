-------------------------------- MODULE MCLpc -------------------------------
(* Programs for the virtual machine, and what a compiled program must do.   *)
EXTENDS LpcMachine, Compiler

Meaning == INSTANCE LpcMeaning
Printer == INSTANCE LpcPrinter

CONSTANTS Meant(_),        \* how a world ends by the reference evaluation
          SameValue(_, _, _, _, _, _)   \* two values, each with its heap and the destructed objects
MCMeant(w) == LET ref == Meaning!MeaningOf(w) IN ref
MCSameValue(v, heap1, gone1, u, heap2, gone2) ==
    LET one == Meaning!Whole(v, heap1, gone1)
        other == Meaning!Whole(u, heap2, gone2)
    IN  one = other

-----------------------------------------------------------------------------
(* Shorthands *)
V(x) == VarRef(x)
N(n) == IntLiteral(n)
S(x) == StringLiteral(x)
F(f, args) == Call(f, args, [i \in DOMAIN args |-> FALSE], "plain", None)
Spread(f, args, at) == Call(f, args, [i \in DOMAIN args |-> i \in at], "plain", None)
Parent(f, args, q) == Call(f, args, [i \in DOMAIN args |-> FALSE], "parent", q)
Other(o, f, args) == CallOther(o, S(f), args, [i \in DOMAIN args |-> FALSE])
Arr(es) == ArrayLiteral(es, [i \in DOMAIN es |-> FALSE])
Do(e) == ExprStmt(e)
Set(x, e) == AssignStmt(x, e)
B(stmts) == Block(stmts, TRUE)
(* log = (log * 10 + e) % 99991 *)
Logged(e) == Binary("Mod", Binary("Add", Binary("Mul", V("log"), N(10)), e), N(99991))
Log(e) == Set("log", Logged(e))
LogExpr(e) == Assign("log", "=", Logged(e))
Fn(name, params, stmts) == Function(name, params, FALSE, B(stmts))
Var(name) == ObjectVar(name, FALSE, None)
LogVar == ObjectVar("log", FALSE, N(0))

o1 == <<"a">>
o2 == <<"b">>

(* A world is given by the syntax trees of its files; the machine starts    *)
(* from their texts.                                                        *)
World(dialect, layout, trees, order, objects, created, simul) ==
    [dialect |-> dialect, trees |-> trees, files |-> [f \in DOMAIN trees |-> Printer!TextOfFile(trees[f], layout)],
     order |-> order, objects |-> objects, created |-> created, simul |-> simul,
     main |-> <<o1, "main", <<Obj(o2)>>>>]
SingleIn(dialect, layout, classes, own, functions) ==
    World(dialect, layout, [f \in {"m"} |-> File(<<>>, classes, <<LogVar>> \o own, functions)],
          <<"m">>, [o \in {o1, o2} |-> "m"], <<o1, o2>>, None)
Single(own, functions) == SingleIn("FluffOS", "tight", [c \in {"point"} |-> <<"x", "y">>], own, functions)

-----------------------------------------------------------------------------
(* Loops: every kind of loop, left and continued at every round, directly   *)
(* or from a switch, inside another loop.                                   *)
LoopKinds == {"while", "do", "for", "foreach"}
Exits == {"break", "continue", "return", "none", "switch break", "switch continue", "throw"}

Inner(exit, k) ==
    LET leave == CASE exit \in {"break", "switch break"} -> Break
                   [] exit \in {"continue", "switch continue"} -> Continue
                   [] exit = "return" -> Return(V("i"))
                   [] exit = "throw" -> Do(F("throw", <<V("i")>>))
                   [] OTHER -> Log(N(8))
    IN  IF exit \in {"switch break", "switch continue"}
        THEN Switch(V("i"), <<CaseLabel(N(k), None), Log(N(7)), leave, DefaultLabel, Log(N(6)),
                              CaseLabel(N(k + 2), N(k + 3)), Log(N(5))>>)
        ELSE If(Binary("Eq", V("i"), N(k)), B(<<leave>>), None)

LoopOf(kind, exit, k) ==
    LET body == <<VarDecl(None, "x", V("i")), Inner(exit, k), Log(V("x"))>>
        step == Do(IncDec("Add", TRUE, "i"))
        less == Binary("Lt", V("i"), N(3))
    IN  CASE kind = "while" -> While(less, B(<<step>> \o body))
          [] kind = "do" -> DoWhile(B(<<step>> \o body), less)
          [] kind = "for" -> For(Assign("i", "=", N(1)), Binary("Lte", V("i"), N(3)), IncDec("Add", FALSE, "i"), B(body))
          [] OTHER -> Foreach(<<"i", FALSE>>, None, Arr(<<N(1), N(2), N(3)>>), B(body))

LoopWorld(kind, exit, k) ==
    Single(<<>>, <<Fn("main", <<>>,
        <<VarDecl(None, "i", N(0)),
          Foreach(<<"j", TRUE>>, None, Arr(<<N(1), N(2)>>), B(<<Set("i", N(0)), LoopOf(kind, exit, k), Log(N(9))>>)),
          Return(V("log"))>>)>>)

-----------------------------------------------------------------------------
Named ==
    ("catch" :> Single(<<Var("a")>>, <<
        Fn("boom", <<"n">>, <<If(V("n"), B(<<Do(F("boom", <<Binary("Sub", V("n"), N(1))>>))>>), None),
                              Do(F("throw", <<Arr(<<V("n"), V("log")>>)>>))>>),
        Fn("main", <<>>, <<
            Set("a", Arr(<<N(1), N(2)>>)),
            VarDecl(None, "e", Catch(Comma(LogExpr(N(1)), F("boom", <<N(2)>>)))),
            VarDecl(None, "s", Binary("Add", N(5), Catch(Catch(F("boom", <<N(0)>>))))),
            VarDecl(None, "q", Catch(Binary("Div", N(1), N(0)))),
            Log(Ternary(Catch(Assign("log", "Add", N(3))), N(1), N(2))),
            Do(Catch(Index(V("a"), N(7), FALSE))),
            Return(Arr(<<V("e"), V("s"), V("q"), F("sizeof", <<V("e")>>)>>))>>)>>))
    @@ ("defer" :> Single(<<>>, <<
        Fn("d", <<"n">>, <<Log(V("n")), Return(N(0))>>),
        Fn("bad", <<>>, <<Do(F("defer", <<ClosureLiteral("d", <<N(4)>>, FALSE)>>)), Log(N(3)),
                          Do(F("throw", <<N(0)>>))>>),
        Fn("work", <<"t">>, <<
            Do(F("defer", <<ClosureLiteral("d", <<N(1)>>, FALSE)>>)),
            Do(F("defer", <<ClosureLiteral("bad", <<>>, FALSE)>>)),
            Do(F("defer", <<ClosureLiteral("d", <<N(2)>>, FALSE)>>)),
            If(V("t"), B(<<Do(F("throw", <<S(<<"x">>)>>))>>), None),
            Return(V("log"))>>),
        Fn("main", <<>>, <<Log(Catch(F("work", <<N(0)>>))),
                           Return(Arr(<<Catch(F("work", <<N(1)>>)), V("log")>>))>>)>>))
    @@ ("spread" :> Single(<<>>, <<
        Function("rest", <<"a", "b", "more">>, TRUE, B(<<Return(Arr(<<V("a"), V("b"), V("more")>>))>>)),
        Fn("three", <<"a", "b", "c">>, <<Return(Arr(<<V("a"), V("b"), V("c")>>))>>),
        Fn("main", <<>>, <<
            VarDecl(None, "p", Arr(<<N(1), N(2)>>)),
            VarDecl(None, "q", Arr(<<>>)),
            Return(Arr(<<Spread("three", <<V("p"), N(3)>>, {1}), Spread("three", <<N(0), V("p")>>, {2}),
                         Spread("rest", <<V("p"), V("p"), N(5)>>, {1, 2}), Spread("rest", <<V("q")>>, {1}),
                         F("rest", <<N(7)>>), F("three", <<N(1), N(2), N(3), N(4)>>),
                         ArrayLiteral(<<V("q"), N(6), V("p")>>, <<TRUE, FALSE, TRUE>>),
                         Catch(Spread("three", <<N(1), V("log")>>, {2}))>>))>>)>>))
    @@ ("closures" :> SingleIn("LdMud", "spaced", <<>>, <<ObjectVar("f", FALSE, InlineLambda(<<Binary("Add", LambdaParam(0, FALSE), N(1))>>, <<>>, 1))>>, <<
        Fn("twice", <<"g", "x">>, <<Return(F("evaluate", <<V("g"), F("evaluate", <<V("g"), V("x")>>)>>))>>),
        Fn("sub", <<"a", "b">>, <<Return(Binary("Sub", V("a"), V("b")))>>),
        Fn("main", <<>>, <<
            VarDecl(None, "n", N(5)),
            VarDecl(None, "g", InlineLambda(<<LogExpr(N(2)), Binary("Add", LambdaParam(0, TRUE), LambdaParam(0, FALSE))>>,
                                            <<V("n")>>, 1)),
            VarDecl(None, "h", AnonFunction(<<"a", "b">>, FALSE, B(<<
                VarDecl(None, "inner", InlineLambda(<<Binary("Mul", LambdaParam(0, FALSE), N(3))>>, <<>>, 1)),
                Return(Binary("Sub", F("evaluate", <<V("inner"), V("a")>>), V("b")))>>))),
            Set("n", N(9)),
            Return(Arr(<<F("twice", <<V("g"), N(1)>>), F("evaluate", <<V("h"), N(4), N(2)>>),
                         F("evaluate", <<ClosureLiteral("sub", <<N(8)>>, FALSE), N(3)>>),
                         F("evaluate", <<ClosureLiteral("sizeof", <<>>, TRUE), S(<<"a", "b">>)>>),
                         F("twice", <<V("f"), N(1)>>), F("evaluate", <<V("f")>>), F("evaluate", <<N(3)>>),
                         Catch(F("evaluate", <<ClosureLiteral("nothing", <<>>, FALSE)>>))>>))>>)>>))
    @@ ("values" :> Single(<<Var("m"), Var("c")>>, <<
        Fn("main", <<>>, <<
            Set("m", MappingLiteral(<<<<S(<<"a">>), N(1)>>, <<N(2), Arr(<<N(0)>>)>>>>)),
            IndexAssignStmt(V("m"), S(<<"b">>), "=", N(4)),
            IndexAssignStmt(V("m"), S(<<"a">>), "Add", N(6)),
            VarDecl(None, "x", IndexAssign(Index(V("m"), N(2), FALSE), N(0), "=", N(3))),
            VarDecl(None, "y", IncDecIndex("Add", FALSE, V("m"), S(<<"b">>))),
            VarDecl(None, "z", IncDecIndex("Sub", TRUE, Index(V("m"), N(2), FALSE), N(0))),
            VarDecl(None, "w", IndexAssign(V("m"), S(<<"a">>), "Mul", N(2))),
            VarDecl("point", "p", NewClass("point", <<<<"y", N(7)>>>>)),
            IndexAssignStmt(V("p"), MemberName("x"), "=", Index(V("p"), MemberName("y"), FALSE)),
            Set("c", TypeCast("point", V("p"))),
            VarDecl(None, "sum", N(0)),
            Foreach(<<"k", TRUE>>, <<"v", TRUE>>, V("m"), B(<<
                IndexAssignStmt(V("m"), Arr(<<>>), "=", N(1)), Log(Ternary(Binary("Eq", V("k"), N(2)), N(1), N(2)))>>)),
            VarDecl(None, "s", Binary("Add", S(<<"a", "b">>), Unary("Neg", N(12)))),
            Return(Arr(<<V("x"), V("y"), V("z"), V("w"), V("c"), V("s"), RangeExpr(V("s"), N(1), FALSE, N(2), TRUE),
                         RangeExpr(V("c"), N(5), TRUE, N(9), FALSE), Index(V("s"), N(1), TRUE),
                         Index(V("s"), N(5), FALSE), Catch(Index(V("s"), N(6), FALSE)),
                         Binary("Or", N(0), Binary("And", N(2), N(3))), Binary("And", N(0), Assign("sum", "=", N(1))),
                         V("sum"), IncDec("Sub", FALSE, "sum"), V("sum"), Unary("Not", V("sum")), Unary("BitNot", N(2)),
                         Binary("Sub", Arr(<<N(1), N(2), N(1)>>), Arr(<<N(1)>>)), Binary("Mod", Unary("Neg", N(7)), N(3)),
                         F("keys", <<V("m")>>), F("values", <<V("m")>>), TimeExpression(B(<<Log(N(3))>>)),
                         Binary("Eq", V("c"), V("c")), Binary("BitOr", N(5), N(2))>>))>>)>>))
    @@ ("sscanf" :> SingleIn("DGD", "commented", <<>>, <<Var("n"), Var("t")>>, <<
        Fn("main", <<>>, <<
            VarDecl(None, "a", Arr(<<N(0), N(0)>>)), VarDecl(None, "s", N(0)),
            Return(Arr(<<
                Sscanf(S(<<"a", "b", " ", "1", "2", "c">>), S(<<"%", "s", " ", "%", "d", "%", "s">>), <<V("s"), V("n"), V("t")>>),
                V("s"), V("n"), V("t"), NilLiteral,
                Sscanf(S(<<"1", " ", "f">>), S(<<"%", "d", " ", "%", "x">>),
                       <<Index(V("a"), N(0), FALSE), Index(V("a"), N(1), FALSE)>>), V("a"),
                Sscanf(S(<<"a", "1">>), S(<<"%", "*", "s", "%", "d">>), <<V("n")>>), V("n"),
                Sscanf(S(<<"b">>), S(<<"a", "%", "s">>), <<V("s")>>), V("s")>>))>>)>>))
    @@ ("destructed" :> Single(<<Var("other"), Var("list")>>, <<
        Fn("id", <<>>, <<Return(N(5))>>),
        Fn("getter", <<>>, <<Return(ClosureLiteral("id", <<>>, FALSE))>>),
        Fn("kill", <<>>, <<Do(F("destruct", <<V("other")>>)), Return(V("other"))>>),
        Fn("main", <<"o">>, <<
            Set("other", V("o")),
            Set("list", Arr(<<V("other"), N(1)>>)),
            VarDecl(None, "m", MappingLiteral(<<<<N(1), V("o")>>>>)),
            VarDecl(None, "f", Other(V("other"), <<"g", "e", "t", "t", "e", "r">>, <<>>)),
            VarDecl(None, "before", Arr(<<Other(V("other"), <<"i", "d">>, <<>>), F("evaluate", <<V("f")>>),
                                          Other(V("other"), <<"n", "o">>, <<>>)>>)),
            Return(Arr(<<V("before"), F("kill", <<>>), V("o"), V("other"), Index(V("list"), N(0), FALSE),
                         Index(V("m"), N(1), FALSE), Catch(F("evaluate", <<V("f")>>)),
                         Ternary(V("other"), N(1), N(2)), Catch(Other(V("o"), <<"i", "d">>, <<>>))>>))>>)>>))
    @@ ("inherit" :> World("FluffOS", "commented",
        [f \in {"p", "q", "m", "s"} |->
            CASE f = "p" -> File(<<>>, <<>>, <<ObjectVar("log", FALSE, N(1)), ObjectVar("x", TRUE, N(2))>>, <<
                     Fn("create", <<>>, <<Set("log", Binary("Add", V("log"), V("x")))>>),
                     Fn("bump", <<>>, <<Do(IncDec("Add", TRUE, "x")), Return(F("me", <<>>))>>),
                     Fn("me", <<>>, <<Return(N(1))>>)>>)
              [] f = "q" -> File(<<>>, <<>>, <<ObjectVar("y", FALSE, N(3)), ObjectVar("x", FALSE, N(4))>>, <<
                     Fn("create", <<>>, <<Do(Assign("x", "Add", V("y")))>>),
                     Fn("poke", <<"n">>, <<Set("x", V("n")), Return(Parent("poke", <<>>, None))>>),
                     Fn("me", <<>>, <<Return(N(2))>>)>>)
              [] f = "m" -> File(<<"p", "q">>, <<>>, <<ObjectVar("z", FALSE, Binary("Add", V("x"), V("log"))), Var("log")>>, <<
                     Fn("create", <<>>, <<Do(Parent("create", <<>>, None)), Do(Parent("create", <<>>, "q"))>>),
                     Fn("me", <<>>, <<Return(N(3))>>),
                     Fn("main", <<>>, <<
                         Do(F("create", <<>>)), Log(N(5)),
                         Return(Arr(<<F("bump", <<>>), V("x"), V("y"), V("z"), Parent("me", <<>>, None),
                                      Parent("me", <<>>, "q"), Catch(F("poke", <<N(8)>>)), F("shared", <<V("z")>>),
                                      Catch(F("nowhere", <<>>)), Call("sizeof", <<V("z")>>, <<FALSE>>, "efun", None)>>))>>)>>)
              [] OTHER -> File(<<>>, <<>>, <<ObjectVar("w", FALSE, N(6))>>, <<
                     Fn("shared", <<"n">>, <<Return(Arr(<<V("w"), V("n"), F("this_object", <<>>)>>))>>),
                     Fn("sizeof", <<"v">>, <<Return(N(99))>>)>>)],
        <<"p", "q", "m", "s">>, [o \in {o1, o2} |-> IF o = o1 THEN "m" ELSE "s"], <<o2, o1>>, o2))

-----------------------------------------------------------------------------
(* Dispatches that never end by themselves, with a call deferred. *)
Endless ==
    ("spin" :> Single(<<>>, <<
        Fn("d", <<>>, <<Log(N(1))>>),
        Fn("main", <<>>, <<Do(F("defer", <<ClosureLiteral("d", <<>>, FALSE)>>)),
                           Do(Catch(F("loop", <<>>)))>>),
        Fn("loop", <<>>, <<While(N(1), B(<<>>))>>)>>))

MCWorlds ==
    LET loops == [k \in (LoopKinds \X Exits \X (1..3)) |-> LoopWorld(k[1], k[2], k[3])]
        others == Named @@ Endless
    IN  loops @@ [k \in {<<n>> : n \in DOMAIN others} |-> others[k[1]]]

-----------------------------------------------------------------------------
(* A program does what its source says: when a dispatch has ended within    *)
(* its limit, the value it returned or the error it ended with, and every   *)
(* object variable, are those of the reference evaluation of the syntax     *)
(* tree.  This is about every jump, slot and stack effect that              *)
(* CodeGen::generate() lays out and VM::run() executes: break and continue  *)
(* through a switch, catch across frames, spreads, deferred calls, closures *)
(* and the variables of inherited files.  On the way compiled code meets    *)
(* none of the machine's own errors (a value taken from an empty stack, a   *)
(* slot outside its frame, a missing catch frame).                          *)
CompiledMeansSource ==
    /\ ~broken
    /\ outcome \notin {None, <<"cost">>} =>
        LET w == Worlds[world]
            ref == Meant(w)
            Same(v, u) == SameValue(v, heap, gone, u, ref.s.heap, ref.s.gone)
        IN  /\ outcome[1] = (IF ref.k = "ok" THEN "return" ELSE "throw")
            /\ Same(outcome[2], ref.v)
            /\ gone = ref.s.gone
            /\ \A o \in DOMAIN vars : \A i \in DOMAIN vars[o] :
                   Same(vars[o][i], ref.s.vars[o][Meaning!Layout(w, w.objects[o])[i]])

(* Every dispatch ends, one in an endless loop under catch() too: the       *)
(* evaluation cost is counted across frames and its error passes every      *)
(* catch (VM::run()).  The programs leave the evaluation limit alone.       *)
Terminates == <>(outcome # None)
=============================================================================
