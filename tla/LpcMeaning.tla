----------------------------- MODULE LpcMeaning -----------------------------
(* What an LPC program means: an evaluator of the syntax tree itself, with  *)
(* environments in place of slots and results in place of jumps.  It is the *)
(* reference the compiled program is compared with.                         *)
(*                                                                          *)
(* A result is [k, v, s]: how the evaluation ended ("ok", "throw",          *)
(* "return", "break", "continue"), the value, and the state s, a record of  *)
(* the environment of the locals, the heap, the object variables by file    *)
(* and name, the destructed objects and the calls deferred so far.  The     *)
(* context c is the world, the current object and the file of the code.     *)
EXTENDS LpcAst, LpcValues

Ok(v, s) == [k |-> "ok", v |-> v, s |-> s]
Ends(k, v, s) == [k |-> k, v |-> v, s |-> s]
Error(s) == Ends("throw", Message, s)
After(r, F(_, _)) == IF r.k = "ok" THEN F(r.v, r.s) ELSE r
OfOp(result, s) == IF result[1] = Err THEN Error(s) ELSE Ok(result[1], [s EXCEPT !.heap = result[2]])

Named(seq, name) == seq[CHOOSE i \in DOMAIN seq : seq[i].name = name]

(* The file that defines f for an object of file, parents in order. *)
RECURSIVE DefinerOf(_, _, _)
DefinerOf(w, file, f) ==
    IF \E i \in DOMAIN w.trees[file].functions : w.trees[file].functions[i].name = f THEN file
    ELSE LET parents == w.trees[file].inherits
             with == {i \in DOMAIN parents : DefinerOf(w, parents[i], f) # None}
         IN  IF with = {} THEN None ELSE DefinerOf(w, parents[CHOOSE i \in with : \A j \in with : i <= j], f)

(* The file whose variable a name is, seen from inside a file. *)
RECURSIVE OwnerOf(_, _, _)
OwnerOf(w, file, name) ==
    IF \E i \in DOMAIN w.trees[file].vars : w.trees[file].vars[i].name = name THEN file
    ELSE LET parents == w.trees[file].inherits
             Visible(i) == LET o == OwnerOf(w, parents[i], name) IN
                           o # None /\ ~Named(w.trees[o].vars, name).isPrivate
             with == {i \in DOMAIN parents : Visible(i)}
         IN  IF with = {} THEN None ELSE OwnerOf(w, parents[CHOOSE i \in with : \A j \in with : j <= i], name)

(* The variables of an object of a file, in the order of their slots. *)
RECURSIVE Layout(_, _)
Layout(w, file) ==
    FoldLeft(LAMBDA l, p : l \o Layout(w, p), <<>>, w.trees[file].inherits)
    \o [i \in DOMAIN w.trees[file].vars |-> <<file, w.trees[file].vars[i].name>>]

Read(c, name, s) ==
    CoerceIfDestructed(IF name \in DOMAIN s.env THEN s.env[name]
                       ELSE s.vars[c.obj][<<OwnerOf(c.w, c.file, name), name>>], s.gone)
Write(c, name, v, s) ==
    IF name \in DOMAIN s.env THEN [s EXCEPT !.env[name] = v]
    ELSE [s EXCEPT !.vars[c.obj][<<OwnerOf(c.w, c.file, name), name>>] = v]
Declare(name, v, s) == [s EXCEPT !.env = [n \in DOMAIN @ \cup {name} |-> IF n = name THEN v ELSE @[n]]]
(* At the end of a block its names are forgotten. *)
Scoped(r, outer) == [r EXCEPT !.s.env = [n \in DOMAIN outer |-> @[n]]]

RECURSIVE Eval(_, _, _), Exec(_, _, _), Invoke(_, _, _, _, _, _), RunDefers(_, _, _), LoopFrom(_, _, _, _, _),
          EvalIndex(_, _, _, _), CallName(_, _, _, _), ApplyClosure(_, _, _, _)

(* The values of expressions, from left to right. *)
EvalAll(c, es, s) ==
    FoldLeft(LAMBDA r, e : After(r, LAMBDA vs, t : After(Eval(c, e, t), LAMBDA v, u : Ok(Append(vs, v), u))),
             Ok(<<>>, s), es)

(* With the arrays marked by "..." replaced by their elements. *)
EvalArgs(c, es, spread, s) ==
    After(EvalAll(c, es, s), LAMBDA vs, t :
        IF \E i \in DOMAIN spread : spread[i] /\ vs[i][1] # "arr" THEN Error(t)
        ELSE Ok(FoldLeft(LAMBDA out, i : IF spread # <<>> /\ spread[i] THEN out \o t.heap[vs[i][2]]
                                         ELSE Append(out, vs[i]), <<>>, [i \in DOMAIN vs |-> i]), t))

(* A class is an array of its members. *)
ClassOf(c, target, s) ==
    LET types == s.classes IN
    CASE target[1] = "cast" -> target[2] [] target[1] = "var" -> types[target[2]] [] OTHER -> None
EvalIndex(c, target, i, s) ==
    IF i[1] # "member" THEN Eval(c, i, s)
    ELSE LET members == c.w.trees[c.file].classes[ClassOf(c, target, s)] IN
         Ok(Num((CHOOSE k \in DOMAIN members : members[k] = i[2]) - 1), s)
(* Target, then index: the value is the pair. *)
EvalPlace(c, target, i, s) ==
    After(Eval(c, target, s), LAMBDA tv, t : After(EvalIndex(c, target, i, t), LAMBDA iv, u : Ok(<<tv, iv>>, u)))
ReadPlace(p, fromEnd, s) == OfOp(IndexOp(p[1], p[2], fromEnd, s.heap, s.gone), s)
WritePlace(p, v, s) == OfOp(IndexAssignOp(p[1], p[2], v, s.heap), s)
Combine(op, l, r, s) == IF op = "=" THEN Ok(r, s) ELSE OfOp(BinaryOp(op, l, r, s.heap), s)

NewClosureOf(closure, s) ==
    LET made == NewClosure(closure, s.heap) IN Ok(made[1], [s EXCEPT !.heap = made[2]])

(* A call runs in an environment of its own, and its deferred calls when   *)
(* it ends, however it ends.                                               *)
Invoke(w, o, file, env, body, s) ==
    LET c == [w |-> w, obj |-> o, file |-> file]
        run == Exec(c, body, [s EXCEPT !.env = env, !.defers = <<>>, !.classes = <<>>])
        end == CASE run.k = "throw" -> run [] run.k = "return" -> run [] OTHER -> Ends("return", Void, run.s)
        left == RunDefers(w, end.s.defers, end.s)
    IN  Ends(IF end.k = "throw" THEN "throw" ELSE "ok", end.v,
             [left EXCEPT !.env = s.env, !.defers = s.defers, !.classes = s.classes])
RunDefers(w, refs, s) ==
    IF refs = <<>> THEN s
    ELSE RunDefers(w, Front(refs), ApplyClosure(w, Last(refs), <<>>, s).s)

(* The parameters of a function, the last of a varargs one being an array. *)
Arguments(fn, args, s) ==
    LET n == Len(fn.params)
        rest == NewArray(SubSeq(args, n, Len(args)), s.heap)
        given(i) == IF i <= Len(args) THEN args[i] ELSE Num(0)
    IN  IF fn.isVarargs /\ n > 0
        THEN Ok([p \in {fn.params[i] : i \in 1..n} |-> IF p = fn.params[n] THEN rest[1]
                                                      ELSE given(CHOOSE i \in 1..n : fn.params[i] = p)],
                [s EXCEPT !.heap = rest[2]])
        ELSE Ok([p \in {fn.params[i] : i \in 1..n} |-> given(CHOOSE i \in 1..n : fn.params[i] = p)], s)
CallFunction(w, o, file, fn, args, s) ==
    After(Arguments(fn, args, s), LAMBDA env, t : Invoke(w, o, file, env, fn.body, t))

CallEfunOf(c, f, args, s) ==
    CASE f \in PureEfuns -> OfOp(PureEfun(f, args, s.heap), s)
      [] f = "this_object" -> Ok(Obj(c.obj), s)
      [] f = "throw" -> IF Len(args) # 1 THEN Error(s) ELSE Ends("throw", args[1], s)
      [] f = "evaluate" -> IF args[1][1] # "fun" THEN Ok(Void, s) ELSE ApplyClosure(c.w, args[1][2], Tail(args), s)
      [] f = "defer" -> Ok(Void, [s EXCEPT !.defers = Append(@, args[1][2])])
      [] f = "destruct" -> Ok(Void, [s EXCEPT !.gone = @ \cup {args[1][2]}])
      [] f = "call_other" ->
             IF args[1][1] # "obj" THEN Error(s)
             ELSE LET file == c.w.objects[args[1][2]]  owner == DefinerOf(c.w, file, NameOf(args[2][2])) IN
                  IF args[1][2] \in s.gone \/ owner = None THEN Ok(Void, s)
                  ELSE CallFunction(c.w, args[1][2], owner, Named(c.w.trees[owner].functions, NameOf(args[2][2])),
                                    SubSeq(args, 3, Len(args)), s)
      [] OTHER -> Error(s)

(* The object's own function, the simul_efun object's, or the efun. *)
CallName(c, f, args, s) ==
    LET own == DefinerOf(c.w, c.w.objects[c.obj], f)
        simul == IF c.w.simul = None THEN None ELSE DefinerOf(c.w, c.w.objects[c.w.simul], f)
    IN  CASE own # None -> CallFunction(c.w, c.obj, own, Named(c.w.trees[own].functions, f), args, s)
          [] own = None /\ simul # None ->
                 CallFunction(c.w, c.w.simul, simul, Named(c.w.trees[simul].functions, f), args, s)
          [] OTHER -> CallEfunOf(c, f, args, s)

CallParentOf(c, f, qualifier, args, s) ==
    LET parents == c.w.trees[c.file].inherits
        with == {i \in DOMAIN parents : (qualifier = None \/ parents[i] = qualifier)
                                        /\ DefinerOf(c.w, parents[i], f) # None}
        owner == DefinerOf(c.w, parents[CHOOSE i \in with : \A j \in with : i <= j], f)
    IN  IF with = {} THEN Error(s)
        ELSE CallFunction(c.w, c.obj, owner, Named(c.w.trees[owner].functions, f), args, s)

(* The parameters of a lambda are names too: "$b1".. for the bound values  *)
(* and "$1".. for the arguments.                                           *)
ParamName(i, isBound) == (IF isBound THEN "$b" ELSE "$") \o ToString(i)
LambdaEnv(bound, all) ==
    [p \in {ParamName(i, b) : i \in 0..7, b \in BOOLEAN} |->
        LET at == CHOOSE i \in 1..16 : p = IF i <= 8 THEN ParamName(i - 1, FALSE) ELSE ParamName(i - 9, TRUE)
            k == IF at > 8 THEN at - 8 ELSE Len(bound) + at
        IN  IF k <= Len(all) THEN all[k] ELSE Num(0)]

ApplyClosure(w, ref, args, s) ==
    LET f == s.heap[ref]
        all == f.bound \o args
        c == [w |-> w, obj |-> f.owner, file |-> f.file]
    IN  CASE f.owner \in s.gone -> Error(s)
          [] f.owner \notin s.gone /\ f.kind = "lambda" ->
                 Invoke(w, f.owner, f.file, LambdaEnv(f.bound, all),
                        Block([i \in DOMAIN f.code |-> IF i = Len(f.code) THEN Return(f.code[i])
                                                       ELSE ExprStmt(f.code[i])], TRUE), s)
          [] f.owner \notin s.gone /\ f.kind = "anon" ->
                 CallFunction(w, f.owner, f.file, Function("", f.code[2], f.code[3], f.code[4]), all, s)
          [] f.owner \notin s.gone /\ f.kind = "efun" -> CallEfunOf(c, f.code, all, s)
          [] OTHER -> CallName(c, f.code, all, s)

-----------------------------------------------------------------------------
Eval(c, e, s) ==
    CASE e[1] = "str" -> Ok(Str(e[2]), s)
      [] e[1] = "int" -> Ok(Num(e[2]), s)
      [] e[1] = "nil" -> Ok(NilValue, s)
      [] e[1] = "var" -> Ok(Read(c, e[2], s), s)
      [] e[1] = "bin" -> After(Eval(c, e[3], s), LAMBDA l, t :
             IF (e[2] = "Or" /\ IsTruthy(l)) \/ (e[2] = "And" /\ ~IsTruthy(l)) THEN Ok(l, t)
             ELSE After(Eval(c, e[4], t), LAMBDA r, u :
                      IF e[2] \in {"Or", "And"} THEN Ok(r, u) ELSE Combine(e[2], l, r, u)))
      [] e[1] = "un" -> After(Eval(c, e[3], s), LAMBDA v, t :
             IF e[2] = "Neg" THEN OfOp(BinaryOp("Sub", Num(0), v, t.heap), t) ELSE OfOp(UnaryOp(e[2], v, t.heap), t))
      [] e[1] = "comma" -> After(Eval(c, e[2], s), LAMBDA v, t : Eval(c, e[3], t))
      [] e[1] = "tern" -> After(Eval(c, e[2], s), LAMBDA v, t : Eval(c, IF IsTruthy(v) THEN e[3] ELSE e[4], t))
      [] e[1] = "call" -> After(EvalArgs(c, e[3], e[4], s), LAMBDA args, t :
             CASE e[5] = "parent" -> CallParentOf(c, e[2], e[6], args, t)
               [] e[5] = "efun" -> CallEfunOf(c, e[2], args, t)
               [] OTHER -> CallName(c, e[2], args, t))
      [] e[1] = "callOther" -> After(EvalArgs(c, <<e[2], e[3]>> \o e[4], <<FALSE, FALSE>> \o e[5], s),
                                     LAMBDA args, t : CallEfunOf(c, "call_other", args, t))
      [] e[1] = "sscanf" -> After(EvalAll(c, <<e[2], e[3]>>, s), LAMBDA in, t :
             LET scan == RunSscanf(in[1][2], in[2][2], Len(e[4])) IN
             IF scan.failed THEN Error(t)
             ELSE After(FoldLeft(LAMBDA r, i : After(r, LAMBDA v, u :
                                     IF e[4][i][1] = "var" THEN Ok(Void, Write(c, e[4][i][2], scan.assigned[i], u))
                                     ELSE After(EvalPlace(c, e[4][i][2], e[4][i][3], u),
                                                LAMBDA p, x : WritePlace(p, scan.assigned[i], x))),
                                 Ok(Void, t), [i \in DOMAIN scan.assigned |-> i]),
                        LAMBDA v, u : Ok(Num(scan.n), u)))
      [] e[1] = "catch" -> LET r == Eval(c, e[2], s) IN Ok(IF r.k = "ok" THEN Num(0) ELSE r.v, r.s)
      [] e[1] = "time" -> LET r == Exec(c, e[2], s) IN IF r.k = "ok" THEN Ok(Num(0), r.s) ELSE r
      [] e[1] = "assign" ->
             LET old == IF e[3] = "=" THEN Void ELSE Read(c, e[2], s) IN
             After(Eval(c, e[4], s), LAMBDA r, t : After(Combine(e[3], old, r, t), LAMBDA v, u :
                 Ok(v, Write(c, e[2], v, u))))
      [] e[1] = "incdec" -> After(Combine(e[2], Read(c, e[4], s), Num(1), s), LAMBDA v, t :
                                  Ok(IF e[3] THEN v ELSE Read(c, e[4], s), Write(c, e[4], v, t)))
      [] e[1] = "incdecIndex" -> After(EvalPlace(c, e[4], e[5], s), LAMBDA p, t :
             After(ReadPlace(p, FALSE, t), LAMBDA old, u : After(Combine(e[2], old, Num(1), u), LAMBDA v, x :
                 After(WritePlace(p, v, x), LAMBDA ignored, y : Ok(IF e[3] THEN v ELSE old, y)))))
      [] e[1] = "array" -> After(EvalArgs(c, e[2], e[3], s), LAMBDA vs, t : OfOp(NewArray(vs, t.heap), t))
      [] e[1] = "mapping" -> After(EvalAll(c, FlattenSeq(e[2]), s), LAMBDA vs, t :
             OfOp(NewMapping([i \in DOMAIN e[2] |-> <<vs[2 * i - 1], vs[2 * i]>>], t.heap), t))
      [] e[1] = "new" ->
             LET members == c.w.trees[c.file].classes[e[2]]
                 given(m) == {i \in DOMAIN e[3] : e[3][i][1] = m}
             IN  After(EvalAll(c, [k \in DOMAIN members |-> IF given(members[k]) = {} THEN IntLiteral(0)
                                                           ELSE e[3][CHOOSE i \in given(members[k]) : TRUE][2]], s),
                       LAMBDA vs, t : OfOp(NewArray(vs, t.heap), t))
      [] e[1] = "cast" -> Eval(c, e[3], s)
      [] e[1] = "index" -> After(EvalPlace(c, e[2], e[3], s), LAMBDA p, t : ReadPlace(p, e[4], t))
      [] e[1] = "range" -> After(EvalAll(c, <<e[2], e[3], e[5]>>, s), LAMBDA vs, t :
                                 OfOp(RangeOp(vs[1], vs[2], e[4], vs[3], e[6], t.heap), t))
      [] e[1] = "indexAssign" ->
             LET value == IF e[4] = "=" THEN Eval(c, e[5], s)
                          ELSE After(EvalPlace(c, e[2], e[3], s), LAMBDA p, t :
                                   After(ReadPlace(p, FALSE, t), LAMBDA old, u :
                                       After(Eval(c, e[5], u), LAMBDA r, x : Combine(e[4], old, r, x))))
             IN  After(value, LAMBDA v, t : After(EvalPlace(c, e[2], e[3], t), LAMBDA p, u :
                     After(WritePlace(p, v, u), LAMBDA ignored, x : Ok(v, x))))
      [] e[1] = "closure" -> After(EvalAll(c, e[3], s), LAMBDA vs, t :
             NewClosureOf([owner |-> c.obj, file |-> c.file, kind |-> IF e[4] THEN "efun" ELSE "name",
                           code |-> e[2], bound |-> vs], t))
      [] e[1] = "lambda" -> After(EvalAll(c, e[3], s), LAMBDA vs, t :
             NewClosureOf([owner |-> c.obj, file |-> c.file, kind |-> "lambda", code |-> e[2], bound |-> vs], t))
      [] e[1] = "anon" ->
             NewClosureOf([owner |-> c.obj, file |-> c.file, kind |-> "anon", code |-> e, bound |-> <<>>], s)
      [] e[1] = "param" -> Ok(Read(c, ParamName(e[2], e[3]), s), s)

(* A sequence of statements stops at the first that does not end normally. *)
ExecAll(c, stmts, s) ==
    FoldLeft(LAMBDA r, x : IF r.k = "ok" THEN Exec(c, x, r.s) ELSE r, Ok(Void, s), stmts)

(* One more round of a loop: cond may be None; step is what follows the    *)
(* body, after "continue" too.                                             *)
LoopFrom(c, cond, body, step, s) ==
    LET test == IF cond = None THEN Ok(Num(1), s) ELSE Eval(c, cond, s) IN
    IF test.k # "ok" \/ ~IsTruthy(test.v) THEN test
    ELSE LET r == Scoped(Exec(c, body, test.s), s.env) IN
         CASE r.k = "break" -> Ok(Void, r.s)
           [] r.k \in {"ok", "continue"} ->
                  LET next == IF step = None THEN Ok(Void, r.s) ELSE Exec(c, step, r.s) IN
                  IF next.k # "ok" THEN next ELSE LoopFrom(c, cond, body, step, next.s)
           [] OTHER -> r

(* foreach over the positions of items, which an array may still lose or   *)
(* gain while it is walked.                                                *)
RECURSIVE Walk(_, _, _, _, _, _, _)
Walk(c, items, i, key, value, stmt, s) ==
    LET Bind(var, v, t) == IF var[2] THEN Declare(var[1], v, t) ELSE Write(c, var[1], v, t)
        element == OfOp(IndexOp(items, Num(i), FALSE, s.heap, s.gone), s)
        keyed == Bind(key, element.v, element.s)
        mapped == IF value = None THEN Ok(Void, keyed)
                  ELSE OfOp(IndexOp(stmt.of, element.v, FALSE, keyed.heap, keyed.gone), keyed)
        bound == IF value = None THEN keyed ELSE Bind(value, mapped.v, mapped.s)
        r == Scoped(Exec(c, stmt.body, bound), s.env)
    IN  IF i >= Len(s.heap[items[2]]) THEN Ok(Void, s)
        ELSE IF mapped.k # "ok" THEN mapped
        ELSE CASE r.k = "break" -> Ok(Void, r.s)
               [] r.k \in {"ok", "continue"} -> Walk(c, items, i + 1, key, value, stmt, r.s)
               [] OTHER -> r

(* From the first label that matches, else from "default". *)
ExecSwitch(c, subject, body, s) ==
    LET Matches(i) == body[i][1] = "case" /\ body[i][2] # None
                      /\ LET low == Eval(c, body[i][2], s).v IN
                         IF body[i][3] = None THEN ValuesEqual(subject, low)
                         ELSE low[2] <= subject[2] /\ subject[2] <= Eval(c, body[i][3], s).v[2]
        hits == {i \in DOMAIN body : Matches(i)}
        from == IF hits # {} THEN hits ELSE {i \in DOMAIN body : body[i] = DefaultLabel}
        start == CHOOSE i \in from : \A j \in from : i <= j
        r == ExecAll(c, SelectSeq(SubSeq(body, start, Len(body)), LAMBDA x : x[1] # "case"), s)
    IN  IF from = {} THEN Ok(Void, s) ELSE IF r.k = "break" THEN Ok(Void, r.s) ELSE r

Exec(c, x, s) ==
    CASE x[1] = "block" -> IF x[3] THEN Scoped(ExecAll(c, x[2], s), s.env) ELSE ExecAll(c, x[2], s)
      [] x[1] = "expr" -> Eval(c, x[2], s)
      [] x[1] = "return" -> IF x[2] = None THEN Ends("return", Void, s)
                            ELSE After(Eval(c, x[2], s), LAMBDA v, t : Ends("return", v, t))
      [] x[1] = "decl" ->
             LET typed == IF x[2] = None THEN s ELSE [s EXCEPT !.classes = @ @@ (x[3] :> x[2])] IN
             After(IF x[4] = None THEN Ok(Num(0), typed) ELSE Eval(c, x[4], Declare(x[3], Num(0), typed)),
                   LAMBDA v, t : Ok(Void, Declare(x[3], v, t)))
      [] x[1] = "set" -> After(Eval(c, x[3], s), LAMBDA v, t : Ok(Void, Write(c, x[2], v, t)))
      [] x[1] = "indexSet" -> After(EvalPlace(c, x[2], x[3], s), LAMBDA p, t :
             After(IF x[4] = "=" THEN Eval(c, x[5], t)
                   ELSE After(ReadPlace(p, FALSE, t), LAMBDA old, u :
                            After(Eval(c, x[5], u), LAMBDA r, y : Combine(x[4], old, r, y))),
                   LAMBDA v, u : WritePlace(p, v, u)))
      [] x[1] = "if" -> After(Eval(c, x[2], s), LAMBDA v, t :
             IF IsTruthy(v) THEN Exec(c, x[3], t) ELSE IF x[4] = None THEN Ok(Void, t) ELSE Exec(c, x[4], t))
      [] x[1] = "while" -> LoopFrom(c, x[2], x[3], None, s)
      [] x[1] = "do" ->
             LET first == Scoped(Exec(c, x[2], s), s.env) IN
             CASE first.k = "break" -> Ok(Void, first.s)
               [] first.k \in {"ok", "continue"} -> LoopFrom(c, x[3], x[2], None, first.s)
               [] OTHER -> first
      [] x[1] = "for" ->
             LET init == IF x[2] = None THEN Ok(Void, s) ELSE IF x[2][1] \in {"decl", "block"} THEN Exec(c, x[2], s)
                         ELSE Eval(c, x[2], s)
                 step == IF x[4] = None \/ x[4][1] = "block" THEN x[4] ELSE ExprStmt(x[4])
             IN  Scoped(After(init, LAMBDA v, t : LoopFrom(c, x[3], x[5], step, t)), s.env)
      [] x[1] = "foreach" -> After(Eval(c, x[4], s), LAMBDA of, t :
             After(OfOp(ForeachKeysOp(of, t.heap), t), LAMBDA items, u :
                 Walk(c, items, 0, x[2], x[3], [of |-> of, body |-> x[5]], u)))
      [] x[1] = "switch" -> After(Eval(c, x[2], s), LAMBDA v, t : ExecSwitch(c, v, x[3], t))
      [] x[1] = "break" -> Ends("break", Void, s)
      [] x[1] = "continue" -> Ends("continue", Void, s)

-----------------------------------------------------------------------------
(* A world from its start: the initializers of every object, those of the  *)
(* inherited files first, then the call.                                   *)
RECURSIVE FilesOf(_, _)
FilesOf(w, file) == Append(FoldLeft(LAMBDA l, p : l \o FilesOf(w, p), <<>>, w.trees[file].inherits), file)

Initialize(w, o, file, s) ==
    FoldLeft(LAMBDA r, var : IF r.k # "ok" \/ var.init = None THEN r
                             ELSE After(Eval([w |-> w, obj |-> o, file |-> file], var.init, r.s), LAMBDA v, t :
                                      Ok(Void, [t EXCEPT !.vars[o][<<file, var.name>>] = v])),
             Ok(Void, s), w.trees[file].vars)

MeaningOf(w) ==
    LET start == [env |-> <<>>, heap |-> <<>>, gone |-> {}, defers |-> <<>>, classes |-> <<>>,
                  vars |-> [o \in DOMAIN w.objects |->
                               [x \in ToSet(Layout(w, w.objects[o])) |-> Num(0)]]]
        made == FoldLeft(LAMBDA r, o : FoldLeft(LAMBDA q, file : IF q.k = "ok" THEN Initialize(w, o, file, q.s) ELSE q,
                                                r, FilesOf(w, w.objects[o])), Ok(Void, start), w.created)
        c == [w |-> w, obj |-> w.main[1], file |-> w.objects[w.main[1]]]
    IN  IF made.k = "ok" THEN CallName(c, w.main[2], w.main[3], made.s) ELSE made

(* A value with the arrays and mappings it refers to in place of the       *)
(* references.                                                             *)
RECURSIVE Whole(_, _, _)
Whole(v, heap, gone) ==
    CASE v[1] = "arr" -> <<"arr", [i \in DOMAIN heap[v[2]] |-> Whole(heap[v[2]][i], heap, gone)]>>
      [] v[1] = "map" -> <<"map", [i \in DOMAIN heap[v[2]] |-> <<Whole(heap[v[2]][i][1], heap, gone),
                                                                Whole(heap[v[2]][i][2], heap, gone)>>]>>
      [] v[1] = "fun" -> <<"fun">>
      [] OTHER -> CoerceIfDestructed(v, gone)
=============================================================================
