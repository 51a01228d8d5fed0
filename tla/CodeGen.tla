------------------------------ MODULE CodeGen -------------------------------
(* The code generator: from the syntax tree of a file to bytecode.  The     *)
(* members of the C++ class CodeGen are the record c that every operator    *)
(* takes and returns.  An instruction is <<opcode, operand, argCount>>,     *)
(* with constants and names in it in place of indices into the pools.       *)
(* Indices of code start at 1.                                              *)
EXTENDS LpcAst, Integers, SequencesExt

CONSTANT SlotWidth  \* bits of FunctionEntry::numLocals
ASSUME SlotWidthAssumption == SlotWidth \in Nat

Emit(c, op, operand, n) == [c EXCEPT !.code = Append(@, <<op, operand, n>>)]
Here(c) == Len(c.code) + 1

(* emitJumpPlaceholder(), patchJumpTo(), patchJumpToHere() *)
EmitJump(c, op) == Emit(c, op, 0, 0)
PatchTo(c, places, target) ==
    [c EXCEPT !.code = [i \in DOMAIN @ |-> IF i \in places THEN <<@[i][1], target, @[i][3]>> ELSE @[i]]]
PatchToHere(c, places) == PatchTo(c, places, Here(c))

Throw(c) == [c EXCEPT !.failed = TRUE]

(* resolveVariable(): a local hides an object variable. *)
Resolve(c, name) ==
    IF name \in DOMAIN c.locals THEN <<"Local", c.locals[name]>>
    ELSE IF name \in DOMAIN c.objectVars THEN <<"ObjectVar", c.objectVars[name]>>
    ELSE <<"none", 0>>
EmitVar(c, access, name) ==
    LET var == Resolve(c, name) IN
    IF var[1] = "none" THEN Throw(c) ELSE Emit(c, access \o var[1], var[2], 0)

(* declareLocal(): the slot is c.next before the call, and is never given  *)
(* back; the name is, when the block it is declared in ends.               *)
DeclareLocal(c, name, class) ==
    LET d == [c EXCEPT !.next = @ + 1] IN
    IF name = "" THEN d
    ELSE IF name \in DOMAIN c.locals THEN Throw(c)
    ELSE [d EXCEPT !.locals = [n \in DOMAIN @ \cup {name} |-> IF n = name THEN c.next ELSE @[n]],
                   !.types = IF class = None THEN @
                             ELSE [n \in DOMAIN @ \cup {name} |-> IF n = name THEN class ELSE @[n]],
                   !.scopes = IF @ = <<>> THEN @ ELSE [@ EXCEPT ![Len(@)] = @ \cup {name}]]

(* A local the generator makes up: its name is never looked up. *)
DeclareHidden(c) == DeclareLocal(c, "", None)

OpenScope(c) == [c EXCEPT !.scopes = Append(@, {})]
CloseScope(c) ==
    LET gone == Last(c.scopes) IN
    [c EXCEPT !.locals = [n \in DOMAIN @ \ gone |-> @[n]],
              !.types = [n \in DOMAIN @ \ gone |-> @[n]],
              !.scopes = Front(@)]

RECURSIVE StaticClassTypeOf(_, _)
StaticClassTypeOf(c, e) ==
    CASE e[1] = "cast" -> e[2]
      [] e[1] = "index" /\ e[3][1] # "member" -> StaticClassTypeOf(c, e[2])
      [] e[1] = "var" /\ e[2] \in DOMAIN c.types -> c.types[e[2]]
      [] OTHER -> None

(* resolveClassMemberIndex(), from 0 *)
MemberIndex(c, class, m) ==
    IF class \in DOMAIN c.classes /\ Contains(c.classes[class], m)
    THEN SelectInSeq(c.classes[class], LAMBDA x : x = m) - 1 ELSE -1

RECURSIVE EmitExpr(_, _), EmitStatement(_, _)

(* emitBlock(): always a scope, whatever the block was built for. *)
EmitBlock(c, block) == CloseScope(FoldLeft(LAMBDA d, s : EmitStatement(d, s), OpenScope(c), block[2]))

EmitAll(c, es) == FoldLeft(LAMBDA d, e : EmitExpr(d, e), c, es)

EmitIndexValue(c, target, i) ==
    IF i[1] # "member" THEN EmitExpr(c, i)
    ELSE LET class == StaticClassTypeOf(c, target) IN
         IF class = None \/ MemberIndex(c, class, i[2]) < 0 THEN Throw(c)
         ELSE Emit(c, "PushInt", MemberIndex(c, class, i[2]), 0)
EmitTarget(c, target, i) == EmitIndexValue(EmitExpr(c, target), target, i)

EmitBinary(c, op, l, r) == Emit(EmitExpr(EmitExpr(c, l), r), op, 0, 0)

(* "||" and "&&": the right operand is skipped when the left one decides,  *)
(* which is then the value.                                                *)
EmitLogical(c, op, l, r) ==
    LET left == Emit(EmitExpr(c, l), "Dup", 0, 0)
        test == EmitJump(left, "JumpIfFalse")
        jumpToEnd == EmitJump(test, "Jump")
        falsy == PatchToHere(jumpToEnd, {Here(left)})
        start == IF op = "Or" THEN falsy ELSE test
        right == EmitExpr(Emit(start, "Pop", 0, 0), r)
    IN  PatchToHere(right, IF op = "Or" THEN {Here(test)} ELSE {Here(left)})

EmitTernary(c, e, a, b) ==
    LET cond == EmitExpr(c, e)
        then == EmitExpr(EmitJump(cond, "JumpIfFalse"), a)
        else == EmitExpr(PatchToHere(EmitJump(then, "Jump"), {Here(cond)}), b)
    IN  PatchToHere(else, {Here(then)})

(* The value of the guarded expression is dropped. *)
EmitCatch(c, e) ==
    LET guarded == Emit(EmitExpr(EmitJump(c, "PushCatchFrame"), e), "Pop", 0, 0)
    IN  PatchToHere(Emit(guarded, "PopCatchFrame", 0, 0), {Here(c)})

EmitTimeExpression(c, body) ==
    Emit(EmitBlock(Emit(c, "TimeExpressionStart", 0, 0), body), "TimeExpressionEnd", 0, 0)

EmitAssign(c, name, op, e) ==
    LET value == IF op = "=" THEN EmitExpr(c, e)
                 ELSE Emit(EmitExpr(EmitVar(c, "Push", name), e), op, 0, 0)
    IN  EmitVar(Emit(value, "Dup", 0, 0), "Store", name)

Step1(c, op) == Emit(Emit(c, "PushInt", 1, 0), op, 0, 0)
EmitIncDec(c, op, prefix, name) ==
    LET old == EmitVar(c, "Push", name)
        new == IF prefix THEN Emit(Step1(old, op), "Dup", 0, 0)
               ELSE Step1(Emit(old, "Dup", 0, 0), op)
    IN  EmitVar(new, "Store", name)

(* Target and index are evaluated twice, to read and to write. *)
EmitIncDecIndex(c, op, prefix, target, i) ==
    LET slots == DeclareHidden(DeclareHidden(c))
        read == Emit(Emit(EmitTarget(slots, target, i), "Index", 0, 0), "StoreLocal", c.next, 0)
        new == Emit(Step1(Emit(read, "PushLocal", c.next, 0), op), "StoreLocal", c.next + 1, 0)
        write == Emit(Emit(EmitTarget(new, target, i), "PushLocal", c.next + 1, 0), "IndexAssign", 0, 0)
    IN  Emit(write, "PushLocal", IF prefix THEN c.next + 1 ELSE c.next, 0)

(* emitIndexAssignExpr(): the value goes through a local of its own. *)
EmitIndexAssign(c, target, i, op, e) ==
    LET slot == DeclareHidden(c)
        value == IF op = "=" THEN EmitExpr(slot, e)
                 ELSE Emit(EmitExpr(Emit(EmitTarget(slot, target, i), "Index", 0, 0), e), op, 0, 0)
        stored == EmitTarget(Emit(value, "StoreLocal", c.next, 0), target, i)
        written == Emit(Emit(stored, "PushLocal", c.next, 0), "IndexAssign", 0, 0)
    IN  Emit(written, "PushLocal", c.next, 0)

(* emitIndexAssignStmt() leaves nothing on the stack. *)
EmitIndexAssignStmt(c, target, i, op, e) ==
    LET place == EmitTarget(c, target, i)
        value == IF op = "=" THEN EmitExpr(place, e)
                 ELSE Emit(EmitExpr(Emit(EmitTarget(place, target, i), "Index", 0, 0), e), op, 0, 0)
    IN  Emit(value, "IndexAssign", 0, 0)

(* One ExpandVarargs for each "...", with its distance from the top. *)
EmitSpreadExpansions(c, spread) ==
    FoldLeft(LAMBDA d, i : IF spread[i] THEN Emit(d, "ExpandVarargs", Len(spread) - i, 0) ELSE d,
             c, [i \in DOMAIN spread |-> i])

EmitCall(c, f, args, spread, mode, qualifier) ==
    LET pushed == EmitSpreadExpansions(EmitAll(c, args), spread) IN
    CASE mode = "parent" -> Emit(Emit(pushed, "CallParent", f, Len(args)), "CallParentQualifierSlot", qualifier, 0)
      [] mode = "efun"   -> Emit(pushed, "CallEfun", f, Len(args))
      [] OTHER           -> Emit(pushed, "Call", f, Len(args))

EmitCallOther(c, target, f, args, spread) ==
    LET pushed == EmitAll(EmitExpr(EmitExpr(c, target), f), args)
    IN  Emit(EmitSpreadExpansions(pushed, spread), "CallEfun", "call_other", Len(args) + 2)

(* The slot table follows the instruction; indexed outputs are written     *)
(* afterwards from hidden locals.                                          *)
EmitSscanf(c, target, format, outs) ==
    LET table == FoldLeft(LAMBDA d, out :
                     IF out[1] = "index" THEN Emit(DeclareHidden(d), "SscanfVarSlot", d.next, 0)
                     ELSE LET var == Resolve(d, out[2]) IN
                          IF var[1] = "none" THEN Throw(d)
                          ELSE Emit(d, "SscanfVarSlot", var[2], IF var[1] = "ObjectVar" THEN 1 ELSE 0),
                     Emit(EmitExpr(EmitExpr(c, target), format), "Sscanf", Len(outs), 0), outs)
        slotOf(i) == table.code[Len(table.code) - Len(outs) + i][2]
    IN  FoldLeft(LAMBDA d, i :
                     IF outs[i][1] # "index" THEN d
                     ELSE Emit(Emit(EmitExpr(EmitExpr(d, outs[i][2]), outs[i][3]), "PushLocal", slotOf(i), 0),
                               "IndexAssign", 0, 0),
                 table, [i \in DOMAIN outs |-> i])

(* new(class C ...): the members in the order of the class, 0 for those    *)
(* left out; every initializer names a member.                             *)
EmitNewClass(c, class, inits) ==
    IF class \notin DOMAIN c.classes \/ \E i \in DOMAIN inits : ~Contains(c.classes[class], inits[i][1])
    THEN Throw(c)
    ELSE LET members == c.classes[class]
             of(m) == SelectInSeq(inits, LAMBDA f : f[1] = m)
         IN  Emit(FoldLeft(LAMBDA d, m : IF of(m) = 0 THEN Emit(d, "PushInt", 0, 0)
                                         ELSE EmitExpr(d, inits[of(m)][2]), c, members),
                  "MakeArray", 1, Len(members))

EmitMapping(c, entries) ==
    Emit(FoldLeft(LAMBDA d, kv : EmitExpr(EmitExpr(d, kv[1]), kv[2]), c, entries), "MakeMapping", 1, Len(entries))

(* x[i], x[<i], x[i..j]: bits of argCount say what counts from the end. *)
EmitIndex(c, e) ==
    LET place == EmitTarget(c, e[2], e[3])
        flag(k, bit) == IF e[k] THEN bit ELSE 0
    IN  IF e[1] = "index" THEN Emit(place, "Index", 0, flag(4, 1))
        ELSE Emit(EmitExpr(place, e[5]), "RangeIndex", 0, flag(4, 1) + flag(6, 2))

(* The body of a closure literal is compiled later, under a name that no   *)
(* LPC identifier can be, numbered within the file.                        *)
EmitPending(c, kind, bound, e) ==
    LET d == EmitAll(c, bound)
        name == kind \o "#" \o ToString(d.made[kind])
    IN  Emit([d EXCEPT !.pending = Append(@, [kind |-> kind, name |-> name, expr |-> e]), !.made[kind] = @ + 1],
             "PushClosure", name, Len(bound))

(* Nothing is emitted after an error. *)
EmitExpr(c, e) ==
    IF c.failed THEN c ELSE
    CASE e[1] = "str"  -> Emit(c, "PushConst", e[2], 0)
      [] e[1] = "int"  -> Emit(c, "PushInt", e[2], 0)
      [] e[1] = "nil"  -> Emit(c, "PushNil", 0, 0)
      [] e[1] = "var"  -> EmitVar(c, "Push", e[2])
      [] e[1] = "bin"  -> IF e[2] \in {"Or", "And"} THEN EmitLogical(c, e[2], e[3], e[4])
                          ELSE EmitBinary(c, e[2], e[3], e[4])
      [] e[1] = "un"   -> IF e[2] = "Neg" THEN EmitBinary(c, "Sub", IntLiteral(0), e[3])
                          ELSE Emit(EmitExpr(c, e[3]), e[2], 0, 0)
      [] e[1] = "comma" -> EmitExpr(Emit(EmitExpr(c, e[2]), "Pop", 0, 0), e[3])
      [] e[1] = "tern" -> EmitTernary(c, e[2], e[3], e[4])
      [] e[1] = "call" -> EmitCall(c, e[2], e[3], e[4], e[5], e[6])
      [] e[1] = "callOther" -> EmitCallOther(c, e[2], e[3], e[4], e[5])
      [] e[1] = "sscanf" -> EmitSscanf(c, e[2], e[3], e[4])
      [] e[1] = "catch" -> EmitCatch(c, e[2])
      [] e[1] = "time" -> EmitTimeExpression(c, e[2])
      [] e[1] = "assign" -> EmitAssign(c, e[2], e[3], e[4])
      [] e[1] = "incdec" -> EmitIncDec(c, e[2], e[3], e[4])
      [] e[1] = "incdecIndex" -> EmitIncDecIndex(c, e[2], e[3], e[4], e[5])
      [] e[1] = "array" -> Emit(EmitSpreadExpansions(EmitAll(c, e[2]), e[3]), "MakeArray", 0, Len(e[2]))
      [] e[1] = "mapping" -> EmitMapping(c, e[2])
      [] e[1] = "new"  -> EmitNewClass(c, e[2], e[3])
      [] e[1] = "cast" -> EmitExpr(c, e[3])
      [] e[1] \in {"index", "range"} -> EmitIndex(c, e)
      [] e[1] = "indexAssign" -> EmitIndexAssign(c, e[2], e[3], e[4], e[5])
      [] e[1] = "closure" -> Emit(EmitAll(c, e[3]), IF e[4] THEN "PushEfunClosure" ELSE "PushClosure", e[2], Len(e[3]))
      [] e[1] = "param" -> Emit(c, "PushLocal", IF e[3] THEN e[2] ELSE e[2] + c.bound, 0)
      [] e[1] = "lambda" -> EmitPending(c, "$lambda", e[3], e)
      [] e[1] = "anon" -> EmitPending(c, "$anonfunc", <<>>, e)
      [] OTHER -> Throw(c)

-----------------------------------------------------------------------------
(* Statements *)

(* Emits the body inside a loop or switch; the context of the jumps that    *)
(* leave it is the last element of loops.                                   *)
EnterLoop(c, isSwitch) ==
    [c EXCEPT !.loops = Append(@, [breaks |-> {}, continues |-> {}, isSwitch |-> isSwitch])]
LeaveLoop(c) == [c EXCEPT !.loops = Front(@)]
Breaks(c) == Last(c.loops).breaks
Continues(c) == Last(c.loops).continues

EmitIf(c, e, then, else) ==
    LET cond == EmitExpr(c, e)
        yes == EmitBlock(EmitJump(cond, "JumpIfFalse"), then)
    IN  IF else = None THEN PatchToHere(yes, {Here(cond)})
        ELSE PatchToHere(EmitBlock(PatchToHere(EmitJump(yes, "Jump"), {Here(cond)}), else), {Here(yes)})

EmitWhile(c, e, body) ==
    LET cond == EmitExpr(c, e)
        in == EmitBlock(EnterLoop(EmitJump(cond, "JumpIfFalse"), FALSE), body)
        back == Emit(PatchTo(in, Continues(in), Here(c)), "Jump", Here(c), 0)
    IN  LeaveLoop(PatchToHere(back, {Here(cond)} \cup Breaks(in)))

EmitDoWhile(c, body, e) ==
    LET in == EmitBlock(EnterLoop(c, FALSE), body)
        cond == EmitExpr(LeaveLoop(PatchToHere(in, Continues(in))), e)
        back == Emit(EmitJump(cond, "JumpIfFalse"), "Jump", Here(c), 0)
    IN  PatchToHere(back, {Here(cond)} \cup Breaks(in))

(* The update clause, to which "continue" goes. *)
EmitUpdate(c, update, loopTop) ==
    LET in == LeaveLoop(PatchToHere(c, Continues(c))) IN
    IF update = None THEN in
    ELSE IF update[1] = "block" THEN EmitBlock(in, update) ELSE Emit(EmitExpr(in, update), "Pop", 0, 0)

EmitFor(c, init, e, update, body) ==
    LET scope == OpenScope(c)
        start == CASE init = None -> scope
                   [] init[1] = "decl" -> EmitStatement(scope, init)
                   [] init[1] = "block" -> EmitBlock(scope, init)
                   [] OTHER -> Emit(EmitExpr(scope, init), "Pop", 0, 0)
        cond == IF e = None THEN start ELSE EmitExpr(start, e)
        test == IF e = None THEN cond ELSE EmitJump(cond, "JumpIfFalse")
        in == EmitBlock(EnterLoop(test, FALSE), body)
        back == Emit(EmitUpdate(in, update, Here(start)), "Jump", Here(start), 0)
    IN  CloseScope(PatchToHere(back, Breaks(in) \cup IF e = None THEN {} ELSE {Here(cond)}))

(* The loop variable takes what is on top of the stack. *)
EmitForeachVar(c, v) ==
    IF v[2] THEN Emit(DeclareLocal(c, v[1], None), "StoreLocal", c.next, 0) ELSE EmitVar(c, "Store", v[1])

(* Three hidden locals: the collection, the array walked, and the index. *)
EmitForeach(c, key, value, collection, body) ==
    LET orig == c.next
        hid == DeclareHidden(OpenScope(c))
        got == Emit(EmitExpr(hid, collection), "StoreLocal", orig, 0)
        Local(d, slot) == Emit(d, "PushLocal", slot, 0)
        keys == Emit(Emit(Local(DeclareHidden(got), orig), "ForeachKeys", 0, 0), "StoreLocal", got.next, 0)
        zero == Emit(Emit(DeclareHidden(keys), "PushInt", 0, 0), "StoreLocal", keys.next, 0)
        size == Emit(Local(Local(zero, keys.next), got.next), "Call", "sizeof", 1)
        test == EmitJump(Emit(size, "Lt", 0, 0), "JumpIfFalse")
        element == EmitForeachVar(Emit(Local(Local(test, got.next), keys.next), "Index", 0, 0), key)
        both == IF value = None THEN element
                ELSE EmitForeachVar(Emit(EmitVar(Local(element, orig), "Push", key[1]), "Index", 0, 0), value)
        in == EmitBlock(EnterLoop(both, FALSE), body)
        again == LeaveLoop(PatchToHere(in, Continues(in)))
        step == Emit(Step1(Local(again, keys.next), "Add"), "StoreLocal", keys.next, 0)
        back == Emit(step, "Jump", Here(zero), 0)
    IN  CloseScope(PatchToHere(back, Breaks(in) \cup {Here(test) - 1}))

(* The test of one label: falls through when it does not match, and jumps  *)
(* to the body when it does.                                               *)
EmitCaseTest(c, subj, low, high) ==
    LET left == EmitExpr(Emit(c, "PushLocal", subj, 0), low)
        above == Emit(Emit(left, "Gte", 0, 0), "Dup", 0, 0)
        below == Emit(EmitExpr(Emit(Emit(EmitJump(above, "JumpIfFalse"), "Pop", 0, 0), "PushLocal", subj, 0), high),
                      "Lte", 0, 0)
        match == IF high = None THEN Emit(left, "Eq", 0, 0) ELSE PatchToHere(below, {Here(above)})
    IN  EmitJump(Emit(match, "Not", 0, 0), "JumpIfFalse")

(* First the tests in the order of the labels, then the body.  jumps[i] is *)
(* the place of label i's jump; no match goes to the default label.        *)
EmitSwitch(c, subject, body) ==
    LET subj == c.next
        start == Emit(EmitExpr(DeclareHidden(c), subject), "StoreLocal", subj, 0)
        tests == FoldLeft(LAMBDA d, i :
                     IF body[i][1] # "case" \/ body[i][2] = None THEN d
                     ELSE LET t == EmitCaseTest(d.c, subj, body[i][2], body[i][3]) IN
                          [c |-> t, jumps |-> [d.jumps EXCEPT ![i] = {Here(t) - 1}]],
                     [c |-> start, jumps |-> [i \in DOMAIN body |-> {}]], [i \in DOMAIN body |-> i])
        noMatch == Here(tests.c)
        default == {i \in DOMAIN body : body[i] = DefaultLabel}
        lastDefault == CHOOSE i \in default : \A j \in default : j <= i
        in == FoldLeft(LAMBDA d, i :
                     LET here == PatchToHere(d, tests.jumps[i] \cup
                                     (IF default # {} /\ i = lastDefault THEN {noMatch} ELSE {})) IN
                     IF body[i][1] = "case" THEN here ELSE EmitStatement(here, body[i]),
                     EnterLoop(EmitJump(tests.c, "Jump"), TRUE), [i \in DOMAIN body |-> i])
    IN  LeaveLoop(PatchToHere(in, Breaks(in) \cup IF default = {} THEN {noMatch} ELSE {}))

EmitBreak(c) ==
    IF c.loops = <<>> THEN Throw(c)
    ELSE EmitJump([c EXCEPT !.loops[Len(c.loops)].breaks = @ \cup {Here(c)}], "Jump")

\* Mutant of LoopOfContinue: a switch is taken for a loop.
LoopOfContinueAny(c) == Len(c.loops)

(* The innermost loop that is no switch, 0 when there is none. *)
LoopOfContinue(c) == SelectLastInSeq(c.loops, LAMBDA l : ~l.isSwitch)

EmitContinue(c) ==
    LET k == LoopOfContinue(c) IN
    IF k = 0 THEN Throw(c) ELSE EmitJump([c EXCEPT !.loops[k].continues = @ \cup {Here(c)}], "Jump")

EmitVarDecl(c, class, name, init) ==
    LET d == DeclareLocal(c, name, class) IN
    IF init = None THEN d ELSE Emit(EmitExpr(d, init), "StoreLocal", c.next, 0)

EmitStatement(c, s) ==
    IF c.failed THEN c ELSE
    CASE s[1] = "block" -> IF s[3] THEN EmitBlock(c, s) ELSE FoldLeft(LAMBDA d, x : EmitStatement(d, x), c, s[2])
      [] s[1] = "expr"  -> Emit(EmitExpr(c, s[2]), "Pop", 0, 0)
      [] s[1] = "return" -> Emit(IF s[2] = None THEN c ELSE EmitExpr(c, s[2]), "Return", 0, 0)
      [] s[1] = "decl"  -> EmitVarDecl(c, s[2], s[3], s[4])
      [] s[1] = "set"   -> EmitVar(EmitExpr(c, s[3]), "Store", s[2])
      [] s[1] = "indexSet" -> EmitIndexAssignStmt(c, s[2], s[3], s[4], s[5])
      [] s[1] = "if"    -> EmitIf(c, s[2], s[3], s[4])
      [] s[1] = "while" -> EmitWhile(c, s[2], s[3])
      [] s[1] = "do"    -> EmitDoWhile(c, s[2], s[3])
      [] s[1] = "for"   -> EmitFor(c, s[2], s[3], s[4], s[5])
      [] s[1] = "foreach" -> EmitForeach(c, s[2], s[3], s[4], s[5])
      [] s[1] = "switch" -> EmitSwitch(c, s[2], s[3])
      [] s[1] = "break" -> EmitBreak(c)
      [] s[1] = "continue" -> EmitContinue(c)
      [] OTHER -> Throw(c)

-----------------------------------------------------------------------------
(* Files *)

(* What generate() resets before each function. *)
FreshFunction(c) ==
    [c EXCEPT !.locals = <<>>, !.next = 0, !.scopes = <<>>, !.loops = <<>>]

(* numLocals is stored in SlotWidth bits. *)
AddFunction(c, name, entryPoint, numArgs, isVarargs) ==
    [c EXCEPT !.functions = Append(@, [name |-> name, entryPoint |-> entryPoint, numArgs |-> numArgs,
                                       isVarargs |-> isVarargs, numLocals |-> c.next % 2^SlotWidth])]

EmitFunction(c, name, params, isVarargs, body) ==
    IF c.failed THEN c ELSE
    LET args == FoldLeft(LAMBDA d, p : DeclareLocal(d, p, None), FreshFunction(c), params)
        done == Emit(EmitBlock(args, body), "Return", 0, 0)
    IN  AddFunction(done, name, Here(c), Len(params), isVarargs)

(* emitPendingLambdas(): bound values first, then $1..$n; the last value   *)
(* is the result.                                                          *)
EmitLambda(c, name, exprs, bound, n) ==
    LET args == [FreshFunction(c) EXCEPT !.bound = Len(bound), !.next = Len(bound) + n]
        all == FoldLeft(LAMBDA d, i : LET e == EmitExpr(d, exprs[i]) IN
                                      IF i < Len(exprs) THEN Emit(e, "Pop", 0, 0) ELSE e,
                        args, [i \in DOMAIN exprs |-> i])
    IN  AddFunction(Emit(all, "Return", 0, 0), name, Here(c), n, FALSE)

(* Compiles what is pending of one kind, what that makes pending of it     *)
(* included; and of both kinds, until nothing is left.                     *)
RECURSIVE Drain(_, _), DrainAll(_)
Drain(c, kind) ==
    LET k == SelectInSeq(c.pending, LAMBDA p : p.kind = kind) IN
    IF k = 0 THEN c
    ELSE LET p == c.pending[k]
             d == [c EXCEPT !.pending = RemoveAt(@, k)]
         IN  Drain(IF kind = "$lambda" THEN EmitLambda(d, p.name, p.expr[2], p.expr[3], p.expr[4])
                   ELSE EmitFunction(d, p.name, p.expr[2], p.expr[3], p.expr[4]), kind)
DrainAll(c) == IF c.pending = <<>> THEN c ELSE DrainAll(Drain(Drain(c, "$lambda"), "$anonfunc"))

(* The synthesized $objvarinit; only lambdas are compiled after it. *)
EmitInitializers(c, vars, base) ==
    LET inits == SelectSeq([i \in DOMAIN vars |-> <<base + i - 1, vars[i].init>>], LAMBDA p : p[2] # None)
        all == FoldLeft(LAMBDA d, p : Emit(EmitExpr(d, p[2]), "StoreObjectVar", p[1], 0), FreshFunction(c), inits)
    IN  IF inits = <<>> THEN c
        ELSE Drain(AddFunction(Emit(all, "Return", 0, 0), "$objvarinit", Here(c), 0, FALSE), "$lambda")

(* Every variable of the file has a slot of its own after the inherited    *)
(* ones, a redeclared one too; inheriting files see no private name.       *)
SlotsOf(inherited, vars) ==
    LET all == inherited \o [i \in DOMAIN vars |-> vars[i].name] IN
    [n \in {all[i] : i \in DOMAIN all} |-> SelectLastInSeq(all, LAMBDA x : x = n) - 1]
Exported(inherited, vars) ==
    inherited \o [i \in DOMAIN vars |-> IF vars[i].isPrivate
                                        THEN "$private#" \o ToString(Len(inherited) + i - 1) ELSE vars[i].name]

Generate(file, inherited) ==
    LET fresh == [code |-> <<>>, functions |-> <<>>, locals |-> <<>>, types |-> <<>>, next |-> 0, scopes |-> <<>>,
                  loops |-> <<>>, objectVars |-> SlotsOf(inherited, file.vars), classes |-> file.classes,
                  pending |-> <<>>, made |-> [k \in {"$lambda", "$anonfunc"} |-> 0], bound |-> 0, failed |-> FALSE]
        all == FoldLeft(LAMBDA d, f : IF f.body = None THEN d
                                      ELSE DrainAll(EmitFunction(d, f.name, f.params, f.isVarargs, f.body)),
                        EmitInitializers(fresh, file.vars, Len(inherited)), file.functions)
    IN  [code |-> all.code, functions |-> all.functions, objectVarNames |-> Exported(inherited, file.vars),
         failed |-> all.failed]
=============================================================================
