----------------------------- MODULE LpcMachine -----------------------------
(* The virtual machine: VM::run() as a stack of frames, one for each call   *)
(* that is active.  A world is a set of files, the objects made of them,    *)
(* and a call; the machine first runs the initializers of the objects and   *)
(* then the call.  One step executes one instruction, or ends one frame.    *)
EXTENDS LpcAst, LpcValues

CONSTANTS Worlds,       \* function to worlds, from whatever names them
          Compile(_),   \* the programs of a world, by file
          Scanned(_, _, _),   \* runSscanf(): input, format, number of variables
          MaxEvalCost   \* instructions of one dispatch
ASSUME MaxEvalCostAssumption == MaxEvalCost \in Nat

VARIABLES world,    \* name of the world that runs
          image,    \* its programs, by file
          jobs,     \* calls still to make
          frames,   \* active calls, the innermost last
          heap, vars, gone,
          cost,     \* evalCost_
          outcome,  \* how the dispatch ended, or None
          broken    \* has an error been raised that only wrong code can meet

mvars == <<world, image, jobs, frames, heap, vars, gone, cost, outcome, broken>>

-----------------------------------------------------------------------------
(* Programs and what is found in them *)

Created == DOMAIN vars = ToSet(Worlds[world].created)
ProgramOf(o) == Worlds[world].objects[o]

OwnFunction(program, f) == SelectInSeq(program.functions, LAMBDA e : e.name = f)

(* findFunctionInChain(): <<file, function>>, the first one found depth    *)
(* first, or None.                                                         *)
RECURSIVE FindFunction(_, _)
FindFunction(file, f) ==
    IF OwnFunction(image[file], f) # 0 THEN <<file, image[file].functions[OwnFunction(image[file], f)]>>
    ELSE FoldLeft(LAMBDA found, p : IF found # None THEN found ELSE FindFunction(p, f),
                  None, image[file].parents)

(* findParentFunction(): only the inherited definitions, and with a        *)
(* qualifier only those of the parent of that name.                        *)
FindParentFunction(file, f, qualifier) ==
    LET among == IF qualifier = None THEN image[file].parents
                 ELSE SelectSeq(image[file].parents, LAMBDA p : p = qualifier)
    IN  IF qualifier # None /\ among # <<>> THEN FindFunction(among[1], f)
        ELSE FoldLeft(LAMBDA found, p : IF found # None THEN found ELSE FindFunction(p, f), None, among)

-----------------------------------------------------------------------------
(* Frames *)
(* objectVarBase *)
BaseOf(o, file) == IF file = ProgramOf(o) THEN 0 ELSE image[ProgramOf(o)].offsets[file]

(* The locals of a new frame, with the rest of the arguments in an array   *)
(* when the function takes any number of them: <<locals, heap>>.           *)
BindArguments(fn, args, h) ==
    LET rest == fn.numArgs - 1
        taken == IF Len(args) > rest THEN SubSeq(args, fn.numArgs, Len(args)) ELSE <<>>
        made == NewArray(taken, h)
        given == IF fn.isVarargs /\ fn.numArgs > 0
                 THEN [i \in 1..fn.numArgs |-> IF i = fn.numArgs THEN made[1]
                                              ELSE IF i <= Len(args) THEN args[i] ELSE Num(0)]
                 ELSE args
    IN  <<[i \in 1..fn.numLocals |-> IF i <= Len(given) THEN given[i] ELSE Num(0)],
          IF fn.isVarargs /\ fn.numArgs > 0 THEN made[2] ELSE h>>

NewFrame(o, file, fn, locals, isDefer) ==
    [obj |-> o, file |-> file, ip |-> fn.entryPoint, base |-> BaseOf(o, file), stack |-> <<>>, locals |-> locals,
     catches |-> <<>>, delta |-> 0, defers |-> <<>>, leaving |-> None, isDefer |-> isDefer]

Top == Last(frames)
Code == image[Top.file].code
Ins == Code[Top.ip]
Below(k) == Top.stack[Len(Top.stack) - k]   \* k values below the top
WithTop(f) == [frames EXCEPT ![Len(frames)] = f]
Popped(f, n) == [f EXCEPT !.stack = SubSeq(@, 1, Len(@) - n)]
Pushed(f, v, width) == [f EXCEPT !.stack = Append(@, v), !.ip = @ + width]

(* What an error leaves of a frame: with an active catch it goes on there,  *)
(* the stack cut back and the value of the error pushed; without one the    *)
(* frame ends.                                                              *)
Raised(f, v) ==
    IF f.catches = <<>> THEN [f EXCEPT !.leaving = <<"throw", v>>]
    ELSE LET c == Last(f.catches) IN
         [f EXCEPT !.catches = Front(@), !.stack = Append(SubSeq(@, 1, c.depth), v), !.ip = c.resume]

Raise(f, v) == frames' = WithTop(Raised(f, v)) /\ UNCHANGED <<heap, vars, gone, broken>>

(* An error of the machine itself: the code it runs is wrong. *)
RaiseInternal(f) ==
    /\ frames' = WithTop(Raised(f, Message))
    /\ broken' = TRUE
    /\ UNCHANGED <<heap, vars, gone>>

(* Takes n values off the stack and pushes the result of an operation. *)
Yield(n, result) ==
    IF Len(Top.stack) < n THEN RaiseInternal(Top)
    ELSE IF result[1] = Err THEN Raise(Top, Message)
    ELSE /\ frames' = WithTop(Pushed(Popped(Top, n), result[1], 1))
         /\ heap' = result[2]
         /\ UNCHANGED <<vars, gone, broken>>

-----------------------------------------------------------------------------
(* Calls *)

EfunNames == PureEfuns \cup {"this_object", "throw", "error", "evaluate", "defer", "call_other", "destruct"}
Yields(v, h) == [do |-> "value", value |-> v, heap |-> h]
Fails == [do |-> "throw", value |-> Message]
Runs(o, found, args) == [do |-> "run", obj |-> o, file |-> found[1], fn |-> found[2], args |-> args]

(* What the efuns and the calls come down to: a value, an error, a frame to *)
(* run, a registration or a destruct.  o is the current object.             *)
RECURSIVE Efun(_, _, _), CallNamed(_, _, _)

(* A bare name: the program of the object, then the simul_efun object, then *)
(* the efun table.                                                          *)
CallNamed(o, f, args) ==
    LET own == FindFunction(ProgramOf(o), f)
        simul == Worlds[world].simul
        other == IF simul = None THEN None ELSE FindFunction(ProgramOf(simul), f)
    IN  CASE own # None -> Runs(o, own, args)
          [] own = None /\ other # None -> Runs(simul, other, args)
          [] own = None /\ other = None /\ f \in EfunNames -> Efun(o, f, args)
          [] OTHER -> Fails

(* callClosure(): the bound arguments go first. *)
CallClosure(ref, args) ==
    LET c == heap[ref] IN
    IF c.owner \in gone THEN Fails
    ELSE IF c.forceEfun THEN Efun(c.owner, c.name, c.bound \o args)
    ELSE CallNamed(c.owner, c.name, c.bound \o args)

(* callFunction() of the call_other() efun: a target that is destructed or  *)
(* has no such function does nothing.                                       *)
CallOtherEfun(args) ==
    LET found == IF args[1][1] # "obj" \/ args[1][2] \in gone THEN None
                 ELSE FindFunction(ProgramOf(args[1][2]), NameOf(args[2][2]))
    IN  CASE Len(args) < 2 \/ args[2][1] # "str" \/ args[1][1] # "obj" -> Fails
          [] found = None -> Yields(Void, heap)
          [] OTHER -> Runs(args[1][2], found, SubSeq(args, 3, Len(args)))

Efun(o, f, args) ==
    CASE f \in PureEfuns ->
             LET result == PureEfun(f, args, heap) IN
             IF result[1] = Err THEN Fails ELSE Yields(result[1], result[2])
      [] f = "this_object" -> Yields(Obj(o), heap)
      [] f = "throw" -> IF Len(args) # 1 THEN Fails ELSE [do |-> "throw", value |-> args[1]]
      [] f = "evaluate" ->
             IF args = <<>> \/ args[1][1] # "fun" THEN Yields(Void, heap) ELSE CallClosure(args[1][2], Tail(args))
      [] f = "defer" ->
             IF args = <<>> \/ args[1][1] # "fun" THEN Yields(Void, heap) ELSE [do |-> "defer", value |-> args[1]]
      [] f = "call_other" -> CallOtherEfun(args)
      [] f = "destruct" -> IF args = <<>> \/ args[1][1] # "obj" THEN Fails ELSE [do |-> "destruct", value |-> args[1]]
      [] OTHER -> Fails

(* Applies such an effect in frame f, the innermost; width is the number of *)
(* instructions the call takes up, which f has behind it when it goes on.   *)
Perform(effect, f, width) ==
    CASE effect.do = "value" ->
             /\ frames' = WithTop(Pushed(f, effect.value, width))
             /\ heap' = effect.heap
             /\ UNCHANGED <<vars, gone, broken>>
      [] effect.do = "throw" -> Raise(f, effect.value)
      [] effect.do = "run" ->
             LET bound == BindArguments(effect.fn, effect.args, heap) IN
             /\ frames' = Append(WithTop(f), NewFrame(effect.obj, effect.file, effect.fn, bound[1], FALSE))
             /\ heap' = bound[2]
             /\ UNCHANGED <<vars, gone, broken>>
      [] effect.do = "defer" ->
             /\ frames' = WithTop([Pushed(f, Void, width) EXCEPT !.defers = Append(@, effect.value[2])])
             /\ UNCHANGED <<heap, vars, gone, broken>>
      [] effect.do = "destruct" ->
             /\ frames' = WithTop(Pushed(f, Void, width))
             /\ gone' = gone \cup {effect.value[2]}
             /\ UNCHANGED <<heap, vars, broken>>

(* The number of values a call or a literal takes: "..." changes it. *)
ArgCount == Ins[3] + Top.delta

(* Takes the arguments off the stack and resets the count of "...". *)
CallWith(Effect(_), width) ==
    IF ArgCount \notin 0..Len(Top.stack) THEN RaiseInternal([Top EXCEPT !.delta = 0])
    ELSE LET n == Len(Top.stack) - ArgCount
         IN  Perform(Effect(SubSeq(Top.stack, n + 1, Len(Top.stack))),
                     [Top EXCEPT !.stack = SubSeq(@, 1, n), !.delta = 0], width)

-----------------------------------------------------------------------------
(* Instructions.  Every one of them but those of a frame that is leaving    *)
(* costs one unit.                                                          *)

\* Mutant of Charge: the count stays.
ChargeNothing == cost < MaxEvalCost /\ cost' = cost

Charge == cost < MaxEvalCost /\ cost' = cost + 1

At(ops) ==
    /\ outcome = None /\ frames # <<>> /\ Top.leaving = None
    /\ Top.ip <= Len(Code) /\ Ins[1] \in ops
    /\ UNCHANGED <<world, image, jobs, outcome>>

PushLiteral ==
    /\ At({"PushConst", "PushInt", "PushNil"})
    /\ Charge
    /\ Yield(0, <<CASE Ins[1] = "PushConst" -> Str(Ins[2]) [] Ins[1] = "PushInt" -> Num(Ins[2])
                    [] OTHER -> NilValue, heap>>)

(* A local that holds a destructed object is set to 0 when it is read. *)
PushLocal ==
    /\ At({"PushLocal"})
    /\ Charge
    /\ LET i == Ins[2] + 1 IN
       IF i \notin DOMAIN Top.locals THEN RaiseInternal(Top)
       ELSE LET v == CoerceIfDestructed(Top.locals[i], gone) IN
            /\ frames' = WithTop([Pushed(Top, v, 1) EXCEPT !.locals[i] = v])
            /\ UNCHANGED <<heap, vars, gone, broken>>

StoreLocal ==
    /\ At({"StoreLocal"})
    /\ Charge
    /\ LET i == Ins[2] + 1 IN
       IF i \notin DOMAIN Top.locals \/ Top.stack = <<>> THEN RaiseInternal(Top)
       ELSE /\ frames' = WithTop([Popped(Top, 1) EXCEPT !.locals[i] = Below(0), !.ip = @ + 1])
            /\ UNCHANGED <<heap, vars, gone, broken>>

PushObjectVar ==
    /\ At({"PushObjectVar"})
    /\ Charge
    /\ LET i == Top.base + Ins[2] + 1 IN
       IF i \notin DOMAIN vars[Top.obj] THEN RaiseInternal(Top)
       ELSE LET v == CoerceIfDestructed(vars[Top.obj][i], gone) IN
            /\ frames' = WithTop(Pushed(Top, v, 1))
            /\ vars' = [vars EXCEPT ![Top.obj][i] = v]
            /\ UNCHANGED <<heap, gone, broken>>

StoreObjectVar ==
    /\ At({"StoreObjectVar"})
    /\ Charge
    /\ LET i == Top.base + Ins[2] + 1 IN
       IF i \notin DOMAIN vars[Top.obj] \/ Top.stack = <<>> THEN RaiseInternal(Top)
       ELSE /\ frames' = WithTop([Popped(Top, 1) EXCEPT !.ip = @ + 1])
            /\ vars' = [vars EXCEPT ![Top.obj][i] = Below(0)]
            /\ UNCHANGED <<heap, gone, broken>>

Operate ==
    /\ At(BinOps \ {"Or", "And"})
    /\ Charge
    /\ Yield(2, BinaryOp(Ins[1], Below(1), Below(0), heap))

OperateOne ==
    /\ At({"Not", "BitNot", "ForeachKeys", "Dup"})
    /\ Charge
    /\ CASE Ins[1] = "ForeachKeys" -> Yield(1, ForeachKeysOp(Below(0), heap))
         [] Ins[1] = "Dup" -> IF Top.stack = <<>> THEN RaiseInternal(Top) ELSE Yield(0, <<Below(0), heap>>)
         [] OTHER -> Yield(1, UnaryOp(Ins[1], Below(0), heap))

Pop ==
    /\ At({"Pop"})
    /\ Charge
    /\ frames' = WithTop([Popped(Top, IF Top.stack = <<>> THEN 0 ELSE 1) EXCEPT !.ip = @ + 1])
    /\ UNCHANGED <<heap, vars, gone, broken>>

Jump ==
    /\ At({"Jump", "JumpIfFalse"})
    /\ Charge
    /\ IF Ins[1] = "JumpIfFalse" /\ Top.stack = <<>> THEN RaiseInternal(Top)
       ELSE LET taken == Ins[1] = "Jump" \/ ~IsTruthy(Below(0))
                n == IF Ins[1] = "Jump" THEN 0 ELSE 1
            IN  IF taken /\ Ins[2] \notin 1..Len(Code) + 1 THEN RaiseInternal(Popped(Top, n))
                ELSE /\ frames' = WithTop([Popped(Top, n) EXCEPT !.ip = IF taken THEN Ins[2] ELSE @ + 1])
                     /\ UNCHANGED <<heap, vars, gone, broken>>

PushCatchFrame ==
    /\ At({"PushCatchFrame"})
    /\ Charge
    /\ frames' = WithTop([Top EXCEPT !.catches = Append(@, [resume |-> Ins[2], depth |-> Len(Top.stack)]),
                                     !.ip = @ + 1])
    /\ UNCHANGED <<heap, vars, gone, broken>>

PopCatchFrame ==
    /\ At({"PopCatchFrame"})
    /\ Charge
    /\ IF Top.catches = <<>> THEN RaiseInternal(Top)
       ELSE /\ frames' = WithTop([Pushed(Top, Num(0), 1) EXCEPT !.catches = Front(@)])
            /\ UNCHANGED <<heap, vars, gone, broken>>

(* Every clock reading is the same: the expression takes no time. *)
ReadClock ==
    /\ At({"TimeExpressionStart", "TimeExpressionEnd"})
    /\ Charge
    /\ frames' = WithTop(IF Ins[1] = "TimeExpressionStart" THEN [Top EXCEPT !.ip = @ + 1] ELSE Pushed(Top, Num(0), 1))
    /\ UNCHANGED <<heap, vars, gone, broken>>

(* The array that lies operand values below the top is replaced by its     *)
(* elements.                                                               *)
ExpandVarargs ==
    /\ At({"ExpandVarargs"})
    /\ Charge
    /\ IF Ins[2] >= Len(Top.stack) THEN RaiseInternal(Top)
       ELSE IF Below(Ins[2])[1] # "arr" THEN Raise(Top, Message)
       ELSE LET items == heap[Below(Ins[2])[2]]
                place == Len(Top.stack) - Ins[2]
            IN  /\ frames' = WithTop([Top EXCEPT !.stack = SubSeq(@, 1, place - 1) \o items
                                                           \o SubSeq(@, place + 1, Len(@)),
                                                 !.delta = @ + Len(items) - 1,
                                                 !.ip = @ + 1])
                /\ UNCHANGED <<heap, vars, gone, broken>>

(* Array, class and mapping literals.  A mapping keeps every entry of its  *)
(* literal, a repeated key too.                                            *)
Make ==
    /\ At({"MakeArray", "MakeMapping"})
    /\ Charge
    /\ LET n == IF Ins[1] = "MakeArray" THEN ArgCount ELSE 2 * ArgCount
           items == SubSeq(Top.stack, Len(Top.stack) - n + 1, Len(Top.stack))
           made == IF Ins[1] = "MakeArray" THEN NewArray(items, heap)
                   ELSE NewMapping([i \in 1..ArgCount |-> <<items[2 * i - 1], items[2 * i]>>], heap)
       IN  IF n \notin 0..Len(Top.stack) THEN RaiseInternal([Top EXCEPT !.delta = 0])
           ELSE /\ frames' = WithTop([Pushed(Popped(Top, n), made[1], 1) EXCEPT !.delta = 0])
                /\ heap' = made[2]
                /\ UNCHANGED <<vars, gone, broken>>

IndexInto ==
    /\ At({"Index", "RangeIndex"})
    /\ Charge
    /\ IF Ins[1] = "Index" THEN Yield(2, IndexOp(Below(1), Below(0), Ins[3] = 1, heap, gone))
       ELSE Yield(3, RangeOp(Below(2), Below(1), Ins[3] \in {1, 3}, Below(0), Ins[3] \in {2, 3}, heap))

AssignIndex ==
    /\ At({"IndexAssign"})
    /\ Charge
    /\ IF Len(Top.stack) < 3 THEN RaiseInternal(Top)
       ELSE LET result == IndexAssignOp(Below(2), Below(1), Below(0), heap) IN
            IF result[1] = Err THEN Raise(Top, Message)
            ELSE /\ frames' = WithTop([Popped(Top, 3) EXCEPT !.ip = @ + 1])
                 /\ heap' = result[2]
                 /\ UNCHANGED <<vars, gone, broken>>

MakeClosure ==
    /\ At({"PushClosure", "PushEfunClosure"})
    /\ Charge
    /\ Yield(Ins[3], NewClosure([owner |-> Top.obj, name |-> Ins[2], forceEfun |-> Ins[1] = "PushEfunClosure",
                                 bound |-> SubSeq(Top.stack, Len(Top.stack) - Ins[3] + 1, Len(Top.stack))], heap))

CallBare ==
    /\ At({"Call"})
    /\ Charge
    /\ CallWith(LAMBDA args : CallNamed(Top.obj, Ins[2], args), 1)

CallInherited ==
    /\ At({"CallParent"})
    /\ Charge
    /\ LET found == FindParentFunction(Top.file, Ins[2], Code[Top.ip + 1][2]) IN
       CallWith(LAMBDA args : IF found = None THEN Fails ELSE Runs(Top.obj, found, args), 2)

CallEfun ==
    /\ At({"CallEfun"})
    /\ Charge
    /\ CallWith(LAMBDA args : Efun(Top.obj, Ins[2], args), 1)

(* The slot table gives each value its place.  The slots of object         *)
(* variables are used as they are, without the base of the file.           *)
Scan ==
    /\ At({"Sscanf"})
    /\ Charge
    /\ IF Len(Top.stack) < 2 THEN RaiseInternal(Top)
       ELSE IF Below(1)[1] # "str" \/ Below(0)[1] # "str" THEN Raise(Top, Message)
       ELSE LET scan == Scanned(Below(1)[2], Below(0)[2], Ins[2])
                given == DOMAIN scan.assigned
                Slot(i) == Code[Top.ip + i]
                at(kind, slot) == {i \in given : Slot(i)[3] = kind /\ Slot(i)[2] = slot}
                Store(s, kind) == [j \in DOMAIN s |-> IF at(kind, j - 1) = {} THEN s[j]
                                                      ELSE scan.assigned[CHOOSE i \in at(kind, j - 1) :
                                                                             \A k \in at(kind, j - 1) : k <= i]]
            IN  IF scan.failed THEN Raise(Top, Message)
                ELSE /\ frames' = WithTop([Pushed(Popped(Top, 2), Num(scan.n), 1 + Ins[2])
                                               EXCEPT !.locals = Store(@, 0)])
                     /\ vars' = [vars EXCEPT ![Top.obj] = Store(@, 1)]
                     /\ UNCHANGED <<heap, gone, broken>>

-----------------------------------------------------------------------------
(* The end of a frame *)

ReturnTop ==
    /\ At({"Return"})
    /\ Charge
    /\ frames' = WithTop([Top EXCEPT !.leaving = <<"return", IF Top.stack = <<>> THEN Void ELSE Below(0)>>])
    /\ UNCHANGED <<heap, vars, gone, broken>>

(* The instruction that exceeds the limit is not executed. *)
ExceedCost ==
    /\ outcome = None /\ frames # <<>> /\ Top.leaving = None /\ Top.ip <= Len(Code)
    /\ cost >= MaxEvalCost
    /\ frames' = WithTop([Top EXCEPT !.leaving = <<"cost">>])
    /\ cost' = cost + 1
    /\ UNCHANGED <<world, image, jobs, heap, vars, gone, outcome, broken>>

(* Deferred calls run last registered first. *)
NextDefer(f) == Last(f.defers)

(* ~DeferFrameGuard(): one deferred call of a frame that ends, whatever it  *)
(* ends with; what the call returns or raises is lost.  A closure of the    *)
(* efun defer() registers with the caller.                                  *)
RunDefer ==
    /\ outcome = None /\ frames # <<>> /\ Top.leaving # None /\ Top.defers # <<>>
    /\ LET ref == NextDefer(Top)
           f == [Top EXCEPT !.defers = RemoveAt(@, SelectLastInSeq(@, LAMBDA r : r = ref))]
           effect == CallClosure(ref, <<>>)
           n == Len(frames)
       IN  CASE effect.do = "run" ->
                    LET bound == BindArguments(effect.fn, effect.args, heap) IN
                    /\ frames' = Append(WithTop(f), NewFrame(effect.obj, effect.file, effect.fn, bound[1], TRUE))
                    /\ heap' = bound[2]
                    /\ UNCHANGED gone
             [] effect.do = "defer" ->
                    /\ frames' = IF n = 1 THEN WithTop(f)
                                 ELSE [WithTop(f) EXCEPT ![n - 1].defers = Append(@, effect.value[2])]
                    /\ UNCHANGED <<heap, gone>>
             [] effect.do = "destruct" ->
                    /\ frames' = WithTop(f)
                    /\ gone' = gone \cup {effect.value[2]}
                    /\ UNCHANGED heap
             [] effect.do = "value" -> frames' = WithTop(f) /\ heap' = effect.heap /\ UNCHANGED gone
             [] OTHER -> frames' = WithTop(f) /\ UNCHANGED <<heap, gone>>
    /\ UNCHANGED <<world, image, jobs, vars, cost, outcome, broken>>

(* How many instructions the call a frame waits in takes up. *)
CallWidth(f) == IF image[f.file].code[f.ip][1] = "CallParent" THEN 2 ELSE 1

(* The frame is gone.  Its caller goes on with the value, or has the error  *)
(* raised at the call; nothing but the end of the dispatch stops an         *)
(* exceeded limit.                                                          *)
LeaveFrame ==
    /\ outcome = None /\ frames # <<>> /\ Top.leaving # None /\ Top.defers = <<>>
    /\ LET how == Top.leaving
           n == Len(frames)
           caller == frames[n - 1]
           left == IF Top.isDefer THEN caller
                   ELSE CASE how[1] = "return" -> Pushed(caller, how[2], CallWidth(caller))
                          [] how[1] = "throw" -> Raised(caller, how[2])
                          [] OTHER -> [caller EXCEPT !.leaving = how]
       IN  /\ frames' = IF n = 1 THEN <<>> ELSE Append(SubSeq(frames, 1, n - 2), left)
           /\ outcome' = IF n = 1 /\ (how[1] # "return" \/ (Created /\ jobs = <<>>)) THEN how ELSE None
    /\ UNCHANGED <<world, image, jobs, heap, vars, gone, cost, broken>>

-----------------------------------------------------------------------------
(* runObjectVarInitializers(): the parents of a program before it. *)
RECURSIVE InitializersOf(_, _)
InitializersOf(o, file) ==
    Append(FoldLeft(LAMBDA s, p : s \o InitializersOf(o, p), <<>>, image[file].parents),
           [obj |-> o, file |-> file, f |-> "$objvarinit", args |-> <<>>])

Idle == outcome = None /\ frames = <<>> /\ jobs = <<>>

(* The variables of a new object are 0 until its initializers have run; the *)
(* call of the dispatch follows the last object.                            *)
Create ==
    /\ Idle /\ ~Created
    /\ LET w == Worlds[world]
           o == w.created[Cardinality(DOMAIN vars) + 1]
           inits == SelectSeq(InitializersOf(o, w.objects[o]), LAMBDA j : OwnFunction(image[j.file], j.f) # 0)
           main == [obj |-> w.main[1], file |-> None, f |-> w.main[2], args |-> w.main[3]]
       IN  /\ vars' = vars @@ (o :> [i \in DOMAIN image[w.objects[o]].objectVarNames |-> Num(0)])
           /\ jobs' = inits \o IF o = Last(w.created) THEN <<main>> ELSE <<>>
    /\ UNCHANGED <<world, image, frames, heap, gone, cost, outcome, broken>>

NextJob ==
    /\ outcome = None /\ frames = <<>> /\ jobs # <<>>
    /\ LET j == Head(jobs)
           found == IF j.file # None THEN <<j.file, image[j.file].functions[OwnFunction(image[j.file], j.f)]>>
                    ELSE FindFunction(ProgramOf(j.obj), j.f)
           bound == BindArguments(found[2], j.args, heap)
       IN  /\ frames' = <<NewFrame(j.obj, found[1], found[2], bound[1], FALSE)>>
           /\ heap' = bound[2]
    /\ jobs' = Tail(jobs)
    /\ UNCHANGED <<world, image, vars, gone, cost, outcome, broken>>

(* A dispatch that ended stays as it is. *)
Ended == outcome # None /\ UNCHANGED mvars

Init ==
    /\ world \in DOMAIN Worlds /\ image = Compile(Worlds[world])
    /\ vars = <<>> /\ jobs = <<>> /\ frames = <<>> /\ heap = <<>>
    /\ gone = {} /\ cost = 0 /\ broken = FALSE
    /\ outcome = IF \E file \in DOMAIN image : image[file].failed THEN <<"refused">> ELSE None

Step ==
    \/ Create \/ NextJob \/ PushLiteral \/ PushLocal \/ StoreLocal \/ PushObjectVar \/ StoreObjectVar
    \/ Operate \/ OperateOne \/ Pop \/ Jump \/ PushCatchFrame \/ PopCatchFrame \/ ReadClock
    \/ ExpandVarargs \/ Make \/ IndexInto \/ AssignIndex \/ MakeClosure
    \/ CallBare \/ CallInherited \/ CallEfun \/ Scan
    \/ ReturnTop \/ ExceedCost \/ RunDefer \/ LeaveFrame

Next == Step \/ Ended

(* The machine goes on until the dispatch has ended: weak fairness of Step, *)
(* which is enabled until then, without the word ENABLED.                   *)
Fairness == []<>(outcome # None) \/ []<><<Step>>_mvars
Spec == Init /\ [][Next]_mvars /\ Fairness
=============================================================================
