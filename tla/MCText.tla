------------------------------- MODULE MCText -------------------------------
(***************************************************************************)
(* Texts written by one half of the program and read by the other.  Code   *)
(* and values are the state, and a step makes them larger; a stream runs.  *)
(* What is read back must be what was written, for each of the kinds       *)
(*    "code"    a function, printed as LPC and parsed;                     *)
(*    "value"   a value, saved and restored in each of the formats;        *)
(*    "stream"  what is sent over a connection, cut into reads.            *)
(***************************************************************************)
EXTENDS LpcAst, Telnet, Integers, Bitwise

CONSTANTS CodeDepth,       \* constructs of a function around its innermost one
          ValueDepth       \* arrays and mappings around a value's innermost part

(* What is checked: each of these writes and reads, as the definition       *)
(* named MC... says.                                                        *)
CONSTANTS Reparsed(_, _, _), Restored(_), RestoredTorn(_), Redumped(_, _)

VARIABLE item

Source == INSTANCE LpcParser
Printer == INSTANCE LpcPrinter
Saved == INSTANCE JsonText

-----------------------------------------------------------------------------
(* Code.                                                                   *)

X == VarRef("b")
K == IntLiteral(7)
OneOfEachLevel == {"Or", "And", "BitOr", "BitXor", "BitAnd", "Neq", "Lte", "Shl", "Sub", "Mod"}
Calling(f, args, spread) == Call(f, args, spread, "plain", None)

Operations(e) ==
    {Binary(op, e, X) : op \in OneOfEachLevel} \union {Binary(op, X, e) : op \in OneOfEachLevel}
    \union {Unary(op, e) : op \in UnaryOps}
    \union {Ternary(e, X, K), Ternary(X, e, K), Ternary(X, K, e), Comma(e, X), Comma(X, e),
            Assign("b", "=", e), Assign("b", "Add", e), Assign("b", "Shl", e)}

Postfixes(e) ==
    {Index(e, K, FALSE), Index(X, e, FALSE), Index(X, e, TRUE), RangeExpr(e, K, FALSE, X, TRUE),
     RangeExpr(X, e, TRUE, K, FALSE), RangeExpr(X, K, FALSE, e, FALSE),
     IndexAssign(e, K, "=", X), IndexAssign(X, e, "Mul", K), IndexAssign(X, K, "=", e),
     IncDecIndex("Add", TRUE, X, e), IncDecIndex("Sub", FALSE, X, e)}

Calls(e) ==
    {Calling("f", <<e, X>>, <<FALSE, TRUE>>), Calling("f", <<X, e>>, <<FALSE, TRUE>>),
     Call("f", <<e>>, <<FALSE>>, "efun", None), Call("f", <<e>>, <<FALSE>>, "parent", "room"),
     Call("f", <<e>>, <<FALSE>>, "parent", None),
     CallOther(e, StringLiteral(<<"g">>), <<K>>, <<FALSE>>),
     Catch(e), Sscanf(e, StringLiteral(<<"%", "d">>), <<X, Index(X, K, FALSE)>>)}
    \union (IF e[1] = "str" THEN {} ELSE {CallOther(X, e, <<>>, <<>>)})

Literals(e) ==
    {ArrayLiteral(<<e, X>>, <<FALSE, TRUE>>), MappingLiteral(<<<<e, X>>, <<K, e>>>>),
     ClosureLiteral("f", <<e, K>>, FALSE),
     InlineLambda(<<Binary("Add", e, LambdaParam(0, FALSE)), LambdaParam(1, FALSE)>>, <<>>, 2),
     InlineLambda(<<Binary("Sub", LambdaParam(0, TRUE), K)>>, <<e>>, 0),
     AnonFunction(<<"x">>, TRUE, Block(<<Return(e)>>, TRUE))}

\* Forms of one dialect only.
Native(e, dialect) ==
    CASE dialect = "FluffOS" ->
             {NewClass("point", <<<<"x", e>>, <<"y", K>>>>), TypeCast("point", e),
              Index(e, MemberName("x"), FALSE), IndexAssign(X, MemberName("x"), "=", e)}
      [] dialect = "LdMud" ->
             {Index(X, Column(e, K), FALSE), MappingLiteral(<<<<K, e, X>>>>)}
      [] OTHER -> {}

\* In LDMud the comma of x[a, b] separates a key and a column.
Around(e, dialect) == Operations(e) \union Calls(e) \union Literals(e) \union Native(e, dialect)
                      \union (IF dialect = "LdMud" /\ e[1] = "comma" THEN {} ELSE Postfixes(e))

\* Statements around a statement.  A branch without braces is a block that opens
\* no scope.
Branch(s) == IF s[1] = "block" THEN s ELSE Block(<<s>>, FALSE)
Holding(s) ==
    {Block(<<s, Return(K)>>, TRUE), If(X, Block(<<s>>, TRUE), Branch(s)),
     If(X, Branch(s), None), While(X, Branch(s)), DoWhile(Branch(s), X),
     For(None, X, IncDec("Add", FALSE, "b"), Branch(s)), For(Assign("b", "=", K), None, None, Branch(s)),
     Foreach(<<"v", TRUE>>, None, X, Branch(s)), Foreach(<<"k", FALSE>>, <<"v", TRUE>>, X, Branch(s)),
     Switch(X, <<CaseLabel(K, None), s, Break, CaseLabel(K, IntLiteral(9)), DefaultLabel, s>>)}

StatementsOf(e) ==
    {Return(e), ExprStmt(Calling("f", <<e>>, <<FALSE>>)), AssignStmt("b", e),
     VarDecl(None, "v", e), IndexAssignStmt(X, K, "=", e), If(e, Branch(Continue), None), DoWhile(Branch(Break), e),
     ExprStmt(TimeExpression(Block(<<Return(e)>>, TRUE)))}

Leaves(dialect) ==
    {X, K, IntLiteral(0), StringLiteral(<<"a", "\"", "\\", "\n">>), IncDec("Add", TRUE, "b"), IncDec("Sub", FALSE, "b")}
    \union (CASE dialect = "LdMud" -> {Symbol("x"), ClosureLiteral("f", <<>>, TRUE)}
              [] dialect = "DGD" -> {NilLiteral} [] OTHER -> {})

Dialects == {"FluffOS", "LdMud", "DGD"}

\* One leaf is built on to the full depth, the others to the first construct.
Code(dialect, leaf) ==
    [kind |-> "code", dialect |-> dialect, form |-> "expr", tree |-> leaf, depth |-> 0,
     most |-> IF leaf = X /\ dialect # "DGD" THEN CodeDepth ELSE 1]

\* The file with the function under test.
FileOf(code) ==
    File(<<"/std/room">>, IF code.dialect = "FluffOS" THEN [c \in {"point"} |-> <<"x", "y">>] ELSE <<>>,
         <<ObjectVar("b", TRUE, K)>>,
         <<Function("f", <<"p", "q">>, TRUE, None),
           Function("main", <<>>, FALSE,
                    Block(<<IF code.form = "expr" THEN Return(code.tree) ELSE code.tree>>, TRUE))>>)

GrowExpression ==
    /\ item.kind = "code" /\ item.form = "expr" /\ item.depth < item.most
    /\ \E e \in Around(item.tree, item.dialect) :
          item' = [item EXCEPT !.tree = e, !.depth = @ + 1]

\* Statements are built around the leaves and the constructs of depth 1.
MakeStatement ==
    /\ item.kind = "code" /\ item.form = "expr" /\ item.depth < item.most
    /\ \E s \in StatementsOf(item.tree) :
          item' = [item EXCEPT !.form = "stmt", !.tree = s, !.depth = @ + 1]

GrowStatement ==
    /\ item.kind = "code" /\ item.form = "stmt" /\ item.depth < item.most
    /\ \E s \in Holding(item.tree) : item' = [item EXCEPT !.tree = s, !.depth = @ + 1]

MCReparsed(file, layout, dialect) ==
    LET text == Printer!TextOfFile(file, layout) IN Source!ParseProgram(text, dialect)
LayoutsFor(code) == IF code.depth < code.most THEN Printer!Layouts ELSE {"tight"}

\* What the lexer and the parser make of a program is the program: whatever its
\* layout, no two constructs are confused, and operators group as in C.
ParsesBack ==
    item.kind = "code" =>
        \A layout \in LayoutsFor(item) :
            LET read == Reparsed(FileOf(item), layout, item.dialect)
            IN  ~read.bad /\ read.file = FileOf(item)

-----------------------------------------------------------------------------
(* Values.                                                                 *)

Num(n) == <<"int", n>>
SomeStrings == {"", "a", "\"", "\\", "\n", "\\\"", "a,b:", "})", "~^;"}
Atoms == {Num(0), Num(-12), <<"flt", "-1.500000">>, <<"nil">>, <<"obj", 2>>,
          <<"fun", 1, "f:", FALSE, <<Num(3)>>, FALSE>>, <<"fun", 0, "write", TRUE, <<>>, FALSE>>}
         \union {<<"str", s>> : s \in SomeStrings}

Containing(v) ==
    {<<"arr", <<v>>>>, <<"arr", <<Num(1), v, v>>>>,
     <<"map", 1, <<<<<<"str", "k">>, <<v>>>>, <<Num(5), <<Num(0)>>>>>>>>,
     <<"map", 1, <<<<v, <<<<"str", "x">>>>>>>>>>,
     <<"map", 2, <<<<<<"str", "k">>, <<v, Num(4)>>>>, <<Num(5), <<Num(0), v>>>>>>>>,
     <<"fun", 2, "g", FALSE, <<v>>, FALSE>>}

GrowValue ==
    /\ item.kind = "value" /\ item.depth < ValueDepth
    /\ \E v \in Containing(item.v) : item' = [item EXCEPT !.v = v, !.depth = @ + 1]

\* What a save keeps of a value: objects, functions and void become 0.
RECURSIVE Kept(_)
Kept(v) ==
    CASE v[1] \in {"nil", "obj", "fun"} -> Num(0)
      [] v[1] = "arr" -> <<"arr", [i \in DOMAIN v[2] |-> Kept(v[2][i])]>>
      [] v[1] = "map" ->
             <<"map", v[2], [i \in DOMAIN v[3] |->
                 <<Kept(v[3][i][1]), [c \in DOMAIN v[3][i][2] |-> Kept(v[3][i][2][c])]>>]>>
      [] OTHER -> v

Names == <<"a", "ab", "b">>
SavedVars(v) == <<v, <<"str", "ab 7">>, v>>
BlankVars == <<Num(-1), Num(-1), Num(-1)>>
KeptVars(v) == [i \in 1..3 |-> Kept(SavedVars(v)[i])]

\* For every length at which the file may end, what it restores to and the
\* number of whole lines.
MCRestoredTorn(v) ==
    LET file == Saved!SaveObject("/o", Names, SavedVars(v))
        part(n) == SubSeq(file, 1, n)
    IN  [n \in 1..Len(file) |->
            [read |-> Saved!RestoreObject(part(n), Names, BlankVars),
             lines |-> Len(SelectSeq(Saved!Characters(part(n)), LAMBDA c : c = "\n"))]]

\* A save that was cut short, by a crash or a full disk.  Restoring it may raise
\* an error, when the line at the cut ends in a "-" or a "(", but it never loops
\* for ever; error or not, the variables of the lines before the cut have their
\* values, those of the lines after it stay as they were, and only the one at
\* the cut may get something else.
TornSaveIsLocal ==
    (item.kind = "value" /\ item.depth < ValueDepth) =>
        LET torn == RestoredTorn(item.v)
        IN  \A n \in DOMAIN torn :
                /\ torn[n].read.end # "hangs"
                /\ \A i \in 1..3 :
                      /\ i + 1 <= torn[n].lines => torn[n].read.vars[i] = KeptVars(item.v)[i]
                      /\ i > torn[n].lines => torn[n].read.vars[i] = BlankVars[i]

\* A small world around the value, to be dumped: the master, a room with an
\* object in it, and another such object that is nowhere.
WorldOf(v) ==
    <<[clone |-> FALSE, env |-> 0, inv |-> <<>>, file |-> "/m", vars |-> <<v>>],
      [clone |-> TRUE, env |-> 3, inv |-> <<>>, file |-> "/o:1;", vars |-> <<v, <<"obj", 3>>>>],
      [clone |-> FALSE, env |-> 0, inv |-> <<2>>, file |-> "/room", vars |-> <<Num(1)>>],
      [clone |-> TRUE, env |-> 0, inv |-> <<>>, file |-> "/o:1;", vars |-> <<<<"obj", 2>>, Num(1)>>]>>

\* An object like those moves into the room in its create().
Fresh == [f \in {"/m", "/room", "/o:1;"} |->
             IF f = "/o:1;" THEN [vars |-> <<Num(9), Num(9)>>, home |-> "/room"]
             ELSE [vars |-> <<Num(9)>>, home |-> ""]]

\* The world that the dump is restored into: the master alone, or also the room,
\* in a hall, with other things in it.
Worlds ==
    {<<[clone |-> FALSE, env |-> 0, inv |-> <<>>, file |-> "/m", vars |-> <<Num(8)>>]>>,
     <<[clone |-> FALSE, env |-> 0, inv |-> <<3>>, file |-> "/hall", vars |-> <<>>],
       [clone |-> TRUE, env |-> 3, inv |-> <<>>, file |-> "/rat", vars |-> <<Num(8)>>],
       [clone |-> FALSE, env |-> 1, inv |-> <<2, 4>>, file |-> "/room", vars |-> <<Num(8)>>],
       [clone |-> FALSE, env |-> 3, inv |-> <<>>, file |-> "/m", vars |-> <<Num(8)>>]>>}

MCRedumped(v, before) ==
    LET dump == Saved!DumpState(WorldOf(v))
    IN  IF dump.threw THEN [end |-> "threw", world |-> <<>>, at |-> <<>>]
        ELSE Saved!RestoreState(dump.text, Fresh, before)

\* A value with the objects it refers to replaced by others.
RECURSIVE Renamed(_, _)
Renamed(v, at) ==
    CASE v[1] = "obj" -> <<"obj", at[v[2]]>>
      [] v[1] = "fun" -> <<"fun", IF v[2] = 0 THEN 0 ELSE at[v[2]], v[3], v[4],
                           [i \in DOMAIN v[5] |-> Renamed(v[5][i], at)], v[6]>>
      [] v[1] = "arr" -> <<"arr", [i \in DOMAIN v[2] |-> Renamed(v[2][i], at)]>>
      [] v[1] = "map" ->
             <<"map", v[2], [i \in DOMAIN v[3] |->
                 <<Renamed(v[3][i][1], at), [c \in DOMAIN v[3][i][2] |-> Renamed(v[3][i][2][c], at)]>>]>>
      [] OTHER -> v

Loaded(world, file) == {k \in DOMAIN world : ~world[k].clone /\ world[k].file = file}

\* restore_state() gives every object that dump_state() wrote its variables,
\* references and functions included, what it held, and the place where it was.
\* A blueprint that is loaded is not made again, whatever had become of it; an
\* object that was nowhere stays where it is, or where its create() moved it;
\* nothing else is made, and what the dump does not have is left alone.
DumpRoundTrip ==
    item.kind = "value" => \A before \in Worlds :
        LET dumped == WorldOf(item.v)
            restored == Redumped(item.v, before)
            at == restored.at
            found(i) == IF dumped[i].clone THEN {} ELSE Loaded(before, dumped[i].file)
            place(i) == IF dumped[i].env # 0 THEN {at[dumped[i].env]}
                        ELSE IF found(i) # {} THEN {before[at[i]].env}
                        ELSE IF Fresh[dumped[i].file].home = "" THEN {0}
                        ELSE Loaded(restored.world, Fresh[dumped[i].file].home)
        IN  /\ restored.end = "true"
            /\ \A i \in DOMAIN dumped :
                  LET now == restored.world[at[i]] IN
                  /\ now.file = dumped[i].file /\ now.clone = dumped[i].clone
                  /\ now.vars = [k \in DOMAIN dumped[i].vars |-> Renamed(dumped[i].vars[k], at)]
                  /\ now.inv = [k \in DOMAIN dumped[i].inv |-> at[dumped[i].inv[k]]]
                  /\ {now.env} = place(i)
                  /\ IF found(i) # {} THEN at[i] \in found(i) ELSE at[i] > Len(before)
                  /\ \A j \in DOMAIN dumped : at[i] = at[j] => i = j
            /\ DOMAIN restored.world = DOMAIN before \union {at[i] : i \in DOMAIN at}
            /\ \A k \in DOMAIN before :
                  (\A i \in DOMAIN at : at[i] # k) => restored.world[k] = before[k]

\* What JSON can hold.
RECURSIVE JsonKind(_)
JsonKind(v) ==
    CASE v[1] \in {"int", "flt", "str"} -> TRUE
      [] v[1] = "arr" -> \A i \in DOMAIN v[2] : JsonKind(v[2][i])
      [] v[1] = "map" -> v[2] = 1 /\ \A i \in DOMAIN v[3] : v[3][i][1][1] = "str" /\ JsonKind(v[3][i][2][1])
      [] OTHER -> FALSE

MCRestored(v) ==
    LET text == Saved!SerializeJson(v)
    IN  [variable |-> Saved!ParseRestoreVariableTopLevel(Saved!WriteRealSaveValue(v)),
         object |-> Saved!RestoreObject(Saved!SaveObject("/o", Names, SavedVars(v)), Names, BlankVars),
         json |-> IF text = Saved!Threw THEN "refused" ELSE <<"read", Saved!ParseJson(text[2])>>]

\* A value survives save_variable() and restore_variable(), an object's
\* variables, no two of one name, survive save_object() and restore_object(),
\* whatever characters their strings hold (a tab and a carriage return excepted)
\* and however they are nested; and json_parse() gives back what json_serialize() wrote, which
\* refuses exactly the values JSON has no text for.
SavedReadsBack ==
    item.kind = "value" =>
        LET restored == Restored(item.v)
        IN  /\ restored.variable = Kept(item.v)
            /\ restored.object = [vars |-> KeptVars(item.v), end |-> ""]
            /\ IF JsonKind(item.v) THEN restored.json = <<"read", item.v>> ELSE restored.json = "refused"

-----------------------------------------------------------------------------
(* Streams.  The script of a stream is the bytes that are sent: texts hold *)
(* 255 and the bytes the protocols give a meaning.                         *)

MCXor(a, b) == a ^^ b

Units ==
    {<<65, 255, 255, LF>>, <<LF>>, <<CR, 66, CR, CR, LF>>,
     <<65, 255, 250, Gmcp, LF, 255, 255, 240, 255, 240, 66, CR, LF>>,
     <<255, 250, Gmcp, 255, 240>>,
     <<255, 250, Msdp, 1, 255, 255, 65, 2, 66, 2, 255, 240>>, <<255, 250, Msdp, 1, 66, 255, 240>>,
     <<255, 250, Zmp, 66, 0, 255, 255, 0, 0, 255, 240>>, <<255, 250, Zmp, 66, 255, 240>>,
     <<255, 250, Naws, 1, 255, 255, 0, 255, 255, 255, 240>>, <<255, 250, Naws, 1, 255, 240>>,
     <<255, 250, Ttype, 0, 65, 255, 240>>,
     <<255, 250, Mssp, 1, 255, 240>>, <<255, 250, Gmcp, 65, 255, 241>>,
     <<255, Will, Gmcp>>, <<255, Do, Msp>>, <<255, Do, Mssp>>, <<255, Will, Ttype>>,
     <<255, Do, 99>>, <<255, Wont, Echo>>, <<255, 241>>}

MCContents == {0, 1, 2, LF, CR, 65, 66, 67, 240, 255}
MCOptions == {Echo, Ttype, Mssp, Msp, Gmcp, 99}
MCStatistics == <<<<<<78>>, <<255>>>>>>

Padding == [i \in 1..126 |-> 67] \o <<LF>>
Mask == <<200, 3, 255, 17>>
Request == <<71, KeyHeader, 32, 9, 88, CR, LF, 72, CR, LF, CR, LF>>
WithoutKey == <<71, CR, LF, CR, LF>>
Small == 5
MCMasks == {<<>>, Mask}
MCRequests == {Request, WithoutKey}
MCRooms == {Small, 1000}

Stream(transport, script, line) ==
    [kind |-> "stream", transport |-> transport, script |-> script, line |-> line]

\* On a "bad" line something goes wrong: no key in the request, no room to write,
\* or a hangup; on a "busy" one efuns write too.
Streams ==
    {Stream(t, u, "good") : t \in {"frames", "masked", "closing"}, u \in Units}
    \cup {Stream("plain", u \o v, "good") : u \in Units, v \in {v \in Units : Len(v) > 6}}
    \cup {Stream(t, u, l) : t \in {"plain", "frames"}, l \in {"bad", "busy"},
                          u \in {<<65, 255, 255, LF>>, <<255, Do, Msp>>}}
    \cup {Stream("long", Padding \o u, "good") : u \in {<<65, 255, 255, LF>>, <<255, Do, Msp>>}}

OpenedFor(s) ==
    /\ useWebSocket = (s.transport # "plain")
    /\ s.line # "bad" => room # Small /\ request = Request

\* The frames of a transport: short ones; a ping, one frame, and a pong; one that
\* is cut off by a close; a long one.
Planned(f) ==
    LET n == Len(frames')
        left == Len(sent) - Carried
        is(first, mask, len) == f.first = first /\ f.mask = mask /\ Len(f.payload) = len
    IN  CASE item.transport = "frames" -> is(129, <<>>, Min({3, left}))
          [] item.transport = "masked" -> is(<<137, 2, 138>>[n], Mask, IF n = 2 THEN left ELSE 1)
          [] item.transport = "closing" -> is(<<129, 136, 128>>[n], <<>>, <<1, 0, left>>[n])
          [] item.transport = "long" -> is(129, <<>>, left)
Transmitted ==
    /\ Carried = Len(sent)
    /\ item.transport \in {"masked", "closing"} => Len(frames) = 3

\* A request comes in one or two reads, of a long frame the head is cut.
ReadAt(n) ==
    /\ closed' => item.line = "bad" \/ item.transport = "closing"
    /\ useWebSocket /\ ~wsHandshakeDone => n \in {Len(request) - 1, Len(request)}
    /\ item.transport = "long" /\ wsHandshakeDone => n = Len(Wire) \/ n <= Len(request) + 8

Runs == item.kind = "stream" /\ UNCHANGED item
Scripted == sent = item.script
Transmits == useWebSocket /\ wsHandshakeDone /\ step = "idle" /\ ~Transmitted

Speaks == Runs /\ ~Scripted /\ Speak /\ IsPrefix(sent', item.script)
TransmitsFrame == Runs /\ Scripted /\ Transmits /\ Transmit /\ Planned(Last(frames'))
OffersOptions == Runs /\ Scripted /\ OnNewConnection
CallsEfun == Runs /\ Scripted /\ item.line = "busy" /\ Len(written) < 27 /\ wsPendingSend = <<>> /\ Efuns
RunsPoll == Runs /\ Scripted /\ ~Transmits /\ Polls /\ (arrived' # arrived => ReadAt(arrived'))

-----------------------------------------------------------------------------
Init ==
    /\ StreamInit
    /\ \/ \E s \in Streams : item = s /\ OpenedFor(s)
       \/ /\ \/ \E d \in Dialects : \E e \in Leaves(d) : item = Code(d, e)
             \/ \E v \in Atoms : item = [kind |-> "value", v |-> v, depth |-> 0]
          /\ ~useWebSocket /\ room # Small /\ request = Request

Grow == GrowExpression \/ MakeStatement \/ GrowStatement \/ GrowValue

Next == (Grow /\ UNCHANGED streamVars)
        \/ Speaks \/ TransmitsFrame \/ OffersOptions \/ CallsEfun \/ RunsPoll

Spec == Init /\ [][Next]_<<item, streamVars>>
=============================================================================
