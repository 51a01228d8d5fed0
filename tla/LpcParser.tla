----------------------------- MODULE LpcParser ------------------------------
(* The recursive descent parser: from tokens to the syntax tree of LpcAst.  *)
(* The parser's members are the record p: the tokens, the position, the     *)
(* dialect, and for every "(: ... :)" being read the largest $n and the     *)
(* $(e)s met so far.  Parsing gives [e, p]; an error sets p.bad and what is *)
(* parsed after it is of no account.  Types other than classes, and the     *)
(* widths of LDMud's mappings, are read and dropped.                        *)
EXTENDS LpcAst, Integers, TLC, Lexer

Absent == <<"absent">>

AtEnd(p) == p.toks[p.pos][1] = "End"
PeekAt(p, k) == p.toks[IF p.pos + k <= Len(p.toks) THEN p.pos + k ELSE Len(p.toks)]
Peek(p) == PeekAt(p, 0)
Advance(p) == IF AtEnd(p) THEN p ELSE [p EXCEPT !.pos = @ + 1]
Skip(p, n) == IF n = 1 THEN Advance(p) ELSE Advance(Advance(p))

Check(p, type) == Peek(p)[1] = type
CheckText(p, text) == Peek(p)[1] \in {"Symbol", "Keyword"} /\ Peek(p)[2] = text
CheckIn(p, texts) == Peek(p)[1] \in {"Symbol", "Keyword"} /\ Peek(p)[2] \in texts
(* A lookahead at a text, whatever the type of the token *)
TextAt(p, k, text) == PeekAt(p, k)[2] = text
IdentIs(p, name) == Peek(p) = <<"Ident", name>>

Fail(p) == [p EXCEPT !.bad = TRUE]
Expect(p, type) == IF p.bad THEN p ELSE IF Check(p, type) THEN Advance(p) ELSE Fail(p)
ExpectText(p, text) == IF p.bad THEN p ELSE IF CheckText(p, text) THEN Advance(p) ELSE Fail(p)
Expect2(p, t, u) == ExpectText(ExpectText(p, t), u)

Done(e, p) == [e |-> e, p |-> p]
Failed(p) == Done(Absent, Fail(p))
(* e(r.e), after the text has been read *)
Close(r, text, E(_)) == IF r.p.bad THEN r ELSE Done(E(r.e), ExpectText(r.p, text))

ModifierKeywords(p) ==
    {"static", "private", "public", "protected", "nomask", "varargs"}
    \cup (IF p.dialect = "DGD" THEN {"atomic"} ELSE {})
NonTypeKeywords ==
    {"return", "if", "else", "while", "for", "do", "inherit", "break", "continue", "foreach", "in",
     "switch", "case", "default", "static", "private", "public", "protected", "nomask", "varargs",
     "atomic", "nil"}
IsTypeKeyword(tok) == tok[1] = "Keyword" /\ tok[2] \notin NonTypeKeywords
IsModifierKeyword(p, tok) == tok[1] = "Keyword" /\ tok[2] \in ModifierKeywords(p)

-----------------------------------------------------------------------------
(* Types: [class, p], class a class name or None *)

HasArrayMarker(p) == CheckText(p, "*") \/ IdentIs(p, "array")
ConsumeArrayMarker(p) == IF HasArrayMarker(p) THEN Advance(p) ELSE p

StartsClassType(p) == p.dialect = "FluffOS" /\ IdentIs(p, "class") /\ PeekAt(p, 1)[1] = "Ident"

(* string::f() is a call of an inherited function, not a declaration. *)
StartsType(p) ==
    \/ IsTypeKeyword(Peek(p)) /\ ~TextAt(p, 1, "::")
    \/ StartsClassType(p)
    \/ IdentIs(p, "array") /\ (PeekAt(p, 1)[1] = "Ident" \/ PeekAt(p, 1) = <<"Symbol", "*">>)

ParseTypeToken(p) ==
    IF StartsClassType(p) THEN [class |-> PeekAt(p, 1)[2], p |-> ConsumeArrayMarker(Skip(p, 2))]
    ELSE IF IdentIs(p, "array") THEN [class |-> None, p |-> Advance(p)]
    ELSE [class |-> None, p |-> IF p.bad \/ ~Check(p, "Keyword") THEN Fail(p) ELSE ConsumeArrayMarker(Advance(p))]

-----------------------------------------------------------------------------
(* Lists of items: f[1], "," f[2], ...; with trailing set, a last comma may *)
(* stand before the text that closes the list.                              *)

RECURSIVE ParseTernary(_), ParseUnary(_), ParseStatement(_), ParseBlock(_)

ParseExpr(p) == ParseTernary(p)

(* An argument or an array element is <<e, has "...">>. *)
ParseArg(p) ==
    LET r == ParseExpr(p) IN
    IF r.p.bad THEN r
    ELSE IF CheckText(r.p, "...") THEN Done(<<r.e, TRUE>>, Advance(r.p)) ELSE Done(<<r.e, FALSE>>, r.p)

(* key : value, with the further values of a wide mapping of LDMud *)
RECURSIVE ParseValues(_)
ParseValues(p) ==
    LET r == ParseExpr(p) IN
    IF r.p.bad THEN r
    ELSE IF ~(p.dialect = "LdMud" /\ CheckText(r.p, ";")) THEN Done(<<r.e>>, r.p)
    ELSE LET rest == ParseValues(Advance(r.p)) IN Done(<<r.e>> \o rest.e, rest.p)
ParseEntry(p) ==
    LET k == ParseExpr(p)
        vs == ParseValues(ExpectText(k.p, ":"))
    IN  IF k.p.bad THEN k ELSE IF vs.p.bad THEN vs ELSE Done(<<k.e>> \o vs.e, vs.p)

(* field : value of new(class c, ...) *)
ParseFieldInit(p) ==
    LET r == ParseExpr(ExpectText(Expect(p, "Ident"), ":")) IN
    IF r.p.bad THEN r ELSE Done(<<Peek(p)[2], r.e>>, r.p)

ParseItem(p, kind) ==
    CASE kind = "arg"   -> ParseArg(p)
      [] kind = "expr"  -> ParseExpr(p)
      [] kind = "entry" -> ParseEntry(p)
      [] kind = "field" -> ParseFieldInit(p)

RECURSIVE ParseItems(_, _, _)
ParseItems(p, kind, close) ==
    LET r == ParseItem(p, kind) IN
    IF r.p.bad THEN r
    ELSE IF ~CheckText(r.p, ",") THEN Done(<<r.e>>, r.p)
    ELSE IF close # "" /\ CheckText(Advance(r.p), close) THEN Done(<<r.e>>, Advance(r.p))
    ELSE LET rest == ParseItems(Advance(r.p), kind, close) IN
         IF rest.p.bad THEN rest ELSE Done(<<r.e>> \o rest.e, rest.p)

(* A list that may be empty, up to and with the text that closes it *)
ParseList(p, kind, close, trailing) ==
    LET r == IF p.bad \/ CheckText(p, close) THEN Done(<<>>, p)
             ELSE ParseItems(p, kind, IF trailing THEN close ELSE "")
    IN  Close(r, close, LAMBDA items : items)

Firsts(items) == [i \in DOMAIN items |-> items[i][1]]
Seconds(items) == [i \in DOMAIN items |-> items[i][2]]

(* parseArgList(), from the "(" before it to the ")" every caller expects *)
ParseArgList(p) == ParseList(ExpectText(p, "("), "arg", ")", TRUE)

ParseCall(p, f, mode, qualifier) ==
    LET r == ParseArgList(p) IN
    IF r.p.bad THEN r ELSE Done(Call(f, Firsts(r.e), Seconds(r.e), mode, qualifier), r.p)

(* qualifier::f(...), ::f(...) and efun::f(...), from the "::" on *)
ParseQualifiedCall(p, mode, qualifier) ==
    LET name == Advance(p) IN
    IF ~Check(name, "Ident") THEN Failed(name) ELSE ParseCall(Advance(name), Peek(name)[2], mode, qualifier)

(* a, b, c as one value *)
RECURSIVE MoreComma(_)
MoreComma(r) ==
    IF r.p.bad \/ ~CheckText(r.p, ",") THEN r
    ELSE LET right == ParseExpr(Advance(r.p)) IN
         IF right.p.bad THEN right ELSE MoreComma(Done(Comma(r.e, right.e), right.p))
ParseCommaExpr(p) == IF p.bad THEN Failed(p) ELSE MoreComma(ParseExpr(p))

-----------------------------------------------------------------------------
(* parsePrimary(): one operator for each form *)

DigitValue(ch) ==
    CHOOSE n \in 0..15 : ch \in {SubSeq("0123456789abcdef", n + 1, n + 1), SubSeq("0123456789ABCDEF", n + 1, n + 1)}
RECURSIVE NumberOf(_, _)
NumberOf(text, base) ==
    IF text = "" THEN 0
    ELSE NumberOf(SubSeq(text, 1, Len(text) - 1), base) * base + DigitValue(SubSeq(text, Len(text), Len(text)))
NumberLiteral(text) ==
    IF \E i \in 1..Len(text) : SubSeq(text, i, i) = "." THEN FloatLiteral(text)
    ELSE IF Len(text) > 2 /\ SubSeq(text, 2, 2) \in {"x", "X"} THEN IntLiteral(NumberOf(SubSeq(text, 3, Len(text)), 16))
    ELSE IntLiteral(NumberOf(text, 10))

(* Adjacent string literals are one. *)
RECURSIVE ParseStrings(_, _)
ParseStrings(p, value) ==
    IF Check(p, "String") THEN ParseStrings(Advance(p), value \o Peek(p)[2])
    ELSE Done(StringLiteral(Characters(value)), p)

(* $(e): a value bound when the innermost "(: :)" is made *)
ParseBoundValue(p) ==
    LET r == ParseCommaExpr(Skip(p, 2))
        top == Len(r.p.bounds)
    IN  IF p.bounds = <<>> THEN Failed(p)
        ELSE IF r.p.bad THEN r
        ELSE Done(LambdaParam(Len(r.p.bounds[top]), TRUE),
                  ExpectText([r.p EXCEPT !.bounds[top] = Append(@, r.e)], ")"))

(* $n *)
ParseParameter(p) ==
    LET n == NumberOf(SubSeq(Peek(p)[2], 2, Len(Peek(p)[2])), 10)
        top == Len(p.maxs)
    IN  IF p.maxs = <<>> \/ n < 1 THEN Failed(p)
        ELSE Done(LambdaParam(n - 1, FALSE), [Advance(p) EXCEPT !.maxs[top] = IF n > @ THEN n ELSE @])

ParseMappingLiteral(p) ==
    LET r == ParseList(Skip(p, 2), "entry", "]", TRUE) IN
    IF r.p.bad THEN r
    ELSE IF \E i, j \in DOMAIN r.e : Len(r.e[i]) # Len(r.e[j]) THEN Failed(r.p)
    ELSE Close(r, ")", MappingLiteral)

(* #'f and #'efun::f of LDMud *)
ParseHashQuote(p) ==
    LET q == Advance(p)
        forced == IdentIs(q, "efun") /\ TextAt(q, 1, "::")
        name == IF forced THEN Skip(q, 2) ELSE q
    IN  IF Check(name, "Ident") THEN Done(ClosureLiteral(Peek(name)[2], <<>>, forced), Advance(name)) ELSE Failed(p)

IsParameterName(text) == SubSeq(text, 1, 1) = "$"

(* (: f :) and (: f, e, ... :) name a function; any other (: e, ... :) is *)
(* a body.                                                               *)
ParseClosureLiteral(p) ==
    LET name == PeekAt(p, 2)
        bare == name[1] = "Ident" /\ ~IsParameterName(name[2]) /\ PeekAt(p, 3) \in {<<"Symbol", ",">>, <<"Symbol", ":">>}
        after == Advance(Skip(p, 2))
        bound == IF CheckText(after, ",") THEN ParseItems(Advance(after), "expr", "") ELSE Done(<<>>, after)
        inner == [Skip(p, 2) EXCEPT !.maxs = Append(@, 0), !.bounds = Append(@, <<>>)]
        body == ParseItems(inner, "expr", "")
        top == Len(inner.maxs)
    IN  IF bare
        THEN IF bound.p.bad THEN bound ELSE Done(ClosureLiteral(name[2], bound.e, FALSE), Expect2(bound.p, ":", ")"))
        ELSE IF body.p.bad THEN body
        ELSE Done(InlineLambda(body.e, body.p.bounds[top], body.p.maxs[top]),
                  Expect2([body.p EXCEPT !.maxs = p.maxs, !.bounds = SubSeq(@, 1, top - 1)], ":", ")"))

RECURSIVE ParseParams(_)
ParseParams(p) ==
    LET type == ParseTypeToken(p)
        named == ~type.p.bad /\ Check(type.p, "Ident")
        name == IF named THEN Peek(type.p)[2] ELSE ""
        q == IF named THEN Advance(type.p) ELSE type.p
    IN  IF q.bad THEN Failed(q)
        ELSE IF CheckText(q, ",")
        THEN LET rest == ParseParams(Advance(q)) IN
             IF rest.p.bad THEN rest ELSE Done(<<<<name>> \o rest.e[1], rest.e[2]>>, rest.p)
        ELSE IF CheckText(q, "...") THEN Done(<<<<name>>, TRUE>>, Advance(q))
        ELSE Done(<<<<name>>, FALSE>>, q)

(* parseParamList() with its parentheses: <<names, is varargs>> *)
ParseParamList(p) ==
    LET r == IF CheckText(p, ")") THEN Done(<<<<>>, FALSE>>, p) ELSE ParseParams(p) IN
    Close(r, ")", LAMBDA params : params)

(* function(...) { ... } *)
ParseAnonFunction(p) ==
    LET params == ParseParamList(Skip(p, 2))
        body == ParseBlock(params.p)
    IN  IF params.p.bad THEN params ELSE IF body.p.bad THEN body
        ELSE Done(AnonFunction(params.e[1], params.e[2], body.e), body.p)

(* ( *f)(...) is a call of the efun evaluate(). *)
ParsePointerCall(p) ==
    LET f == ParseExpr(Skip(p, 2))
        args == ParseArgList(ExpectText(f.p, ")"))
    IN  IF f.p.bad THEN f ELSE IF args.p.bad THEN args
        ELSE Done(Call("evaluate", <<f.e>> \o Firsts(args.e), <<FALSE>> \o Seconds(args.e), "efun", None), args.p)

ParseArrayLiteral(p) ==
    Close(ParseList(Skip(p, 2), "arg", "}", TRUE), ")", LAMBDA items : ArrayLiteral(Firsts(items), Seconds(items)))

(* new(class c field : e, ...) *)
ParseNewClass(p) ==
    LET name == Skip(p, 2)
        inits == ParseList(Advance(name), "field", ")", FALSE)
    IN  IF ~Check(name, "Ident") THEN Failed(name)
        ELSE IF inits.p.bad THEN inits ELSE Done(NewClass(Peek(name)[2], inits.e), inits.p)

(* f(...), with sscanf() and call_other() told apart by their names *)
ParseNamedCall(p, f) ==
    LET r == ParseArgList(p)
        args == Firsts(r.e)
        spread == Seconds(r.e)
        outs == SubSeq(args, 3, Len(args))
    IN  IF r.p.bad THEN r
        ELSE CASE f = "sscanf" ->
                    IF \/ Len(args) < 2
                       \/ \E i \in DOMAIN spread : spread[i]
                       \/ \E i \in DOMAIN outs : outs[i][1] \notin {"var", "index"}
                    THEN Failed(r.p) ELSE Done(Sscanf(args[1], args[2], outs), r.p)
               [] f = "call_other" ->
                    IF Len(args) < 2 \/ spread[1] \/ spread[2] THEN Failed(r.p)
                    ELSE Done(CallOther(args[1], args[2], outs, SubSeq(spread, 3, Len(spread))), r.p)
               [] OTHER -> Done(Call(f, args, spread, "plain", None), r.p)

(* What starts with an identifier; p is the position after it. *)
ParseIdent(p, name) ==
    CASE name = "new" /\ p.dialect = "FluffOS" /\ CheckText(p, "(") /\ TextAt(p, 1, "class") -> ParseNewClass(p)
      [] name = "efun" /\ CheckText(p, "::") -> ParseQualifiedCall(p, "efun", None)
      [] name # "efun" /\ CheckText(p, "::") -> ParseQualifiedCall(p, "parent", name)
      [] name = "catch" /\ CheckText(p, "(") -> Close(ParseCommaExpr(Advance(p)), ")", Catch)
      [] name = "time_expression" /\ CheckText(p, "{") ->
            LET body == ParseBlock(p) IN IF body.p.bad THEN body ELSE Done(TimeExpression(body.e), body.p)
      [] ~CheckText(p, "(") -> Done(VarRef(name), p)
      [] OTHER -> ParseNamedCall(p, name)

ParsePrimary(p) ==
    LET Opens(text) == CheckText(p, "(") /\ TextAt(p, 1, text) IN
    CASE Check(p, "String") -> ParseStrings(p, "")
      [] Check(p, "Number") -> Done(NumberLiteral(Peek(p)[2]), Advance(p))
      [] CheckText(p, "nil") /\ p.dialect = "DGD" -> Done(NilLiteral, Advance(p))
      [] Check(p, "Quoted") -> Done(Symbol(Peek(p)[2]), Advance(p))
      [] CheckText(p, "$") /\ TextAt(p, 1, "(") -> ParseBoundValue(p)
      [] Opens("[") -> ParseMappingLiteral(p)
      [] CheckText(p, "#'") /\ p.dialect = "LdMud" -> ParseHashQuote(p)
      [] Opens(":") -> ParseClosureLiteral(p)
      [] CheckText(p, "function") /\ TextAt(p, 1, "(") -> ParseAnonFunction(p)
      [] IsTypeKeyword(Peek(p)) /\ TextAt(p, 1, "::") -> ParseQualifiedCall(Advance(p), "parent", Peek(p)[2])
      [] Opens("*") -> ParsePointerCall(p)
      [] Opens("{") -> ParseArrayLiteral(p)
      [] CheckText(p, "(") /\ ~(Opens("[") \/ Opens(":") \/ Opens("*") \/ Opens("{")) ->
            Close(ParseCommaExpr(Advance(p)), ")", LAMBDA e : e)
      [] CheckText(p, "::") -> ParseQualifiedCall(p, "parent", None)
      [] Check(p, "Ident") ->
            IF IsParameterName(Peek(p)[2]) THEN ParseParameter(p) ELSE ParseIdent(Advance(p), Peek(p)[2])
      [] OTHER -> Failed(p)

-----------------------------------------------------------------------------
(* parsePostfix() *)

(* 2000000000 stands for the end of the value in x[i..]. *)
RangeSentinel == 2000000000

(* "[" of x[i], x[<i], x[i..j] and, in LDMud, m[i, column] *)
ParseIndex(p, target) ==
    LET fromEnd == CheckText(Advance(p), "<")
        at == IF fromEnd THEN Skip(p, 2) ELSE Advance(p)
        i == IF p.dialect = "LdMud" THEN ParseExpr(at) ELSE ParseCommaExpr(at)
        q == Advance(i.p)
        endFromEnd == CheckText(q, "<")
        j == ParseExpr(IF endFromEnd THEN Advance(q) ELSE q)
        col == ParseExpr(q)
    IN  IF i.p.bad THEN i
        ELSE IF CheckText(i.p, ",") /\ p.dialect = "LdMud"
             THEN Close(col, "]", LAMBDA e : Index(target, Column(i.e, e), fromEnd))
        ELSE IF CheckText(i.p, "..")
             THEN IF CheckText(q, "]")
                  THEN Done(RangeExpr(target, i.e, fromEnd, IntLiteral(RangeSentinel), FALSE), Advance(q))
                  ELSE Close(j, "]", LAMBDA e : RangeExpr(target, i.e, fromEnd, e, endFromEnd))
        ELSE Close(i, "]", LAMBDA e : Index(target, e, fromEnd))

(* "->" of o->f(...) and of a class member *)
ParseArrow(p, target) ==
    LET name == Peek(Advance(p))
        q == Skip(p, 2)
        args == ParseArgList(q)
    IN  IF name[1] # "Ident" THEN Failed(p)
        ELSE IF p.dialect = "FluffOS" /\ ~CheckText(q, "(") THEN Done(Index(target, MemberName(name[2]), FALSE), q)
        ELSE IF args.p.bad THEN args
        ELSE Done(CallOther(target, StringLiteral(Characters(name[2])), Firsts(args.e), Seconds(args.e)), args.p)

IncDecOf(op, prefix, target, p) ==
    LET name == IF op = "++" THEN "Add" ELSE "Sub" IN
    CASE target[1] = "var" -> Done(IncDec(name, prefix, target[2]), p)
      [] target[1] = "index" -> Done(IncDecIndex(name, prefix, target[2], target[3]), p)
      [] OTHER -> Failed(p)

RECURSIVE MorePostfix(_)
MorePostfix(r) ==
    IF r.p.bad THEN r
    ELSE IF CheckText(r.p, "->") THEN MorePostfix(ParseArrow(r.p, r.e))
    ELSE IF CheckText(r.p, "[") THEN MorePostfix(ParseIndex(r.p, r.e))
    ELSE IF CheckIn(r.p, {"++", "--"}) THEN IncDecOf(Peek(r.p)[2], FALSE, r.e, Advance(r.p))
    ELSE r

ParsePostfix(p) == MorePostfix(ParsePrimary(p))

-----------------------------------------------------------------------------
(* parseUnary() and the binary operators *)

AssignOps ==
    ("=" :> "=") @@ ("+=" :> "Add") @@ ("-=" :> "Sub") @@ ("*=" :> "Mul") @@ ("/=" :> "Div") @@ ("%=" :> "Mod")
    @@ ("|=" :> "BitOr") @@ ("&=" :> "BitAnd") @@ ("^=" :> "BitXor") @@ ("<<=" :> "Shl") @@ (">>=" :> "Shr")

(* A target and what is assigned to it; an assignment is a unary operand,  *)
(* so a || b = c is a || (b = c).                                          *)
ParseAssignment(p) ==
    LET target == ParsePostfix(p)
        op == AssignOps[Peek(target.p)[2]]
        value == ParseExpr(Advance(target.p))
    IN  IF target.p.bad \/ ~CheckIn(target.p, DOMAIN AssignOps) THEN target
        ELSE IF target.e[1] \notin {"var", "index"} THEN Failed(target.p)
        ELSE IF value.p.bad THEN value
        ELSE IF target.e[1] = "var" THEN Done(Assign(target.e[2], op, value.e), value.p)
        ELSE Done(IndexAssign(target.e[2], target.e[3], op, value.e), value.p)

(* A cast to a type other than a class says nothing to the compiler. *)
CastLength(p) ==
    LET star(q) == IF CheckText(q, "*") THEN 1 ELSE 0
        plain == CheckText(p, "(") /\ IsTypeKeyword(PeekAt(p, 1))
        class == /\ p.dialect = "FluffOS" /\ CheckText(p, "(")
                 /\ PeekAt(p, 1) = <<"Ident", "class">> /\ PeekAt(p, 2)[1] = "Ident"
        n == IF class THEN 3 ELSE 2
        size == n + star([p EXCEPT !.pos = @ + n])
    IN  IF (plain \/ class) /\ PeekAt(p, size) = <<"Symbol", ")">> THEN size + 1 ELSE 0

ParseCast(p, size) ==
    LET r == ParseUnary([p EXCEPT !.pos = @ + size]) IN
    IF r.p.bad \/ size # 4 \/ PeekAt(p, 1)[1] = "Keyword" THEN r ELSE Done(TypeCast(PeekAt(p, 2)[2], r.e), r.p)

UnaryOpOf == ("!" :> "Not") @@ ("-" :> "Neg") @@ ("~" :> "BitNot")

ParseUnary(p) ==
    LET size == CastLength(p)
        operand == ParseUnary(Advance(p))
    IN  IF p.bad THEN Failed(p)
        ELSE IF size > 0 THEN ParseCast(p, size)
        ELSE IF CheckIn(p, DOMAIN UnaryOpOf)
             THEN IF operand.p.bad THEN operand ELSE Done(Unary(UnaryOpOf[Peek(p)[2]], operand.e), operand.p)
        ELSE IF CheckIn(p, {"++", "--"})
             THEN IF operand.p.bad THEN operand ELSE IncDecOf(Peek(p)[2], TRUE, operand.e, operand.p)
        ELSE ParseAssignment(p)

(* The binary operators from the loosest to the tightest; each level groups *)
(* to the left.                                                             *)
LooseLevels ==
    <<"||" :> "Or", "&&" :> "And", "|" :> "BitOr", "^" :> "BitXor", "&" :> "BitAnd",
      ("==" :> "Eq") @@ ("!=" :> "Neq")>>
TightLevels ==
    <<("<" :> "Lt") @@ ("<=" :> "Lte") @@ (">" :> "Gt") @@ (">=" :> "Gte"), ("<<" :> "Shl") @@ (">>" :> "Shr"),
      ("+" :> "Add") @@ ("-" :> "Sub"), ("*" :> "Mul") @@ ("/" :> "Div") @@ ("%" :> "Mod")>>
\* Mutant of Levels: the comparisons bind looser than the equalities.
LevelsSwapped == SubSeq(LooseLevels, 1, 5) \o <<TightLevels[1], LooseLevels[6]>> \o Tail(TightLevels)

Levels == LooseLevels \o TightLevels

(* From the inside out: a unary, and what follows it of the tightest level, *)
(* then of the looser ones, up to level n.                                  *)
RECURSIVE ParseLevel(_, _), MoreOperands(_, _, _)
ParseLevel(p, n) == MoreOperands(ParseUnary(p), Len(Levels), n)
MoreOperands(left, at, n) ==
    IF left.p.bad \/ at < n THEN left
    ELSE IF ~CheckIn(left.p, DOMAIN Levels[at]) THEN MoreOperands(left, at - 1, n)
    ELSE LET right == ParseLevel(Advance(left.p), at + 1) IN
         IF right.p.bad THEN right
         ELSE MoreOperands(Done(Binary(Levels[at][Peek(left.p)[2]], left.e, right.e), right.p), at, n)

ParseTernary(p) ==
    LET c == ParseLevel(p, 1)
        a == ParseTernary(Advance(c.p))
        b == ParseTernary(ExpectText(a.p, ":"))
    IN  IF p.bad THEN Failed(p)
        ELSE IF c.p.bad \/ ~CheckText(c.p, "?") THEN c
        ELSE IF a.p.bad THEN a ELSE IF b.p.bad THEN b
        ELSE Done(Ternary(c.e, a.e, b.e), b.p)

-----------------------------------------------------------------------------
(* Statements *)

(* Up to and with the text that ends the statement *)
End(r, text) == Close(r, text, LAMBDA e : e)

(* Statements that the grammar joins with commas are a block that is no scope. *)
RECURSIVE MoreInChain(_, _)
MoreInChain(stmts, p) ==
    IF p.bad \/ ~CheckText(p, ",") THEN Done(stmts, p)
    ELSE LET r == ParseExpr(Advance(p)) IN
         IF r.p.bad THEN r ELSE MoreInChain(Append(stmts, ExprStmt(r.e)), r.p)
ContinueStatementCommaChain(r) ==
    IF r.p.bad \/ ~CheckText(r.p, ",") THEN r
    ELSE LET chain == MoreInChain(<<r.e>>, r.p) IN
         IF chain.p.bad THEN chain ELSE Done(Block(chain.e, FALSE), chain.p)
(* parseCommaExprChain() of a for header: one expression is no statement. *)
ParseCommaExprChain(p) ==
    LET r == ParseExpr(p) IN
    IF r.p.bad \/ ~CheckText(r.p, ",") THEN r ELSE ContinueStatementCommaChain(Done(ExprStmt(r.e), r.p))

ParseSingleVarDecl(p, class) ==
    LET q == Expect(p, "Ident")
        init == ParseExpr(Advance(q))
    IN  IF q.bad THEN Failed(q)
        ELSE IF ~CheckText(q, "=") THEN Done(VarDecl(class, Peek(p)[2], None), q)
        ELSE IF init.p.bad THEN init ELSE Done(VarDecl(class, Peek(p)[2], init.e), init.p)

RECURSIVE MoreVarDecls(_, _, _)
MoreVarDecls(decls, p, class) ==
    IF ~CheckText(p, ",") THEN Done(IF Len(decls) = 1 THEN decls[1] ELSE Block(decls, FALSE), p)
    ELSE LET r == ParseSingleVarDecl(ConsumeArrayMarker(Advance(p)), class) IN
         IF r.p.bad THEN r ELSE MoreVarDecls(Append(decls, r.e), r.p, class)
ParseVarDeclStatement(p) ==
    LET type == ParseTypeToken(p)
        first == ParseSingleVarDecl(type.p, type.class)
    IN  IF first.p.bad THEN first ELSE End(MoreVarDecls(<<first.e>>, first.p, type.class), ";")

ParseAssignStatement(p) ==
    LET value == ParseExpr(Skip(p, 2)) IN
    IF value.p.bad THEN value
    ELSE End(ContinueStatementCommaChain(Done(AssignStmt(Peek(p)[2], value.e), value.p)), ";")

ParseExprStatement(p) ==
    LET r == ParseExpr(p) IN
    IF r.p.bad THEN r ELSE End(ContinueStatementCommaChain(Done(ExprStmt(r.e), r.p)), ";")

(* What starts like x[i] or x->m: an assignment to it, unless it turns out *)
(* to be none; then it is read again as an expression, with the $(e)s and  *)
(* the $n counted in the first attempt.                                    *)
ParseIndexAssignStatement(p) ==
    LET target == ParsePostfix(p)
        value == ParseExpr(Advance(target.p))
        op == AssignOps[Peek(target.p)[2]]
    IN  IF target.p.bad THEN target
        ELSE IF target.e[1] \notin {"index", "range"} \/ ~CheckIn(target.p, DOMAIN AssignOps)
             THEN ParseExprStatement([target.p EXCEPT !.pos = p.pos])
        ELSE IF value.p.bad THEN value
        ELSE End(ContinueStatementCommaChain(
                     Done(IndexAssignStmt(target.e[2], target.e[3], op, value.e), value.p)), ";")

ParseBranch(p) ==
    IF p.bad THEN Failed(p)
    ELSE IF CheckText(p, "{") THEN ParseBlock(p)
    ELSE LET r == ParseStatement(p) IN IF r.p.bad THEN r ELSE Done(Block(<<r.e>>, FALSE), r.p)

(* "(" condition ")" *)
ParseCondition(p) == End(ParseCommaExpr(ExpectText(p, "(")), ")")

ParseIfStatement(p) ==
    LET c == ParseCondition(Advance(p))
        then == ParseBranch(c.p)
        else == ParseBranch(Advance(then.p))
    IN  IF c.p.bad THEN c ELSE IF then.p.bad THEN then
        ELSE IF ~CheckText(then.p, "else") THEN Done(If(c.e, then.e, None), then.p)
        ELSE IF else.p.bad THEN else ELSE Done(If(c.e, then.e, else.e), else.p)

ParseWhileStatement(p) ==
    LET c == ParseCondition(Advance(p))
        body == ParseBranch(c.p)
    IN  IF c.p.bad THEN c ELSE IF body.p.bad THEN body ELSE Done(While(c.e, body.e), body.p)

ParseDoWhileStatement(p) ==
    LET body == ParseBranch(Advance(p))
        c == ParseCondition(ExpectText(body.p, "while"))
    IN  IF body.p.bad THEN body ELSE IF c.p.bad THEN c ELSE Done(DoWhile(body.e, c.e), ExpectText(c.p, ";"))

(* A clause of a for header that may be missing, and the text after it *)
Clause(p, text, r) == IF p.bad THEN Failed(p) ELSE IF CheckText(p, text) THEN Done(None, Advance(p)) ELSE End(r, text)
ParseForStatement(p) ==
    LET at == Expect2(p, "for", "(")
        type == ParseTypeToken(at)
        init == Clause(at, ";", IF StartsType(at) THEN ParseSingleVarDecl(type.p, type.class)
                                ELSE ParseCommaExprChain(at))
        c == Clause(init.p, ";", ParseCommaExpr(init.p))
        update == Clause(c.p, ")", ParseCommaExprChain(c.p))
        body == ParseBranch(update.p)
    IN  IF init.p.bad THEN init ELSE IF c.p.bad THEN c ELSE IF update.p.bad THEN update
        ELSE IF body.p.bad THEN body ELSE Done(For(init.e, c.e, update.e, body.e), body.p)

ParseForeachVar(p) ==
    LET q == IF p.bad THEN p ELSE IF StartsType(p) THEN ParseTypeToken(p).p ELSE p IN
    IF q.bad \/ ~Check(q, "Ident") THEN Failed(q) ELSE Done(<<Peek(q)[2], StartsType(p)>>, Advance(q))
ParseForeachStatement(p) ==
    LET first == ParseForeachVar(Expect2(p, "foreach", "("))
        second == IF CheckText(first.p, ",") THEN ParseForeachVar(Advance(first.p)) ELSE Done(None, first.p)
        collection == End(ParseExpr(ExpectText(second.p, "in")), ")")
        body == ParseBranch(collection.p)
    IN  IF first.p.bad THEN first ELSE IF second.p.bad THEN second ELSE IF collection.p.bad THEN collection
        ELSE IF body.p.bad THEN body ELSE Done(Foreach(first.e, second.e, collection.e, body.e), body.p)

ParseCaseLabel(p) ==
    LET low == ParseExpr(Advance(p))
        high == ParseExpr(Advance(low.p))
    IN  IF low.p.bad THEN low
        ELSE IF CheckText(low.p, "..") THEN Close(high, ":", LAMBDA e : CaseLabel(low.e, e))
        ELSE Close(low, ":", LAMBDA e : CaseLabel(e, None))

(* The statements up to a "}"; labels only in a switch *)
RECURSIVE ParseStatements(_, _, _)
ParseStatements(stmts, p, inSwitch) ==
    LET r == IF inSwitch /\ CheckText(p, "case") THEN ParseCaseLabel(p)
             ELSE IF inSwitch /\ CheckText(p, "default") THEN Done(DefaultLabel, ExpectText(Advance(p), ":"))
             ELSE ParseStatement(p)
    IN  IF p.bad \/ AtEnd(p) THEN Failed(p)
        ELSE IF CheckText(p, "}") THEN Done(stmts, Advance(p))
        ELSE IF r.p.bad THEN r ELSE ParseStatements(Append(stmts, r.e), r.p, inSwitch)

ParseSwitchStatement(p) ==
    LET subject == ParseCondition(Advance(p))
        body == ParseStatements(<<>>, ExpectText(subject.p, "{"), TRUE)
    IN  IF subject.p.bad THEN subject ELSE IF body.p.bad THEN body ELSE Done(Switch(subject.e, body.e), body.p)

ParseBlock(p) ==
    LET r == ParseStatements(<<>>, ExpectText(p, "{"), FALSE) IN
    IF p.bad THEN Failed(p) ELSE IF r.p.bad THEN r ELSE Done(Block(r.e, TRUE), r.p)

ParseReturnStatement(p) ==
    IF CheckText(Advance(p), ";") THEN Done(Return(None), Skip(p, 2)) ELSE Close(ParseCommaExpr(Advance(p)), ";", Return)

ParseStatement(p) ==
    LET text == IF Check(p, "Ident") \/ Check(p, "String") THEN "" ELSE Peek(p)[2] IN
    CASE p.bad -> Failed(p)
      [] ~p.bad /\ text = ";" -> Done(Block(<<>>, TRUE), Advance(p))
      [] ~p.bad /\ text = "{" -> ParseBlock(p)
      [] ~p.bad /\ text = "if" -> ParseIfStatement(p)
      [] ~p.bad /\ text = "while" -> ParseWhileStatement(p)
      [] ~p.bad /\ text = "do" -> ParseDoWhileStatement(p)
      [] ~p.bad /\ text = "for" -> ParseForStatement(p)
      [] ~p.bad /\ text = "foreach" -> ParseForeachStatement(p)
      [] ~p.bad /\ text = "switch" -> ParseSwitchStatement(p)
      [] ~p.bad /\ text = "return" -> ParseReturnStatement(p)
      [] ~p.bad /\ text \in {"break", "continue"} ->
            Done(IF text = "break" THEN Break ELSE Continue, ExpectText(Advance(p), ";"))
      [] OTHER ->
            IF StartsType(p) THEN ParseVarDeclStatement(p)
            ELSE IF Check(p, "Ident") /\ PeekAt(p, 1) = <<"Symbol", "=">> THEN ParseAssignStatement(p)
            ELSE IF Check(p, "Ident") /\ PeekAt(p, 1) \in {<<"Symbol", "[">>, <<"Symbol", "->">>}
                 THEN ParseIndexAssignStatement(p)
            ELSE ParseExprStatement(p)

-----------------------------------------------------------------------------
(* Top level *)

(* Modifiers, a type that may be missing, and a name *)
RECURSIVE SkipModifiers(_)
SkipModifiers(p) == IF IsModifierKeyword(p, Peek(p)) THEN SkipModifiers(Advance(p)) ELSE p

ParseDeclPrefix(p) ==
    LET q == SkipModifiers(p)
        at == IF StartsClassType(q) \/ IdentIs(q, "array") \/ Check(q, "Keyword") THEN ParseTypeToken(q).p ELSE q
        private == \E i \in p.pos..(q.pos - 1) : p.toks[i][2] = "private"
    IN  IF at.bad \/ ~Check(at, "Ident") THEN Failed(at)
        ELSE Done([name |-> Peek(at)[2], isPrivate |-> private], Advance(at))

ParseFunctionRest(p, name) ==
    LET params == ParseParamList(ExpectText(p, "("))
        body == ParseBlock(params.p)
    IN  IF params.p.bad THEN params
        ELSE IF CheckText(params.p, ";") THEN Done(Function(name, params.e[1], params.e[2], None), Advance(params.p))
        ELSE IF body.p.bad THEN body ELSE Done(Function(name, params.e[1], params.e[2], body.e), body.p)

RECURSIVE ParseObjectVarDeclRest(_, _)
ParseObjectVarDeclRest(p, prefix) ==
    LET init == ParseExpr(Advance(p))
        r == IF CheckText(p, "=")
             THEN IF init.p.bad THEN init ELSE Done(ObjectVar(prefix.name, prefix.isPrivate, init.e), init.p)
             ELSE Done(ObjectVar(prefix.name, prefix.isPrivate, None), p)
        q == ConsumeArrayMarker(Advance(r.p))
        rest == ParseObjectVarDeclRest(Advance(q), [prefix EXCEPT !.name = Peek(q)[2]])
    IN  IF r.p.bad THEN r
        ELSE IF ~CheckText(r.p, ",") THEN Done(<<r.e>>, ExpectText(r.p, ";"))
        ELSE IF ~Check(q, "Ident") THEN Failed(q)
        ELSE IF rest.p.bad THEN rest ELSE Done(<<r.e>> \o rest.e, rest.p)

(* inherit "a" "b" + "c"; *)
RECURSIVE ParseInheritPath(_, _)
ParseInheritPath(p, path) ==
    IF Check(p, "String") THEN ParseInheritPath(Advance(p), path \o Peek(p)[2])
    ELSE IF CheckText(p, "+") /\ PeekAt(p, 1)[1] = "String" THEN ParseInheritPath(Advance(p), path)
    ELSE IF CheckText(p, "+") THEN Failed(p)
    ELSE Done(path, ExpectText(p, ";"))
ParseInheritStatement(p) ==
    IF PeekAt(p, 1)[1] # "String" THEN Failed(p) ELSE ParseInheritPath(Advance(p), "")

(* The members of class c { type a, b; ... }: <<name, members>> *)
RECURSIVE ParseClassMembers(_, _, _)
ParseClassMembers(p, members, inDecl) ==
    LET type == ParseTypeToken(p)
        at == ConsumeArrayMarker(IF inDecl THEN p ELSE type.p)
        next == Advance(at)
    IN  IF AtEnd(p) \/ p.bad THEN Failed(p)
        ELSE IF ~inDecl /\ CheckText(p, "}") THEN Done(members, Advance(p))
        ELSE IF (~inDecl /\ type.p.bad) \/ ~Check(at, "Ident") THEN Failed(at)
        ELSE IF CheckText(next, ",") THEN ParseClassMembers(Advance(next), Append(members, Peek(at)[2]), TRUE)
        ELSE ParseClassMembers(ExpectText(next, ";"), Append(members, Peek(at)[2]), FALSE)
ParseClassDecl(p) ==
    LET members == ParseClassMembers(ExpectText(Expect(p, "Ident"), "{"), <<>>, FALSE) IN
    IF members.p.bad THEN members ELSE Done(<<Peek(p)[2], members.e>>, members.p)

(* parseProgram(): modifiers before an inherit or a class are dropped. *)
RECURSIVE ParseTop(_, _)
ParseTop(program, p) ==
    LET q == SkipModifiers(p)
        isInherit == TextAt(q, 0, "inherit") /\ (q.pos > p.pos \/ CheckText(p, "inherit"))
        isClass == /\ p.dialect = "FluffOS" /\ IdentIs(q, "class")
                   /\ PeekAt(q, 1)[1] = "Ident" /\ TextAt(q, 2, "{")
        inherit == ParseInheritStatement(q)
        class == ParseClassDecl(Advance(q))
        prefix == ParseDeclPrefix(p)
        function == ParseFunctionRest(prefix.p, prefix.e.name)
        variables == ParseObjectVarDeclRest(prefix.p, prefix.e)
    IN  IF p.bad \/ AtEnd(p) THEN Done(program, p)
        ELSE IF isInherit THEN ParseTop([program EXCEPT !.inherits = Append(@, inherit.e)], inherit.p)
        ELSE IF isClass THEN ParseTop([program EXCEPT !.classes = Append(@, class.e)], class.p)
        ELSE IF prefix.p.bad THEN prefix
        ELSE IF CheckText(prefix.p, "(")
             THEN ParseTop([program EXCEPT !.functions = Append(@, function.e)], function.p)
        ELSE IF variables.p.bad THEN variables
        ELSE ParseTop([program EXCEPT !.vars = @ \o variables.e], variables.p)

(* A class declared again replaces the first (CodeGen's table of members). *)
ClassTable(decls) ==
    [c \in {decls[i][1] : i \in DOMAIN decls} |->
        decls[CHOOSE i \in DOMAIN decls : decls[i][1] = c /\ \A j \in DOMAIN decls : decls[j][1] = c => j <= i][2]]

(* The syntax tree of a file, and whether there was an error *)
ParseProgram(text, dialect) ==
    LET l == Tokenize(text, dialect)
        p == [toks |-> l.toks, pos |-> 1, dialect |-> dialect, maxs |-> <<>>, bounds |-> <<>>, bad |-> FALSE]
        r == ParseTop([inherits |-> <<>>, classes |-> <<>>, vars |-> <<>>, functions |-> <<>>], p)
    IN  [bad |-> l.bad \/ r.p.bad, file |-> IF l.bad \/ r.p.bad THEN None ELSE [r.e EXCEPT !.classes = ClassTable(@)]]
=============================================================================
