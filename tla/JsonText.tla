------------------------------ MODULE JsonText ------------------------------
(***************************************************************************)
(* json_serialize() and json_parse() of the LDMud dialect, on the values   *)
(* and texts of Saving.  Two characters stand for ones a string cannot     *)
(* hold here: "^" for backspace and "~" for the other control characters.  *)
(* Code points above 127 are outside the alphabet.                         *)
(***************************************************************************)
EXTENDS Saving

Backspace == "^"
Control == "~"
ControlHex == "0007"

EscapeOf == [c \in {"\"", "\\", Backspace, "\f", "\n", "\r", "\t"} |->
                CASE c = Backspace -> "b" [] c = "\f" -> "f" [] c = "\n" -> "n"
                  [] c = "\r" -> "r" [] c = "\t" -> "t" [] OTHER -> c]

AppendEscapedString(s) ==
    "\"" \o Joined([i \in 1..Len(s) |->
                CASE At(s, i) \in DOMAIN EscapeOf -> "\\" \o EscapeOf[At(s, i)]
                  [] At(s, i) = Control -> "\\u" \o ControlHex
                  [] OTHER -> At(s, i)]) \o "\""

Separated(pieces) ==
    FlattenSeq([i \in 1..Len(pieces) |-> (IF i = 1 THEN <<>> ELSE <<",">>) \o pieces[i]])

\* The pieces of the text; Exception among them when the call throws.
RECURSIVE JsonPieces(_)
JsonPieces(v) ==
    CASE v[1] = "int" -> <<ToString(v[2])>>
      [] v[1] = "flt" -> <<v[2]>>
      [] v[1] = "str" -> <<AppendEscapedString(v[2])>>
      [] v[1] = "arr" ->
             <<"[">> \o Separated([i \in 1..Len(v[2]) |-> JsonPieces(v[2][i])]) \o <<"]">>
      [] v[1] = "map" ->
             IF v[2] # 1 \/ \E i \in 1..Len(v[3]) : v[3][i][1][1] # "str" THEN <<Exception>>
             ELSE <<"{">> \o Separated([i \in 1..Len(v[3]) |->
                                 <<AppendEscapedString(v[3][i][1][2]), ":">>
                                 \o JsonPieces(v[3][i][2][1])]) \o <<"}">>
      [] OTHER -> <<Exception>>

SerializeJson(v) ==
    IF Contains(JsonPieces(v), Exception) THEN Threw ELSE Str(Joined(JsonPieces(v)))

SkipWhitespace(s, p) ==
    Min({i \in p..(Len(s) + 1) : At(s, i) \notin {" ", "\t", "\n", "\r"}})

HexDigits == DigitChars \union {"a", "b", "c", "d", "e", "f"}

RECURSIVE LiteralFrom(_, _, _)
LiteralFrom(s, p, done) ==
    LET c == At(s, p)
        e == At(s, p + 1)
        hex == Part(s, p + 2, p + 5)
        plain == {d \in DOMAIN EscapeOf : EscapeOf[d] = e}
    IN  CASE c = "" -> Thrown
          [] c = "\"" -> [v |-> Str(done), pos |-> p + 1]
          [] c = "\\" /\ plain # {} ->
                 LiteralFrom(s, p + 2, done \o (CHOOSE d \in plain : TRUE))
          [] c = "\\" /\ e = "/" -> LiteralFrom(s, p + 2, done \o "/")
          [] c = "\\" /\ e = "u" ->
                 IF p + 5 <= Len(s) /\ At(s, p + 2) \in HexDigits
                 THEN LiteralFrom(s, p + 6, done \o (IF hex = ControlHex THEN Control ELSE "?"))
                 ELSE Thrown
          [] c = "\\" /\ plain = {} /\ e \notin {"/", "u"} -> Thrown
          [] OTHER -> LiteralFrom(s, p + 1, done \o c)

ParseStringLiteral(s, p) == LiteralFrom(s, p + 1, "")

JsonNumber(s, p) ==
    LET whole == DigitsEnd(s, After(s, p, "-"))
        dotted == IF At(s, whole) = "." THEN DigitsEnd(s, whole + 1) ELSE whole
        sign == IF At(s, dotted + 1) \in {"+", "-"} THEN dotted + 2 ELSE dotted + 1
        end == IF At(s, dotted) \in {"e", "E"} THEN DigitsEnd(s, sign) ELSE dotted
    IN  Or([v |-> IF end = whole THEN Stoll(Part(s, p, end - 1))
                  ELSE <<"flt", Part(s, p, end - 1)>>,
            pos |-> end])

RECURSIVE ParseValueAt(_, _), JsonItems(_, _, _), JsonEntries(_, _, _)
ParseValueAt(s, start) ==
    LET p == SkipWhitespace(s, start)
        c == At(s, p)
        first == SkipWhitespace(s, p + 1)
    IN  CASE c = "\"" -> ParseStringLiteral(s, p)
          [] c = "{" -> IF At(s, first) = "}" THEN [v |-> <<"map", 1, <<>>>>, pos |-> first + 1]
                        ELSE JsonEntries(s, p + 1, <<>>)
          [] c = "[" -> IF At(s, first) = "]" THEN [v |-> Arr(<<>>), pos |-> first + 1]
                        ELSE JsonItems(s, p + 1, <<>>)
          [] Part(s, p, p + 3) = "true" -> [v |-> Num(1), pos |-> p + 4]
          [] Part(s, p, p + 4) = "false" -> [v |-> Num(0), pos |-> p + 5]
          [] Part(s, p, p + 3) = "null" -> [v |-> Num(0), pos |-> p + 4]
          [] c \in DigitChars \union {"-"} -> JsonNumber(s, p)
          [] OTHER -> Thrown

JsonItems(s, p, items) ==
    LET item == ParseValueAt(s, p)
        next == SkipWhitespace(s, item.pos)
        more == Append(items, item.v)
    IN  IF item.pos = 0 THEN Thrown
        ELSE CASE At(s, next) = "," -> JsonItems(s, next + 1, more)
               [] At(s, next) = "]" -> [v |-> Arr(more), pos |-> next + 1]
               [] OTHER -> Thrown

JsonEntries(s, p, entries) ==
    LET at == SkipWhitespace(s, p)
        key == ParseStringLiteral(s, at)
        colon == SkipWhitespace(s, key.pos)
        val == ParseValueAt(s, colon + 1)
        next == SkipWhitespace(s, val.pos)
        more == Append(entries, <<key.v, <<val.v>>>>)
    IN  IF At(s, at) # "\"" \/ key.pos = 0 THEN Thrown
        ELSE IF At(s, colon) # ":" \/ val.pos = 0 THEN Thrown
        ELSE CASE At(s, next) = "," -> JsonEntries(s, next + 1, more)
               [] At(s, next) = "}" -> [v |-> <<"map", 1, more>>, pos |-> next + 1]
               [] OTHER -> Thrown

\* Nothing may follow the value.
ParseJson(s) ==
    LET top == ParseValueAt(s, 1)
    IN  IF top.pos = 0 THEN Threw
        ELSE IF SkipWhitespace(s, top.pos) # Len(s) + 1 THEN Threw ELSE top.v
=============================================================================
