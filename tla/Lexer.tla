------------------------------- MODULE Lexer --------------------------------
(* The lexer: from the text of a file, a sequence of characters, to its     *)
(* tokens.  A token is <<type, text>>; line numbers are left out.  The      *)
(* lexer's members are the record l; the position starts at 1.              *)
EXTENDS Integers, Sequences

Characters(text) == [i \in 1..Len(text) |-> SubSeq(text, i, i)]

Digits == {"0", "1", "2", "3", "4", "5", "6", "7", "8", "9"}
HexDigits == Digits \cup {"a", "b", "c", "d", "e", "f", "A", "B", "C", "D", "E", "F"}
Letters == {SubSeq("abcdefghijklmnopqrstuvwxyzABCDEFGHIJKLMNOPQRSTUVWXYZ_", i, i) : i \in 1..53}
WordCharacters == Letters \cup Digits

(* kKeywords, and kDgdOnlyKeywords in a mudlib of that dialect *)
Keywords(dialect) ==
    {"void", "int", "string", "object", "float", "mapping", "status", "mixed", "function", "return",
     "if", "else", "while", "for", "do", "static", "private", "public", "protected", "nomask",
     "varargs", "inherit", "break", "continue", "foreach", "in", "switch", "case", "default"}
    \cup (IF dialect = "DGD" THEN {"atomic", "nil"} ELSE {})

(* lexSymbol(): every symbol of more than one character, and the others. *)
LongSymbols == {"->", "::", "++", "--", "+=", "-=", "*=", "/=", "%=", "|=", "&=", "^=", "==", "!=",
                "<<=", "<<", ">>=", ">>", "<=", ">=", "||", "&&", "...", ".."}
SymbolCharacters == {"(", ")", "{", "}", "[", "]", ":", ";", ",", "-", "=", "!", "<", ">", "*", "+",
                     "|", "&", "/", "%", ".", "?", "^", "~"}

(* atEnd(), peek() and peekNext(): "" stands for the '\0' past the end. *)
At(l, i) == IF i <= Len(l.src) THEN l.src[i] ELSE ""
LexerAtEnd(l) == l.pos > Len(l.src)

(* The first position from i on whose character is not in the set. *)
SpanEnd(l, i, set) ==
    CHOOSE j \in i..(Len(l.src) + 1) : At(l, j) \notin set /\ \A k \in i..(j - 1) : At(l, k) \in set

RECURSIVE TextOf(_, _, _)
TextOf(l, i, j) == IF i >= j THEN "" ELSE l.src[i] \o TextOf(l, i + 1, j)
Slice(l, i, j) == TextOf(l, i, j)   \* the characters from i to before j

LexError(l) == [l EXCEPT !.bad = TRUE]
Token(l, type, text, next) == [l EXCEPT !.toks = Append(@, <<type, text>>), !.pos = next]

-----------------------------------------------------------------------------
RECURSIVE SkipWhitespaceAndComments(_)
SkipWhitespaceAndComments(l) ==
    LET Skip(j) == SkipWhitespaceAndComments([l EXCEPT !.pos = j])
        Closes(j) == At(l, j) = "*" /\ At(l, j + 1) = "/"
        n == Len(l.src)
    IN  IF At(l, l.pos) \in {" ", "\t", "\r", "\n"} THEN Skip(SpanEnd(l, l.pos, {" ", "\t", "\r", "\n"}))
        ELSE IF At(l, l.pos) # "/" THEN l
        ELSE IF At(l, l.pos + 1) = "/"
             THEN Skip(CHOOSE j \in l.pos..(n + 1) : At(l, j) \in {"\n", ""} /\ \A k \in l.pos..(j - 1) : At(l, k) # "\n")
        ELSE IF At(l, l.pos + 1) = "*"
             THEN LET end == CHOOSE j \in (l.pos + 2)..(n + 2) :
                                 (Closes(j) \/ j > n) /\ \A k \in (l.pos + 2)..(j - 1) : ~Closes(k)
                  IN  Skip(IF end > n THEN n + 1 ELSE end + 2)
        ELSE l

LexIdentOrKeyword(l) ==
    LET end == SpanEnd(l, l.pos, WordCharacters)
        text == Slice(l, l.pos, end)
    IN  Token(l, IF text \in Keywords(l.dialect) THEN "Keyword" ELSE "Ident", text, end)

(* A fraction only when a digit follows the dot: "1..5" is a range. *)
LexNumber(l) ==
    LET end == SpanEnd(l, l.pos, Digits)
        stop == IF Slice(l, l.pos, end) = "0" /\ At(l, end) \in {"x", "X"} /\ At(l, end + 1) \in HexDigits
                THEN SpanEnd(l, end + 1, HexDigits)
                ELSE IF At(l, end) = "." /\ At(l, end + 1) \in Digits THEN SpanEnd(l, end + 1, Digits)
                ELSE end
    IN  Token(l, "Number", Slice(l, l.pos, stop), stop)

LexLambdaParam(l) ==
    LET end == SpanEnd(l, l.pos + 1, Digits) IN
    IF end = l.pos + 1 THEN Token(l, "Symbol", "$", end)
    ELSE Token(l, "Ident", Slice(l, l.pos, end), end)

Escaped(ch) == CASE ch = "n" -> "\n" [] ch = "t" -> "\t" [] OTHER -> ch

(* lexString() from the character after what has been read of it. *)
RECURSIVE LexString(_, _, _)
LexString(l, i, value) ==
    CASE At(l, i) = "" -> LexError(l)
      [] At(l, i) = "\"" -> Token(l, "String", value, i + 1)
      [] At(l, i) = "\\" /\ i < Len(l.src) -> LexString(l, i + 2, value \o Escaped(At(l, i + 1)))
      [] OTHER -> LexString(l, i + 1, value \o At(l, i))

(* A character literal is a number: the model numbers the characters it    *)
(* uses as ASCII does.                                                     *)
Printable == " !\"#$%&'()*+,-./0123456789:;<=>?@ABCDEFGHIJKLMNOPQRSTUVWXYZ[\\]^_ abcdefghijklmnopqrstuvwxyz{|}~"
DigitText(n) == SubSeq("0123456789", n + 1, n + 1)
Decimal(n) == (IF n >= 100 THEN DigitText(n \div 100) ELSE "")
              \o (IF n >= 10 THEN DigitText((n \div 10) % 10) ELSE "") \o DigitText(n % 10)
CharCode(ch) ==
    CASE ch = "\n" -> 10
      [] ch = "\t" -> 9
      [] OTHER -> 31 + CHOOSE i \in 1..Len(Printable) : SubSeq(Printable, i, i) = ch

LexChar(l) ==
    LET escape == At(l, l.pos + 1) = "\\" /\ At(l, l.pos + 2) # ""
        at == IF escape THEN l.pos + 2 ELSE l.pos + 1
    IN  IF At(l, l.pos + 1) = "" \/ At(l, at + 1) # "'" THEN LexError(l)
        ELSE Token(l, "Number", Decimal(CharCode(IF escape THEN Escaped(At(l, at)) ELSE At(l, at))), at + 2)

(* @TERMINATOR and a newline; the text ends at the first line that starts  *)
(* with the terminator, whatever follows it there.                         *)
LexHeredoc(l) ==
    LET n == Len(l.src)
        eol == CHOOSE j \in (l.pos + 1)..(n + 1) :
                   At(l, j) \in {"\n", ""} /\ \A k \in (l.pos + 1)..(j - 1) : At(l, k) # "\n"
        size == eol - l.pos - 1
        Ends(j) == /\ j + size <= n + 1
                   /\ At(l, j - 1) = "\n"
                   /\ \A k \in 0..(size - 1) : l.src[j + k] = l.src[l.pos + 1 + k]
        ends == {j \in (eol + 1)..(n + 1) : Ends(j)}
        end == CHOOSE j \in ends : \A k \in ends : j <= k
    IN  IF At(l, l.pos + 1) = "@" \/ size = 0 \/ eol > n \/ ends = {} THEN LexError(l)
        ELSE Token(l, "String", Slice(l, eol + 1, end), end + size)

(* lexSymbol(): the longest symbol that starts here. *)
LexSymbol(l) ==
    LET n == CHOOSE k \in 1..3 : /\ k = 1 \/ Slice(l, l.pos, l.pos + k) \in LongSymbols
                                 /\ \A j \in (k + 1)..3 : \/ l.pos + j > Len(l.src) + 1
                                                          \/ Slice(l, l.pos, l.pos + j) \notin LongSymbols
    IN  Token(l, "Symbol", Slice(l, l.pos, l.pos + n), l.pos + n)

(* 'name is a symbol of LDMud, 'c' a character *)
LexQuote(l) ==
    LET end == SpanEnd(l, l.pos + 1, WordCharacters) IN
    IF At(l, l.pos + 1) \in Letters /\ ~(end = l.pos + 2 /\ At(l, end) = "'")
    THEN Token(l, "Quoted", Slice(l, l.pos + 1, end), end) ELSE LexChar(l)

(* The body of the loop of tokenize() *)
NextToken(m) ==
    LET l == SkipWhitespaceAndComments(m)
        c == At(l, l.pos)
    IN  CASE LexerAtEnd(l) -> l
          [] c \in Letters -> LexIdentOrKeyword(l)
          [] c \in Digits \/ (c = "." /\ At(l, l.pos + 1) \in Digits) -> LexNumber(l)
          [] c = "\"" -> LexString(l, l.pos + 1, "")
          [] c = "'" -> IF l.dialect = "LdMud" THEN LexQuote(l) ELSE LexChar(l)
          [] c = "#" /\ l.dialect = "LdMud" /\ At(l, l.pos + 1) = "'" -> Token(l, "Symbol", "#'", l.pos + 2)
          [] c = "@" -> LexHeredoc(l)
          [] c = "$" -> LexLambdaParam(l)
          [] c \in SymbolCharacters -> LexSymbol(l)
          [] OTHER -> LexError(l)

(* n rounds of the loop, halved so that the evaluation stays shallow *)
RECURSIVE Rounds(_, _)
Rounds(l, n) ==
    IF LexerAtEnd(l) \/ l.bad THEN l
    ELSE IF n = 1 THEN NextToken(l)
    ELSE LET half == Rounds(l, n \div 2) IN IF half.bad THEN half ELSE Rounds(half, n - n \div 2)

Tokenize(text, dialect) ==
    LET src == Characters(text)
        l == Rounds([src |-> src, pos |-> 1, toks |-> <<>>, bad |-> FALSE, dialect |-> dialect], Len(src) + 1)
    IN  [l EXCEPT !.toks = Append(@, <<"End", "">>)]
=============================================================================
