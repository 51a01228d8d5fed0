----------------------------- MODULE LpcValues ------------------------------
(* The values of LPC and what the opcodes compute with them.  A value is a  *)
(* tuple that starts with its kind.  Arrays, mappings and closures are      *)
(* references into a heap, a sequence that only grows; an operation returns *)
(* <<value, heap>>, with the value Err when the code throws an error.       *)
(* Characters are strings of one character, and a string is a sequence of   *)
(* them.  Floats, symbols and buffers are left out.                         *)
EXTENDS Integers, SequencesExt, Bitwise

Num(n) == <<"int", n>>
Str(s) == <<"str", s>>
Obj(o) == <<"obj", o>>
Void == <<"void">>      \* std::monostate
NilValue == <<"nil">>
Err == <<"err">>
Array(r) == <<"arr", r>>
Mapping(r) == <<"map", r>>

NameOf(s) == FoldLeft(LAMBDA name, ch : name \o ch, "", s)  \* a string as an identifier

Bool(b) == Num(IF b THEN 1 ELSE 0)
Message == Str(<<"e">>)     \* the text of a run-time error
Throws(heap) == <<Err, heap>>
NewArray(items, heap) == <<Array(Len(heap) + 1), Append(heap, items)>>
NewMapping(entries, heap) == <<Mapping(Len(heap) + 1), Append(heap, entries)>>
NewClosure(closure, heap) == <<<<"fun", Len(heap) + 1>>, Append(heap, closure)>>

(* Only the empty string is a false reference value. *)
IsTruthy(v) == v \notin {Void, NilValue, Num(0), Str(<<>>)}

(* Arrays and mappings are equal to nothing, themselves included. *)
ValuesEqual(a, b) == a[1] = b[1] /\ a[1] \notin {"arr", "map"} /\ a = b
CoerceIfDestructed(v, gone) == IF v[1] = "obj" /\ v[2] \in gone THEN Num(0) ELSE v

(* asArithmeticOperand(): a missing value counts as 0. *)
IsNumeric(v) == v[1] \in {"int", "void"}
Number(v) == IF v[1] = "int" THEN v[2] ELSE 0

-----------------------------------------------------------------------------
(* Operators *)

Abs(n) == IF n < 0 THEN -n ELSE n

(* The conversion from double to int64_t truncates towards zero. *)
Quotient(l, r) == LET q == Abs(l) \div Abs(r) IN IF (l < 0) = (r < 0) THEN q ELSE -q
Remainder(l, r) == l - r * Quotient(l, r)

Compare(op, l, r) ==
    CASE op = "Lt"  -> l < r
      [] op = "Lte" -> l <= r
      [] op = "Gt"  -> l > r
      [] op = "Gte" -> l >= r

Without(a, b) == SelectSeq(a, LAMBDA x : ~\E i \in DOMAIN b : ValuesEqual(x, b[i]))
Within(a, b) == SelectSeq(a, LAMBDA x : \E i \in DOMAIN b : ValuesEqual(x, b[i]))

(* "-", "*", "/" and "%"; "-" of two arrays takes elements away. *)
Arithmetic(op, l, r, heap) ==
    IF op = "Sub" /\ l[1] = "arr" /\ r[1] = "arr" THEN NewArray(Without(heap[l[2]], heap[r[2]]), heap)
    ELSE IF ~IsNumeric(l) \/ ~IsNumeric(r) \/ (op \in {"Div", "Mod"} /\ Number(r) = 0) THEN Throws(heap)
    ELSE <<Num(CASE op = "Sub" -> Number(l) - Number(r)
                 [] op = "Mul" -> Number(l) * Number(r)
                 [] op = "Div" -> Quotient(Number(l), Number(r))
                 [] op = "Mod" -> Remainder(Number(l), Number(r))), heap>>

(* "&" and "|" of two arrays keep the order of the left one; of two        *)
(* integers they are used for natural numbers only.                        *)
BitAndOp(l, r, heap) ==
    CASE l[1] = "arr" /\ r[1] = "arr" -> NewArray(Within(heap[l[2]], heap[r[2]]), heap)
      [] l[1] = "int" /\ r[1] = "int" -> <<Num(l[2] & r[2]), heap>>
      [] OTHER -> Throws(heap)
BitOrOp(l, r, heap) ==
    CASE l[1] = "arr" /\ r[1] = "arr" -> NewArray(heap[l[2]] \o Without(heap[r[2]], heap[l[2]]), heap)
      [] l[1] = "int" /\ r[1] = "int" -> <<Num(l[2] | r[2]), heap>>
      [] OTHER -> Throws(heap)
BitXorOp(l, r, heap) == IF l[1] # "int" \/ r[1] # "int" THEN Throws(heap) ELSE <<Num(l[2] ^^ r[2]), heap>>
ShiftOp(op, l, r, heap) ==
    IF l[1] # "int" \/ r[1] # "int" THEN Throws(heap)
    ELSE <<Num(IF op = "Shl" THEN l[2] * 2^r[2] ELSE l[2] \div 2^r[2]), heap>>
BitNotOp(v, heap) == IF v[1] # "int" THEN Throws(heap) ELSE <<Num(-v[2] - 1), heap>>

Digits == <<"0", "1", "2", "3", "4", "5", "6", "7", "8", "9">>
RECURSIVE Decimal(_)
Decimal(n) ==
    CASE n < 0 -> <<"-">> \o Decimal(-n)
      [] n < 10 -> <<Digits[n + 1]>>
      [] OTHER -> Append(Decimal(n \div 10), Digits[(n % 10) + 1])

(* The text an operand of "+" has beside a string: a number is formatted,  *)
(* an object is its file name.                                             *)
ConcatText(v) == CASE v[1] = "str" -> v[2] [] v[1] = "obj" -> v[2] [] OTHER -> Decimal(Number(v))

(* m1 + m2: the entries of m2 replace those of m1 in place, or follow. *)
JoinMappings(a, b) ==
    FoldLeft(LAMBDA m, e : LET k == SelectInSeq(m, LAMBDA x : ValuesEqual(x[1], e[1])) IN
                           IF k = 0 THEN Append(m, e) ELSE [m EXCEPT ![k][2] = e[2]], a, b)

AddOp(l, r, heap) ==
    CASE "str" \in {l[1], r[1]} /\ {l[1], r[1]} \subseteq {"str", "int", "void", "obj"} ->
             <<Str(ConcatText(l) \o ConcatText(r)), heap>>
      [] l[1] = "arr" /\ r[1] = "arr" -> NewArray(heap[l[2]] \o heap[r[2]], heap)
      [] l[1] = "map" /\ r[1] = "map" -> NewMapping(JoinMappings(heap[l[2]], heap[r[2]]), heap)
      [] IsNumeric(l) /\ IsNumeric(r) -> <<Num(Number(l) + Number(r)), heap>>
      [] OTHER -> Throws(heap)

BinaryOp(op, l, r, heap) ==
    CASE op = "Eq"  -> <<Bool(ValuesEqual(l, r)), heap>>
      [] op = "Neq" -> <<Bool(~ValuesEqual(l, r)), heap>>
      [] op \in {"Lt", "Lte", "Gt", "Gte"} ->
             IF ~IsNumeric(l) \/ ~IsNumeric(r) THEN Throws(heap)
             ELSE <<Bool(Compare(op, Number(l), Number(r))), heap>>
      [] op = "Add" -> AddOp(l, r, heap)
      [] op \in {"Sub", "Mul", "Div", "Mod"} -> Arithmetic(op, l, r, heap)
      [] op = "BitAnd" -> BitAndOp(l, r, heap)
      [] op = "BitOr"  -> BitOrOp(l, r, heap)
      [] op = "BitXor" -> BitXorOp(l, r, heap)
      [] op \in {"Shl", "Shr"} -> ShiftOp(op, l, r, heap)
UnaryOp(op, v, heap) == IF op = "Not" THEN <<Bool(~IsTruthy(v)), heap>> ELSE BitNotOp(v, heap)

-----------------------------------------------------------------------------
(* Indexing.  Positions in LPC start at 0. *)

Letters == <<"a", "b", "c", "d", "e", "f">>
CharCode(ch) == IF Contains(Digits, ch) THEN SelectInSeq(Digits, LAMBDA d : d = ch) + 47
                ELSE SelectInSeq(Letters, LAMBDA d : d = ch) + 96
KeyAt(entries, key) == SelectInSeq(entries, LAMBDA e : ValuesEqual(e[1], key))

(* "<n" counts from the end.  The position after the last character of a   *)
(* string reads 0; a key that is missing reads as no value.  A read of an  *)
(* array element rewrites a destructed object there.                       *)
IndexOp(target, index, fromEnd, heap, gone) ==
    LET At(n) == IF fromEnd THEN n - index[2] ELSE index[2] IN
    CASE target[1] = "arr" ->
             LET items == heap[target[2]]  i == At(Len(items)) + 1 IN
             IF index[1] # "int" \/ i \notin DOMAIN items THEN Throws(heap)
             ELSE LET v == CoerceIfDestructed(items[i], gone) IN <<v, [heap EXCEPT ![target[2]][i] = v]>>
      [] target[1] = "map" ->
             LET k == KeyAt(heap[target[2]], index) IN
             <<IF k = 0 THEN Void ELSE CoerceIfDestructed(heap[target[2]][k][2], gone), heap>>
      [] target[1] = "str" ->
             LET i == At(Len(target[2])) + 1 IN
             IF index[1] # "int" \/ i \notin 1..Len(target[2]) + 1 THEN Throws(heap)
             ELSE <<Num(IF i > Len(target[2]) THEN 0 ELSE CharCode(target[2][i])), heap>>
      [] OTHER -> Throws(heap)

(* The value is Void when the assignment succeeds. *)
IndexAssignOp(target, index, value, heap) ==
    CASE target[1] = "arr" ->
             IF index[1] # "int" \/ index[2] + 1 \notin DOMAIN heap[target[2]] THEN Throws(heap)
             ELSE <<Void, [heap EXCEPT ![target[2]][index[2] + 1] = value]>>
      [] target[1] = "map" ->
             LET k == KeyAt(heap[target[2]], index) IN
             <<Void, IF k = 0 THEN [heap EXCEPT ![target[2]] = Append(@, <<index, value>>)]
                     ELSE [heap EXCEPT ![target[2]][k][2] = value]>>
      [] OTHER -> Throws(heap)

(* resolveBounds() and the clamped end. *)
RangeBounds(i, iEnd, j, jEnd, n) ==
    LET start == IF iEnd THEN n - i ELSE i
        end == IF jEnd THEN n - j ELSE j
    IN  <<IF start < 0 THEN 0 ELSE start, IF end < n THEN end ELSE n - 1>>

RangeOp(target, i, iEnd, j, jEnd, heap) ==
    LET Slice(s) == LET b == RangeBounds(i[2], iEnd, j[2], jEnd, Len(s)) IN SubSeq(s, b[1] + 1, b[2] + 1) IN
    CASE i[1] # "int" \/ j[1] # "int" -> Throws(heap)
      [] i[1] = "int" /\ j[1] = "int" /\ ~iEnd /\ i[2] < 0 -> Throws(heap)
      [] target[1] = "str" -> <<Str(Slice(target[2])), heap>>
      [] target[1] = "arr" -> NewArray(Slice(heap[target[2]]), heap)
      [] OTHER -> Throws(heap)

(* The array a foreach walks: of a mapping, its keys at that moment. *)
ForeachKeysOp(v, heap) ==
    CASE v[1] = "arr" -> <<v, heap>>
      [] v[1] = "map" -> NewArray([i \in DOMAIN heap[v[2]] |-> heap[v[2]][i][1]], heap)
      [] OTHER -> Throws(heap)

PureEfuns == {"sizeof", "keys", "values"}
PureEfun(f, args, heap) ==
    LET v == args[1] IN
    CASE f = "sizeof" -> <<Num(IF args = <<>> THEN 0
                               ELSE CASE v[1] \in {"arr", "map"} -> Len(heap[v[2]])
                                      [] v[1] = "str" -> Len(v[2])
                                      [] OTHER -> 0), heap>>
      [] OTHER -> IF args = <<>> \/ v[1] # "map" THEN Throws(heap)
                  ELSE NewArray([i \in DOMAIN heap[v[2]] |-> heap[v[2]][i][IF f = "keys" THEN 1 ELSE 2]], heap)

-----------------------------------------------------------------------------
(* sscanf.  A scan gives the number of matches, the values assigned and     *)
(* whether it throws; %f and %(regexp) are left out.                        *)

Drop(s, n) == SubSeq(s, n + 1, Len(s))
Base(spec) == CASE spec \in {"d", "i"} -> 10 [] spec \in {"x", "X"} -> 16 [] OTHER -> 8
DigitValue(ch) == SelectInSeq(Digits \o Letters, LAMBDA d : d = ch) - 1
IsDigit(ch, base) == DigitValue(ch) \in 0..base - 1

(* strtoll(): <<value, characters read>>, none read when there is no digit. *)
ReadInteger(s, base) ==
    LET blanks == Len(s) - Len(Drop(s, SelectInSeq(s \o <<"$">>, LAMBDA c : c # " ") - 1))
        sign == IF Len(s) > blanks /\ s[blanks + 1] \in {"-", "+"} THEN 1 ELSE 0
        start == blanks + sign
        hex == IF base = 16 /\ Len(s) > start + 2 /\ s[start + 1] = "0" /\ s[start + 2] \in {"x", "X"}
                  /\ IsDigit(s[start + 3], 16) THEN 2 ELSE 0
        digits == LET rest == Drop(s, start + hex) IN
                  SubSeq(rest, 1, SelectInSeq(rest \o <<"$">>, LAMBDA c : ~IsDigit(c, base)) - 1)
        value == FoldLeft(LAMBDA n, c : n * base + DigitValue(c), 0, digits)
    IN  IF digits = <<>> THEN <<0, 0>>
        ELSE <<IF sign = 1 /\ s[start] = "-" THEN -value ELSE value, start + hex + Len(digits)>>

(* From position i, the place where "0x" and a digit begin: a "0" that does *)
(* not start one is skipped together with the character after it.           *)
RECURSIVE HexStart(_, _)
HexStart(in, i) ==
    IF i > Len(in) THEN Len(in) + 1
    ELSE IF in[i] # "0" THEN HexStart(in, i + 1)
    ELSE IF i + 2 <= Len(in) /\ in[i + 1] \in {"x", "X"} /\ IsDigit(in[i + 2], 16) THEN i
    ELSE HexStart(in, i + 2)

(* adjacentSscanfBoundary(): how far a %s reaches when the specifier that   *)
(* follows it begins at once, -1 for an error.                              *)
AdjacentBoundary(in, spec) ==
    LET Starts(i) == CASE spec \in {"d", "i"} -> IsDigit(in[i], 10)
                       [] spec = "o" -> IsDigit(in[i], 8)
                       [] spec = "%" -> in[i] = "%"
                       [] OTHER -> FALSE
        found == {i \in DOMAIN in : Starts(i)}
    IN  IF spec \in {"x", "X"} THEN HexStart(in, 1) - 1
        ELSE IF spec \notin {"d", "i", "o", "%"} THEN -1
        ELSE IF found = {} THEN Len(in) ELSE (CHOOSE i \in found : \A j \in found : i <= j) - 1

(* scan[i, j, room]: what follows when i characters of the input and j of   *)
(* the format are behind, and room variables are left.                      *)
RunSscanf(in, fmt, max) ==
    LET Stop == [n |-> 0, assigned |-> <<>>, failed |-> FALSE]
        Fail == [Stop EXCEPT !.failed = TRUE]
        Found(v, skip, rest) == [rest EXCEPT !.n = @ + 1, !.assigned = IF skip THEN @ ELSE <<v>> \o @]
        scan[i \in 0..Len(in), j \in 0..Len(fmt), room \in 0..max] ==
            LET skip == j + 2 <= Len(fmt) /\ fmt[j + 2] = "*"
                at == IF skip THEN j + 3 ELSE j + 2     \* the specifier
                full == ~skip /\ room = 0
                left == IF skip THEN room ELSE room - 1
                Text(to) == IF full THEN Fail ELSE Found(Str(SubSeq(in, i + 1, to)), skip, scan[to, at, left])
            IN  CASE j = Len(fmt) -> IF i < Len(in) /\ room > 0 THEN Found(Str(Drop(in, i)), FALSE, Stop) ELSE Stop
                  [] j < Len(fmt) /\ fmt[j + 1] # "%" ->
                         IF i = Len(in) \/ in[i + 1] # fmt[j + 1] THEN Stop ELSE scan[i + 1, j + 1, room]
                  [] j + 1 < Len(fmt) /\ fmt[j + 1] = "%" /\ fmt[j + 2] = "%" ->
                         IF i = Len(in) \/ in[i + 1] # "%" THEN Stop ELSE Found(Void, TRUE, scan[i + 1, j + 2, room])
                  [] j < Len(fmt) /\ fmt[j + 1] = "%" /\ at > Len(fmt) -> Fail
                  [] at <= Len(fmt) /\ fmt[j + 1] = "%" /\ fmt[at] \in {"d", "i", "x", "X", "o"} ->
                         LET got == ReadInteger(Drop(in, i), Base(fmt[at])) IN
                         IF got[2] = 0 THEN Stop ELSE IF full THEN Fail
                         ELSE Found(Num(got[1]), skip, scan[i + got[2], at, left])
                  [] at = Len(fmt) /\ fmt[j + 1] = "%" /\ fmt[at] = "s" ->
                         IF full THEN Fail ELSE Found(Str(Drop(in, i)), skip, Stop)
                  [] at < Len(fmt) /\ fmt[j + 1] = "%" /\ fmt[at] = "s" /\ fmt[at + 1] = "%" ->
                         LET next == IF at + 2 <= Len(fmt) /\ fmt[at + 2] = "*" THEN at + 3 ELSE at + 2
                             to == IF next > Len(fmt) THEN -1 ELSE AdjacentBoundary(Drop(in, i), fmt[next])
                         IN  IF to < 0 THEN Fail ELSE Text(i + to)
                  [] at < Len(fmt) /\ fmt[j + 1] = "%" /\ fmt[at] = "s" /\ fmt[at + 1] # "%" ->
                         LET rest == Drop(fmt, at)
                             delim == SubSeq(rest, 1, SelectInSeq(rest \o <<"%">>, LAMBDA c : c = "%") - 1)
                             places == {k \in i..Len(in) : IsPrefix(delim, Drop(in, k))}
                             to == CHOOSE k \in places : \A l \in places : k <= l
                         IN  IF places = {} THEN Stop ELSE IF full THEN Fail
                             ELSE Found(Str(SubSeq(in, i + 1, to)), skip,
                                        scan[to + Len(delim), at + Len(delim), left])
                  [] OTHER -> Fail
    IN  scan[0, 0, max]
=============================================================================
