----------------------------- MODULE LpcPrinter -----------------------------
(* The reference for the lexer and the parser: a syntax tree written down   *)
(* as LPC, with no parentheses but the ones that the precedences of C call  *)
(* for, in one of several layouts.  It is written without a look at the     *)
(* parser's code.                                                           *)
EXTENDS LpcAst, Integers, TLC, SequencesExt

LOCAL CharsOf(text) == [i \in 1..Len(text) |-> SubSeq(text, i, i)]
WordOf(chars) == FoldLeft(LAMBDA w, ch : w \o ch, "", chars)

OperatorText ==
    ("Or" :> "||") @@ ("And" :> "&&") @@ ("BitOr" :> "|") @@ ("BitXor" :> "^") @@ ("BitAnd" :> "&")
    @@ ("Eq" :> "==") @@ ("Neq" :> "!=") @@ ("Lt" :> "<") @@ ("Lte" :> "<=") @@ ("Gt" :> ">") @@ ("Gte" :> ">=")
    @@ ("Shl" :> "<<") @@ ("Shr" :> ">>") @@ ("Add" :> "+") @@ ("Sub" :> "-") @@ ("Mul" :> "*") @@ ("Div" :> "/")
    @@ ("Mod" :> "%") @@ ("Not" :> "!") @@ ("Neg" :> "-") @@ ("BitNot" :> "~")

(* 1 a, b; 2 a = b; 3 a ? b : c; 4 .. 13 the binary operators; 14 the unary  *)
(* ones; 15 x[i], o->f() and what stands by itself                           *)
Precedence(e) ==
    CASE e[1] = "comma" -> 1
      [] e[1] \in {"assign", "indexAssign"} -> 2
      [] e[1] = "tern" -> 3
      [] e[1] = "bin" ->
            CASE e[2] = "Or" -> 4 [] e[2] = "And" -> 5 [] e[2] = "BitOr" -> 6 [] e[2] = "BitXor" -> 7
              [] e[2] = "BitAnd" -> 8 [] e[2] \in {"Eq", "Neq"} -> 9 [] e[2] \in {"Lt", "Lte", "Gt", "Gte"} -> 10
              [] e[2] \in {"Shl", "Shr"} -> 11 [] e[2] \in {"Add", "Sub"} -> 12 [] OTHER -> 13
      [] e[1] \in {"un", "cast", "incdec", "incdecIndex"} -> 14
      [] OTHER -> 15

Quoted(chars) ==
    "\"" \o WordOf([i \in DOMAIN chars |->
        CASE chars[i] = "\"" -> "\\\"" [] chars[i] = "\\" -> "\\\\" [] chars[i] = "\n" -> "\\n" [] OTHER -> chars[i]]) \o "\""

Separated(parts, sep) ==
    FoldLeft(LAMBDA text, i : text \o (IF i = 1 THEN <<>> ELSE <<sep>>) \o parts[i], <<>>, [i \in DOMAIN parts |-> i])
Flat(parts) == FoldLeft(LAMBDA text, part : text \o part, <<>>, parts)
AssignText(op) == <<IF op = "=" THEN "=" ELSE OperatorText[op] \o "=">>

-----------------------------------------------------------------------------
(* bound: the $(e)s of the "(: :)" the expression stands in *)
RECURSIVE Show(_, _, _), ShowBare(_, _), ShowStatement(_)

Show(e, least, bound) ==
    IF Precedence(e) < least THEN <<"(">> \o ShowBare(e, bound) \o <<")">> ELSE ShowBare(e, bound)

ShowItems(es, spread, bound) ==
    Separated([i \in DOMAIN es |-> Show(es[i], 2, bound) \o (IF spread[i] THEN <<"...">> ELSE <<>>)], ",")
Args(es, spread, bound) == <<"(">> \o ShowItems(es, spread, bound) \o <<")">>
All(es, bound) == Separated([i \in DOMAIN es |-> Show(es[i], 2, bound)], ",")

ShowParams(params, isVarargs) ==
    <<"(">> \o Separated([i \in DOMAIN params |-> <<"mixed", params[i]>>], ",")
    \o (IF isVarargs THEN <<"...">> ELSE <<>>) \o <<")">>

ShowTarget(target, i, bound) ==
    IF i[1] = "member" THEN Show(target, 15, bound) \o <<"->", i[2]>>
    ELSE IF i[1] = "column" THEN Show(target, 15, bound) \o <<"[">> \o All(<<i[2], i[3]>>, bound) \o <<"]">>
    ELSE Show(target, 15, bound) \o <<"[">> \o Show(i, 1, bound) \o <<"]">>
FromEnd(fromEnd) == IF fromEnd THEN <<"<">> ELSE <<>>
Around(prefix, op, text) ==
    LET sign == <<IF op = "Add" THEN "++" ELSE "--">> IN IF prefix THEN sign \o text ELSE text \o sign

ShowBare(e, b) ==
    CASE e[1] = "str" -> <<Quoted(e[2])>>
      [] e[1] = "int" -> <<ToString(e[2])>>
      [] e[1] = "float" -> <<e[2]>>
      [] e[1] = "nil" -> <<"nil">>
      [] e[1] = "symbol" -> <<"'" \o e[2]>>
      [] e[1] = "var" -> <<e[2]>>
      [] e[1] = "bin" -> Show(e[3], Precedence(e), b) \o <<OperatorText[e[2]]>> \o Show(e[4], Precedence(e) + 1, b)
      [] e[1] = "comma" -> Show(e[2], 1, b) \o <<",">> \o Show(e[3], 2, b)
      [] e[1] = "un" -> <<OperatorText[e[2]]>> \o Show(e[3], 14, b)
      [] e[1] = "tern" -> Show(e[2], 4, b) \o <<"?">> \o Show(e[3], 2, b) \o <<":">> \o Show(e[4], 3, b)
      [] e[1] = "call" ->
            (CASE e[5] = "efun" -> <<"efun", "::">> [] e[5] = "plain" -> <<>>
               [] e[5] = "parent" -> IF e[6] = None THEN <<"::">> ELSE <<e[6], "::">>)
            \o <<e[2]>> \o Args(e[3], e[4], b)
      [] e[1] = "callOther" ->
            IF e[3][1] = "str" THEN Show(e[2], 15, b) \o <<"->", WordOf(e[3][2])>> \o Args(e[4], e[5], b)
            ELSE <<"call_other">> \o Args(<<e[2], e[3]>> \o e[4], <<FALSE, FALSE>> \o e[5], b)
      [] e[1] = "sscanf" -> <<"sscanf", "(">> \o All(<<e[2], e[3]>> \o e[4], b) \o <<")">>
      [] e[1] = "catch" -> <<"catch", "(">> \o Show(e[2], 1, b) \o <<")">>
      [] e[1] = "time" -> <<"time_expression">> \o ShowStatement(e[2])
      [] e[1] = "closure" ->
            IF e[4] THEN <<"#'", "efun", "::", e[2]>>
            ELSE <<"(", ":", e[2]>> \o Flat([i \in DOMAIN e[3] |-> <<",">> \o Show(e[3][i], 2, b)]) \o <<":", ")">>
      [] e[1] = "lambda" -> <<"(", ":">> \o All(e[2], e[3]) \o <<":", ")">>
      [] e[1] = "param" -> IF e[3] THEN <<"$", "(">> \o Show(b[e[2] + 1], 1, <<>>) \o <<")">>
                           ELSE <<"$" \o ToString(e[2] + 1)>>
      [] e[1] = "anon" -> <<"function">> \o ShowParams(e[2], e[3]) \o ShowStatement(e[4])
      [] e[1] = "assign" -> <<e[2]>> \o AssignText(e[3]) \o Show(e[4], 2, b)
      [] e[1] = "incdec" -> Around(e[3], e[2], <<e[4]>>)
      [] e[1] = "incdecIndex" -> Around(e[3], e[2], ShowTarget(e[4], e[5], b))
      [] e[1] = "array" -> <<"(", "{">> \o ShowItems(e[2], e[3], b) \o <<"}", ")">>
      [] e[1] = "mapping" ->
            <<"(", "[">>
            \o Separated([i \in DOMAIN e[2] |->
                   Show(e[2][i][1], 2, b) \o <<":">>
                   \o Separated([j \in 1..(Len(e[2][i]) - 1) |-> Show(e[2][i][j + 1], 2, b)], ";")], ",")
            \o <<"]", ")">>
      [] e[1] = "new" ->
            <<"new", "(", "class", e[2]>>
            \o Separated([i \in DOMAIN e[3] |-> <<e[3][i][1], ":">> \o Show(e[3][i][2], 2, b)], ",") \o <<")">>
      [] e[1] = "cast" -> <<"(", "class", e[2], ")">> \o Show(e[3], 14, b)
      [] e[1] = "index" ->
            IF e[4] THEN Show(e[2], 15, b) \o <<"[", "<">> \o Show(e[3], 1, b) \o <<"]">> ELSE ShowTarget(e[2], e[3], b)
      [] e[1] = "range" ->
            Show(e[2], 15, b) \o <<"[">> \o FromEnd(e[4]) \o Show(e[3], 2, b) \o <<"..">>
            \o FromEnd(e[6]) \o Show(e[5], 2, b) \o <<"]">>
      [] e[1] = "indexAssign" -> ShowTarget(e[2], e[3], b) \o AssignText(e[4]) \o Show(e[5], 2, b)

-----------------------------------------------------------------------------
Declared(class, name) == IF class = None THEN <<"mixed", name>> ELSE <<"class", class, name>>
Initialised(init) == IF init = None THEN <<>> ELSE <<"=">> \o Show(init, 2, <<>>)

(* Without the semicolon *)
Header(s) ==
    CASE s = None -> <<>>
      [] s # None /\ s[1] = "decl" -> Declared(s[2], s[3]) \o Initialised(s[4])
      [] s # None /\ s[1] = "block" -> Separated([i \in DOMAIN s[2] |-> Show(s[2][i][2], 2, <<>>)], ",")
      [] OTHER -> Show(s, 2, <<>>)
ShowVar(v) == IF v[2] THEN <<"mixed", v[1]>> ELSE <<v[1]>>
(* As a statement, an assignment in parentheses is an expression. *)
InParens(e) == e[1] = "indexAssign" \/ (e[1] = "assign" /\ e[3] = "=")

ShowStatement(s) ==
    CASE s[1] = "expr" ->
            (IF InParens(s[2]) THEN <<"(">> \o Show(s[2], 2, <<>>) \o <<")">> ELSE Show(s[2], 2, <<>>)) \o <<";">>
      [] s[1] = "return" -> <<"return">> \o (IF s[2] = None THEN <<>> ELSE Show(s[2], 1, <<>>)) \o <<";">>
      [] s[1] = "decl" -> Header(s) \o <<";">>
      [] s[1] = "set" -> <<s[2], "=">> \o Show(s[3], 2, <<>>) \o <<";">>
      [] s[1] = "indexSet" -> ShowTarget(s[2], s[3], <<>>) \o AssignText(s[4]) \o Show(s[5], 2, <<>>) \o <<";">>
      [] s[1] = "block" ->
            IF s[3] THEN <<"{">> \o Flat([i \in DOMAIN s[2] |-> ShowStatement(s[2][i])]) \o <<"}">>
            ELSE IF Len(s[2]) = 1 THEN ShowStatement(s[2][1])
            ELSE Header(s) \o <<";">>
      [] s[1] = "if" ->
            <<"if", "(">> \o Show(s[2], 1, <<>>) \o <<")">> \o ShowStatement(s[3])
            \o (IF s[4] = None THEN <<>> ELSE <<"else">> \o ShowStatement(s[4]))
      [] s[1] = "while" -> <<"while", "(">> \o Show(s[2], 1, <<>>) \o <<")">> \o ShowStatement(s[3])
      [] s[1] = "do" -> <<"do">> \o ShowStatement(s[2]) \o <<"while", "(">> \o Show(s[3], 1, <<>>) \o <<")", ";">>
      [] s[1] = "for" ->
            <<"for", "(">> \o Header(s[2]) \o <<";">> \o (IF s[3] = None THEN <<>> ELSE Show(s[3], 1, <<>>)) \o <<";">>
            \o Header(s[4]) \o <<")">> \o ShowStatement(s[5])
      [] s[1] = "foreach" ->
            <<"foreach", "(">> \o ShowVar(s[2]) \o (IF s[3] = None THEN <<>> ELSE <<",">> \o ShowVar(s[3]))
            \o <<"in">> \o Show(s[4], 2, <<>>) \o <<")">> \o ShowStatement(s[5])
      [] s[1] = "switch" ->
            <<"switch", "(">> \o Show(s[2], 1, <<>>) \o <<")", "{">> \o Flat([i \in DOMAIN s[3] |-> ShowStatement(s[3][i])])
            \o <<"}">>
      [] s[1] = "case" ->
            IF s[2] = None THEN <<"default", ":">>
            ELSE <<"case">> \o Show(s[2], 2, <<>>) \o (IF s[3] = None THEN <<>> ELSE <<"..">> \o Show(s[3], 2, <<>>)) \o <<":">>
      [] OTHER -> <<s[1], ";">>     \* break and continue

ShowFunction(f) ==
    <<"mixed", f.name>> \o ShowParams(f.params, f.isVarargs) \o (IF f.body = None THEN <<";">> ELSE ShowStatement(f.body))
ShowObjectVar(v) ==
    (IF v.isPrivate THEN <<"private">> ELSE <<>>) \o <<"mixed", v.name>> \o Initialised(v.init) \o <<";">>
ShowFile(f) ==
    LET classes == SetToSeq(DOMAIN f.classes) IN
    Flat([i \in DOMAIN f.inherits |-> <<"inherit", Quoted(CharsOf(f.inherits[i])), ";">>])
    \o Flat([i \in DOMAIN classes |->
            <<"class", classes[i], "{", "mixed">>
            \o Separated([j \in DOMAIN f.classes[classes[i]] |-> <<f.classes[classes[i]][j]>>], ",") \o <<";", "}">>])
    \o Flat([i \in DOMAIN f.vars |-> ShowObjectVar(f.vars[i])])
    \o Flat([i \in DOMAIN f.functions |-> ShowFunction(f.functions[i])])

-----------------------------------------------------------------------------
(* Layouts: a space between all tokens, only where two of them would run    *)
(* together, or a comment.                                                  *)
Layouts == {"spaced", "tight", "commented"}

LOCAL Word(ch) == \E i \in 1..64 : SubSeq("abcdefghijklmnopqrstuvwxyzABCDEFGHIJKLMNOPQRSTUVWXYZ_0123456789$", i, i) = ch
LOCAL Bracket(ch) == ch \in {"(", ")", "{", "}", "[", "]", ";", ",", "\"", "?", "~"}
Gap(layout, a, b) ==
    LET last == SubSeq(a, Len(a), Len(a))
        first == SubSeq(b, 1, 1)
    IN  CASE layout = "spaced" -> " "
          [] layout = "commented" -> "/* a ; \" * / **/\t// b /* \n"
          [] OTHER -> IF Word(last) = Word(first) /\ ~Bracket(last) /\ ~Bracket(first) THEN " " ELSE ""

RECURSIVE Join(_, _, _, _)
Join(tokens, i, j, layout) ==
    IF i = j THEN tokens[i]
    ELSE LET m == (i + j) \div 2 IN
         Join(tokens, i, m, layout) \o Gap(layout, tokens[m], tokens[m + 1]) \o Join(tokens, m + 1, j, layout)
TextOfFile(f, layout) == LET tokens == ShowFile(f) IN IF tokens = <<>> THEN "" ELSE Join(tokens, 1, Len(tokens), layout)
=============================================================================
