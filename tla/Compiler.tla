------------------------------ MODULE Compiler ------------------------------
(* From the texts of a world to its programs: lexer, parser and code        *)
(* generator one after the other, each file after the files it inherits.    *)
EXTENDS CodeGen

Source == INSTANCE LpcParser

(* compile(), from the text of a file: the parents first, their variables  *)
(* one after the other, and for every ancestor the place where its         *)
(* variables start.                                                        *)
CompileFile(compiled, parsed) ==
    LET file == parsed.file
        parents == file.inherits
        link == FoldLeft(LAMBDA d, p :
                    LET base == Len(d.names)
                        own == compiled[p].offsets
                    IN  [names |-> d.names \o compiled[p].objectVarNames,
                         offsets |-> [q \in {p} \cup DOMAIN own \cup DOMAIN d.offsets |->
                                         IF q \in DOMAIN own THEN base + own[q]
                                         ELSE IF q = p THEN base ELSE d.offsets[q]]],
                    [names |-> <<>>, offsets |-> <<>>], parents)
    IN  IF parsed.bad \/ \E i \in DOMAIN parents : compiled[parents[i]].failed THEN [failed |-> TRUE]
        ELSE [parents |-> parents, offsets |-> link.offsets] @@ Generate(file, link.names)

CompileAll(w) ==
    LET add(compiled, name) ==
            compiled @@ (name :> CompileFile(compiled, Source!ParseProgram(w.files[name], w.dialect)))
    IN  FoldLeft(add, <<>>, w.order)
=============================================================================
