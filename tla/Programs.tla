------------------------------ MODULE Programs ------------------------------
(* Compiled programs as the object table sees them: which file and text a   *)
(* program was made from, its parents, its variable slots, and where the    *)
(* slots of each ancestor start.  A text is abstracted to the files it      *)
(* inherits and whether it compiles; the compiler itself is in CodeGen.     *)
EXTENDS Integers, Sequences, SequencesExt, FiniteSets

Text(inherits) == [inherits |-> inherits, is |-> "good"]
BrokenText == [inherits |-> <<>>, is |-> "broken"]
Absent == [inherits |-> <<>>, is |-> "absent"]
NoProgram == [file |-> "", text |-> Absent, inherits |-> <<>>, parents |-> <<>>, slots |-> <<>>, bases |-> <<>>]

(* The slots of the parents one after the other, then the file's own; the  *)
(* place of an ancestor inherited twice is the last one recorded.          *)
Link(f, text, parents) ==
    LET inherited == FoldLeft(LAMBDA d, p :
            LET base == Len(d.slots) IN
            [slots |-> d.slots \o p.slots,
             bases |-> [q \in DOMAIN d.bases \cup {p} \cup DOMAIN p.bases |->
                           IF q \in DOMAIN p.bases THEN base + p.bases[q]
                           ELSE IF q = p THEN base ELSE d.bases[q]]],
            [slots |-> <<>>, bases |-> <<>>], parents)
    IN  [file |-> f, text |-> text, inherits |-> text.inherits, parents |-> parents,
         slots |-> Append(inherited.slots, f), bases |-> inherited.bases]

(* compile(): a cached program is good while the text of its own file is   *)
(* what it was, or the file is gone; a file met again while it is being    *)
(* compiled is a cycle.  Parents are cached even when the file then fails. *)
RECURSIVE CompileIn(_, _, _, _), CompileParents(_, _, _, _)
CompileIn(f, disk, cache, compiling) ==
    IF cache[f] # NoProgram /\ disk[f] \in {cache[f].text, Absent}
      THEN [program |-> cache[f], cache |-> cache]
    ELSE IF f \in compiling \/ disk[f] \in {Absent, BrokenText}
      THEN [program |-> NoProgram, cache |-> cache]
    ELSE LET up == CompileParents(disk[f].inherits, disk, cache, compiling \cup {f})
             program == Link(f, disk[f], up.parents)
         IN  IF up.failed THEN [program |-> NoProgram, cache |-> up.cache]
             ELSE [program |-> program, cache |-> [up.cache EXCEPT ![f] = program]]

CompileParents(inherits, disk, cache, compiling) ==
    IF inherits = <<>> THEN [failed |-> FALSE, parents |-> <<>>, cache |-> cache]
    ELSE LET first == CompileIn(Head(inherits), disk, cache, compiling)
             rest == CompileParents(Tail(inherits), disk, first.cache, compiling)
         IN  IF first.program = NoProgram
               THEN [failed |-> TRUE, parents |-> <<>>, cache |-> first.cache]
             ELSE [rest EXCEPT !.parents = <<first.program>> \o @]

CompileFile(f, disk, cache) == CompileIn(f, disk, cache, {})

(* searchInheritedProgram(): depth first, by the name in the inherit line. *)
RECURSIVE SearchInheritedProgram(_, _)
SearchInheritedProgram(program, f) ==
    LET found == {i \in DOMAIN program.parents :
                     program.inherits[i] = f \/ SearchInheritedProgram(program.parents[i], f) # NoProgram}
        first == CHOOSE i \in found : \A j \in found : i <= j
    IN  IF found = {} THEN NoProgram
        ELSE IF program.inherits[first] = f THEN program.parents[first]
        ELSE SearchInheritedProgram(program.parents[first], f)

SlotsOf(program) == program.slots
BaseOf(program, ancestor) == IF ancestor \in DOMAIN program.bases THEN program.bases[ancestor] ELSE 0
=============================================================================
