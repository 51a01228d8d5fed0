--------------------------- MODULE MCObjectTable ---------------------------
(* A small mudlib.  "a" inherits "b" and "c", and "c" inherits "d" until it *)
(* is rewritten to inherit "a"; "v" has no source.                          *)
EXTENDS ObjectTable, Programs

MCTexts(f) ==
    CASE f = "a" -> <<Text(<<"b", "c">>)>>
      [] f = "c" -> <<Text(<<"d">>), Text(<<"a">>)>>
      [] f = "v" -> <<Absent>>
      [] f = "b" -> <<Text(<<>>), BrokenText>>
      [] OTHER -> <<Text(<<>>)>>

(* The programs of this mudlib, compiled from any of its texts, with what   *)
(* the compilation of any file from any texts left in the cache.            *)
MCDisks == {[f \in Files |-> Texts(f)[a[f]]] : a \in {a \in [Files -> 1 .. 2] : \A f \in Files : a[f] <= Len(Texts(f))}}
MCCaches == {Compile(f, disk, [g \in Files |-> NullProgram]).cache : f \in Files, disk \in MCDisks}
MCPrograms == {Compile(f, disk, c).program : f \in Files, disk \in MCDisks, c \in MCCaches} \ {NullProgram}

(* What is inherited has its variables in place among those of its heirs.   *)
ASSUME InheritedInPlace ==
    \A p \in MCPrograms, f \in Files :
        LET q == Inherited(p, f) IN
        q # NullProgram => q \in MCPrograms /\ Kept(Slots(p), Base(p, q), Len(Slots(q))) = Slots(q)

(* A behaviour keeps to one habit: LPC code that runs while the driver     *)
(* boots, user ids, names (virtual objects, destruct(), reload_object()),  *)
(* or rewritten files and replaced programs.                               *)
VARIABLE habit
Quiet == boot # "up" =>
    Len(frames') <= 1 /\ made' <= 1 /\ \A o \in 1 .. made' : ~obj'[o].gone
Without(ops) == \A i \in DOMAIN frames' : frames'[i].op \notin ops

MCInit == Init /\ habit \in {"boot", "ids", "names", "programs"} /\ (habit # "boot" => boot = "master")
MCNext ==
    /\ Next /\ UNCHANGED habit
    /\ habit # "boot" => made' <= 3
    /\ habit # "programs" => UNCHANGED <<age, pending>>
    /\ habit # "ids" => rootUid' = NoName /\ approved' = {} /\ Without({"seteuid"})
    /\ CASE habit = "boot" -> boot # "up" /\ Without({"reload"})
         [] habit = "ids" -> Quiet /\ Without({"virtual", "reload"}) /\ \A o \in Objects : ~obj'[o].gone
         [] habit = "names" -> Quiet
         [] habit = "programs" -> Quiet /\ Without({"virtual", "reload"})
MCSpec == MCInit /\ [][MCNext]_<<vars, habit>>
=============================================================================
