----------------------------- MODULE ResetProofs -----------------------------
(***************************************************************************)
(* Proofs about reset() and clean_up(): the typing of the sweep's state,   *)
(* that reset() is called only on objects that LPC code used, and that     *)
(* under LDMud's rules clean_up() is called only on objects that no LPC    *)
(* code called for longer than the limit, for any number of objects and    *)
(* any delays.                                                             *)
(***************************************************************************)
EXTENDS ResetCleanup, TLAPS

USE DEF Delays, Ages

Turns == [ob : Objects, body : {"reset", "clean_up"}, ready : BOOLEAN, saved : BOOLEAN]

(* The sweep is inside a body of o that it will undo: a reset(), or a      *)
(* clean_up() before which the object was as good as reset.                *)
InOwnBody(o) == turn # NoTurn /\ turn.ob = o /\ (turn.body = "reset" \/ turn.saved)

(* A live object without the flag of a reset object has been used, unless  *)
(* the sweep itself took the flag and will put it back.                    *)
UnflaggedUsed == \A o \in Objects : Live(o) /\ o \notin resetState => o \in used \/ InOwnBody(o)

(* A clean_up() that will leave the object without the flag runs on an     *)
(* object that was used before.                                            *)
UnsavedUsed == turn # NoTurn /\ turn.body = "clean_up" /\ ~turn.saved => turn.ob \in used

(* The sweep's own calls make an object look younger, never older. *)
IdleIsQuiet == \A o \in Objects : idle[o] <= quiet[o]

SweepInv == TypeOK /\ UnflaggedUsed /\ UnsavedUsed /\ IdleIsQuiet

(* The turn that CleanUpPart() leaves behind is a turn or none. *)
LEMMA CleanUpPartTyped ==
    ASSUME TypeOK, NEW o \in Objects, NEW ready \in BOOLEAN, NEW called \in BOOLEAN,
           NEW virgin \in BOOLEAN, CleanUpPart(o, ready, called, virgin)
    PROVE  /\ turn' \in {NoTurn} \cup Turns
           /\ resetState' \subseteq Objects /\ asked' \subseteq Objects
           /\ idle' \in [Objects -> Ages]
<1>1. CASE ready /\ ~Suppressed(called)
  <2>1. turn' = [ob |-> o, body |-> "clean_up", ready |-> FALSE, saved |-> virgin]
        /\ resetState' = resetState \ {o} /\ idle' = Touching(idle, o)
        /\ asked' = asked \cup {o}
    BY <1>1, Zenon DEF CleanUpPart
  <2>2. turn' \in Turns
    BY <2>1, Zenon DEF Turns
  <2> QED
    BY <2>1, <2>2, ResetAssumption DEF TypeOK, Touching
<1>2. CASE ~(ready /\ ~Suppressed(called))
  <2>1. turn' = NoTurn /\ idle' = idle /\ asked' = asked
        /\ resetState' = IF virgin THEN resetState \cup {o} ELSE resetState \ {o}
    BY <1>2, Zenon DEF CleanUpPart
  <2> QED
    BY <2>1 DEF TypeOK
<1> QED
  BY <1>1, <1>2

(* Every step of the sweep keeps the types. *)
LEMMA SweepTyped == TypeOK /\ [Next]_vars => TypeOK'
<1> SUFFICES ASSUME TypeOK, [Next]_vars PROVE TypeOK'
  OBVIOUS
<1> USE ResetAssumption
<1>1. ASSUME NEW o \in Objects, Load(o) PROVE TypeOK'
  BY <1>1 DEF TypeOK, Load, ArmReset, Touching
<1>2. ASSUME NEW o \in Objects, LoadFails(o) PROVE TypeOK'
  BY <1>2 DEF TypeOK, LoadFails, Touching
<1>3. ASSUME NEW o \in Objects, Touch(o) PROVE TypeOK'
  BY <1>3 DEF TypeOK, Touch, Touching
<1>4. ASSUME NEW o \in Objects, Move(o) PROVE TypeOK'
  BY <1>4 DEF TypeOK, Move
<1>5. ASSUME NEW o \in Objects, Reload(o) PROVE TypeOK'
  BY <1>5 DEF TypeOK, Reload, ArmReset, Touching
<1>6. ASSUME NEW o \in Objects, Destruct(o) PROVE TypeOK'
  BY <1>6 DEF TypeOK, Destruct
<1>7. ASSUME NEW o \in Objects, TurnSkips(o) PROVE TypeOK'
  BY <1>7 DEF TypeOK, TurnSkips
<1>8. ASSUME NEW o \in Objects, TurnNotDue(o) PROVE TypeOK'
  <2>1. Ready(o) \in BOOLEAN /\ (o \in resetState) \in BOOLEAN
    BY DEF Ready
  <2>2. CleanUpPart(o, Ready(o), FALSE, o \in resetState)
    BY <1>8 DEF TurnNotDue
  <2>3. /\ turn' \in {NoTurn} \cup Turns
        /\ resetState' \subseteq Objects /\ asked' \subseteq Objects
        /\ idle' \in [Objects -> Ages]
    BY <2>1, <2>2, CleanUpPartTyped, Zenon
  <2> QED
    BY <1>8, <2>3 DEF TypeOK, TurnNotDue, Turns
<1>9. ASSUME NEW o \in Objects, TurnVirtual(o) PROVE TypeOK'
  <2>1. Ready(o) \in BOOLEAN
    BY DEF Ready
  <2>2. CleanUpPart(o, Ready(o), FALSE, TRUE)
    BY <1>9 DEF TurnVirtual
  <2>3. /\ turn' \in {NoTurn} \cup Turns
        /\ resetState' \subseteq Objects /\ asked' \subseteq Objects
        /\ idle' \in [Objects -> Ages]
    BY <2>1, <2>2, CleanUpPartTyped, Zenon
  <2>4. timer' \in [Objects -> (0..DelayMax) \cup {Never}]
    BY <1>9 DEF TypeOK, TurnVirtual
  <2> QED
    BY <1>9, <2>3, <2>4, Zenon DEF TypeOK, TurnVirtual, Turns
<1>10. ASSUME NEW o \in Objects, TurnNoReset(o) PROVE TypeOK'
  <2>1. Ready(o) \in BOOLEAN
    BY DEF Ready
  <2>2. CleanUpPart(o, Ready(o), TRUE, TRUE)
    BY <1>10 DEF TurnNoReset
  <2>3. /\ turn' \in {NoTurn} \cup Turns
        /\ resetState' \subseteq Objects /\ asked' \subseteq Objects
        /\ idle' \in [Objects -> Ages]
    BY <2>1, <2>2, CleanUpPartTyped, Zenon
  <2> QED
    BY <1>10, <2>3 DEF TypeOK, TurnNoReset, Turns
<1>11. ASSUME NEW o \in Objects, ResetStarts(o) PROVE TypeOK'
  <2>1. Ready(o) \in BOOLEAN
    BY DEF Ready
  <2>2. turn' \in Turns
    BY <1>11, <2>1, Zenon DEF ResetStarts, Turns
  <2> QED
    BY <1>11, <2>2 DEF TypeOK, ResetStarts, Turns, Touching
<1>12. CASE Tick
  BY <1>12 DEF TypeOK, Tick
<1>13. CASE SweepBegins
  BY <1>13 DEF TypeOK, SweepBegins
<1>14. CASE ResetReturns
  <2>1. turn \in Turns
    BY <1>14, Zenon DEF TypeOK, ResetReturns, Turns
  <2>2. turn.ob \in Objects /\ turn.ready \in BOOLEAN
    BY <2>1, Zenon DEF Turns
  <2>3. CASE Live(turn.ob)
    <3>1. CleanUpPart(turn.ob, turn.ready, TRUE, TRUE)
      BY <1>14, <2>3, Zenon DEF ResetReturns
    <3>2. /\ turn' \in {NoTurn} \cup Turns
          /\ resetState' \subseteq Objects /\ asked' \subseteq Objects
          /\ idle' \in [Objects -> Ages]
      BY <2>2, <3>1, CleanUpPartTyped, Zenon
    <3> QED
      BY <1>14, <2>3, <3>2 DEF TypeOK, ResetReturns, Turns
  <2>4. CASE ~Live(turn.ob)
    BY <1>14, <2>4 DEF TypeOK, ResetReturns
  <2> QED
    BY <2>3, <2>4
<1>15. ASSUME NEW result \in BOOLEAN, CleanUpReturns(result) PROVE TypeOK'
  <2>1. turn \in Turns
    BY <1>15, Zenon DEF TypeOK, CleanUpReturns, Turns
  <2>2. turn.ob \in Objects
    BY <2>1, Zenon DEF Turns
  <2>3. willCleanUp' \subseteq Objects /\ resetState' \subseteq Objects
    BY <1>15, <2>2 DEF TypeOK, CleanUpReturns
  <2> QED
    BY <1>15, <2>3 DEF TypeOK, CleanUpReturns
<1>16. CASE UNCHANGED vars
  BY <1>16 DEF TypeOK, vars
<1> QED
  BY <1>1, <1>2, <1>3, <1>4, <1>5, <1>6, <1>7, <1>8, <1>9, <1>10, <1>11, <1>12, <1>13,
     <1>14, <1>15, <1>16, Zenon DEF Next, TurnOf, BodyReturns

(* The sweep's state has its types in every reachable state of             *)
(* tickResetsAndCleanup().                                                 *)
THEOREM TypeTheorem == Spec => []TypeOK
<1>1. Init => TypeOK
  BY ResetAssumption DEF Init, TypeOK
<1> QED
  BY <1>1, SweepTyped, PTL DEF Spec

(* CleanUpPart() keeps the two facts about the flag, whatever it decides,  *)
(* if the object is used by then unless it counts as reset.                *)
LEMMA CleanUpPartFlags ==
    ASSUME TypeOK, NEW o \in Objects, NEW ready \in BOOLEAN, NEW called \in BOOLEAN,
           NEW virgin \in BOOLEAN, CleanUpPart(o, ready, called, virgin),
           UnflaggedUsed, turn = NoTurn \/ turn.ob = o, status' = status,
           ~virgin => o \in used', used \ {o} \subseteq used'
    PROVE  UnflaggedUsed' /\ UnsavedUsed'
<1>0. \A p \in Objects \ {o} : Live(p) /\ p \notin resetState => p \in used'
  BY Zenon DEF UnflaggedUsed, InOwnBody
<1>1. CASE ready /\ ~Suppressed(called)
  <2>1. turn' = [ob |-> o, body |-> "clean_up", ready |-> FALSE, saved |-> virgin]
        /\ resetState' = resetState \ {o}
    BY <1>1, Zenon DEF CleanUpPart
  <2>2. turn'.ob = o /\ turn'.body = "clean_up" /\ turn'.saved = virgin
    BY <2>1
  <2>3. turn' # NoTurn
    <3>1. turn' \in Turns
      BY <2>1, Zenon DEF Turns
    <3> QED
      BY <3>1, ResetAssumption, Zenon DEF Turns
  <2>4. UnsavedUsed'
    BY <2>2, Zenon DEF UnsavedUsed
  <2>5. UnflaggedUsed'
    <3> SUFFICES ASSUME NEW p \in Objects, Live(p), p \notin resetState'
                 PROVE  p \in used' \/ InOwnBody(p)'
      BY Zenon DEF UnflaggedUsed, Live
    <3>1. CASE p = o
      BY <3>1, <2>2, <2>3, Zenon DEF InOwnBody
    <3>2. CASE p # o
      BY <3>2, <2>1, <1>0, Zenon
    <3> QED
      BY <3>1, <3>2
  <2> QED
    BY <2>4, <2>5
<1>2. CASE ~(ready /\ ~Suppressed(called))
  <2>1. turn' = NoTurn
        /\ resetState' = IF virgin THEN resetState \cup {o} ELSE resetState \ {o}
    BY <1>2, Zenon DEF CleanUpPart
  <2>2. UnsavedUsed'
    BY <2>1, Zenon DEF UnsavedUsed
  <2>3. \A p \in Objects : Live(p) /\ p \notin resetState' => p \in used'
    BY <1>0, <2>1
  <2>4. UnflaggedUsed'
    BY <2>3, Zenon DEF UnflaggedUsed, Live
  <2> QED
    BY <2>2, <2>4
<1> QED
  BY <1>1, <1>2

(* A step that leaves the running turn alone, takes the flag only from     *)
(* objects it marks used, and unmarks only objects it flags.               *)
LEMMA PlainStepFlags ==
    ASSUME UnflaggedUsed, UnsavedUsed, turn' = turn,
           \A p \in Objects : Live(p)' => Live(p) \/ p \in used' \/ p \in resetState',
           \A p \in Objects : p \in resetState => p \in resetState' \/ p \in used',
           \A p \in Objects : p \in used => p \in used' \/ p \in resetState',
           turn # NoTurn => turn.ob \notin used \/ turn.ob \in used'
    PROVE  UnflaggedUsed' /\ UnsavedUsed'
<1>1. UnsavedUsed'
  BY Zenon DEF UnsavedUsed
<1>2. UnflaggedUsed'
  BY Zenon DEF UnflaggedUsed, InOwnBody
<1> QED
  BY <1>1, <1>2

(* Every step keeps the two facts about the flag. *)
LEMMA SweepFlags ==
    TypeOK /\ UnflaggedUsed /\ UnsavedUsed /\ [Next]_vars => UnflaggedUsed' /\ UnsavedUsed'
<1> DEFINE Kept == UnflaggedUsed' /\ UnsavedUsed'
<1> SUFFICES ASSUME TypeOK, UnflaggedUsed, UnsavedUsed, [Next]_vars PROVE Kept
  OBVIOUS
<1>1. ASSUME NEW o \in Objects, Load(o) PROVE Kept
  <2>1. /\ turn' = turn /\ used' = used /\ resetState' = resetState \cup {o}
        /\ \A p \in Objects \ {o} : Live(p)' => Live(p)
    BY <1>1 DEF Load, ArmReset, Live, TypeOK
  <2> QED
    BY <2>1, PlainStepFlags
<1>2. ASSUME NEW o \in Objects, LoadFails(o) PROVE Kept
  <2>1. /\ turn' = turn /\ used' = used \cup {o} /\ resetState' = resetState
        /\ \A p \in Objects \ {o} : Live(p)' => Live(p)
    BY <1>2 DEF LoadFails, Live, TypeOK
  <2> QED
    BY <2>1, PlainStepFlags
<1>3. ASSUME NEW o \in Objects, Touch(o) PROVE Kept
  <2>1. /\ turn' = turn /\ used' = used \cup {o} /\ resetState' = resetState \ {o}
        /\ \A p \in Objects : Live(p)' => Live(p)
    BY <1>3 DEF Touch, Live
  <2> QED
    BY <2>1, PlainStepFlags
<1>4. ASSUME NEW o \in Objects, Move(o) PROVE Kept
  <2>1. /\ turn' = turn /\ used' = used \cup {o} /\ resetState' = resetState \ {o}
        /\ \A p \in Objects : Live(p)' => Live(p)
    BY <1>4 DEF Move, Live
  <2> QED
    BY <2>1, PlainStepFlags
<1>5. ASSUME NEW o \in Objects, Reload(o) PROVE Kept
  <2>1. /\ turn' = turn /\ resetState' = resetState \cup {o}
        /\ used' = IF turn # NoTurn /\ turn.ob = o THEN used ELSE used \ {o}
        /\ \A p \in Objects : Live(p)' => Live(p)
    BY <1>5, Zenon DEF Reload, ArmReset, Live
  <2> QED
    BY <2>1, PlainStepFlags
<1>6. ASSUME NEW o \in Objects, Destruct(o) PROVE Kept
  <2>1. /\ turn' = turn /\ used' = used /\ resetState' = resetState
        /\ \A p \in Objects : Live(p)' => Live(p)
    BY <1>6 DEF Destruct, Live, TypeOK
  <2> QED
    BY <2>1, PlainStepFlags
<1>7. ASSUME NEW o \in Objects, TurnSkips(o) PROVE Kept
  <2>1. /\ turn' = turn /\ used' = used /\ resetState' = resetState
        /\ \A p \in Objects : Live(p)' => Live(p)
    BY <1>7 DEF TurnSkips, Live
  <2> QED
    BY <2>1, PlainStepFlags
<1>8. ASSUME NEW o \in Objects, TurnNotDue(o) PROVE Kept
  <2>1. Ready(o) \in BOOLEAN /\ (o \in resetState) \in BOOLEAN
    BY DEF Ready
  <2>2. /\ CleanUpPart(o, Ready(o), FALSE, o \in resetState)
        /\ turn = NoTurn /\ Live(o) /\ status' = status /\ used' = used
    BY <1>8, Zenon DEF TurnNotDue, Skips
  <2>3. ~(o \in resetState) => o \in used'
    BY <2>2, Zenon DEF UnflaggedUsed, InOwnBody
  <2> QED
    BY <2>1, <2>2, <2>3, CleanUpPartFlags, Zenon
<1>9. ASSUME NEW o \in Objects, TurnVirtual(o) PROVE Kept
  <2>1. Ready(o) \in BOOLEAN
    BY DEF Ready
  <2>2. /\ CleanUpPart(o, Ready(o), FALSE, TRUE)
        /\ turn = NoTurn /\ status' = status /\ used' = used
    BY <1>9, Zenon DEF TurnVirtual
  <2> QED
    BY <2>1, <2>2, CleanUpPartFlags, Zenon
<1>10. ASSUME NEW o \in Objects, TurnNoReset(o) PROVE Kept
  <2>1. Ready(o) \in BOOLEAN
    BY DEF Ready
  <2>2. /\ CleanUpPart(o, Ready(o), TRUE, TRUE)
        /\ turn = NoTurn /\ status' = status /\ used' = used \ {o}
    BY <1>10, Zenon DEF TurnNoReset
  <2> QED
    BY <2>1, <2>2, CleanUpPartFlags, Zenon
<1>11. ASSUME NEW o \in Objects, ResetStarts(o) PROVE Kept
  <2>1. Ready(o) \in BOOLEAN
    BY DEF Ready
  <2>2. /\ turn = NoTurn /\ status' = status /\ used' = used
        /\ turn' = [ob |-> o, body |-> "reset", ready |-> Ready(o), saved |-> FALSE]
        /\ resetState' = resetState \ {o}
    BY <1>11, Zenon DEF ResetStarts
  <2>3. turn'.ob = o /\ turn'.body = "reset"
    BY <2>2
  <2>4. turn' # NoTurn
    <3>1. turn' \in Turns
      BY <2>1, <2>2, Zenon DEF Turns
    <3> QED
      BY <3>1, ResetAssumption, Zenon DEF Turns
  <2>5. UnsavedUsed'
    BY <2>3, Zenon DEF UnsavedUsed
  <2>6. UnflaggedUsed'
    BY <2>2, <2>3, <2>4, Zenon DEF UnflaggedUsed, InOwnBody, Live
  <2> QED
    BY <2>5, <2>6
<1>12. CASE Tick
  BY <1>12, PlainStepFlags, Zenon DEF Tick, Live
<1>13. CASE SweepBegins
  BY <1>13, PlainStepFlags, Zenon DEF SweepBegins, Live
<1>14. CASE ResetReturns
  <2>1. turn \in Turns
    BY <1>14, Zenon DEF TypeOK, ResetReturns, Turns
  <2>2. turn.ob \in Objects /\ turn.ready \in BOOLEAN
    BY <2>1, Zenon DEF Turns
  <2>3. CASE Live(turn.ob)
    <3>1. /\ CleanUpPart(turn.ob, turn.ready, TRUE, TRUE)
          /\ status' = status /\ used' = used \ {turn.ob}
      BY <1>14, <2>3, Zenon DEF ResetReturns
    <3> QED
      BY <2>2, <3>1, CleanUpPartFlags, Zenon
  <2>4. CASE ~Live(turn.ob)
    <3>1. turn' = NoTurn /\ status' = status /\ used' = used /\ resetState' = resetState
      BY <1>14, <2>4, Zenon DEF ResetReturns
    <3> QED
      BY <2>4, <3>1, Zenon DEF UnflaggedUsed, UnsavedUsed, InOwnBody, Live
  <2> QED
    BY <2>3, <2>4
<1>15. ASSUME NEW result \in BOOLEAN, CleanUpReturns(result) PROVE Kept
  <2>1. /\ turn # NoTurn /\ turn.body = "clean_up"
        /\ turn' = NoTurn /\ status' = status /\ used' = used
        /\ resetState' = IF ~Live(turn.ob) THEN resetState
                         ELSE IF turn.saved THEN resetState \cup {turn.ob}
                         ELSE resetState \ {turn.ob}
    BY <1>15, Zenon DEF CleanUpReturns
  <2>2. UnsavedUsed'
    BY <2>1, Zenon DEF UnsavedUsed
  <2>3. UnflaggedUsed'
    <3> SUFFICES ASSUME NEW p \in Objects, Live(p), p \notin resetState' PROVE p \in used
      BY <2>1, Zenon DEF UnflaggedUsed, Live
    <3>1. CASE p = turn.ob
      <4>1. ~turn.saved
        BY <2>1, <3>1, Zenon
      <4> QED
        BY <2>1, <3>1, <4>1, Zenon DEF UnsavedUsed
    <3>2. CASE p # turn.ob
      <4>1. p \notin resetState
        BY <2>1, <3>2, Zenon
      <4> QED
        BY <3>2, <4>1, Zenon DEF UnflaggedUsed, InOwnBody
    <3> QED
      BY <3>1, <3>2
  <2> QED
    BY <2>2, <2>3
<1>16. CASE UNCHANGED vars
  BY <1>16, PlainStepFlags, Zenon DEF vars, Live
<1> QED
  BY <1>1, <1>2, <1>3, <1>4, <1>5, <1>6, <1>7, <1>8, <1>9, <1>10, <1>11, <1>12, <1>13,
     <1>14, <1>15, <1>16, Zenon DEF Next, TurnOf, BodyReturns

(* A step that touches in idle every object it touches in quiet, and ages  *)
(* neither, keeps the order of the two ages.                               *)
LEMMA TouchingAges ==
    ASSUME TypeOK, IdleIsQuiet, NEW o \in Objects,
           idle' \in {idle, Touching(idle, o)},
           quiet' = quiet \/ (quiet' = Touching(quiet, o) /\ idle' = Touching(idle, o))
    PROVE  IdleIsQuiet'
  BY ResetAssumption DEF TypeOK, IdleIsQuiet, Touching

(* Every step keeps the order of the two ages. *)
LEMMA SweepAges == TypeOK /\ IdleIsQuiet /\ [Next]_vars => IdleIsQuiet'
<1> SUFFICES ASSUME TypeOK, IdleIsQuiet, [Next]_vars PROVE IdleIsQuiet'
  OBVIOUS
<1>1. ASSUME NEW o \in Objects, Load(o) \/ LoadFails(o) \/ Touch(o) \/ Reload(o)
      PROVE  IdleIsQuiet'
  BY <1>1, TouchingAges DEF Load, LoadFails, Touch, Reload
<1>2. ASSUME NEW o \in Objects, Move(o) \/ Destruct(o) \/ TurnSkips(o)
      PROVE  IdleIsQuiet'
  BY <1>2, TouchingAges DEF Move, Destruct, TurnSkips
<1>3. ASSUME NEW o \in Objects,
             TurnNotDue(o) \/ TurnVirtual(o) \/ TurnNoReset(o) \/ ResetStarts(o)
      PROVE  IdleIsQuiet'
  <2>1. quiet' = quiet
    BY <1>3, Zenon DEF TurnNotDue, TurnVirtual, TurnNoReset, ResetStarts
  <2>2. idle' = idle \/ idle' = Touching(idle, o)
    BY <1>3, Zenon DEF TurnNotDue, TurnVirtual, TurnNoReset, ResetStarts, CleanUpPart
  <2> QED
    BY <2>1, <2>2, TouchingAges
<1>4. CASE Tick
  <2>1. ASSUME NEW o \in Objects PROVE idle'[o] <= quiet'[o]
    BY <1>4, ResetAssumption DEF TypeOK, IdleIsQuiet, Tick
  <2> QED
    BY <2>1 DEF IdleIsQuiet
<1>5. CASE SweepBegins \/ UNCHANGED vars \/ \E result \in BOOLEAN : CleanUpReturns(result)
  BY <1>5 DEF IdleIsQuiet, SweepBegins, CleanUpReturns, vars
<1>6. CASE ResetReturns
  <2>1. turn.ob \in Objects
    <3>1. turn \in Turns
      BY <1>6, Zenon DEF TypeOK, ResetReturns, Turns
    <3> QED
      BY <3>1, Zenon DEF Turns
  <2>2. quiet' = quiet /\ (idle' = idle \/ idle' = Touching(idle, turn.ob))
    BY <1>6, Zenon DEF ResetReturns, CleanUpPart
  <2> QED
    BY <2>1, <2>2, TouchingAges
<1> QED
  BY <1>1, <1>2, <1>3, <1>4, <1>5, <1>6, Zenon DEF Next, TurnOf, BodyReturns

(* What the sweep relies on: a missing flag means a use, and the age it    *)
(* reads is at most the time since the last call from outside the sweep.   *)
THEOREM SweepTheorem == Spec => []SweepInv
<1>1. Init => SweepInv
  <2> SUFFICES ASSUME Init PROVE SweepInv
    OBVIOUS
  <2>1. TypeOK
    BY ResetAssumption DEF Init, TypeOK
  <2>2. UnflaggedUsed /\ UnsavedUsed
    BY DEF Init, UnflaggedUsed, UnsavedUsed, Live
  <2>3. IdleIsQuiet
    <3> SUFFICES ASSUME NEW o \in Objects PROVE idle[o] <= quiet[o]
      BY DEF IdleIsQuiet
    <3>1. idle[o] = IdleLimit + 1 /\ quiet[o] = IdleLimit + 1
      BY Zenon DEF Init
    <3>2. IdleLimit \in Nat
      BY ResetAssumption, Zenon
    <3> QED
      BY <3>1, <3>2
  <2> QED
    BY <2>1, <2>2, <2>3 DEF SweepInv
<1>2. SweepInv /\ [Next]_vars => SweepInv'
  BY SweepTyped, SweepFlags, SweepAges, Zenon DEF SweepInv
<1> QED
  BY <1>1, <1>2, PTL DEF Spec

(* A turn other than the one before it begins only in a turn of the sweep  *)
(* or at the return of a reset().                                          *)
LEMMA TurnChanges ==
    ASSUME [Next]_vars, turn' # turn, turn' # NoTurn
    PROVE  \/ \E o \in Objects :
                TurnNotDue(o) \/ TurnVirtual(o) \/ TurnNoReset(o) \/ ResetStarts(o)
           \/ ResetReturns
<1>1. ~\E o \in Objects : \/ Load(o) \/ LoadFails(o) \/ Touch(o) \/ Move(o) \/ Reload(o)
                          \/ Destruct(o) \/ TurnSkips(o)
  BY Zenon DEF Load, LoadFails, Touch, Move, Reload, Destruct, TurnSkips
<1>2. ~(Tick \/ SweepBegins \/ UNCHANGED vars \/ \E result \in BOOLEAN : CleanUpReturns(result))
  BY Zenon DEF Tick, SweepBegins, CleanUpReturns, vars
<1> QED
  BY <1>1, <1>2, Zenon DEF Next, TurnOf, BodyReturns

(* The turn CleanUpPart() begins is a clean_up() of its object, and it     *)
(* begins one only if the object is ready and no reset() suppresses it.    *)
LEMMA CleanUpPartBegins ==
    ASSUME NEW o, NEW ready, NEW called, NEW virgin,
           CleanUpPart(o, ready, called, virgin), turn' # NoTurn
    PROVE  turn'.body = "clean_up" /\ turn'.ob = o /\ ready /\ ~Suppressed(called)
<1>1. ready /\ ~Suppressed(called)
  BY Zenon DEF CleanUpPart
<1>2. turn' = [ob |-> o, body |-> "clean_up", ready |-> FALSE, saved |-> virgin]
  BY <1>1, Zenon DEF CleanUpPart
<1>3. turn'.body = "clean_up" /\ turn'.ob = o
  BY <1>2
<1> QED
  BY <1>1, <1>3

(* reset() is called only on an object that LPC code called or moved since *)
(* its last reset: no sequence of virtual resets, clean_up() calls and     *)
(* reloads makes an untouched object look touched.                         *)
THEOREM EarnedTheorem == Spec => ResetsEarned
<1> DEFINE Earned == \A o \in Objects : Begins(o, "reset") => o \in used
<1>1. ASSUME SweepInv, [Next]_vars PROVE [Earned]_vars
  <2> SUFFICES ASSUME NEW o \in Objects, Begins(o, "reset") PROVE o \in used
    BY Zenon
  <2>1. turn' # turn /\ turn' # NoTurn /\ turn'.ob = o /\ turn'.body = "reset"
    BY Zenon DEF Begins
  <2>2. "reset" # "clean_up"
    OBVIOUS
  <2>3. ~ResetReturns
    BY <2>1, <2>2, CleanUpPartBegins, Zenon DEF ResetReturns
  <2>4. PICK p \in Objects : TurnNotDue(p) \/ TurnVirtual(p) \/ TurnNoReset(p) \/ ResetStarts(p)
    BY <1>1, <2>1, <2>3, TurnChanges, Zenon
  <2>5. ~(TurnNotDue(p) \/ TurnVirtual(p) \/ TurnNoReset(p))
    BY <2>1, <2>2, CleanUpPartBegins, Zenon DEF TurnNotDue, TurnVirtual, TurnNoReset
  <2>6. /\ turn = NoTurn /\ Live(p) /\ p \notin resetState
        /\ turn' = [ob |-> p, body |-> "reset", ready |-> Ready(p), saved |-> FALSE]
    BY <2>4, <2>5, Zenon DEF ResetStarts, Skips, Virgin
  <2>7. p = o
    <3>1. turn'.ob = p
      BY <2>6
    <3> QED
      BY <3>1, <2>1
  <2> QED
    BY <1>1, <2>6, <2>7, Zenon DEF SweepInv, UnflaggedUsed, InOwnBody
<1> QED
  BY <1>1, SweepTheorem, PTL DEF Spec, ResetsEarned

(* Under LDMud's rules an object is asked to clean up only if nothing but  *)
(* the sweep called it for longer than the limit; its own reset() in the   *)
(* same turn counts as a call.                                             *)
THEOREM CleanTheorem == Spec => CleansOnlyUnused
<1> DEFINE Unused == \A o \in Objects :
        dialect = "ldmud" /\ Begins(o, "clean_up") => quiet[o] > IdleLimit
<1>1. ASSUME SweepInv, [Next]_vars PROVE [Unused]_vars
  <2> SUFFICES ASSUME NEW o \in Objects, dialect = "ldmud", Begins(o, "clean_up")
               PROVE  quiet[o] > IdleLimit
    BY Zenon
  <2>1. turn' # turn /\ turn' # NoTurn /\ turn'.ob = o /\ turn'.body = "clean_up"
    BY Zenon DEF Begins
  <2>2. Suppressed(TRUE)
    BY DEF Suppressed
  <2>3. ~ResetReturns
    BY <2>1, <2>2, CleanUpPartBegins, Zenon DEF ResetReturns
  <2>4. PICK p \in Objects : TurnNotDue(p) \/ TurnVirtual(p) \/ TurnNoReset(p) \/ ResetStarts(p)
    BY <1>1, <2>1, <2>3, TurnChanges, Zenon
  <2>5. ~ResetStarts(p)
    <3> SUFFICES ASSUME ResetStarts(p) PROVE FALSE
      OBVIOUS
    <3>1. turn' = [ob |-> p, body |-> "reset", ready |-> Ready(p), saved |-> FALSE]
      BY Zenon DEF ResetStarts
    <3>2. turn'.body = "reset"
      BY <3>1
    <3> QED
      BY <2>1, <3>2
  <2>6. turn'.ob = p /\ Ready(p)
    <3>1. PICK called, virgin : CleanUpPart(p, Ready(p), called, virgin)
      BY <2>4, <2>5, Zenon DEF TurnNotDue, TurnVirtual, TurnNoReset
    <3>2. Ready(p)
      BY <2>1, <3>1, Zenon DEF CleanUpPart
    <3>3. turn'.ob = p
      BY <2>1, <3>1, CleanUpPartBegins, Zenon
    <3> QED
      BY <3>2, <3>3
  <2>7. idle[o] > IdleLimit /\ idle[o] <= quiet[o]
    BY <1>1, <2>1, <2>6, Zenon DEF Ready, SweepInv, IdleIsQuiet
  <2>8. idle[o] \in Nat /\ quiet[o] \in Nat
    BY <1>1, ResetAssumption DEF SweepInv, TypeOK
  <2>9. IdleLimit \in Nat
    BY ResetAssumption, Zenon
  <2> QED
    BY <2>7, <2>8, <2>9
<1> QED
  BY <1>1, SweepTheorem, PTL DEF Spec, CleansOnlyUnused

=============================================================================
