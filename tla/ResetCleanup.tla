---------------------------- MODULE ResetCleanup ----------------------------
(***************************************************************************)
(* reset() and clean_up(): the sweep Scheduler::tickResetsAndCleanup()     *)
(* over the live objects.  An object is reset when its timer has run out,  *)
(* really if something touched it since the last reset and virtually (the  *)
(* timer starts over) if not; it is asked to clean up when nothing called  *)
(* it for a long time.  Both are LPC calls, and so touch the object, and   *)
(* their bodies call, move, destruct, reload and load objects, those the   *)
(* sweep has not come to yet included.                                     *)
(*                                                                         *)
(* Time is counted in units of 900 seconds or so and stands still during a *)
(* sweep; the order of the objects in a sweep is left open.                *)
(***************************************************************************)
EXTENDS Integers

CONSTANTS Objects,
          WithReset,   \* objects whose program defines reset()
          Failing,     \* objects whose create() may throw
          DelayMin, DelayMax,  \* armReset(): half to all of kTimeToReset
          IdleLimit,   \* kTimeToCleanUp
          Never,       \* time_point::max()
          NoTurn       \* no LPC body of the sweep is running

ASSUME ResetAssumption ==
    /\ WithReset \subseteq Objects /\ Failing \subseteq Objects
    /\ DelayMin \in Nat \ {0} /\ DelayMax \in Nat /\ IdleLimit \in Nat
    /\ DelayMin <= DelayMax /\ DelayMax < IdleLimit
    /\ Never \notin Nat /\ NoTurn \notin [ob : Objects, body : {"reset", "clean_up"},
                                          ready : BOOLEAN, saved : BOOLEAN]

VARIABLES dialect,     \* of the mudlib: "ldmud" or "fluffos", fixed at boot
          status,      \* per object: "none" before it is made, "live", "destructed"
          timer,       \* time left until timeReset_, or Never
          idle,        \* time since timeOfRef_, at most IdleLimit + 1
          resetState,  \* objects with LpcObject::resetState_: reset and not touched since
          willCleanUp, \* objects with LpcObject::willCleanUp_
          pending,     \* the rest of the sweep's snapshot
          turn,        \* the apply that is running, or NoTurn
          used,        \* history: objects LPC code called or moved since their last reset
          quiet,       \* history: as idle, but not set back by the sweep's own calls
          asked        \* history: objects clean_up() was called on

vars == <<dialect, status, timer, idle, resetState, willCleanUp, pending, turn, used, quiet, asked>>

Delays == DelayMin..DelayMax
Ages   == 0..(IdleLimit + 1)

TypeOK ==
    /\ dialect \in {"ldmud", "fluffos"}
    /\ status \in [Objects -> {"none", "live", "destructed"}]
    /\ timer \in [Objects -> (0..DelayMax) \cup {Never}]
    /\ idle \in [Objects -> Ages] /\ quiet \in [Objects -> Ages]
    /\ resetState \subseteq Objects /\ willCleanUp \subseteq Objects
    /\ pending \subseteq Objects
    /\ turn \in {NoTurn} \cup [ob : Objects, body : {"reset", "clean_up"},
                               ready : BOOLEAN, saved : BOOLEAN]
    /\ used \subseteq Objects /\ asked \subseteq Objects

Init ==
    /\ dialect \in {"ldmud", "fluffos"}
    /\ status = [o \in Objects |-> "none"]
    /\ timer = [o \in Objects |-> 0]
    /\ idle = [o \in Objects |-> IdleLimit + 1]
    /\ quiet = [o \in Objects |-> IdleLimit + 1]
    /\ resetState = {} /\ willCleanUp = {}
    /\ pending = {} /\ turn = NoTurn
    /\ used = {} /\ asked = {}

-----------------------------------------------------------------------------
Live(o)  == status[o] = "live"
Idling   == pending = {} /\ turn = NoTurn
LpcRuns  == Idling \/ turn # NoTurn
Touching(f, o) == [f EXCEPT ![o] = 0]
(* armReset(): a new delay, and the object is as good as reset. *)
ArmReset(o) ==
    /\ \E d \in Delays : timer' = [timer EXCEPT ![o] = d]
    /\ resetState' = resetState \cup {o}

(* loadObject() or clone_object(): create() is called, then the object is  *)
(* armed.                                                                  *)
Load(o) ==
    /\ LpcRuns
    /\ status[o] = "none"
    /\ status' = [status EXCEPT ![o] = "live"]
    /\ ArmReset(o)
    /\ willCleanUp' = willCleanUp \cup {o}
    /\ idle' = Touching(idle, o) /\ quiet' = Touching(quiet, o)
    /\ UNCHANGED <<dialect, pending, turn, used, asked>>

(* The same when create() throws: the load fails, but an object that       *)
(* handed itself out before stays alive and registered.                    *)
LoadFails(o) ==
    /\ LpcRuns
    /\ status[o] = "none"
    /\ o \in Failing
    /\ status' = [status EXCEPT ![o] = "live"]
    /\ idle' = Touching(idle, o) /\ quiet' = Touching(quiet, o)
    /\ used' = used \cup {o}
    /\ UNCHANGED <<dialect, timer, resetState, willCleanUp, pending, turn, asked>>

(* callFunction() on o from LPC code or from another part of the driver. *)
Touch(o) ==
    /\ LpcRuns
    /\ Live(o)
    /\ idle' = Touching(idle, o) /\ quiet' = Touching(quiet, o)
    /\ resetState' = resetState \ {o}
    /\ used' = used \cup {o}
    /\ UNCHANGED <<dialect, status, timer, willCleanUp, pending, turn, asked>>

(* move_object() with o as the item, the destination or the place left:    *)
(* the flag goes, the time of the last call does not move.                 *)
Move(o) ==
    /\ LpcRuns
    /\ Live(o)
    /\ resetState' = resetState \ {o}
    /\ used' = used \cup {o}
    /\ UNCHANGED <<dialect, status, timer, idle, willCleanUp, pending, turn, quiet, asked>>

(* reload_object(o): create() again, and armed as a new object is.  Inside *)
(* the object's own clean_up() the sweep puts the flag back afterwards.    *)
Reload(o) ==
    /\ LpcRuns
    /\ Live(o)
    /\ ArmReset(o)
    /\ willCleanUp' = willCleanUp \cup {o}
    /\ idle' = Touching(idle, o) /\ quiet' = Touching(quiet, o)
    /\ used' = IF turn # NoTurn /\ turn.ob = o THEN used ELSE used \ {o}
    /\ UNCHANGED <<dialect, status, pending, turn, asked>>

Destruct(o) ==
    /\ LpcRuns
    /\ Live(o)
    /\ status' = [status EXCEPT ![o] = "destructed"]
    /\ UNCHANGED <<dialect, timer, idle, resetState, willCleanUp, pending, turn, used, quiet, asked>>

(* Time passes between sweeps. *)
Tick ==
    /\ Idling
    /\ timer' = [o \in Objects |-> IF timer[o] \in {0, Never} THEN timer[o] ELSE timer[o] - 1]
    /\ idle' = [o \in Objects |-> IF idle[o] > IdleLimit THEN idle[o] ELSE idle[o] + 1]
    /\ quiet' = [o \in Objects |-> IF quiet[o] > IdleLimit THEN quiet[o] ELSE quiet[o] + 1]
    /\ UNCHANGED <<dialect, status, resetState, willCleanUp, pending, turn, used, asked>>

(* LiveObjectRegistry::all(): the snapshot the sweep walks. *)
SweepBegins ==
    /\ Idling
    /\ pending' = {o \in Objects : Live(o)}
    /\ UNCHANGED <<dialect, status, timer, idle, resetState, willCleanUp, turn, used, quiet, asked>>

Ready(o) == o \in willCleanUp /\ idle[o] > IdleLimit

\* Mutant of Suppressed: the dialects do not differ.
SuppressedNever(called) == FALSE

(* LDMud only: a real reset() in this turn keeps clean_up() away. *)
Suppressed(called) == called /\ dialect = "ldmud"

(* The end of o's turn, with virgin as its reset state by now: clean_up()  *)
(* is called, which touches the object, or the turn is over.               *)
CleanUpPart(o, ready, called, virgin) ==
    IF ready /\ ~Suppressed(called)
    THEN /\ turn' = [ob |-> o, body |-> "clean_up", ready |-> FALSE, saved |-> virgin]
         /\ resetState' = resetState \ {o}
         /\ idle' = Touching(idle, o)
         /\ asked' = asked \cup {o}
    ELSE /\ turn' = NoTurn
         /\ resetState' = IF virgin THEN resetState \cup {o} ELSE resetState \ {o}
         /\ UNCHANGED <<idle, asked>>

(* Destructed since the snapshot. *)
Skips(o) == ~Live(o)

TurnSkips(o) ==
    /\ turn = NoTurn
    /\ o \in pending
    /\ Skips(o)
    /\ pending' = pending \ {o}
    /\ UNCHANGED <<dialect, status, timer, idle, resetState, willCleanUp, turn, used, quiet, asked>>

(* The timer is still running: only clean_up() may be due. *)
TurnNotDue(o) ==
    /\ turn = NoTurn
    /\ o \in pending
    /\ ~Skips(o)
    /\ timer[o] # 0
    /\ pending' = pending \ {o}
    /\ CleanUpPart(o, Ready(o), FALSE, o \in resetState)
    /\ UNCHANGED <<dialect, status, timer, willCleanUp, used, quiet>>

Virgin(o) == o \in resetState

\* Mutant of TurnVirtual: a virtual reset counts as a use.
TurnVirtualUses(o) ==
    /\ turn = NoTurn
    /\ o \in pending
    /\ ~Skips(o)
    /\ timer[o] = 0 /\ Virgin(o)
    /\ pending' = pending \ {o}
    /\ \E d \in Delays : timer' = [timer EXCEPT ![o] = d]
    /\ idle' = Touching(idle, o)
    /\ UNCHANGED <<dialect, status, resetState, willCleanUp, turn, used, quiet, asked>>

(* A virtual reset: nothing touched the object, the timer starts over. *)
TurnVirtual(o) ==
    /\ turn = NoTurn
    /\ o \in pending
    /\ ~Skips(o)
    /\ timer[o] = 0 /\ Virgin(o)
    /\ pending' = pending \ {o}
    /\ \E d \in Delays : timer' = [timer EXCEPT ![o] = d]
    /\ CleanUpPart(o, Ready(o), FALSE, TRUE)
    /\ UNCHANGED <<dialect, status, willCleanUp, used, quiet>>

(* Due, touched, but without a reset(): never tried again. *)
TurnNoReset(o) ==
    /\ turn = NoTurn
    /\ o \in pending
    /\ ~Skips(o)
    /\ timer[o] = 0 /\ ~Virgin(o) /\ o \notin WithReset
    /\ pending' = pending \ {o}
    /\ timer' = [timer EXCEPT ![o] = Never]
    /\ CleanUpPart(o, Ready(o), TRUE, TRUE)
    /\ used' = used \ {o}
    /\ UNCHANGED <<dialect, status, willCleanUp, quiet>>

\* Mutant of ResetStarts: the timer is turned off, as if there were no reset().
ResetStartsDisabled(o) ==
    /\ turn = NoTurn
    /\ o \in pending
    /\ ~Skips(o)
    /\ timer[o] = 0 /\ ~Virgin(o) /\ o \in WithReset
    /\ pending' = pending \ {o}
    /\ timer' = [timer EXCEPT ![o] = Never]
    /\ turn' = [ob |-> o, body |-> "reset", ready |-> Ready(o), saved |-> FALSE]
    /\ resetState' = resetState \ {o}
    /\ idle' = Touching(idle, o)
    /\ UNCHANGED <<dialect, status, willCleanUp, used, quiet, asked>>

(* A real reset: whether clean_up() is due is settled first, the timer is  *)
(* armed, and reset() is called, which touches the object.                 *)
ResetStarts(o) ==
    /\ turn = NoTurn
    /\ o \in pending
    /\ ~Skips(o)
    /\ timer[o] = 0 /\ ~Virgin(o) /\ o \in WithReset
    /\ pending' = pending \ {o}
    /\ \E d \in Delays : timer' = [timer EXCEPT ![o] = d]
    /\ turn' = [ob |-> o, body |-> "reset", ready |-> Ready(o), saved |-> FALSE]
    /\ resetState' = resetState \ {o}
    /\ idle' = Touching(idle, o)
    /\ UNCHANGED <<dialect, status, willCleanUp, used, quiet, asked>>

(* reset() returns or throws; the object may have destructed itself. *)
ResetReturns ==
    /\ turn # NoTurn /\ turn.body = "reset"
    /\ IF Live(turn.ob)
       THEN /\ CleanUpPart(turn.ob, turn.ready, TRUE, TRUE)
            /\ used' = used \ {turn.ob}
       ELSE turn' = NoTurn /\ UNCHANGED <<idle, resetState, used, asked>>
    /\ UNCHANGED <<dialect, status, timer, willCleanUp, pending, quiet>>

\* Mutant of CleanUpReturns: the state before the call is not put back.
CleanUpReturnsTouched(result) ==
    /\ turn # NoTurn /\ turn.body = "clean_up"
    /\ turn' = NoTurn
    /\ UNCHANGED <<dialect, status, timer, idle, resetState, willCleanUp, pending, used, quiet, asked>>

(* clean_up() returns (a throw counts as 0, an object without clean_up()   *)
(* answers 0): a false answer is the last one, and the call does not count *)
(* as a touch.                                                             *)
CleanUpReturns(result) ==
    /\ turn # NoTurn /\ turn.body = "clean_up"
    /\ IF Live(turn.ob)
       THEN /\ willCleanUp' = IF result THEN willCleanUp ELSE willCleanUp \ {turn.ob}
            /\ resetState' = IF turn.saved THEN resetState \cup {turn.ob} ELSE resetState \ {turn.ob}
       ELSE UNCHANGED <<willCleanUp, resetState>>
    /\ turn' = NoTurn
    /\ UNCHANGED <<dialect, status, timer, idle, pending, used, quiet, asked>>

TurnOf(o) ==
    TurnSkips(o) \/ TurnNotDue(o) \/ TurnVirtual(o) \/ TurnNoReset(o) \/ ResetStarts(o)

BodyReturns == ResetReturns \/ \E result \in BOOLEAN : CleanUpReturns(result)

Next ==
    \/ \E o \in Objects :
         \/ Load(o) \/ LoadFails(o) \/ Touch(o) \/ Move(o) \/ Reload(o) \/ Destruct(o)
         \/ TurnOf(o)
    \/ Tick \/ SweepBegins \/ BodyReturns

Spec == Init /\ [][Next]_vars

(* Time passes whatever the driver does; Scheduler::run() comes round, the  *)
(* sweep goes on, bodies end.                                               *)
Fairness ==
    /\ SF_vars(Tick) /\ WF_vars(SweepBegins) /\ WF_vars(BodyReturns)
    /\ WF_vars(\E o \in Objects : TurnOf(o))

FairSpec == Spec /\ Fairness

-----------------------------------------------------------------------------
Begins(o, body) == turn' # turn /\ turn' # NoTurn /\ turn'.ob = o /\ turn'.body = body

(* reset() is called only on an object LPC code called or moved since its  *)
(* last reset: neither the sweep's own calls nor the flag clean_up() saves *)
(* and restores make an untouched object look touched.                     *)
ResetsEarned == [][\A o \in Objects : Begins(o, "reset") => o \in used]_vars

(* LDMud: an object is asked to clean up only if no LPC code called it for *)
(* longer than the limit, its own reset() in the same turn included.       *)
CleansOnlyUnused ==
    [][\A o \in Objects : dialect = "ldmud" /\ Begins(o, "clean_up") => quiet[o] > IdleLimit]_vars

(* An object left alone is asked to clean up in the end: resets, which     *)
(* touch it too and are due more often, do not keep it looking used.       *)
EveryIdleAsked ==
    \A o \in Objects \ Failing :
        <>[](Live(o) /\ quiet[o] > IdleLimit /\ o \notin used) => <>(o \in asked)

(* An object that goes on being touched goes on being reset, whatever      *)
(* clean_up() answers.                                                     *)
UsedKeepsResetting ==
    \A o \in WithReset :
        /\ <>[]Live(o)
        /\ <>[][~Reload(o)]_vars
        /\ []<>(Idling /\ o \notin resetState)
        => []<>(turn # NoTurn /\ turn.ob = o /\ turn.body = "reset")
=============================================================================
