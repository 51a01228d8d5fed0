------------------------------ MODULE CallOuts ------------------------------
(***************************************************************************)
(* The call_out table of the driver (Scheduler::callOuts_), the efuns LPC  *)
(* code uses on it and the sweep Scheduler::tickCallOuts() that runs due   *)
(* entries.  Everything happens on one thread; what interleaves is LPC     *)
(* code: a body run by the sweep may call any of the efuns again before    *)
(* the sweep goes on.                                                      *)
(*                                                                         *)
(* callOuts_ is a vector that only grows at its end, with handles from a   *)
(* counter, so its order is the order of the handles: it is modelled as a  *)
(* function from the handles it holds to their entries, and "the first"    *)
(* entry is the one with the least handle.                                 *)
(***************************************************************************)
EXTENDS Integers, FiniteSets

CONSTANTS Objects,     \* LPC objects
          Fns,         \* function names given to call_out()
          MaxDelay,    \* bound: longest delay asked for
          MaxHandle,   \* bound: handles issued
          MaxTime      \* bound: the clock stops here and nothing is due later

ASSUME BoundsAssumption ==
    MaxDelay \in Nat /\ MaxHandle \in Nat /\ MaxTime \in Nat

(* What call_out()'s first argument becomes: a function name looked up in  *)
(* the caller, or a closure, which the by-name efuns never match.          *)
ClosureForm == "closure"

ASSUME FnsAssumption == ClosureForm \notin Fns

VARIABLES status,      \* per object: "live", "destructed", "freed"
          callOuts,    \* Scheduler::callOuts_
          due,         \* tickCallOuts()'s local vector, less what it has finished
          running,     \* handle whose LPC body is executing, 0 if none
          phase,       \* "sweep" while tickCallOuts() is past its pull loop
          nextHandle,  \* Scheduler::nextHandle_
          now,         \* steady_clock, in seconds
          outcome      \* history: how each handle ended, "none" while it has not

vars == <<status, callOuts, due, running, phase, nextHandle, now, outcome>>

Statuses == {"live", "destructed", "freed"}
Outcomes == {"none", "fired", "cancelled", "dropped"}
Handles  == 1..MaxHandle
Entries  == [owner : Objects, function : Fns \cup {ClosureForm}, dueAt : Nat]

Without(f, S) == [h \in DOMAIN f \ S |-> f[h]]
IsFirst(h, S) == h \in S /\ \A g \in S : h <= g
AtLeastZero(n) == IF n < 0 THEN 0 ELSE n

TypeOK ==
    /\ status \in [Objects -> Statuses]
    /\ DOMAIN callOuts \subseteq Handles
    /\ callOuts \in [DOMAIN callOuts -> Entries]
    /\ DOMAIN due \subseteq Handles
    /\ due \in [DOMAIN due -> Entries]
    /\ running \in 0..MaxHandle
    /\ phase \in {"idle", "sweep"}
    /\ nextHandle \in 1..(MaxHandle + 1)
    /\ now \in 0..MaxTime
    /\ outcome \in [Handles -> Outcomes]

Init ==
    /\ status = [o \in Objects |-> "live"]
    /\ callOuts = [h \in {} |-> 0]
    /\ due = [h \in {} |-> 0]
    /\ running = 0
    /\ phase = "idle"
    /\ nextHandle = 1
    /\ now = 0
    /\ outcome = [h \in Handles |-> "none"]

-----------------------------------------------------------------------------
(* Pulled entries whose turn has not come. *)
Waiting == DOMAIN due \ {running}

(* LPC code is executing: outside the sweep the rest of the driver may be  *)
(* running any (a command, a heart_beat), inside it only the body fired.   *)
LpcRuns == phase = "idle" \/ running # 0

(* A destructed object's code may still be on the call stack, so it can    *)
(* still call efuns; a freed object's cannot.                              *)
MayCall(o) == LpcRuns /\ status[o] # "freed"

(* The entry the by-name efuns act on: string form, this owner, this name. *)
ByName(o, f) == {h \in DOMAIN callOuts : callOuts[h].owner = o /\ callOuts[h].function = f}

\* Mutant of CallOut: what a body adds that is due already joins the running sweep.
CallOutJoinsSweep(o, f, delay) ==
    /\ MayCall(o)
    /\ nextHandle <= MaxHandle /\ now + AtLeastZero(delay) <= MaxTime
    /\ LET e == [owner |-> o, function |-> f, dueAt |-> now + AtLeastZero(delay)]
           Added(table) == [h \in DOMAIN table \cup {nextHandle} |->
                              IF h = nextHandle THEN e ELSE table[h]]
           joins == phase = "sweep" /\ e.dueAt <= now
       IN  /\ callOuts' = IF joins THEN callOuts ELSE Added(callOuts)
           /\ due' = IF joins THEN Added(due) ELSE due
    /\ nextHandle' = nextHandle + 1
    /\ UNCHANGED <<status, running, phase, now, outcome>>

(* call_out(): a negative delay is 0. *)
CallOut(o, f, delay) ==
    /\ MayCall(o)
    /\ nextHandle <= MaxHandle /\ now + AtLeastZero(delay) <= MaxTime  \* bounds
    /\ callOuts' = [h \in DOMAIN callOuts \cup {nextHandle} |->
                      IF h = nextHandle
                      THEN [owner |-> o, function |-> f, dueAt |-> now + AtLeastZero(delay)]
                      ELSE callOuts[h]]
    /\ nextHandle' = nextHandle + 1
    /\ UNCHANGED <<status, due, running, phase, now, outcome>>

Cancelled(S) == [h \in Handles |-> IF h \in S THEN "cancelled" ELSE outcome[h]]

(* remove_call_out("name"): the caller's first entry of that name, if any. *)
RemoveCallOutByName(o, f) ==
    /\ MayCall(o)
    /\ \E h \in DOMAIN callOuts :
         /\ IsFirst(h, ByName(o, f))
         /\ callOuts' = Without(callOuts, {h})
         /\ outcome' = Cancelled({h})
    /\ UNCHANGED <<status, due, running, phase, nextHandle, now>>

\* Mutant of RemoveCallOutByHandle: it reaches into the running sweep's vector.
RemoveCallOutByHandleAnywhere(h) ==
    /\ LpcRuns
    /\ h < nextHandle
    /\ callOuts' = Without(callOuts, {h})
    /\ due' = Without(due, {h} \ {running})
    /\ outcome' = Cancelled((DOMAIN callOuts \cup Waiting) \cap {h})
    /\ UNCHANGED <<status, running, phase, nextHandle, now>>

(* remove_call_out(handle): anyone's entry; -1 when callOuts_ has none. *)
RemoveCallOutByHandle(h) ==
    /\ LpcRuns
    /\ h < nextHandle
    /\ callOuts' = Without(callOuts, {h})
    /\ outcome' = Cancelled(DOMAIN callOuts \cap {h})
    /\ UNCHANGED <<status, due, running, phase, nextHandle, now>>

(* removeAllCallOutsForObject(), called by reload_object(): the object's   *)
(* own entries in either form, and any whose owner is gone.                *)
RemoveAllCallOutsForObject(o) ==
    /\ LpcRuns
    /\ LET gone == {h \in DOMAIN callOuts :
                      \/ callOuts[h].owner = o
                      \/ status[callOuts[h].owner] # "live"}
       IN  /\ callOuts' = Without(callOuts, gone)
           /\ outcome' = Cancelled(gone)
    /\ UNCHANGED <<status, due, running, phase, nextHandle, now>>

\* Mutant of PullDue: the due entries are copied, not moved.
PullDueCopies ==
    /\ phase = "idle"
    /\ due' = [h \in {g \in DOMAIN callOuts : callOuts[g].dueAt <= now} |-> callOuts[h]]
    /\ phase' = "sweep"
    /\ UNCHANGED <<status, callOuts, running, nextHandle, now, outcome>>

(* tickCallOuts(), pull loop: every entry due now leaves callOuts_ before  *)
(* any of them runs.                                                       *)
PullDue ==
    /\ phase = "idle"
    /\ LET ready == {h \in DOMAIN callOuts : callOuts[h].dueAt <= now} IN
         /\ due' = [h \in ready |-> callOuts[h]]
         /\ callOuts' = Without(callOuts, ready)
    /\ phase' = "sweep"
    /\ UNCHANGED <<status, running, nextHandle, now, outcome>>

\* Mutant of FireNext: the vector is popped from its end.
FireLast ==
    /\ phase = "sweep"
    /\ running = 0
    /\ \E h \in DOMAIN due :
         LET live == status[due[h].owner] = "live" IN
         /\ \A g \in DOMAIN due : g <= h
         /\ running' = IF live THEN h ELSE 0
         /\ due' = IF live THEN due ELSE Without(due, {h})
         /\ outcome' = [outcome EXCEPT ![h] = IF live THEN "fired" ELSE "dropped"]
    /\ UNCHANGED <<status, callOuts, phase, nextHandle, now>>

(* tickCallOuts(), firing loop: the next entry runs if its owner is live.  *)
(* A dead owner makes the string form a silent no-op and the closure form  *)
(* an isolated error; neither runs any LPC.                                *)
FireNext ==
    /\ phase = "sweep"
    /\ running = 0
    /\ \E h \in DOMAIN due :
         LET live == status[due[h].owner] = "live" IN
         /\ IsFirst(h, DOMAIN due)
         /\ running' = IF live THEN h ELSE 0
         /\ due' = IF live THEN due ELSE Without(due, {h})
         /\ outcome' = [outcome EXCEPT ![h] = IF live THEN "fired" ELSE "dropped"]
    /\ UNCHANGED <<status, callOuts, phase, nextHandle, now>>

(* The body returns or throws: the sweep's try block treats both alike.    *)
BodyEnds ==
    /\ running # 0
    /\ due' = Without(due, {running})
    /\ running' = 0
    /\ UNCHANGED <<status, callOuts, phase, nextHandle, now, outcome>>

SweepEnds ==
    /\ phase = "sweep"
    /\ DOMAIN due = {}
    /\ phase' = "idle"
    /\ UNCHANGED <<status, callOuts, due, running, nextHandle, now, outcome>>

(* destruct(): the object table forgets the object, callOuts_ does not. *)
Destruct(o) ==
    /\ LpcRuns
    /\ status[o] = "live"
    /\ status' = [status EXCEPT ![o] = "destructed"]
    /\ UNCHANGED <<callOuts, due, running, phase, nextHandle, now, outcome>>

(* The last strong reference goes: entries hold weak ones, a running body  *)
(* a strong one.                                                           *)
Free(o) ==
    /\ LpcRuns
    /\ status[o] # "freed"
    /\ running # 0 => due[running].owner # o
    /\ status' = [status EXCEPT ![o] = "freed"]
    /\ UNCHANGED <<callOuts, due, running, phase, nextHandle, now, outcome>>

Tick ==
    /\ now < MaxTime
    /\ now' = now + 1
    /\ UNCHANGED <<status, callOuts, due, running, phase, nextHandle, outcome>>

Efuns ==
    \/ \E o \in Objects, f \in Fns \cup {ClosureForm}, d \in -1..MaxDelay : CallOut(o, f, d)
    \/ \E o \in Objects, f \in Fns : RemoveCallOutByName(o, f)
    \/ \E h \in Handles : RemoveCallOutByHandle(h)
    \/ \E o \in Objects : RemoveAllCallOutsForObject(o) \/ Destruct(o) \/ Free(o)

Sweep == PullDue \/ FireNext \/ BodyEnds \/ SweepEnds

Next == Efuns \/ Sweep \/ Tick

Spec == Init /\ [][Next]_vars

(* The loop of Scheduler::run() comes round again and again, LPC bodies    *)
(* end (the evaluation cost limit sees to that) and time passes.           *)
Fairness ==
    /\ WF_vars(PullDue) /\ WF_vars(FireNext) /\ WF_vars(BodyEnds) /\ WF_vars(SweepEnds)
    /\ WF_vars(Tick)

FairSpec == Spec /\ Fairness

-----------------------------------------------------------------------------
DueAt(h) == IF h \in DOMAIN callOuts THEN callOuts[h].dueAt
            ELSE IF h \in Waiting THEN due[h].dueAt ELSE 0

(* No call_out is lost and none is doubled: an issued handle has not ended *)
(* exactly when it is still in callOuts_ or still waits in the sweep, and  *)
(* it is never in both.  The efuns called by a body in mid-sweep and the   *)
(* pull loop between them keep this.                                       *)
OneFate ==
    /\ DOMAIN callOuts \cap DOMAIN due = {}
    /\ \A h \in Handles :
         (outcome[h] = "none" /\ h < nextHandle) <=> h \in DOMAIN callOuts \cup Waiting

(* An entry the sweep has pulled was due, and whatever older entry it left *)
(* behind in callOuts_ is due strictly later.                              *)
PulledFirst ==
    \A p \in DOMAIN due :
        /\ due[p].dueAt <= now
        /\ \A q \in DOMAIN callOuts : q < p => callOuts[q].dueAt > due[p].dueAt

(* The sweep's bookkeeping: the entry whose body runs is still in the      *)
(* vector and counts as fired, nothing is pulled outside a sweep, and      *)
(* every handle in the tables was issued.                                  *)
SweepShape ==
    /\ running # 0 => running \in DOMAIN due /\ outcome[running] = "fired"
    /\ phase = "idle" => DOMAIN due = {}
    /\ \A h \in DOMAIN callOuts \cup DOMAIN due : h < nextHandle
    /\ \A h \in Handles : h >= nextHandle => outcome[h] = "none"

(* The inductive invariant behind the theorems of CallOutProofs. *)
IInv == TypeOK /\ SweepShape /\ OneFate /\ PulledFirst

BodyStarts(h) == running' = h /\ running # h /\ h # 0

(* When a body starts, no older call_out with no later due time is still   *)
(* outstanding: call_outs never overtake each other, although bodies add   *)
(* and remove entries while the sweep runs.                                *)
StartsInOrder ==
    \A h \in Handles : BodyStarts(h) =>
        \A g \in DOMAIN callOuts \cup Waiting : g < h => DueAt(g) > DueAt(h)

NoOvertaking == [][StartsInOrder]_vars

(* A body runs only for an owner that was live when the sweep came to it,  *)
(* however many bodies of the same sweep destructed or freed objects.      *)
StartsLive ==
    \A h \in Handles : BodyStarts(h) =>
        h \in DOMAIN due /\ status[due[h].owner] = "live"

OnlyLiveOwnersRun == [][StartsLive]_vars

(* What is left of the firing loop: two steps for an entry that waits, one *)
(* for the entry whose body runs.                                          *)
SweepLeft == 2 * Cardinality(DOMAIN due) - (IF running = 0 THEN 0 ELSE 1)

(* A sweep is finite however its bodies reschedule: from the pull on, no   *)
(* step adds to the vector it works off, and each step of the firing loop  *)
(* leaves less to do.  call_outs made meanwhile, zero-delay ones included, *)
(* wait for the next sweep.                                                *)
SweepRunsOut ==
    phase = "sweep" /\ phase' = "sweep" =>
        /\ DOMAIN due' \subseteq DOMAIN due
        /\ <<due, running>>' # <<due, running>> => SweepLeft' < SweepLeft

(* Every call_out ends: it runs, is cancelled, or is dropped with its      *)
(* owner.  The handles of an instance run out, so that alone would not     *)
(* tell whether rescheduling can keep one sweep going and starve the older *)
(* entries that came due during it: SweepRunsOut rules that out step by    *)
(* step, for any number of handles.                                        *)
EveryCallOutEnds ==
    /\ [][SweepRunsOut]_vars
    /\ \A h \in Handles : h \in DOMAIN callOuts ~> outcome[h] # "none"

FateOf(h) == IF h \in DOMAIN callOuts THEN "pending"
             ELSE IF h \in Waiting THEN "committed"
             ELSE IF h < nextHandle THEN outcome[h] ELSE "unused"

Contract == INSTANCE CallOutContract WITH
    fate <- [h \in Handles |-> FateOf(h)],
    deadline <- [h \in Handles |-> DueAt(h)],
    clock <- now

(* The table and its sweep implement the contract. *)
ImplementsContract == Contract!ContractSpec
=============================================================================
