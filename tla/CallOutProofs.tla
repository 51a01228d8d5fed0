---------------------------- MODULE CallOutProofs ----------------------------
(* Theorems about CallOuts, for any number of objects, names, handles and   *)
(* any length of time.                                                      *)
EXTENDS CallOuts, FiniteSetTheorems, TLAPS

(* The empty table satisfies the invariant.                                *)
LEMMA InitIInv == Init => IInv
<1> SUFFICES ASSUME Init PROVE IInv
  OBVIOUS
<1>1. DOMAIN callOuts = {} /\ DOMAIN due = {}
  BY DEF Init
<1>2. callOuts \in [DOMAIN callOuts -> Entries] /\ due \in [DOMAIN due -> Entries]
  <2>1. [h \in {} |-> 0] \in [{} -> Entries]
    OBVIOUS
  <2> QED
    BY <1>1, <2>1, Zenon DEF Init
<1>3. TypeOK
  <2>1. status \in [Objects -> Statuses] /\ outcome \in [Handles -> Outcomes]
    BY DEF Init, Statuses, Outcomes
  <2>2. /\ running \in 0..MaxHandle /\ nextHandle \in 1..(MaxHandle + 1) /\ now \in 0..MaxTime
        /\ phase \in {"idle", "sweep"}
    BY BoundsAssumption DEF Init
  <2> QED
    BY <1>1, <1>2, <2>1, <2>2 DEF TypeOK
<1>4. SweepShape
  BY <1>1, BoundsAssumption DEF Init, SweepShape, Handles
<1>5. OneFate
  BY <1>1, BoundsAssumption DEF Init, OneFate, Handles, Waiting
<1>6. PulledFirst
  BY <1>1 DEF PulledFirst
<1> QED
  BY <1>3, <1>4, <1>5, <1>6 DEF IInv

(* Every efun, every step of the sweep and the clock keep the types.         *)
LEMMA NextTypeOK == TypeOK /\ SweepShape /\ [Next]_vars => TypeOK'
<1> SUFFICES ASSUME TypeOK, SweepShape, [Next]_vars PROVE TypeOK'
  OBVIOUS
<1> USE BoundsAssumption DEF TypeOK, Handles, Statuses, Outcomes
<1>1. ASSUME NEW o \in Objects, NEW f \in Fns \cup {ClosureForm}, NEW d \in -1..MaxDelay,
             CallOut(o, f, d)
      PROVE  TypeOK'
  <2> DEFINE e == [owner |-> o, function |-> f, dueAt |-> now + AtLeastZero(d)]
  <2>1. now + AtLeastZero(d) \in Nat
    BY DEF AtLeastZero
  <2>2. e \in Entries
    BY <2>1 DEF Entries
  <2>3. DOMAIN callOuts' = DOMAIN callOuts \cup {nextHandle}
    BY <1>1 DEF CallOut
  <2>4. callOuts' \in [DOMAIN callOuts' -> Entries]
    BY <1>1, <2>2, <2>3, Zenon DEF CallOut
  <2>5. /\ nextHandle <= MaxHandle /\ nextHandle' = nextHandle + 1
        /\ UNCHANGED <<status, due, running, phase, now, outcome>>
    BY <1>1 DEF CallOut
  <2> QED
    BY <2>3, <2>4, <2>5
<1>2. ASSUME NEW o \in Objects, NEW f \in Fns, RemoveCallOutByName(o, f) PROVE TypeOK'
  BY <1>2 DEF RemoveCallOutByName, Without, Cancelled
<1>3. ASSUME NEW h \in Handles, RemoveCallOutByHandle(h) PROVE TypeOK'
  <2>1. callOuts' \in [DOMAIN callOuts' -> Entries] /\ DOMAIN callOuts' \subseteq Handles
    BY <1>3 DEF RemoveCallOutByHandle, Without
  <2>2. outcome' \in [Handles -> Outcomes]
    BY <1>3 DEF RemoveCallOutByHandle, Cancelled
  <2>3. UNCHANGED <<status, due, running, phase, nextHandle, now>>
    BY <1>3 DEF RemoveCallOutByHandle
  <2> QED
    BY <2>1, <2>2, <2>3
<1>4. ASSUME NEW o \in Objects, RemoveAllCallOutsForObject(o) PROVE TypeOK'
  BY <1>4 DEF RemoveAllCallOutsForObject, Without, Cancelled
<1>5. ASSUME NEW o \in Objects, Destruct(o) \/ Free(o) PROVE TypeOK'
  BY <1>5 DEF Destruct, Free
<1>6. CASE PullDue
  BY <1>6 DEF PullDue, Without
<1>7. CASE FireNext
  <2>1. PICK h \in DOMAIN due :
           /\ running' = 0 \/ running' = h
           /\ due' = due \/ due' = Without(due, {h})
           /\ outcome' = [outcome EXCEPT ![h] = "fired"] \/ outcome' = [outcome EXCEPT ![h] = "dropped"]
    BY <1>7, Zenon DEF FireNext
  <2>2. DOMAIN due' \subseteq Handles /\ due' \in [DOMAIN due' -> Entries]
    BY <2>1 DEF Without
  <2>3. outcome' \in [Handles -> Outcomes]
    BY <2>1
  <2>4. UNCHANGED <<status, callOuts, phase, nextHandle, now>>
    BY <1>7 DEF FireNext
  <2>5. running' \in 0..MaxHandle
    BY <2>1
  <2> QED
    BY <2>2, <2>3, <2>4, <2>5
<1>8. CASE BodyEnds
  BY <1>8 DEF BodyEnds, Without
<1>9. CASE SweepEnds \/ Tick \/ UNCHANGED vars
  BY <1>9 DEF SweepEnds, Tick, vars
<1> QED
  BY <1>1, <1>2, <1>3, <1>4, <1>5, <1>6, <1>7, <1>8, <1>9 DEF Next, Efuns, Sweep

(* The sweep's bookkeeping survives whatever a running body calls.           *)
LEMMA NextSweepShape == TypeOK /\ SweepShape /\ OneFate /\ [Next]_vars => SweepShape'
<1> SUFFICES ASSUME TypeOK, SweepShape, OneFate, [Next]_vars PROVE SweepShape'
  OBVIOUS
<1> USE BoundsAssumption DEF TypeOK, Handles, Outcomes, SweepShape
<1>1. ASSUME NEW o \in Objects, NEW f \in Fns \cup {ClosureForm}, NEW d \in -1..MaxDelay,
             CallOut(o, f, d)
      PROVE  SweepShape'
  BY <1>1 DEF CallOut
<1>2. ASSUME NEW o \in Objects, NEW f \in Fns, RemoveCallOutByName(o, f) PROVE SweepShape'
  BY <1>2 DEF RemoveCallOutByName, Without, Cancelled, OneFate
<1>3. ASSUME NEW h \in Handles, RemoveCallOutByHandle(h) PROVE SweepShape'
  BY <1>3 DEF RemoveCallOutByHandle, Without, Cancelled, OneFate
<1>4. ASSUME NEW o \in Objects, RemoveAllCallOutsForObject(o) PROVE SweepShape'
  BY <1>4 DEF RemoveAllCallOutsForObject, Without, Cancelled, OneFate
<1>5. ASSUME NEW o \in Objects, Destruct(o) \/ Free(o) PROVE SweepShape'
  BY <1>5 DEF Destruct, Free
<1>6. CASE PullDue
  BY <1>6 DEF PullDue, Without
<1>7. CASE FireNext
  BY <1>7 DEF FireNext, Without
<1>8. CASE BodyEnds
  BY <1>8 DEF BodyEnds, Without
<1>9. CASE SweepEnds \/ Tick \/ UNCHANGED vars
  BY <1>9 DEF SweepEnds, Tick, vars
<1> QED
  BY <1>1, <1>2, <1>3, <1>4, <1>5, <1>6, <1>7, <1>8, <1>9 DEF Next, Efuns, Sweep

(* No step loses an outstanding handle, doubles it or revives an ended one.  *)
LEMMA NextOneFate == TypeOK /\ SweepShape /\ OneFate /\ [Next]_vars => OneFate'
<1> SUFFICES ASSUME TypeOK, SweepShape, OneFate, [Next]_vars PROVE OneFate'
  OBVIOUS
<1> USE BoundsAssumption DEF TypeOK, Handles, Outcomes, SweepShape, OneFate, Waiting
<1>1. ASSUME NEW o \in Objects, NEW f \in Fns \cup {ClosureForm}, NEW d \in -1..MaxDelay,
             CallOut(o, f, d)
      PROVE  OneFate'
  BY <1>1 DEF CallOut
<1>2. ASSUME NEW o \in Objects, NEW f \in Fns, RemoveCallOutByName(o, f) PROVE OneFate'
  BY <1>2 DEF RemoveCallOutByName, Without, Cancelled
<1>3. ASSUME NEW h \in Handles, RemoveCallOutByHandle(h) PROVE OneFate'
  BY <1>3 DEF RemoveCallOutByHandle, Without, Cancelled
<1>4. ASSUME NEW o \in Objects, RemoveAllCallOutsForObject(o) PROVE OneFate'
  BY <1>4 DEF RemoveAllCallOutsForObject, Without, Cancelled
<1>5. ASSUME NEW o \in Objects, Destruct(o) \/ Free(o) PROVE OneFate'
  BY <1>5 DEF Destruct, Free
<1>6. CASE PullDue
  BY <1>6 DEF PullDue, Without
<1>7. CASE FireNext
  BY <1>7 DEF FireNext, Without
<1>8. CASE BodyEnds
  BY <1>8 DEF BodyEnds, Without
<1>9. CASE SweepEnds \/ Tick \/ UNCHANGED vars
  BY <1>9 DEF SweepEnds, Tick, vars
<1> QED
  BY <1>1, <1>2, <1>3, <1>4, <1>5, <1>6, <1>7, <1>8, <1>9 DEF Next, Efuns, Sweep

(* The pull loop takes every due entry, and later call_outs get later handles. *)
LEMMA NextPulledFirst == TypeOK /\ SweepShape /\ PulledFirst /\ [Next]_vars => PulledFirst'
<1> SUFFICES ASSUME TypeOK, SweepShape, PulledFirst, [Next]_vars PROVE PulledFirst'
  OBVIOUS
<1> USE BoundsAssumption DEF TypeOK, Handles, Entries, PulledFirst
<1>1. ASSUME NEW o \in Objects, NEW f \in Fns \cup {ClosureForm}, NEW d \in -1..MaxDelay,
             CallOut(o, f, d)
      PROVE  PulledFirst'
  BY <1>1 DEF CallOut, SweepShape
<1>2. ASSUME NEW o \in Objects, NEW f \in Fns, RemoveCallOutByName(o, f) PROVE PulledFirst'
  BY <1>2 DEF RemoveCallOutByName, Without
<1>3. ASSUME NEW h \in Handles, RemoveCallOutByHandle(h) PROVE PulledFirst'
  BY <1>3 DEF RemoveCallOutByHandle, Without
<1>4. ASSUME NEW o \in Objects, RemoveAllCallOutsForObject(o) PROVE PulledFirst'
  BY <1>4 DEF RemoveAllCallOutsForObject, Without
<1>5. ASSUME NEW o \in Objects, Destruct(o) \/ Free(o) PROVE PulledFirst'
  BY <1>5 DEF Destruct, Free
<1>6. CASE PullDue
  BY <1>6 DEF PullDue, Without
<1>7. CASE FireNext
  BY <1>7 DEF FireNext, Without
<1>8. CASE BodyEnds
  BY <1>8 DEF BodyEnds, Without
<1>9. CASE SweepEnds \/ Tick \/ UNCHANGED vars
  BY <1>9 DEF SweepEnds, Tick, vars
<1> QED
  BY <1>1, <1>2, <1>3, <1>4, <1>5, <1>6, <1>7, <1>8, <1>9 DEF Next, Efuns, Sweep

(* The invariant behind everything below holds in every reachable state.    *)
THEOREM IInvHolds == Spec => []IInv
<1>1. Init => IInv
  BY InitIInv
<1>2. IInv /\ [Next]_vars => IInv'
  BY NextTypeOK, NextSweepShape, NextOneFate, NextPulledFirst DEF IInv
<1> QED
  BY <1>1, <1>2, PTL DEF Spec

(* Every variable of the call_out table keeps its type.                     *)
THEOREM TypeCorrect == Spec => []TypeOK
  BY IInvHolds, PTL DEF IInv

(* No call_out is lost and none is doubled, whatever bodies do in mid-sweep. *)
THEOREM FateTheorem == Spec => []OneFate
  BY IInvHolds, PTL DEF IInv

(* What the sweep holds was due and is ahead of what it left behind.        *)
THEOREM PullTheorem == Spec => []PulledFirst
  BY IInvHolds, PTL DEF IInv

(* Only FireNext starts a body.                                             *)
LEMMA OnlyFireNextStarts ==
    ASSUME TypeOK, [Next]_vars, NEW h \in Handles, BodyStarts(h)
    PROVE  /\ FireNext /\ IsFirst(h, DOMAIN due) /\ running = 0
           /\ status[due[h].owner] = "live"
<1> USE DEF BodyStarts, Handles
<1>1. ASSUME NEW o \in Objects, NEW f \in Fns \cup {ClosureForm}, NEW d \in -1..MaxDelay,
             CallOut(o, f, d)
      PROVE  FALSE
  BY <1>1 DEF CallOut
<1>2. ASSUME NEW o \in Objects, NEW f \in Fns, RemoveCallOutByName(o, f) PROVE FALSE
  BY <1>2 DEF RemoveCallOutByName
<1>3. ASSUME NEW g \in Handles, RemoveCallOutByHandle(g) PROVE FALSE
  BY <1>3 DEF RemoveCallOutByHandle
<1>4. ASSUME NEW o \in Objects, RemoveAllCallOutsForObject(o) \/ Destruct(o) \/ Free(o) PROVE FALSE
  BY <1>4 DEF RemoveAllCallOutsForObject, Destruct, Free
<1>5. ~PullDue /\ ~BodyEnds /\ ~SweepEnds /\ ~Tick /\ ~UNCHANGED vars
  BY DEF PullDue, BodyEnds, SweepEnds, Tick, vars
<1>6. FireNext
  BY <1>1, <1>2, <1>3, <1>4, <1>5 DEF Next, Efuns, Sweep
<1>7. PICK g \in DOMAIN due :
         /\ IsFirst(g, DOMAIN due)
         /\ running' = IF status[due[g].owner] = "live" THEN g ELSE 0
  BY <1>6, Zenon DEF FireNext
<1>8. running = 0
  BY <1>6 DEF FireNext
<1> QED
  BY <1>6, <1>7, <1>8

(* Call_outs never overtake each other.                                     *)
THEOREM NoOvertakingTheorem == Spec => NoOvertaking
<1>1. IInv /\ [Next]_vars => [StartsInOrder]_vars
  <2> SUFFICES ASSUME IInv, [Next]_vars, NEW h \in Handles, BodyStarts(h),
                      NEW g \in DOMAIN callOuts \cup Waiting, g < h
               PROVE  DueAt(g) > DueAt(h)
    BY DEF StartsInOrder
  <2>1. IsFirst(h, DOMAIN due) /\ running = 0
    BY OnlyFireNextStarts DEF IInv
  <2>2. g \in DOMAIN callOuts /\ h \in DOMAIN due /\ h \notin DOMAIN callOuts
    BY <2>1 DEF IsFirst, Waiting, IInv, TypeOK, OneFate, Handles
  <2>3. DueAt(g) = callOuts[g].dueAt /\ DueAt(h) = due[h].dueAt
    BY <2>1, <2>2 DEF DueAt, Waiting, Handles
  <2> QED
    BY <2>2, <2>3 DEF IInv, PulledFirst
<1> QED
  BY <1>1, IInvHolds, PTL DEF Spec, NoOvertaking

(* A body runs only for an owner live when its turn comes.                  *)
THEOREM LiveOwnersTheorem == Spec => OnlyLiveOwnersRun
<1>1. IInv /\ [Next]_vars => [StartsLive]_vars
  BY OnlyFireNextStarts DEF StartsLive, IInv, IsFirst
<1> QED
  BY <1>1, IInvHolds, PTL DEF Spec, OnlyLiveOwnersRun

(* Only the firing loop's own steps touch the vector and the running body    *)
(* of a sweep that goes on.                                                 *)
LEMMA OnlyLoopWorks ==
    ASSUME [Next]_vars, phase = "sweep", phase' = "sweep"
    PROVE  FireNext \/ BodyEnds \/ UNCHANGED <<due, running>>
<1>1. ASSUME NEW o \in Objects, NEW f \in Fns \cup {ClosureForm}, NEW d \in -1..MaxDelay,
             CallOut(o, f, d)
      PROVE  UNCHANGED <<due, running>>
  BY <1>1 DEF CallOut
<1>2. ASSUME NEW o \in Objects, NEW f \in Fns, RemoveCallOutByName(o, f)
      PROVE  UNCHANGED <<due, running>>
  BY <1>2 DEF RemoveCallOutByName
<1>3. ASSUME NEW h \in Handles, RemoveCallOutByHandle(h) PROVE UNCHANGED <<due, running>>
  BY <1>3 DEF RemoveCallOutByHandle
<1>4. ASSUME NEW o \in Objects, RemoveAllCallOutsForObject(o) \/ Destruct(o) \/ Free(o)
      PROVE  UNCHANGED <<due, running>>
  BY <1>4 DEF RemoveAllCallOutsForObject, Destruct, Free
<1>5. ~PullDue /\ ~SweepEnds
  BY DEF PullDue, SweepEnds
<1>6. Tick \/ UNCHANGED vars => UNCHANGED <<due, running>>
  BY DEF Tick, vars
<1> QED
  BY <1>1, <1>2, <1>3, <1>4, <1>5, <1>6 DEF Next, Efuns, Sweep

(* The vector is finite, and finishing with an entry leaves one fewer.      *)
LEMMA OneFewer ==
    ASSUME TypeOK, NEW h \in DOMAIN due
    PROVE  /\ Cardinality(DOMAIN due) \in Nat
           /\ DOMAIN Without(due, {h}) = DOMAIN due \ {h}
           /\ Cardinality(DOMAIN due \ {h}) = Cardinality(DOMAIN due) - 1
<1>1. IsFiniteSet(1..MaxHandle)
  BY BoundsAssumption, FS_Interval
<1>2. IsFiniteSet(DOMAIN due)
  BY <1>1, FS_Subset DEF TypeOK, Handles
<1> QED
  BY <1>2, FS_CardinalityType, FS_RemoveElement DEF Without

(* A sweep is finite: nothing bodies do adds to the work it has left, and    *)
(* every step of the firing loop takes some of it away.                     *)
THEOREM SweepsEndTheorem == Spec => [][SweepRunsOut]_vars
<1>1. IInv /\ [Next]_vars => [SweepRunsOut]_vars
  <2> SUFFICES ASSUME IInv, [Next]_vars, phase = "sweep", phase' = "sweep",
                      <<due, running>>' # <<due, running>>
               PROVE  DOMAIN due' \subseteq DOMAIN due /\ SweepLeft' < SweepLeft
    BY DEF SweepRunsOut
  <2>1. FireNext \/ BodyEnds
    BY OnlyLoopWorks
  <2>2. CASE FireNext
    <3>1. PICK h \in DOMAIN due :
             \/ running' = h /\ due' = due
             \/ running' = 0 /\ due' = Without(due, {h})
      BY <2>2, Zenon DEF FireNext
    <3>2. running = 0 /\ h # 0
      BY <2>2, BoundsAssumption DEF FireNext, IInv, TypeOK, Handles
    <3>3. /\ Cardinality(DOMAIN due) \in Nat
          /\ DOMAIN Without(due, {h}) = DOMAIN due \ {h}
          /\ Cardinality(DOMAIN due \ {h}) = Cardinality(DOMAIN due) - 1
      BY <3>1, OneFewer DEF IInv
    <3>4. SweepLeft = 2 * Cardinality(DOMAIN due)
      BY <3>2, <3>3 DEF SweepLeft
    <3>5. CASE running' = h /\ due' = due
      <4>1. SweepLeft' = 2 * Cardinality(DOMAIN due) - 1
        BY <3>2, <3>5 DEF SweepLeft
      <4> QED
        BY <3>3, <3>4, <3>5, <4>1
    <3>6. CASE running' = 0 /\ due' = Without(due, {h})
      <4>1. DOMAIN due' = DOMAIN due \ {h}
        BY <3>3, <3>6
      <4>2. SweepLeft' = 2 * Cardinality(DOMAIN due \ {h})
        BY <3>3, <3>6, <4>1 DEF SweepLeft
      <4> QED
        BY <3>3, <3>4, <4>1, <4>2
    <3> QED
      BY <3>1, <3>5, <3>6
  <2>3. CASE BodyEnds
    <3>1. /\ running # 0 /\ running' = 0 /\ running \in DOMAIN due
          /\ due' = Without(due, {running})
      BY <2>3 DEF BodyEnds, IInv, SweepShape
    <3>2. /\ Cardinality(DOMAIN due) \in Nat
          /\ DOMAIN due' = DOMAIN due \ {running}
          /\ Cardinality(DOMAIN due \ {running}) = Cardinality(DOMAIN due) - 1
      BY <3>1, OneFewer DEF IInv
    <3>3. /\ SweepLeft = 2 * Cardinality(DOMAIN due) - 1
          /\ SweepLeft' = 2 * Cardinality(DOMAIN due \ {running})
      BY <3>1, <3>2 DEF SweepLeft
    <3> QED
      BY <3>2, <3>3
  <2> QED
    BY <2>1, <2>2, <2>3
<1> QED
  BY <1>1, IInvHolds, PTL DEF Spec

(* The contract starts where the table starts.                              *)
LEMMA ContractStart == Init => Contract!ContractInit
  BY DEF Init, Contract!ContractInit, Contract!Handles, Handles, FateOf, DueAt, Waiting

(* Cancelling a set of entries of callOuts_ is the contract's Cancel.       *)
LEMMA CancelStep ==
    ASSUME IInv, NEW S, S \subseteq DOMAIN callOuts,
           callOuts' = Without(callOuts, S), outcome' = Cancelled(S),
           UNCHANGED <<due, running, nextHandle, now>>
    PROVE  Contract!Cancel(S)
<1> USE DEF IInv, TypeOK, SweepShape, OneFate, Handles, Waiting
<1>1. \A h \in S : FateOf(h) = "pending"
  BY DEF FateOf
<1>2. \A h \in Handles : FateOf(h)' = IF h \in S THEN "cancelled" ELSE FateOf(h)
  BY DEF FateOf, Without, Cancelled
<1>3. \A h \in Handles : DueAt(h)' = IF h \in S THEN 0 ELSE DueAt(h)
  BY DEF DueAt, Without
<1> QED
  BY <1>1, <1>2, <1>3 DEF Contract!Cancel, Contract!Handles

(* Every step of the table and its sweep is a step of the contract or none  *)
(* the contract sees.                                                       *)
LEMMA ContractStep ==
    IInv /\ [Next]_vars => [Contract!ContractNext]_(Contract!contractVars)
<1> SUFFICES ASSUME IInv, [Next]_vars
             PROVE  Contract!ContractNext \/ UNCHANGED Contract!contractVars
  OBVIOUS
<1> USE DEF Handles
<1>a. ASSUME NEW S \in SUBSET Handles, Contract!Cancel(S) PROVE Contract!ContractNext
  BY <1>a DEF Contract!ContractNext, Contract!Handles
<1>b. ASSUME \A h \in Handles : FateOf(h)' = FateOf(h) /\ DueAt(h)' = DueAt(h), now' = now
      PROVE  UNCHANGED Contract!contractVars
  BY <1>b DEF Contract!contractVars
<1>1. ASSUME NEW o \in Objects, NEW f \in Fns \cup {ClosureForm}, NEW d \in -1..MaxDelay,
             CallOut(o, f, d)
      PROVE  Contract!Make(nextHandle)
  <2> USE DEF IInv, TypeOK, SweepShape, Waiting
  <2>1. nextHandle \in Handles /\ FateOf(nextHandle) = "unused"
    BY <1>1, BoundsAssumption DEF CallOut, FateOf
  <2>2. \A g \in Handles : g > nextHandle => FateOf(g) = "unused"
    BY DEF FateOf
  <2>3. \A h \in Handles : FateOf(h)' = IF h = nextHandle THEN "pending" ELSE FateOf(h)
    BY <1>1 DEF FateOf, CallOut
  <2>4. \A h \in Handles : h # nextHandle => DueAt(h)' = DueAt(h)
    BY <1>1 DEF DueAt, CallOut
  <2>5. now + AtLeastZero(d) >= now
    BY BoundsAssumption DEF AtLeastZero
  <2>6. \A h \in Handles : h = nextHandle => DueAt(h)' = now + AtLeastZero(d)
    BY <1>1 DEF DueAt, CallOut
  <2>7. /\ [h \in Handles |-> FateOf(h)'] =
             [[h \in Handles |-> FateOf(h)] EXCEPT ![nextHandle] = "pending"]
        /\ [h \in Handles |-> DueAt(h)'] =
             [[h \in Handles |-> DueAt(h)] EXCEPT ![nextHandle] = now + AtLeastZero(d)]
    BY <2>1, <2>3, <2>4, <2>6
  <2> HIDE DEF IInv, TypeOK, SweepShape, Waiting
  <2>8. now' = now
    BY <1>1 DEF CallOut
  <2> QED
    BY <2>1, <2>2, <2>5, <2>6, <2>7, <2>8 DEF Contract!Make, Contract!Handles
<1>2. ASSUME NEW o \in Objects, NEW f \in Fns, RemoveCallOutByName(o, f)
      PROVE  Contract!ContractNext
  <2>1. PICK h \in DOMAIN callOuts :
           callOuts' = Without(callOuts, {h}) /\ outcome' = Cancelled({h})
    BY <1>2, Zenon DEF RemoveCallOutByName
  <2>2. Contract!Cancel({h})
    BY <1>2, <2>1, CancelStep DEF RemoveCallOutByName
  <2> QED
    BY <1>a, <2>2 DEF IInv, TypeOK
<1>3. ASSUME NEW h \in Handles, RemoveCallOutByHandle(h) PROVE Contract!ContractNext
  <2>1. callOuts' = Without(callOuts, DOMAIN callOuts \cap {h})
    BY <1>3 DEF RemoveCallOutByHandle, Without, IInv, TypeOK
  <2>2. Contract!Cancel(DOMAIN callOuts \cap {h})
    BY <1>3, <2>1, CancelStep DEF RemoveCallOutByHandle
  <2> QED
    BY <1>a, <2>2
<1>4. ASSUME NEW o \in Objects, RemoveAllCallOutsForObject(o) PROVE Contract!ContractNext
  <2> DEFINE gone == {h \in DOMAIN callOuts :
                        callOuts[h].owner = o \/ status[callOuts[h].owner] # "live"}
  <2>1. /\ callOuts' = Without(callOuts, gone) /\ outcome' = Cancelled(gone)
        /\ UNCHANGED <<due, running, nextHandle, now>>
    BY <1>4 DEF RemoveAllCallOutsForObject
  <2>2. gone \subseteq DOMAIN callOuts /\ DOMAIN callOuts \subseteq Handles
    BY DEF IInv, TypeOK
  <2> HIDE DEF gone
  <2>3. Contract!Cancel(gone)
    BY <2>1, <2>2, CancelStep
  <2> QED
    BY <1>a, <2>2, <2>3
<1>5. ASSUME NEW o \in Objects, Destruct(o) \/ Free(o) PROVE UNCHANGED Contract!contractVars
  BY <1>5, <1>b DEF Destruct, Free, FateOf, DueAt, Waiting
<1>6. CASE PullDue
  <2> DEFINE S == {h \in DOMAIN callOuts : callOuts[h].dueAt <= now}
  <2> USE DEF IInv, TypeOK, SweepShape, OneFate, Waiting
  <2>1. \A h \in S : FateOf(h) = "pending" /\ DueAt(h) <= now
    BY DEF FateOf, DueAt
  <2>2. running = 0 /\ DOMAIN due = {}
    BY <1>6 DEF PullDue
  <2>3. \A h \in Handles : FateOf(h)' = IF h \in S THEN "committed" ELSE FateOf(h)
    BY <1>6, <2>2 DEF PullDue, FateOf, Without
  <2>4. \A h \in Handles : DueAt(h)' = DueAt(h)
    BY <1>6, <2>2 DEF PullDue, DueAt, Without
  <2>5. S \in SUBSET Handles /\ now' = now
    BY <1>6 DEF PullDue
  <2> HIDE DEF S, IInv, TypeOK, SweepShape, OneFate, Waiting
  <2>6. Contract!Commit(S)
    BY <2>1, <2>3, <2>4, <2>5 DEF Contract!Commit, Contract!Handles
  <2> QED
    BY <2>5, <2>6 DEF Contract!ContractNext, Contract!Handles
<1>7. CASE FireNext
  <2> USE DEF IInv, TypeOK, SweepShape, OneFate, Waiting
  <2>1. PICK h \in DOMAIN due :
           /\ IsFirst(h, DOMAIN due)
           /\ \/ /\ running' = h /\ due' = due /\ outcome' = [outcome EXCEPT ![h] = "fired"]
              \/ /\ running' = 0 /\ due' = Without(due, {h})
                 /\ outcome' = [outcome EXCEPT ![h] = "dropped"]
    BY <1>7, Zenon DEF FireNext
  <2>2. /\ running = 0 /\ h \in Handles /\ h # 0 /\ h \notin DOMAIN callOuts /\ h < nextHandle
        /\ UNCHANGED <<callOuts, nextHandle, now>>
    BY <1>7 DEF FireNext
  <2>3. FateOf(h) = "committed"
    BY <2>2 DEF FateOf
  <2>4. \A g \in Handles : g # h => FateOf(g)' = FateOf(g) /\ DueAt(g)' = DueAt(g)
    <3>1. ASSUME NEW g \in Handles, g # h
          PROVE  /\ g \in Waiting' <=> g \in Waiting
                 /\ g \in Waiting => due'[g] = due[g]
                 /\ outcome'[g] = outcome[g]
      <4> DEFINE SameWait == /\ g \in Waiting' <=> g \in Waiting
                             /\ g \in Waiting => due'[g] = due[g]
      <4>1. g # 0
        OBVIOUS
      <4>2. outcome'[g] = outcome[g]
        <5> HIDE DEF IInv, SweepShape, OneFate, Waiting, Handles, TypeOK
        <5>1. outcome \in [Handles -> Outcomes]
          BY DEF IInv, TypeOK
        <5> QED
          BY <5>1, <2>1, <3>1, Zenon
      <4>3. ASSUME due' = due, running' = h PROVE SameWait
        BY <4>1, <4>3, <2>2, <3>1
      <4>4. ASSUME due' = Without(due, {h}), running' = 0 PROVE SameWait
        BY <4>1, <4>4, <2>2, <3>1 DEF Without
      <4> QED
        BY <2>1, <4>2, <4>3, <4>4
    <3> HIDE DEF Waiting
    <3> QED
      BY <2>2, <3>1 DEF FateOf, DueAt
  <2>5. DueAt(h)' = 0
    BY <2>1, <2>2 DEF DueAt, Without
  <2>6. \A g \in Handles : g < h /\ FateOf(g) \in {"pending", "committed"} => DueAt(g) > DueAt(h)
    <3> SUFFICES ASSUME NEW g \in Handles, g < h, FateOf(g) \in {"pending", "committed"}
                 PROVE  DueAt(g) > DueAt(h)
      OBVIOUS
    <3>1. g \notin DOMAIN due /\ DueAt(h) = due[h].dueAt
      BY <2>1, <2>2 DEF IsFirst, DueAt
    <3>2. g \in DOMAIN callOuts
      BY <3>1, <2>2 DEF FateOf, Outcomes
    <3> QED
      BY <3>1, <3>2 DEF DueAt, PulledFirst
  <2>7. FateOf(h)' = "fired" \/ FateOf(h)' = "dropped"
    BY <2>1, <2>2 DEF FateOf, Without
  <2> HIDE DEF IInv, TypeOK, SweepShape, OneFate, Waiting
  <2>8. CASE FateOf(h)' = "fired"
    <3>1. Contract!Run(h)
      BY <2>2, <2>3, <2>4, <2>5, <2>6, <2>8
         DEF Contract!Run, Contract!Handles, Contract!Outstanding
    <3> QED
      BY <2>2, <3>1 DEF Contract!ContractNext, Contract!Handles
  <2>9. CASE FateOf(h)' = "dropped"
    <3>1. Contract!Drop(h)
      BY <2>2, <2>3, <2>4, <2>5, <2>9 DEF Contract!Drop, Contract!Handles
    <3> QED
      BY <2>2, <3>1 DEF Contract!ContractNext, Contract!Handles
  <2> QED
    BY <2>7, <2>8, <2>9
<1>8. CASE BodyEnds
  BY <1>8, <1>b DEF BodyEnds, Without, FateOf, DueAt, Waiting, IInv, TypeOK, SweepShape
<1>9. CASE SweepEnds \/ UNCHANGED vars
  BY <1>9, <1>b DEF SweepEnds, vars, FateOf, DueAt, Waiting
<1>10. CASE Tick
  <2>1. \A h \in Handles : FateOf(h)' = FateOf(h) /\ DueAt(h)' = DueAt(h)
    BY <1>10 DEF Tick, FateOf, DueAt, Waiting
  <2>2. now' > now
    BY <1>10, BoundsAssumption DEF Tick, IInv, TypeOK
  <2> QED
    BY <2>1, <2>2 DEF Contract!ContractNext, Contract!Pass
<1>11. nextHandle \in Handles /\ Contract!Make(nextHandle) => Contract!ContractNext
  BY DEF Contract!ContractNext, Contract!Handles
<1>12. ASSUME NEW o \in Objects, NEW f \in Fns \cup {ClosureForm}, NEW d \in -1..MaxDelay,
              CallOut(o, f, d)
       PROVE  Contract!ContractNext
  BY <1>1, <1>11, <1>12, BoundsAssumption DEF CallOut, IInv, TypeOK
<1> QED
  BY <1>2, <1>3, <1>4, <1>5, <1>6, <1>7, <1>8, <1>9, <1>10, <1>12 DEF Next, Efuns, Sweep

(* The call_out table and its sweep implement the contract.                 *)
THEOREM ContractTheorem == Spec => ImplementsContract
  BY ContractStart, ContractStep, IInvHolds, PTL DEF Spec, ImplementsContract, Contract!ContractSpec
==============================================================================
