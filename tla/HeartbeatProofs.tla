--------------------------- MODULE HeartbeatProofs ---------------------------
(* Theorems about Heartbeats, for any objects, any width of int and any      *)
(* arguments.                                                                *)
EXTENDS Heartbeats, TLAPS

(* Truncation lands in the range of an int.                                  *)
LEMMA ToIntType == \A n \in Int : ToInt(n) \in Ints
  BY IntAssumption DEF ToInt, Ints

(* During a cycle only an object of its snapshot beats, and it has not been  *)
(* finished with.                                                            *)
CycleShape ==
    /\ beating # NoObject => beating \in due \ done
    /\ phase = "idle" => due = {}

(* What holds whatever arguments set_heart_beat() is given.                  *)
AnyInv == TypeOK /\ CycleShape /\ GiverBalanced

(* The empty list satisfies the invariant.                                   *)
LEMMA InitAnyInv == Init => AnyInv
<1> SUFFICES ASSUME Init PROVE AnyInv
  OBVIOUS
<1>1. Listed = {} /\ ticks \in [Listed -> Ints]
  <2>1. [o \in {} |-> 0] \in [{} -> Ints]
    OBVIOUS
  <2> QED
    BY <2>1, Zenon DEF Init, Listed
<1>2. TypeOK
  BY <1>1, IntAssumption DEF Init, TypeOK, Ints
<1> QED
  BY <1>2 DEF Init, AnyInv, CycleShape, GiverBalanced

(* Every step keeps the types, the shape of the cycle and the giver stack.   *)
LEMMA NextAnyInv == AnyInv /\ [Next]_vars => AnyInv'
<1> SUFFICES ASSUME AnyInv, [Next]_vars PROVE AnyInv'
  OBVIOUS
<1> USE IntAssumption DEF AnyInv, TypeOK, CycleShape
<1>1. ASSUME NEW o \in Objects, NEW to \in Arguments, SetHeartBeat(o, to) PROVE AnyInv'
  <2>1. ToInt(to) \in Ints /\ 1 \in Ints /\ 0 \in Ints
    BY ToIntType DEF Ints
  <2> HIDE DEF TypeOK
  <2>2. UNCHANGED <<status, due, done, beating, phase, givers>>
    BY <1>1 DEF SetHeartBeat
  <2>3. \/ Disable(o) \/ UNCHANGED <<interval, ticks, since>>
        \/ \E n \in Ints : (o \in Listed /\ Update(o, n)) \/ Enable(o, n)
    BY <1>1, <2>1 DEF SetHeartBeat
  <2> DEFINE Typed == /\ interval' \in [Objects -> Ints] /\ since' \in [Objects -> Nat]
                      /\ Listed' \subseteq Objects /\ ticks' \in [Listed' -> Ints]
  <2>4. CASE Disable(o)
    <3>1. Typed
      BY <2>1, <2>4 DEF Disable, TypeOK, Listed
    <3> QED
      BY <2>2, <3>1 DEF TypeOK, GiverBalanced
  <2>5. ASSUME NEW n \in Ints, o \in Listed, Update(o, n) PROVE AnyInv'
    <3>1. Typed
      BY <2>5 DEF Update, TypeOK, Listed
    <3> QED
      BY <2>2, <3>1 DEF TypeOK, GiverBalanced
  <2>6. ASSUME NEW n \in Ints, Enable(o, n) PROVE AnyInv'
    <3>1. Listed' = Listed \cup {o}
      BY <2>6 DEF Enable, Listed
    <3>2. ticks' \in [Listed' -> Ints]
      BY <2>6, <3>1, Zenon DEF Enable, TypeOK
    <3>3. Typed
      BY <2>6, <3>1, <3>2 DEF Enable, TypeOK
    <3> QED
      BY <2>2, <3>3 DEF TypeOK, GiverBalanced
  <2>7. CASE UNCHANGED <<interval, ticks, since>>
    BY <2>2, <2>7 DEF TypeOK, GiverBalanced, Listed
  <2> QED
    BY <2>3, <2>4, <2>5, <2>6, <2>7
<1>2. ASSUME NEW o \in Objects, Destruct(o) \/ Free(o) PROVE AnyInv'
  BY <1>2 DEF Destruct, Free, GiverBalanced, Listed
<1>3. CASE CountDown
  <2> DEFINE kept == {o \in Listed : status[o] # "freed"}
  <2>1. PICK wraps \in SUBSET {o \in Listed : ticks[o] = -IntHalf} :
          LET fires == {o \in kept \ wraps : ticks[o] - 1 < 1}
          IN  /\ ticks' = [o \in kept |-> IF o \in fires THEN interval[o]
                                          ELSE IF o \in wraps THEN IntHalf - 1
                                          ELSE ticks[o] - 1]
              /\ due' = fires
              /\ since' = [o \in Objects |-> IF o \in kept \ fires THEN since[o] + 1 ELSE 0]
    BY <1>3, Zenon DEF CountDown
  <2>2. Listed' = kept
    BY <2>1 DEF Listed
  <2>3. \A o \in kept : ticks'[o] \in Ints
    BY <2>1 DEF Ints
  <2>4. ticks' \in [Listed' -> Ints]
    BY <2>1, <2>2, <2>3, Zenon
  <2>5. /\ done = {} /\ beating = NoObject
        /\ phase' = "cycle" /\ UNCHANGED <<status, interval, done, beating, givers>>
    BY <1>3 DEF CountDown
  <2>6. due' \subseteq Objects /\ since' \in [Objects -> Nat]
    BY <2>1
  <2> QED
    BY <2>2, <2>4, <2>5, <2>6 DEF GiverBalanced
<1>4. ASSUME NEW o \in Objects, BeatStarts(o) PROVE AnyInv'
  <2>1. GiverBalanced'
    BY <1>4, ObjectsAssumption DEF BeatStarts, GiverBalanced
  <2> QED
    BY <1>4, <2>1, ObjectsAssumption DEF BeatStarts, Listed
<1>5. ASSUME NEW o \in Objects, BeatSkips(o) PROVE AnyInv'
  BY <1>5 DEF BeatSkips, GiverBalanced, Listed
<1>6. CASE BeatReturns \/ BeatThrows
  <2>1. GiverBalanced'
    BY <1>6, ObjectsAssumption DEF BeatReturns, BeatThrows, GiverBalanced, Pop
  <2> QED
    BY <1>6, <2>1 DEF BeatReturns, BeatThrows, Listed
<1>7. CASE CycleEnds \/ UNCHANGED vars
  BY <1>7 DEF CycleEnds, GiverBalanced, vars, Listed
<1> QED
  BY <1>1, <1>2, <1>3, <1>4, <1>5, <1>6, <1>7 DEF Next, Turn

(* Types, the cycle's shape and the giver stack hold in every state.         *)
THEOREM AnyInvHolds == Spec => []AnyInv
<1>1. Init => AnyInv
  BY InitAnyInv
<1>2. AnyInv /\ [Next]_vars => AnyInv'
  BY NextAnyInv
<1> QED
  BY <1>1, <1>2, PTL DEF Spec

(* Every variable of the heart_beat list keeps its type, for any argument.   *)
THEOREM HeartbeatTypes == Spec => []TypeOK
  BY AnyInvHolds, PTL DEF AnyInv

(* tickHeartbeats() leaves the command giver stack as it found it, and has   *)
(* the beating object's giver on it meanwhile, errors included.              *)
THEOREM GiverTheorem == Spec => []GiverBalanced
  BY AnyInvHolds, PTL DEF AnyInv

(* heart_beat() is called on live objects only, at most once a cycle.        *)
THEOREM LiveBeatTheorem == Spec => OnlyLiveBeat
<1>1. AnyInv /\ [Next]_vars => [CalledLiveOnce]_vars
  <2> SUFFICES ASSUME AnyInv, [Next]_vars, NEW o \in Objects, BeatBegins(o)
               PROVE  status[o] = "live" /\ o \notin done
    BY DEF CalledLiveOnce
  <2> USE ObjectsAssumption DEF BeatBegins
  <2>1. o # NoObject
    OBVIOUS
  <2>2. ~CountDown /\ ~BeatReturns /\ ~BeatThrows /\ ~CycleEnds /\ ~UNCHANGED vars
    BY <2>1 DEF CountDown, BeatReturns, BeatThrows, CycleEnds, vars
  <2>3. \A x \in Objects : ~Destruct(x) /\ ~Free(x) /\ ~BeatSkips(x)
    BY <2>1 DEF Destruct, Free, BeatSkips
  <2>4. \A x \in Objects, to \in Arguments : ~SetHeartBeat(x, to)
    BY <2>1 DEF SetHeartBeat
  <2>5. PICK x \in Objects : BeatStarts(x)
    BY <2>2, <2>3, <2>4 DEF Next, Turn
  <2> QED
    BY <2>5 DEF BeatStarts
<1> QED
  BY <1>1, AnyInvHolds, PTL DEF Spec, OnlyLiveBeat

-----------------------------------------------------------------------------
(* Only intervals of at least 1 get into the list when no argument is        *)
(* truncated; a freed object's entry keeps its cadence until it is pruned.   *)
ListInv == EnabledIffListed /\ CadenceKept

(* Every step keeps the list in step with the intervals, if the arguments    *)
(* fit an int.                                                               *)
LEMMA NextListInv ==
    ASSUME Arguments \subseteq Ints, AnyInv, ListInv, [Next]_vars
    PROVE  ListInv'
<1> USE IntAssumption DEF AnyInv, TypeOK, ListInv, EnabledIffListed, CadenceKept
<1>1. ASSUME NEW o \in Objects, NEW to \in Arguments, SetHeartBeat(o, to) PROVE ListInv'
  <2>1. ToInt(to) = to /\ to \in Int
    BY DEF ToInt, Ints
  <2>2. status' = status
    BY <1>1 DEF SetHeartBeat
  <2>3. CASE Disable(o)
    BY <2>2, <2>3 DEF Disable, Listed
  <2>4. ASSUME o \in Listed, to > 0, Update(o, to) PROVE ListInv'
    BY <2>1, <2>2, <2>4 DEF Update, Listed
  <2>5. ASSUME NEW n \in Int, n > 0, Enable(o, n) PROVE ListInv'
    <3>1. Listed' = Listed \cup {o}
      BY <2>5 DEF Enable, Listed
    <3>2. /\ ticks'[o] = n /\ interval'[o] = n /\ since'[o] = 0
          /\ \A x \in Objects \ {o} : interval'[x] = interval[x] /\ since'[x] = since[x]
          /\ \A x \in Listed \ {o} : ticks'[x] = ticks[x]
      BY <2>5, Zenon DEF Enable
    <3> QED
      BY <2>2, <2>5, <3>1, <3>2
  <2>6. CASE UNCHANGED <<interval, ticks, since>>
    BY <2>2, <2>6 DEF Listed
  <2> QED
    BY <1>1, <2>1, <2>3, <2>4, <2>5, <2>6 DEF SetHeartBeat
<1>2. ASSUME NEW o \in Objects, Destruct(o) \/ Free(o) PROVE ListInv'
  BY <1>2 DEF Destruct, Free, Listed
<1>3. CASE CountDown
  <2> DEFINE kept == {o \in Listed : status[o] # "freed"}
             fires == {o \in kept : ticks[o] - 1 < 1}
  <2>1. {o \in Listed : ticks[o] = -IntHalf} = {}
    OBVIOUS
  <2>2. PICK wraps \in SUBSET {o \in Listed : ticks[o] = -IntHalf} :
          LET f == {o \in kept \ wraps : ticks[o] - 1 < 1}
          IN  /\ ticks' = [o \in kept |-> IF o \in f THEN interval[o]
                                          ELSE IF o \in wraps THEN IntHalf - 1
                                          ELSE ticks[o] - 1]
              /\ since' = [o \in Objects |-> IF o \in kept \ f THEN since[o] + 1 ELSE 0]
    BY <1>3, Zenon DEF CountDown
  <2>3. Listed' = kept
    BY <2>2 DEF Listed
  <2>4. UNCHANGED <<status, interval>>
    BY <1>3 DEF CountDown
  <2>5. \A o \in kept : /\ o \in fires => ticks'[o] = interval[o] /\ since'[o] = 0
                        /\ o \notin fires => ticks'[o] = ticks[o] - 1 /\ since'[o] = since[o] + 1
    <3> SUFFICES ASSUME NEW o \in kept
                 PROVE  /\ o \in fires => ticks'[o] = interval[o] /\ since'[o] = 0
                        /\ o \notin fires => ticks'[o] = ticks[o] - 1 /\ since'[o] = since[o] + 1
      OBVIOUS
    <3>1. o \notin wraps /\ o \in Objects
      BY <2>1
    <3>2. o \in fires <=> o \in {x \in kept \ wraps : ticks[x] - 1 < 1}
      BY <3>1
    <3>3. /\ ticks'[o] = IF o \in fires THEN interval[o] ELSE ticks[o] - 1
          /\ since'[o] = IF o \in fires THEN 0 ELSE since[o] + 1
      <4> HIDE DEF kept, fires, AnyInv, TypeOK, ListInv, EnabledIffListed, CadenceKept
      <4> QED
        BY <2>2, <3>1, <3>2, Zenon
    <3> QED
      BY <3>3
  <2>6. EnabledIffListed'
    BY <2>3, <2>4
  <2>7. ASSUME NEW o \in kept
        PROVE  ticks'[o] >= 1 /\ since'[o] + ticks'[o] = interval[o]
    <3>1. /\ ticks[o] \in Int /\ since[o] \in Nat /\ interval[o] \in Int
          /\ ticks[o] >= 1 /\ since[o] + ticks[o] = interval[o]
          /\ o \in fires <=> ticks[o] - 1 < 1
      BY DEF Ints
    <3> HIDE DEF AnyInv, TypeOK, ListInv, EnabledIffListed, CadenceKept, kept, fires
    <3> QED
      BY <2>5, <3>1
  <2> QED
    BY <2>3, <2>4, <2>6, <2>7
<1>4. ASSUME NEW o \in Objects, BeatStarts(o) \/ BeatSkips(o) PROVE ListInv'
  BY <1>4 DEF BeatStarts, BeatSkips, Listed
<1>5. CASE BeatReturns \/ BeatThrows \/ CycleEnds \/ UNCHANGED vars
  BY <1>5 DEF BeatReturns, BeatThrows, CycleEnds, vars, Listed
<1> QED
  BY <1>1, <1>2, <1>3, <1>4, <1>5 DEF Next, Turn

(* As long as set_heart_beat() is given arguments that fit an int, the list  *)
(* and the intervals agree and every object beats at the rate it asked for.  *)
THEOREM CadenceTheorem ==
    ASSUME Arguments \subseteq Ints
    PROVE  Spec => [](EnabledIffListed /\ CadenceKept)
<1>1. Init => ListInv
  BY DEF Init, ListInv, EnabledIffListed, CadenceKept, Listed
<1>2. AnyInv /\ ListInv /\ [Next]_vars => ListInv'
  BY NextListInv
<1> QED
  BY <1>1, <1>2, AnyInvHolds, PTL DEF Spec, ListInv
==============================================================================
