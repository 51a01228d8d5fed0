----------------------------- MODULE Heartbeats -----------------------------
(***************************************************************************)
(* heart_beat(): the list Scheduler::heartbeats_, set_heart_beat() on it   *)
(* and the cycle Scheduler::tickHeartbeats().  The cycle first counts      *)
(* every entry down and collects who is due, then calls heart_beat() on    *)
(* each of those; the LPC code it calls may enable, disable, re-time,      *)
(* destruct and free objects, due ones included, before the cycle goes on. *)
(*                                                                         *)
(* An object has at most one entry, so heartbeats_ is a function from the  *)
(* objects it lists to their countdowns; the order of the calls in one     *)
(* cycle is left open.                                                     *)
(***************************************************************************)
EXTENDS Integers, Sequences

CONSTANTS Objects,     \* LPC objects
          GiverOf,     \* per object: this_player() of its heart_beat(), the base of
                       \* its shadow chain, or NoObject if that takes no commands
          NoObject,
          IntHalf,     \* an int holds -IntHalf..(IntHalf - 1)
          Arguments    \* arguments given to set_heart_beat(), of type int64_t

ASSUME ObjectsAssumption == NoObject \notin Objects /\ GiverOf \in [Objects -> Objects \cup {NoObject}]
ASSUME IntAssumption == IntHalf \in Nat /\ IntHalf > 1 /\ Arguments \subseteq Int

VARIABLES status,      \* per object: "live", "destructed", "freed"
          interval,    \* LpcObject::heartbeatInterval_
          ticks,       \* heartbeats_: ticksRemaining of each listed object
          due,         \* tickHeartbeats()'s local vector of who fires this cycle
          done,        \* the ones of due it has finished with
          beating,     \* object whose heart_beat() is executing, or NoObject
          phase,       \* "cycle" while tickHeartbeats() is past its first loop
          givers,      \* the VM's command giver stack, above what the driver left there
          since        \* history: cycles counted since the object was armed or due

vars == <<status, interval, ticks, due, done, beating, phase, givers, since>>

Ints   == -IntHalf..(IntHalf - 1)
Listed == DOMAIN ticks

TypeOK ==
    /\ status \in [Objects -> {"live", "destructed", "freed"}]
    /\ interval \in [Objects -> Ints]
    /\ Listed \subseteq Objects
    /\ ticks \in [Listed -> Ints]
    /\ due \subseteq Objects
    /\ done \subseteq due
    /\ beating \in due \cup {NoObject}
    /\ phase \in {"idle", "cycle"}
    /\ since \in [Objects -> Nat]

Init ==
    /\ status = [o \in Objects |-> "live"]
    /\ interval = [o \in Objects |-> 0]
    /\ ticks = [o \in {} |-> 0]
    /\ due = {} /\ done = {}
    /\ beating = NoObject
    /\ phase = "idle"
    /\ givers = <<>>
    /\ since = [o \in Objects |-> 0]

-----------------------------------------------------------------------------
LpcRuns == phase = "idle" \/ beating # NoObject

(* static_cast<int>(int64_t) keeps the low bits. *)
ToInt(n) == IF n \in Ints THEN n ELSE ((n + IntHalf) % (2 * IntHalf)) - IntHalf

Disable(o) ==
    /\ interval' = [interval EXCEPT ![o] = 0]
    /\ ticks' = [x \in Listed \ {o} |-> ticks[x]]
    /\ since' = [since EXCEPT ![o] = 0]

\* Mutant of Update: the old countdown is kept.
UpdateNoRearm(o, n) ==
    /\ interval' = [interval EXCEPT ![o] = n]
    /\ since' = [since EXCEPT ![o] = 0]
    /\ UNCHANGED ticks

Update(o, n) ==
    /\ interval' = [interval EXCEPT ![o] = n]
    /\ ticks' = [ticks EXCEPT ![o] = n]
    /\ since' = [since EXCEPT ![o] = 0]

Enable(o, n) ==
    /\ interval' = [interval EXCEPT ![o] = n]
    /\ ticks' = [x \in Listed \cup {o} |-> IF x = o THEN n ELSE ticks[x]]
    /\ since' = [since EXCEPT ![o] = 0]

(* set_heart_beat(to) of object o, and reload_object(o) with to = 0: the   *)
(* branches of Scheduler::setHeartbeatInterval().  A negative argument is  *)
(* refused on an enabled object and means 1 on another.                    *)
SetHeartBeat(o, to) ==
    /\ LpcRuns
    /\ status[o] # "freed"
    /\ \/ to = 0 /\ Disable(o)
       \/ to > 0 /\ o \in Listed /\ Update(o, ToInt(to))
       \/ to < 0 /\ o \in Listed /\ UNCHANGED <<interval, ticks, since>>
       \/ to > 0 /\ o \notin Listed /\ Enable(o, ToInt(to))
       \/ to < 0 /\ o \notin Listed /\ Enable(o, 1)
    /\ UNCHANGED <<status, due, done, beating, phase, givers>>

(* tickHeartbeats(), first loop: entries of freed objects go, the others   *)
(* count down, and whoever reaches zero is due and starts over.  Counting  *)
(* down from the least int overflows: the build may wrap it round to the   *)
(* greatest one or take it as below 1.                                     *)
CountDown ==
    /\ phase = "idle"
    /\ \E wraps \in SUBSET {o \in Listed : ticks[o] = -IntHalf} :
         LET kept  == {o \in Listed : status[o] # "freed"}
             fires == {o \in kept \ wraps : ticks[o] - 1 < 1}
         IN  /\ ticks' = [o \in kept |-> IF o \in fires THEN interval[o]
                                         ELSE IF o \in wraps THEN IntHalf - 1
                                         ELSE ticks[o] - 1]
             /\ due' = fires
             /\ since' = [o \in Objects |-> IF o \in kept \ fires THEN since[o] + 1 ELSE 0]
    /\ phase' = "cycle"
    /\ UNCHANGED <<status, interval, done, beating, givers>>

(* tickHeartbeats(), second loop: push this_player() and call the object.  *)
BeatStarts(o) ==
    /\ phase = "cycle"
    /\ beating = NoObject
    /\ o \in due \ done
    /\ status[o] = "live"
    /\ beating' = o
    /\ givers' = Append(givers, GiverOf[o])
    /\ UNCHANGED <<status, interval, ticks, due, done, phase, since>>

(* callFunction() does nothing on a destructed object, and the giver is    *)
(* popped again at once.                                                   *)
BeatSkips(o) ==
    /\ phase = "cycle"
    /\ beating = NoObject
    /\ o \in due \ done
    /\ status[o] # "live"
    /\ done' = done \cup {o}
    /\ UNCHANGED <<status, interval, ticks, due, beating, phase, givers, since>>

Pop(s) == SubSeq(s, 1, Len(s) - 1)

BeatReturns ==
    /\ beating # NoObject
    /\ givers' = Pop(givers)
    /\ done' = done \cup {beating}
    /\ beating' = NoObject
    /\ UNCHANGED <<status, interval, ticks, due, phase, since>>

\* Mutants of BeatThrows: the error path forgets the pop; the error leaves the loop.
BeatThrowsNoPop ==
    /\ beating # NoObject
    /\ done' = done \cup {beating}
    /\ beating' = NoObject
    /\ UNCHANGED <<status, interval, ticks, due, phase, givers, since>>

BeatThrowsOut ==
    /\ beating # NoObject
    /\ givers' = Pop(givers)
    /\ done' = due
    /\ beating' = NoObject
    /\ UNCHANGED <<status, interval, ticks, due, phase, since>>

(* heart_beat() throws: the inner handler pops the giver, the outer one    *)
(* keeps the error from the other objects.                                 *)
BeatThrows ==
    /\ beating # NoObject
    /\ givers' = Pop(givers)
    /\ done' = done \cup {beating}
    /\ beating' = NoObject
    /\ UNCHANGED <<status, interval, ticks, due, phase, since>>
CycleEnds ==
    /\ phase = "cycle"
    /\ beating = NoObject
    /\ done = due
    /\ due' = {} /\ done' = {}
    /\ phase' = "idle"
    /\ UNCHANGED <<status, interval, ticks, beating, givers, since>>

(* destruct(): the entry stays, the flag silences it. *)
Destruct(o) ==
    /\ LpcRuns
    /\ status[o] = "live"
    /\ status' = [status EXCEPT ![o] = "destructed"]
    /\ UNCHANGED <<interval, ticks, due, done, beating, phase, givers, since>>

(* The last reference goes: entries hold weak ones, the cycle's vector     *)
(* strong ones until the cycle is over.                                    *)
Free(o) ==
    /\ LpcRuns
    /\ status[o] # "freed"
    /\ o \notin due
    /\ status' = [status EXCEPT ![o] = "freed"]
    /\ UNCHANGED <<interval, ticks, due, done, beating, phase, givers, since>>

Turn == \E o \in Objects : BeatStarts(o) \/ BeatSkips(o)

Next ==
    \/ \E o \in Objects : (\E to \in Arguments : SetHeartBeat(o, to)) \/ Destruct(o) \/ Free(o)
    \/ CountDown \/ Turn \/ BeatReturns \/ BeatThrows \/ CycleEnds

Spec == Init /\ [][Next]_vars

(* Scheduler::run() comes round, the loops go on, LPC bodies end. *)
Fairness ==
    /\ WF_vars(CountDown) /\ WF_vars(Turn) /\ WF_vars(CycleEnds)
    /\ WF_vars(BeatReturns \/ BeatThrows)

FairSpec == Spec /\ Fairness

-----------------------------------------------------------------------------
(* query_heart_beat() and the list agree: an object that can still run     *)
(* code has a nonzero interval exactly when heartbeats_ has its entry.     *)
EnabledIffListed ==
    \A o \in Objects : status[o] # "freed" => (interval[o] # 0 <=> o \in Listed)

(* The rate is the one asked for: for every entry the cycles counted since *)
(* it was armed or last due and the ticks left add up to its interval, and *)
(* it is always at least one cycle away from firing.                       *)
CadenceKept ==
    \A o \in Listed : ticks[o] >= 1 /\ since[o] + ticks[o] = interval[o]

(* this_player() is the beating object's own giver during its heart_beat() *)
(* and nothing is left on the stack afterwards, on the error path too.     *)
GiverBalanced ==
    givers = IF beating = NoObject THEN <<>> ELSE <<GiverOf[beating]>>

BeatBegins(o) == beating = NoObject /\ beating' = o

(* A destructed object is not called, whichever heart_beat() of the same   *)
(* cycle destructed it, and none is called twice in a cycle.               *)
CalledLiveOnce == \A o \in Objects : BeatBegins(o) => status[o] = "live" /\ o \notin done

OnlyLiveBeat == [][CalledLiveOnce]_vars

(* An object that stays enabled and is not re-timed keeps beating,         *)
(* whatever errors the other objects' heart_beat()s raise.                 *)
KeepsBeating ==
    \A o \in Objects :
        /\ <>[](o \in Listed /\ status[o] = "live")
        /\ <>[][\A to \in Arguments : ~SetHeartBeat(o, to)]_vars
        => []<>(beating = o)
=============================================================================
