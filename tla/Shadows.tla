------------------------------ MODULE Shadows ------------------------------
(***************************************************************************)
(* Shadow chains and destruct().  shadow(ob) puts the calling object on    *)
(* top of ob's chain: each object has a link down to what it shadows and a *)
(* link up to its own shadow.  shadow() asks the master object before it   *)
(* links, and destruct() calls on_destruct() on every object it removes:   *)
(* both run LPC code in the middle of the driver's own work, so the calls  *)
(* in progress are a stack of frames.                                      *)
(*                                                                         *)
(* Objects have no environment here (shadow() refuses one that does), the  *)
(* master object is not one of them, and the FluffOS and LDMud branches of *)
(* shadow(), which differ in what they return, are one.                    *)
(***************************************************************************)
EXTENDS Integers, Sequences

CONSTANTS Objects,
          NoObject,
          InAsk,       \* kinds of efun the master's valid_shadow() calls
          InDestruct,  \* kinds of efun on_destruct() calls
          MaxDepth     \* bound: frames on the stack

(* What LPC code may do here: shadow(), unshadow() or remove_shadow(),      *)
(* destruct(), reload_object(), and drop the last reference to an object.   *)
Efuns == {"shadow", "unlink", "destruct", "reload", "free"}

ASSUME ShadowAssumption ==
    NoObject \notin Objects /\ InAsk \cup InDestruct \subseteq Efuns /\ MaxDepth \in Nat

VARIABLES quiet,       \* the mudlib's applies call no efun of this module, fixed at boot
          shadowing,   \* LpcObject::shadowing_, NoObject if expired or unset
          shadowedBy,  \* LpcObject::shadowedBy_
          destructed,  \* objects with the destructed flag
          freed,       \* objects whose memory is gone
          frames,      \* driver calls waiting for LPC or for a nested destruct
          told,        \* history: objects onDestructed was called for
          retold       \* history: objects it was called for again

vars == <<quiet, shadowing, shadowedBy, destructed, freed, frames, told, retold>>
links == <<shadowing, shadowedBy>>

(* A frame is a shadow() waiting for the master's answer, a destructObject() *)
(* waiting for on_destruct() of an object, or one in its cascade loop.       *)
FrameTypes ==
    {f \in [kind : {"asking"}, self : Objects, ob : Objects] : f.self # f.ob}
      \cup [kind : {"on_destruct"}, ob : Objects]
      \cup [kind : {"cascade"}, base : Objects, top : Objects \cup {NoObject}]

TypeOK ==
    /\ quiet \in BOOLEAN
    /\ shadowing \in [Objects -> Objects \cup {NoObject}]
    /\ shadowedBy \in [Objects -> Objects \cup {NoObject}]
    /\ destructed \subseteq Objects
    /\ freed \subseteq Objects
    /\ frames \in Seq(FrameTypes)
    /\ told \subseteq Objects
    /\ retold \subseteq told

Init ==
    /\ quiet \in BOOLEAN
    /\ shadowing = [o \in Objects |-> NoObject]
    /\ shadowedBy = [o \in Objects |-> NoObject]
    /\ destructed = {} /\ freed = {}
    /\ frames = <<>>
    /\ told = {} /\ retold = {}

-----------------------------------------------------------------------------
Top  == frames[Len(frames)]
Rest == SubSeq(frames, 1, Len(frames) - 1)
In(kind) == frames # <<>> /\ Top.kind = kind

(* LPC code is running and calls this efun.  With no frame on the stack it *)
(* is any code of the mudlib; inside an apply it is the apply's.           *)
Calls(efun) ==
    \/ frames = <<>>
    \/ ~quiet /\ In("asking") /\ efun \in InAsk
    \/ ~quiet /\ In("on_destruct") /\ efun \in InDestruct

(* The objects a walk along shadowedBy from o visits, o included. *)
UpFrom(o) ==
    {x \in Objects : \A S \in SUBSET Objects :
        (o \in S /\ \A y \in S : shadowedBy[y] \in S \cup {NoObject}) => x \in S}

IsTopOf(x, o) == x \in UpFrom(o) /\ shadowedBy[x] = NoObject

(* Take o out of its chain and join its neighbours, if it has any: the     *)
(* links of everything else stay.                                          *)
Spliced(o) ==
    /\ shadowing' = [x \in Objects |-> IF x = o THEN NoObject
                                       ELSE IF x = shadowedBy[o] THEN shadowing[o] ELSE shadowing[x]]
    /\ shadowedBy' = [x \in Objects |-> IF x = o THEN NoObject
                                        ELSE IF x = shadowing[o] THEN shadowedBy[o] ELSE shadowedBy[x]]

\* Mutant of ShadowAsks: the links looked at are those of the wrong end.
ShadowAsksSwapped(self, ob) ==
    /\ Calls("shadow")
    /\ {self, ob} \cap freed = {}
    /\ ob \notin destructed
    /\ ob # self
    /\ shadowing[self] = NoObject
    /\ shadowedBy[ob] = NoObject
    /\ Len(frames) < MaxDepth
    /\ frames' = Append(frames, [kind |-> "asking", self |-> self, ob |-> ob])
    /\ UNCHANGED <<shadowing, shadowedBy, destructed, freed, told, retold>>

(* shadow(ob): every check, and the master is asked. *)
ShadowAsks(self, ob) ==
    /\ Calls("shadow")
    /\ {self, ob} \cap freed = {}
    /\ ob \notin destructed
    /\ ob # self
    /\ shadowing[self] = NoObject
    /\ shadowedBy[self] = NoObject
    /\ shadowing[ob] = NoObject
    /\ Len(frames) < MaxDepth
    /\ frames' = Append(frames, [kind |-> "asking", self |-> self, ob |-> ob])
    /\ UNCHANGED <<shadowing, shadowedBy, destructed, freed, told, retold>>

(* The master approves and the caller is still there: link it on top of    *)
(* ob's chain.  The walk to the top does not end if the chain is a ring.   *)
ShadowLinks ==
    /\ In("asking")
    /\ Top.self \notin destructed
    /\ \E victim \in Objects :
         /\ IsTopOf(victim, Top.ob)
         /\ shadowing' = [shadowing EXCEPT ![Top.self] = victim]
         /\ shadowedBy' = [shadowedBy EXCEPT ![victim] = Top.self]
    /\ frames' = Rest
    /\ UNCHANGED <<destructed, freed, told, retold>>

(* The master refuses or throws, or the caller was destructed meanwhile. *)
ShadowRefused ==
    /\ In("asking")
    /\ frames' = Rest
    /\ UNCHANGED <<shadowing, shadowedBy, destructed, freed, told, retold>>

(* remove_shadow(o). *)
RemoveShadow(o) ==
    /\ Calls("unlink")
    /\ o \notin freed
    /\ shadowing[o] # NoObject \/ shadowedBy[o] # NoObject
    /\ Spliced(o)
    /\ UNCHANGED <<destructed, freed, frames, told, retold>>

\* Mutant of Unshadow: the link above is not joined to the victim.
UnshadowDropsAbove(o) ==
    /\ Calls("unlink")
    /\ o \notin freed
    /\ shadowing[o] # NoObject
    /\ shadowedBy' = [shadowedBy EXCEPT ![shadowing[o]] = shadowedBy[o], ![o] = NoObject]
    /\ shadowing' = [shadowing EXCEPT ![o] = NoObject]
    /\ UNCHANGED <<destructed, freed, frames, told, retold>>

(* unshadow() of o: only for one that is itself a shadow. *)
Unshadow(o) ==
    /\ Calls("unlink")
    /\ o \notin freed
    /\ shadowing[o] # NoObject
    /\ Spliced(o)
    /\ UNCHANGED <<destructed, freed, frames, told, retold>>

\* Mutant of DestructObject: a shadow keeps its place in the chain.
DestructObjectInPlace(o, below) ==
    /\ o \notin destructed
    /\ shadowedBy[o] = NoObject \/ shadowing[o] # NoObject
    /\ frames' = Append(below, [kind |-> "on_destruct", ob |-> o])
    /\ UNCHANGED links

(* destructObject(o) entered with below under it on the stack: the base of *)
(* a chain starts the cascade, anything else leaves its chain and has      *)
(* on_destruct() called (an object without the flag behaves as one whose   *)
(* on_destruct() does nothing).                                            *)
DestructObject(o, below) ==
    \/ /\ o \in destructed
       /\ frames' = below
       /\ UNCHANGED links
    \/ /\ o \notin destructed
       /\ shadowedBy[o] # NoObject /\ shadowing[o] = NoObject
       /\ \E top \in Objects :
            /\ IsTopOf(top, shadowedBy[o])
            /\ frames' = Append(below, [kind |-> "cascade", base |-> o, top |-> top])
       /\ UNCHANGED links
    \/ /\ o \notin destructed
       /\ shadowedBy[o] = NoObject \/ shadowing[o] # NoObject
       /\ Spliced(o)
       /\ frames' = Append(below, [kind |-> "on_destruct", ob |-> o])

(* destruct(o). *)
Destruct(o) ==
    /\ Calls("destruct")
    /\ o \notin freed
    /\ Len(frames) < MaxDepth
    /\ DestructObject(o, frames)
    /\ UNCHANGED <<destructed, freed, told, retold>>

\* Mutant of CascadeStep: the loop stops short of the base.
CascadeStepStops ==
    /\ In("cascade")
    /\ Top.top # NoObject
    /\ LET current == Top.top
           below   == shadowing[current]
           next    == IF below = Top.base THEN NoObject ELSE below
           looped  == Append(Rest, [kind |-> "cascade", base |-> Top.base, top |-> next])
       IN  /\ shadowing' = [shadowing EXCEPT ![current] = NoObject]
           /\ shadowedBy' = [x \in Objects |-> IF x = below THEN NoObject ELSE shadowedBy[x]]
           /\ frames' = Append(looped, [kind |-> "on_destruct", ob |-> current])
    /\ UNCHANGED <<destructed, freed, told, retold>>

(* destructObject(), one round of the cascade loop: cut the topmost shadow *)
(* off and destruct it.  That call finds it destructed already, or without *)
(* links unless LPC code shadowed it again.                                *)
CascadeStep ==
    /\ In("cascade")
    /\ Top.top # NoObject
    /\ LET current == Top.top
           below   == shadowing[current]
           looped  == Append(Rest, [kind |-> "cascade", base |-> Top.base, top |-> below])
       IN  /\ shadowing' = [shadowing EXCEPT ![current] = NoObject]
           /\ shadowedBy' = [x \in Objects |-> IF x = below THEN NoObject ELSE shadowedBy[x]]
           /\ IF current \in destructed
              THEN frames' = looped
              ELSE \/ /\ shadowedBy'[current] = NoObject
                      /\ frames' = Append(looped, [kind |-> "on_destruct", ob |-> current])
                   \/ \E top \in Objects :
                        /\ shadowedBy'[current] # NoObject
                        /\ IsTopOf(top, shadowedBy[current])
                        /\ frames' = Append(looped, [kind |-> "cascade", base |-> current, top |-> top])
    /\ UNCHANGED <<destructed, freed, told, retold>>

CascadeEnds ==
    /\ In("cascade")
    /\ Top.top = NoObject
    /\ frames' = Rest
    /\ UNCHANGED <<shadowing, shadowedBy, destructed, freed, told, retold>>

(* on_destruct() returns or throws: onDestructed runs, and the object is   *)
(* flagged.                                                                *)
OnDestructReturns ==
    /\ In("on_destruct")
    /\ told' = told \cup {Top.ob}
    /\ retold' = retold \cup ({Top.ob} \cap told)
    /\ destructed' = destructed \cup {Top.ob}
    /\ frames' = Rest
    /\ UNCHANGED <<shadowing, shadowedBy, freed>>

(* reload_object(o): the shadows of a base are destructed without their    *)
(* on_destruct(), any other object leaves its chain.                       *)
Reload(o) ==
    /\ Calls("reload")
    /\ o \notin freed
    /\ LET above == UpFrom(o) \ {o} IN
         IF shadowing[o] = NoObject
         THEN /\ \E top \in Objects : IsTopOf(top, o)
              /\ shadowing' = [x \in Objects |-> IF x \in above THEN NoObject ELSE shadowing[x]]
              /\ shadowedBy' = [x \in Objects |-> IF x \in above \cup {o} THEN NoObject ELSE shadowedBy[x]]
              /\ destructed' = destructed \cup above
              /\ told' = told \cup (above \ destructed)
              /\ retold' = retold \cup (told \cap (above \ destructed))
         ELSE Spliced(o) /\ UNCHANGED <<destructed, told, retold>>
    /\ UNCHANGED <<freed, frames>>

(* replace_program() takes effect before the next round of the driver's    *)
(* loop: a shadow that gets another program leaves its chain.              *)
ReplaceProgram(o) ==
    /\ frames = <<>>
    /\ o \notin destructed \cup freed
    /\ shadowing[o] # NoObject
    /\ Spliced(o)
    /\ UNCHANGED <<destructed, freed, frames, told, retold>>

InFrame(o) == \E i \in DOMAIN frames : \E f \in {"self", "ob", "base", "top"} \cap DOMAIN frames[i] :
                 frames[i][f] = o

(* Memory goes when nothing refers to an object: links are weak, frames    *)
(* are not.                                                                *)
Free(o) ==
    /\ Calls("free")
    /\ ~InFrame(o)
    /\ o \notin freed
    /\ freed' = freed \cup {o}
    /\ shadowing' = [x \in Objects |-> IF o \in {x, shadowing[x]} THEN NoObject ELSE shadowing[x]]
    /\ shadowedBy' = [x \in Objects |-> IF o \in {x, shadowedBy[x]} THEN NoObject ELSE shadowedBy[x]]
    /\ UNCHANGED <<destructed, frames, told, retold>>

Step ==
    \/ \E self, ob \in Objects : ShadowAsks(self, ob)
    \/ ShadowLinks \/ ShadowRefused
    \/ CascadeStep \/ CascadeEnds \/ OnDestructReturns
    \/ \E o \in Objects :
         RemoveShadow(o) \/ Unshadow(o) \/ ReplaceProgram(o) \/ Destruct(o) \/ Reload(o) \/ Free(o)

Next == Step /\ UNCHANGED quiet

Spec == Init /\ [][Next]_vars

-----------------------------------------------------------------------------
(* Each link up is the other end of a link down, whatever order shadow(),  *)
(* unshadow(), remove_shadow(), destruct() and reload_object() are called  *)
(* in, the calls made by an apply in mid-shadow() or mid-destruct() too.   *)
LinksMirror ==
    \A x, y \in Objects : shadowing[x] = y <=> shadowedBy[y] = x

(* Every chain has a base: no set of objects shadow only each other.  The  *)
(* driver's walks along a chain (shadow(), destruct(), callFunction(), the *)
(* heart_beat() giver) end because of it.                                  *)
ChainsEnd ==
    \A S \in (SUBSET Objects) \ {{}} : \E x \in S : shadowing[x] \notin S

(* destructObject() of the base of a chain destructs "the entire chain then *)
(* return[s]": when its loop ends the base is destructed.                   *)
CascadeReachesBase ==
    In("cascade") /\ Top.top = NoObject => Top.base \in destructed

(* ObjectManager.hpp: onDestructed "is called exactly once for every object *)
(* this call actually destructs".                                           *)
ToldOnce == retold = {} /\ destructed = told

(* A destruct() is complete if no apply disturbs it: it takes the whole     *)
(* chain, and tells the rest of the driver of each object once.             *)
DestructComplete == quiet => CascadeReachesBase /\ ToldOnce

(* callFunction(o) with c calling: the walk up past active shadows ... *)
ActiveUp(o, c) ==
    {x \in Objects : \A S \in SUBSET Objects :
        (o \in S /\ \A y \in S : shadowedBy[y] \in S \cup destructed \cup {c, NoObject}) => x \in S}

(* ... then down again to the first object that defines the function. *)
DownFrom(o) ==
    {x \in Objects : \A S \in SUBSET Objects :
        (o \in S /\ \A y \in S : shadowing[y] \in S \cup {NoObject}) => x \in S}

(* VM.cpp, callFunction(): its check "closes the 'a destructed object still *)
(* responds to call_other()' class of bugs everywhere at once".  So a call  *)
(* to a live object never runs a destructed one's function.                 *)
CallsStayLive ==
    \A o \in Objects \ (destructed \cup freed), c \in Objects :
        \A x \in ActiveUp(o, c) : DownFrom(x) \cap destructed = {}

(* ... if no apply interferes with the destruct().                          *)
NoGhostCalls == quiet => CallsStayLive
=============================================================================
