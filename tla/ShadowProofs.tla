---------------------------- MODULE ShadowProofs ----------------------------
(* Theorems about Shadows, for any number of objects and any depth of calls. *)
EXTENDS Shadows, SequenceTheorems, TLAPS

(* The applies do not nest one shadow() inside another's question to the     *)
(* master: valid_shadow() does not call shadow(), nor destruct() objects     *)
(* whose on_destruct() does.                                                 *)
NoNestedShadow ==
    /\ "shadow" \notin InAsk
    /\ "destruct" \in InAsk => "shadow" \notin InDestruct

(* No shadow() is ever asked for inside another's question.                  *)
Unnested == quiet \/ NoNestedShadow

Asking(i) == i \in DOMAIN frames /\ frames[i].kind = "asking"

(* A shadow() in progress is the only one, and its caller is in no chain.    *)
AskShape ==
    /\ \A i, j \in DOMAIN frames : Asking(i) /\ Asking(j) => i = j
    /\ \A i \in DOMAIN frames : Asking(i) =>
         /\ shadowing[frames[i].self] = NoObject /\ shadowedBy[frames[i].self] = NoObject
         /\ "destruct" \notin InAsk => i = Len(frames)

LinkTypes ==
    /\ shadowing \in [Objects -> Objects \cup {NoObject}]
    /\ shadowedBy \in [Objects -> Objects \cup {NoObject}]

(* A walk up a chain only meets objects.                                     *)
LEMMA UpClosed ==
    ASSUME LinkTypes, NEW o \in Objects
    PROVE  /\ o \in UpFrom(o) /\ UpFrom(o) \subseteq Objects
           /\ \A x \in UpFrom(o) : shadowedBy[x] # NoObject => shadowedBy[x] \in UpFrom(o)
  BY DEF UpFrom, LinkTypes

(* Whatever a closed set that holds o leaves out is not above o.             *)
LEMMA UpLeast ==
    ASSUME NEW o \in Objects, NEW S \in SUBSET Objects, o \in S,
           \A y \in S : shadowedBy[y] \in S \cup {NoObject}
    PROVE  UpFrom(o) \subseteq S
  BY DEF UpFrom

(* Cutting links leaves no ring.                                             *)
LEMMA CutChains ==
    ASSUME LinkTypes, ChainsEnd, \A x \in Objects : shadowing'[x] \in {shadowing[x], NoObject},
           NoObject \notin Objects
    PROVE  ChainsEnd'
  BY DEF ChainsEnd, LinkTypes

(* Splicing an object out of its chain keeps both ends of every link.        *)
LEMMA SpliceMirror ==
    ASSUME LinkTypes, LinksMirror, NEW o \in Objects, Spliced(o)
    PROVE  LinkTypes' /\ LinksMirror'
<1> USE ShadowAssumption DEF LinkTypes
<1>1. LinkTypes'
  BY DEF Spliced
<1>2. LinksMirror'
  BY DEF Spliced, LinksMirror
<1> QED
  BY <1>1, <1>2

(* Splicing an object out of its chain closes no ring.                       *)
LEMMA SpliceChains ==
    ASSUME LinkTypes, LinksMirror, ChainsEnd, NEW o \in Objects, Spliced(o)
    PROVE  ChainsEnd'
<1> USE ShadowAssumption DEF LinkTypes
<1> SUFFICES ASSUME NEW S \in (SUBSET Objects) \ {{}}, \A x \in S : shadowing'[x] \in S
             PROVE  FALSE
  BY DEF ChainsEnd
<1>1. o \notin S
  BY DEF Spliced
<1>2. CASE shadowedBy[o] \notin S
  BY <1>1, <1>2 DEF Spliced, ChainsEnd
<1>3. CASE shadowedBy[o] \in S
  <2>1. shadowing[o] \in S
    BY <1>1, <1>3 DEF Spliced
  <2>2. \A x \in S \cup {o} : shadowing[x] \in S \cup {o}
    BY <1>1, <1>3, <2>1 DEF Spliced, LinksMirror
  <2> QED
    BY <2>2 DEF ChainsEnd
<1> QED
  BY <1>2, <1>3

(* Linking an object that is in no chain on top of another's keeps both ends *)
(* of every link and closes no ring.                                         *)
LEMMA LinkOnTop ==
    ASSUME LinkTypes, LinksMirror, ChainsEnd,
           NEW self \in Objects, NEW victim \in Objects, self # victim,
           shadowing[self] = NoObject, shadowedBy[self] = NoObject, shadowedBy[victim] = NoObject,
           shadowing' = [shadowing EXCEPT ![self] = victim],
           shadowedBy' = [shadowedBy EXCEPT ![victim] = self]
    PROVE  LinkTypes' /\ LinksMirror' /\ ChainsEnd'
<1> USE ShadowAssumption DEF LinkTypes
<1>1. LinkTypes'
  OBVIOUS
<1>2. LinksMirror'
  BY DEF LinksMirror
<1>3. ASSUME NEW S \in (SUBSET Objects) \ {{}}, \A x \in S : shadowing'[x] \in S
      PROVE  FALSE
  <2>1. CASE self \notin S
    BY <1>3, <2>1 DEF ChainsEnd
  <2>2. CASE self \in S
    <3>1. victim \in S \ {self}
      BY <1>3, <2>2
    <3>2. \A x \in S \ {self} : shadowing[x] \in S \ {self}
      BY <1>3 DEF LinksMirror
    <3> QED
      BY <3>1, <3>2 DEF ChainsEnd
  <2> QED
    BY <2>1, <2>2
<1> QED
  BY <1>1, <1>2, <1>3 DEF ChainsEnd

(* Above o, except at o itself, every object's link down stays above o.      *)
LEMMA UpHasBelow ==
    ASSUME LinkTypes, LinksMirror, NEW o \in Objects, NEW x \in UpFrom(o), x # o
    PROVE  shadowing[x] \in UpFrom(o)
<1> USE ShadowAssumption DEF LinkTypes
<1> SUFFICES ASSUME shadowing[x] \notin UpFrom(o) PROVE FALSE
  OBVIOUS
<1> DEFINE S == UpFrom(o) \ {x}
<1>1. /\ o \in UpFrom(o) /\ UpFrom(o) \subseteq Objects
      /\ \A y \in UpFrom(o) : shadowedBy[y] # NoObject => shadowedBy[y] \in UpFrom(o)
  BY UpClosed
<1>2. \A y \in S : shadowedBy[y] \in S \cup {NoObject}
  BY <1>1 DEF LinksMirror
<1>3. S \in SUBSET Objects /\ o \in S
  BY <1>1
<1> HIDE DEF S
<1>4. UpFrom(o) \subseteq S
  BY <1>2, <1>3, UpLeast
<1> QED
  BY <1>4 DEF S

(* Destructing everything above a base keeps both ends of every link.        *)
LEMMA ReloadMirror ==
    ASSUME LinkTypes, LinksMirror, NEW o \in Objects, shadowing[o] = NoObject,
           shadowing' = [x \in Objects |-> IF x \in UpFrom(o) \ {o} THEN NoObject ELSE shadowing[x]],
           shadowedBy' = [x \in Objects |-> IF x \in (UpFrom(o) \ {o}) \cup {o} THEN NoObject
                                            ELSE shadowedBy[x]]
    PROVE  LinkTypes' /\ LinksMirror'
<1> USE ShadowAssumption DEF LinkTypes
<1>1. LinkTypes'
  OBVIOUS
<1>2. o \in UpFrom(o) /\ \A x \in UpFrom(o) : shadowedBy[x] # NoObject => shadowedBy[x] \in UpFrom(o)
  BY UpClosed
<1>3. \A x \in UpFrom(o) : x # o => shadowing[x] \in UpFrom(o)
  BY UpHasBelow
<1>4. ASSUME NEW x \in Objects, NEW y \in Objects PROVE shadowing'[x] = y <=> shadowedBy'[y] = x
  <2>1. shadowing[x] = y <=> shadowedBy[y] = x
    BY DEF LinksMirror
  <2>2. shadowing[x] = y => (x \in UpFrom(o) \ {o} <=> y \in UpFrom(o))
    BY <1>2, <1>3, <2>1
  <2> QED
    BY <1>2, <2>1, <2>2
<1> QED
  BY <1>1, <1>4 DEF LinksMirror

-----------------------------------------------------------------------------
(* The links and the shadow() in progress.                                   *)
IInv == TypeOK /\ LinksMirror /\ ChainsEnd /\ AskShape

(* Objects without links satisfy the invariant.                              *)
LEMMA InitIInv == Init => IInv
<1> SUFFICES ASSUME Init PROVE IInv
  OBVIOUS
<1>1. TypeOK
  <2>1. frames \in Seq(FrameTypes)
    BY DEF Init
  <2>2. /\ shadowing \in [Objects -> Objects \cup {NoObject}]
        /\ shadowedBy \in [Objects -> Objects \cup {NoObject}]
    BY DEF Init
  <2> QED
    BY <2>1, <2>2 DEF Init, TypeOK
<1>2. LinksMirror
  BY ShadowAssumption DEF Init, LinksMirror
<1>4. ChainsEnd
  <2> SUFFICES ASSUME NEW S \in (SUBSET Objects) \ {{}} PROVE \E x \in S : shadowing[x] \notin S
    BY DEF ChainsEnd
  <2>1. PICK x \in S : TRUE
    OBVIOUS
  <2>2. shadowing[x] = NoObject
    BY DEF Init
  <2> QED
    BY <2>1, <2>2, ShadowAssumption
<1>3. AskShape
  BY DEF Init, AskShape, Asking
<1> QED
  BY <1>1, <1>2, <1>3, <1>4 DEF IInv

(* What a change of links alone must keep: chains, and the lone shadow().    *)
LEMMA LinksOnly ==
    ASSUME IInv, LinkTypes', LinksMirror', ChainsEnd',
           \A x \in Objects : shadowing[x] = NoObject /\ shadowedBy[x] = NoObject
                                => shadowing'[x] = NoObject /\ shadowedBy'[x] = NoObject,
           UNCHANGED <<quiet, frames>>,
           destructed' \subseteq Objects, freed' \subseteq Objects,
           told' \subseteq Objects, retold' \subseteq told'
    PROVE  IInv'
<1>1. TypeOK'
  BY DEF IInv, TypeOK, LinkTypes
<1>2. \A i \in DOMAIN frames : Asking(i) => frames[i].self \in Objects
  BY DEF IInv, TypeOK, Asking, FrameTypes
<1>3. AskShape'
  BY <1>2 DEF IInv, AskShape, Asking
<1> QED
  BY <1>1, <1>3 DEF IInv

(* What the front of a sequence is.                                          *)
LEMMA FrontOf ==
    ASSUME NEW S, NEW s \in Seq(S), NEW n \in 0..Len(s)
    PROVE  /\ SubSeq(s, 1, n) \in Seq(S) /\ Len(SubSeq(s, 1, n)) = n
           /\ \A i \in 1..n : SubSeq(s, 1, n)[i] = s[i]
  OBVIOUS

(* The stack below the top frame.                                            *)
LEMMA Popped ==
    ASSUME frames \in Seq(FrameTypes), frames # <<>>
    PROVE  /\ Len(frames) \in Nat \ {0} /\ Top \in FrameTypes
           /\ Rest \in Seq(FrameTypes) /\ Len(Rest) = Len(frames) - 1
           /\ \A i \in 1..(Len(frames) - 1) : Rest[i] = frames[i]
<1>1. Len(frames) \in Nat \ {0}
  BY EmptySeq
<1>2. Top \in FrameTypes
  BY <1>1 DEF Top
<1>3. Len(frames) - 1 \in 0..Len(frames)
  BY <1>1
<1> QED
  BY <1>1, <1>2, <1>3, FrontOf, Zenon DEF Rest

(* No shadow() is in progress.                                               *)
NoneAsks == \A i \in DOMAIN frames : ~Asking(i)

(* Popping keeps the shape of the stack, links unchanged.                    *)
LEMMA PopKeepsShape ==
    ASSUME frames \in Seq(FrameTypes), frames # <<>>, AskShape, frames' = Rest, UNCHANGED links
    PROVE  frames' \in Seq(FrameTypes) /\ AskShape'
<1>1. /\ Len(frames) \in Nat \ {0} /\ frames' \in Seq(FrameTypes) /\ Len(frames') = Len(frames) - 1
      /\ \A i \in 1..(Len(frames) - 1) : frames'[i] = frames[i]
  BY Popped
<1>2. DOMAIN frames' = 1..(Len(frames) - 1) /\ DOMAIN frames = 1..Len(frames)
  BY <1>1
<1>3. AskShape'
  BY <1>1, <1>2 DEF AskShape, Asking, links
<1> QED
  BY <1>1, <1>3

(* Pushing a frame that is no question, while none is below it unless the    *)
(* master may destruct, keeps the shape of the stack.                        *)
LEMMA PushKeepsShape ==
    ASSUME frames \in Seq(FrameTypes), AskShape, NEW f \in FrameTypes, f.kind # "asking",
           "destruct" \notin InAsk => NoneAsks,
           frames' = Append(frames, f),
           \A x \in Objects : shadowing[x] = NoObject /\ shadowedBy[x] = NoObject
                                => shadowing'[x] = NoObject /\ shadowedBy'[x] = NoObject
    PROVE  frames' \in Seq(FrameTypes) /\ AskShape'
<1>1. /\ frames' \in Seq(FrameTypes) /\ Len(frames') = Len(frames) + 1 /\ Len(frames) \in Nat
      /\ DOMAIN frames = 1..Len(frames) /\ DOMAIN frames' = 1..(Len(frames) + 1)
      /\ \A i \in 1..Len(frames) : frames'[i] = frames[i]
      /\ frames'[Len(frames) + 1] = f
  OBVIOUS
<1>2. \A i \in DOMAIN frames : Asking(i) => frames[i].self \in Objects
  BY DEF Asking, FrameTypes
<1>3. \A i \in DOMAIN frames' : Asking(i)' => i \in DOMAIN frames /\ Asking(i)
  BY <1>1 DEF Asking
<1>4. AskShape'
  BY <1>1, <1>2, <1>3 DEF AskShape, Asking, NoneAsks
<1> QED
  BY <1>1, <1>4

(* An object without links has none after another is spliced out.            *)
LEMMA SpliceKeepsLoners ==
    ASSUME LinkTypes, LinksMirror, NEW o \in Objects, Spliced(o),
           NEW x \in Objects, shadowing[x] = NoObject, shadowedBy[x] = NoObject
    PROVE  shadowing'[x] = NoObject /\ shadowedBy'[x] = NoObject
  BY ShadowAssumption DEF Spliced, LinkTypes, LinksMirror

(* destructObject() run on top of a stack keeps the invariant.               *)
LEMMA DestructKeeps ==
    ASSUME IInv, NEW o \in Objects, DestructObject(o, frames),
           "destruct" \notin InAsk => NoneAsks,
           UNCHANGED <<quiet, destructed, freed, told, retold>>
    PROVE  IInv'
<1> USE DEF LinkTypes
<1>1. /\ quiet' \in BOOLEAN /\ LinkTypes /\ frames \in Seq(FrameTypes) /\ AskShape /\ LinksMirror /\ ChainsEnd
      /\ destructed' \subseteq Objects /\ freed' \subseteq Objects
      /\ told' \subseteq Objects /\ retold' \subseteq told'
  BY DEF IInv, TypeOK
<1>2. CASE frames' = frames /\ UNCHANGED links
  BY <1>1, <1>2, LinksOnly DEF links, LinksMirror, ChainsEnd
<1>3. ASSUME NEW top \in Objects, UNCHANGED links,
             frames' = Append(frames, [kind |-> "cascade", base |-> o, top |-> top])
      PROVE  IInv'
  <2>1. [kind |-> "cascade", base |-> o, top |-> top] \in FrameTypes
    BY DEF FrameTypes
  <2>2. frames' \in Seq(FrameTypes) /\ AskShape'
    BY <1>1, <1>3, <2>1, PushKeepsShape DEF links
  <2> QED
    BY <1>1, <1>3, <2>2 DEF IInv, TypeOK, links, LinksMirror, ChainsEnd
<1>4. ASSUME Spliced(o), frames' = Append(frames, [kind |-> "on_destruct", ob |-> o])
      PROVE  IInv'
  <2>1. [kind |-> "on_destruct", ob |-> o] \in FrameTypes
    BY DEF FrameTypes
  <2>2. LinkTypes' /\ LinksMirror' /\ ChainsEnd'
    BY <1>1, <1>4, SpliceMirror, SpliceChains
  <2>3. \A x \in Objects : shadowing[x] = NoObject /\ shadowedBy[x] = NoObject
                             => shadowing'[x] = NoObject /\ shadowedBy'[x] = NoObject
    BY <1>1, <1>4, SpliceKeepsLoners
  <2>4. frames' \in Seq(FrameTypes) /\ AskShape'
    BY <1>1, <1>4, <2>1, <2>3, PushKeepsShape
  <2> QED
    BY <1>1, <2>2, <2>4 DEF IInv, TypeOK
<1> QED
  BY <1>2, <1>3, <1>4 DEF DestructObject

(* Who may call destruct() or shadow() with a question to the master below.  *)
LEMMA CallersAsk ==
    ASSUME IInv, Unnested
    PROVE  /\ Calls("destruct") /\ "destruct" \notin InAsk => NoneAsks
           /\ Calls("shadow") => NoneAsks
<1>1. frames = <<>> => NoneAsks
  BY DEF NoneAsks
<1>2. frames # <<>> /\ Top.kind # "asking" /\ "destruct" \notin InAsk => NoneAsks
  BY Popped DEF IInv, AskShape, NoneAsks, Asking, Top
<1> QED
  BY <1>1, <1>2 DEF Calls, In, Unnested, NoNestedShadow

(* shadow() asks: its caller has no links and no other question waits.       *)
LEMMA AsksKeeps ==
    ASSUME IInv, Unnested, NEW self \in Objects, NEW ob \in Objects, ShadowAsks(self, ob),
           UNCHANGED quiet
    PROVE  IInv'
<1> DEFINE f == [kind |-> "asking", self |-> self, ob |-> ob]
<1>1. NoneAsks
  BY CallersAsk DEF ShadowAsks
<1>2. f \in FrameTypes /\ f.kind = "asking" /\ f.self = self
  BY DEF ShadowAsks, FrameTypes
<1>3. /\ frames' = Append(frames, f) /\ shadowing[self] = NoObject /\ shadowedBy[self] = NoObject
      /\ UNCHANGED <<shadowing, shadowedBy, destructed, freed, told, retold>>
  BY DEF ShadowAsks
<1> HIDE DEF f
<1>4. frames \in Seq(FrameTypes)
  BY DEF IInv, TypeOK
<1>5. /\ frames' \in Seq(FrameTypes) /\ Len(frames') = Len(frames) + 1 /\ Len(frames) \in Nat
      /\ DOMAIN frames = 1..Len(frames) /\ DOMAIN frames' = 1..(Len(frames) + 1)
      /\ \A i \in 1..Len(frames) : frames'[i] = frames[i]
      /\ frames'[Len(frames) + 1] = f
  BY <1>2, <1>3, <1>4
<1>6. \A i \in DOMAIN frames' : Asking(i)' => i = Len(frames')
  BY <1>1, <1>5 DEF Asking, NoneAsks
<1>7. AskShape'
  BY <1>2, <1>3, <1>5, <1>6 DEF AskShape, Asking
<1> QED
  BY <1>3, <1>5, <1>7 DEF IInv, TypeOK, LinksMirror, ChainsEnd

(* shadow() links its caller, which is still in no chain, on top of the      *)
(* chain of the object it asked about.                                       *)
LEMMA LinksKeeps ==
    ASSUME IInv, ShadowLinks, UNCHANGED quiet
    PROVE  IInv'
<1> DEFINE self == Top.self
<1>1. PICK victim \in Objects :
         /\ IsTopOf(victim, Top.ob)
         /\ shadowing' = [shadowing EXCEPT ![self] = victim]
         /\ shadowedBy' = [shadowedBy EXCEPT ![victim] = self]
  BY Zenon DEF ShadowLinks
<1>2. /\ frames # <<>> /\ Top.kind = "asking" /\ frames' = Rest
      /\ UNCHANGED <<destructed, freed, told, retold>>
  BY DEF ShadowLinks, In
<1>3. /\ frames \in Seq(FrameTypes) /\ LinkTypes
  BY DEF IInv, TypeOK, LinkTypes
<1>4. /\ Len(frames) \in Nat \ {0} /\ Top \in FrameTypes
      /\ Rest \in Seq(FrameTypes) /\ Len(Rest) = Len(frames) - 1
      /\ \A i \in 1..(Len(frames) - 1) : Rest[i] = frames[i]
  BY <1>2, <1>3, Popped
<1>5. self \in Objects /\ Top.ob \in Objects /\ self # Top.ob
  BY <1>2, <1>4 DEF FrameTypes
<1>6. Len(frames) \in DOMAIN frames /\ Asking(Len(frames))
  BY <1>2, <1>3, <1>4 DEF Asking, Top
<1>7. shadowing[self] = NoObject /\ shadowedBy[self] = NoObject
  BY <1>6 DEF IInv, AskShape, Top
<1>8. victim # self /\ shadowedBy[victim] = NoObject
  <2>1. \A y \in Objects \ {self} : shadowedBy[y] \in (Objects \ {self}) \cup {NoObject}
    BY <1>3, <1>5, <1>7, ShadowAssumption DEF IInv, LinksMirror, LinkTypes
  <2>2. UpFrom(Top.ob) \subseteq Objects \ {self}
    BY <1>5, <2>1, UpLeast
  <2> QED
    BY <1>1, <2>2 DEF IsTopOf
<1>9. LinkTypes' /\ LinksMirror' /\ ChainsEnd'
  <2> HIDE DEF self
  <2> QED
    BY <1>1, <1>3, <1>5, <1>7, <1>8, LinkOnTop DEF IInv
<1>10. \A i \in DOMAIN Rest : ~Asking(i)
  BY <1>3, <1>4, <1>6 DEF IInv, AskShape, Asking
<1>11. AskShape'
  BY <1>2, <1>3, <1>4, <1>10 DEF AskShape, Asking
<1> QED
  BY <1>2, <1>4, <1>9, <1>11 DEF IInv, TypeOK, LinkTypes

(* One round of the cascade: cutting a link keeps both ends of the others,   *)
(* and a question further down the stack stays where it is.                  *)
LEMMA CascadeKeeps ==
    ASSUME IInv, CascadeStep, UNCHANGED quiet
    PROVE  IInv'
<1> DEFINE current == Top.top
           below   == shadowing[current]
           looped  == Append(Rest, [kind |-> "cascade", base |-> Top.base, top |-> below])
<1>1. /\ frames # <<>> /\ Top.kind = "cascade" /\ current # NoObject
      /\ shadowing' = [shadowing EXCEPT ![current] = NoObject]
      /\ shadowedBy' = [x \in Objects |-> IF x = below THEN NoObject ELSE shadowedBy[x]]
      /\ UNCHANGED <<destructed, freed, told, retold>>
  BY DEF CascadeStep, In
<1>2. /\ frames \in Seq(FrameTypes) /\ LinkTypes /\ LinksMirror /\ ChainsEnd
  BY DEF IInv, TypeOK, LinkTypes
<1>3. /\ Len(frames) \in Nat \ {0} /\ Top \in FrameTypes
      /\ Rest \in Seq(FrameTypes) /\ Len(Rest) = Len(frames) - 1
      /\ \A i \in 1..(Len(frames) - 1) : Rest[i] = frames[i]
  BY <1>1, <1>2, Popped
<1>4. current \in Objects /\ Top.base \in Objects
  BY <1>1, <1>3 DEF FrameTypes
<1>5. below \in Objects \cup {NoObject}
  BY <1>2, <1>4 DEF LinkTypes
<1>6. LinkTypes' /\ LinksMirror'
  BY <1>1, <1>2, <1>4, ShadowAssumption DEF LinkTypes, LinksMirror
<1>7. ChainsEnd'
  BY <1>1, <1>2, CutChains, ShadowAssumption DEF LinkTypes
<1>8. \A x \in Objects : shadowing[x] = NoObject /\ shadowedBy[x] = NoObject
                           => shadowing'[x] = NoObject /\ shadowedBy'[x] = NoObject
  BY <1>1, <1>2 DEF LinkTypes
<1>9. /\ looped \in Seq(FrameTypes) /\ Len(looped) = Len(frames)
      /\ \A i \in 1..(Len(frames) - 1) : looped[i] = frames[i]
      /\ looped[Len(frames)].kind = "cascade"
  <2>1. [kind |-> "cascade", base |-> Top.base, top |-> below] \in FrameTypes
    BY <1>4, <1>5 DEF FrameTypes
  <2> HIDE DEF below
  <2> QED
    BY <1>3, <2>1
<1> HIDE DEF looped
<1>10. \A i \in DOMAIN frames : Asking(i) =>
          /\ i < Len(frames) /\ "destruct" \in InAsk /\ frames[i].self \in Objects
  <2>1. ~Asking(Len(frames)) /\ DOMAIN frames = 1..Len(frames)
    BY <1>1, <1>2, <1>3 DEF Asking, Top
  <2> QED
    BY <1>2, <1>3, <2>1 DEF IInv, AskShape, Asking, FrameTypes
<1>11. ASSUME frames' \in Seq(FrameTypes), Len(frames') >= Len(frames),
              \A i \in 1..(Len(frames) - 1) : frames'[i] = frames[i],
              \A i \in Len(frames)..Len(frames') : frames'[i].kind # "asking"
       PROVE  IInv'
  <2>1. DOMAIN frames' = 1..Len(frames') /\ DOMAIN frames = 1..Len(frames) /\ Len(frames') \in Nat
    BY <1>2, <1>11
  <2>2. \A i \in DOMAIN frames' : Asking(i)' => i \in 1..(Len(frames) - 1) /\ Asking(i)
    BY <1>3, <1>11, <2>1 DEF Asking
  <2>3. AskShape'
    <3>1. \A i \in 1..(Len(frames) - 1) : i \in DOMAIN frames /\ frames'[i] = frames[i]
      BY <1>3, <1>11, <2>1
    <3>2. \A i, j \in DOMAIN frames' : Asking(i)' /\ Asking(j)' => i = j
      BY <2>2, <3>1 DEF IInv, AskShape
    <3>3. ASSUME NEW i \in DOMAIN frames', Asking(i)'
          PROVE  /\ shadowing'[frames'[i].self] = NoObject
                 /\ shadowedBy'[frames'[i].self] = NoObject
                 /\ "destruct" \in InAsk
      <4>1. /\ i \in DOMAIN frames /\ Asking(i) /\ frames'[i] = frames[i]
        BY <2>2, <3>1, <3>3
      <4>2. /\ frames[i].self \in Objects /\ "destruct" \in InAsk
        BY <1>10, <4>1
      <4>3. shadowing[frames[i].self] = NoObject /\ shadowedBy[frames[i].self] = NoObject
        BY <4>1 DEF IInv, AskShape
      <4> QED
        BY <1>8, <4>1, <4>2, <4>3
    <3> QED
      BY <3>2, <3>3 DEF AskShape
  <2> QED
    BY <1>1, <1>6, <1>7, <1>11, <2>3 DEF IInv, TypeOK, LinkTypes
<1>12. ASSUME NEW f \in FrameTypes, f.kind # "asking", frames' = Append(looped, f) PROVE IInv'
  BY <1>3, <1>9, <1>11, <1>12
<1>13. CASE frames' = looped
  BY <1>3, <1>9, <1>11, <1>13
<1>14. [kind |-> "on_destruct", ob |-> current] \in FrameTypes
  BY <1>4 DEF FrameTypes
<1>15. \A top \in Objects : [kind |-> "cascade", base |-> current, top |-> top] \in FrameTypes
  BY <1>4 DEF FrameTypes
<1>16. \/ frames' = looped
       \/ frames' = Append(looped, [kind |-> "on_destruct", ob |-> current])
       \/ \E top \in Objects :
            frames' = Append(looped, [kind |-> "cascade", base |-> current, top |-> top])
  BY Zenon DEF CascadeStep, looped
<1> QED
  BY <1>12, <1>13, <1>14, <1>15, <1>16

(* Every step keeps the invariant.                                           *)
LEMMA NextIInv ==
    ASSUME Unnested, IInv, [Next]_vars
    PROVE  IInv' /\ Unnested'
<1>q. UNCHANGED quiet
  BY Zenon DEF Next, vars
<1>c. Unnested'
  BY <1>q DEF Unnested
<1> SUFFICES IInv'
  BY <1>c
<1>0. /\ LinkTypes /\ LinksMirror /\ ChainsEnd /\ frames \in Seq(FrameTypes) /\ AskShape
      /\ destructed \subseteq Objects /\ freed \subseteq Objects
      /\ told \subseteq Objects /\ retold \subseteq told
  BY DEF IInv, TypeOK, LinkTypes
<1>a. ASSUME NEW o \in Objects, Spliced(o), UNCHANGED <<destructed, freed, frames, told, retold>>
      PROVE  IInv'
  <2>1. LinkTypes' /\ LinksMirror' /\ ChainsEnd'
    BY <1>0, <1>a, SpliceMirror, SpliceChains
  <2>2. \A x \in Objects : shadowing[x] = NoObject /\ shadowedBy[x] = NoObject
                             => shadowing'[x] = NoObject /\ shadowedBy'[x] = NoObject
    BY <1>0, <1>a, SpliceKeepsLoners
  <2> QED
    BY <1>q, <1>0, <1>a, <2>1, <2>2, LinksOnly
<1>b. ASSUME frames # <<>>, frames' = Rest, UNCHANGED <<shadowing, shadowedBy, freed>>,
             destructed' \subseteq Objects, told' \subseteq Objects, retold' \subseteq told'
      PROVE  IInv'
  <2>1. frames' \in Seq(FrameTypes) /\ AskShape'
    BY <1>0, <1>b, PopKeepsShape DEF links
  <2> QED
    BY <1>q, <1>0, <1>b, <2>1 DEF IInv, TypeOK, LinkTypes, LinksMirror, ChainsEnd
<1>1. ASSUME NEW self \in Objects, NEW ob \in Objects, ShadowAsks(self, ob) PROVE IInv'
  BY <1>q, <1>1, AsksKeeps
<1>2. CASE ShadowLinks
  BY <1>q, <1>2, LinksKeeps
<1>3. CASE ShadowRefused \/ CascadeEnds
  BY <1>0, <1>3, <1>b DEF ShadowRefused, CascadeEnds, In
<1>4. CASE CascadeStep
  BY <1>q, <1>4, CascadeKeeps
<1>5. CASE OnDestructReturns
  <2>1. Top.ob \in Objects
    BY <1>0, <1>5, Popped DEF OnDestructReturns, In, FrameTypes
  <2> QED
    BY <1>0, <1>5, <2>1, <1>b DEF OnDestructReturns, In
<1>6. ASSUME NEW o \in Objects, RemoveShadow(o) \/ Unshadow(o) \/ ReplaceProgram(o) PROVE IInv'
  BY <1>6, <1>a DEF RemoveShadow, Unshadow, ReplaceProgram
<1>7. ASSUME NEW o \in Objects, Destruct(o) PROVE IInv'
  BY <1>q, <1>7, CallersAsk, DestructKeeps DEF Destruct
<1>8. ASSUME NEW o \in Objects, Reload(o) PROVE IInv'
  <2>1. CASE shadowing[o] = NoObject
    <3>1. /\ shadowing' = [x \in Objects |-> IF x \in UpFrom(o) \ {o} THEN NoObject ELSE shadowing[x]]
          /\ shadowedBy' = [x \in Objects |-> IF x \in (UpFrom(o) \ {o}) \cup {o} THEN NoObject
                                              ELSE shadowedBy[x]]
      BY <1>8, <2>1, Zenon DEF Reload
    <3>2. /\ destructed' \subseteq Objects /\ told' \subseteq Objects /\ retold' \subseteq told'
          /\ freed' = freed /\ frames' = frames
      BY <1>0, <1>8, <2>1, UpClosed DEF Reload
    <3>3. LinkTypes' /\ LinksMirror'
      BY <1>0, <2>1, <3>1, ReloadMirror
    <3>4. ChainsEnd'
      BY <1>0, <3>1, CutChains, ShadowAssumption DEF LinkTypes
    <3>5. \A x \in Objects : shadowing[x] = NoObject /\ shadowedBy[x] = NoObject
                               => shadowing'[x] = NoObject /\ shadowedBy'[x] = NoObject
      BY <3>1
    <3> QED
      BY <1>q, <1>0, <3>2, <3>3, <3>4, <3>5, LinksOnly
  <2>2. CASE shadowing[o] # NoObject
    BY <1>8, <2>2, <1>a DEF Reload
  <2> QED
    BY <2>1, <2>2
<1>9. ASSUME NEW o \in Objects, Free(o) PROVE IInv'
  <2>1. /\ shadowing' = [x \in Objects |-> IF o \in {x, shadowing[x]} THEN NoObject ELSE shadowing[x]]
        /\ shadowedBy' = [x \in Objects |-> IF o \in {x, shadowedBy[x]} THEN NoObject ELSE shadowedBy[x]]
        /\ freed' = freed \cup {o} /\ UNCHANGED <<destructed, frames, told, retold>>
    BY <1>9 DEF Free
  <2>2. LinkTypes' /\ LinksMirror'
    BY <1>0, <2>1, ShadowAssumption DEF LinkTypes, LinksMirror
  <2>3. ChainsEnd'
    BY <1>0, <2>1, CutChains, ShadowAssumption DEF LinkTypes
  <2>4. \A x \in Objects : shadowing[x] = NoObject /\ shadowedBy[x] = NoObject
                             => shadowing'[x] = NoObject /\ shadowedBy'[x] = NoObject
    BY <2>1
  <2> QED
    BY <1>q, <1>0, <2>1, <2>2, <2>3, <2>4, LinksOnly
<1>10. CASE UNCHANGED vars
  BY <1>0, <1>10, LinksOnly DEF vars, LinkTypes, LinksMirror, ChainsEnd
<1> QED
  BY <1>1, <1>2, <1>3, <1>4, <1>5, <1>6, <1>7, <1>8, <1>9, <1>10 DEF Next, Step

(* The links, the chains and the shadow() in progress keep their shape as     *)
(* long as no apply nests one shadow() in another's question to the master.   *)
LEMMA ShadowInv ==
    ASSUME NoNestedShadow
    PROVE  Spec => []IInv
<1>1. Unnested
  BY DEF Unnested
<1>2. Init => IInv
  BY InitIInv
<1>3. IInv /\ [Next]_vars => IInv'
  BY <1>1, NextIInv
<1> QED
  BY <1>2, <1>3, PTL DEF Spec

(* Each link up is the other end of a link down through every shadow(),       *)
(* unshadow(), remove_shadow(), destruct(), reload_object(),                  *)
(* replace_program() and loss of an object, calls made by applies in          *)
(* mid-operation included.                                                    *)
THEOREM MirrorTheorem ==
    ASSUME NoNestedShadow
    PROVE  Spec => [](TypeOK /\ LinksMirror)
  BY ShadowInv, PTL DEF IInv

(* Under the same condition no set of objects ever shadow only each other, so *)
(* every walk of the driver along a chain ends.                               *)
THEOREM ShadowTheorem ==
    ASSUME NoNestedShadow
    PROVE  Spec => []ChainsEnd
  BY ShadowInv, PTL DEF IInv

-----------------------------------------------------------------------------
(* destruct() while no apply interferes.                                     *)
Unlinked(o) == shadowing[o] = NoObject /\ shadowedBy[o] = NoObject

(* on_destruct() runs on an object that has left its chain and is not yet    *)
(* flagged.                                                                  *)
Leaving(o) == o \in Objects /\ o \notin destructed /\ Unlinked(o)

(* The loop stands at the top of what is left of the base's chain.           *)
LoopAt(base, top) ==
    /\ base \in Objects /\ shadowing[base] = NoObject
    /\ top # NoObject => top \in UpFrom(base) /\ shadowedBy[top] = NoObject

Cascade(base, top) == [kind |-> "cascade", base |-> base, top |-> top]
OnDestruct(o) == [kind |-> "on_destruct", ob |-> o]

(* The calls that can be in progress: a question, a lone destruct, or the    *)
(* cascade over a chain, between two objects or inside on_destruct().        *)
AskStack(self, ob) ==
    frames = <<[kind |-> "asking", self |-> self, ob |-> ob]>> /\ ob \notin destructed
LoneStack(o) == frames = <<OnDestruct(o)>> /\ Leaving(o)
LoopStack(base, top) ==
    /\ frames = <<Cascade(base, top)>> /\ LoopAt(base, top)
    /\ top = NoObject => base \in destructed
BodyStack(base, top, o) ==
    /\ frames = <<Cascade(base, top), OnDestruct(o)>> /\ LoopAt(base, top) /\ Leaving(o)
    /\ top = NoObject => base \in destructed \cup {o}

QuietStack ==
    \/ frames = <<>>
    \/ \E self, ob \in Objects : AskStack(self, ob)
    \/ \E o \in Objects : LoneStack(o)
    \/ \E base \in Objects, top \in Objects \cup {NoObject} :
         LoopStack(base, top) \/ \E o \in Objects : BodyStack(base, top, o)

(* A destructed object is in no chain.                                       *)
DeadUnlinked == \A x \in destructed : Unlinked(x)

QuietInv == quiet => IInv /\ QuietStack /\ DeadUnlinked /\ ToldOnce

(* Pushing the second of two frames ...                                      *)
LEMMA PushSecond == ASSUME NEW f, NEW g PROVE Append(<<f>>, g) = <<f, g>>
<1> DEFINE S == {f, g}
           s == Append(<<f>>, g)
           t == <<f, g>>
<1>1. <<f>> \in Seq(S) /\ t \in Seq(S) /\ g \in S
  OBVIOUS
<1>2. s \in Seq(S) /\ Len(s) = 2 /\ s[1] = f /\ s[2] = g
  BY <1>1
<1>3. Len(t) = 2 /\ t[1] = f /\ t[2] = g
  OBVIOUS
<1> HIDE DEF S, s, t
<1>4. \A i \in 1..Len(s) : s[i] = t[i]
  BY <1>2, <1>3
<1>5. s = t
  BY <1>1, <1>2, <1>3, <1>4, SeqEqual, Zenon
<1> QED
  BY <1>5 DEF s, t

(* ... and popping it.                                                       *)
LEMMA PopSecond == ASSUME NEW f, NEW g PROVE SubSeq(<<f, g>>, 1, 1) = <<f>>
<1> DEFINE S == {f, g}
           s == SubSeq(<<f, g>>, 1, 1)
           t == <<f>>
<1>1. t \in Seq(S) /\ <<f, g>> \in Seq(S)
  OBVIOUS
<1>2. s \in Seq(S) /\ Len(s) = 1 /\ s[1] = f
  BY <1>1
<1>3. Len(t) = 1 /\ t[1] = f
  OBVIOUS
<1> HIDE DEF S, s, t
<1>4. \A i \in 1..Len(s) : s[i] = t[i]
  BY <1>2, <1>3
<1>5. s = t
  BY <1>1, <1>2, <1>3, <1>4, SeqEqual, Zenon
<1> QED
  BY <1>5 DEF s, t

(* The top and the rest of a stack of one or two frames.                     *)
LEMMA SmallStack ==
    ASSUME NEW f, NEW g
    PROVE  /\ frames = <<f>> => frames # <<>> /\ Top = f /\ Rest = <<>>
           /\ frames = <<f, g>> => frames # <<>> /\ Top = g /\ Rest = <<f>>
           /\ Append(<<>>, f) = <<f>> /\ Append(<<f>>, g) = <<f, g>>
<1>1. ASSUME frames = <<f>> PROVE frames # <<>> /\ Top = f /\ Rest = <<>>
  <2>1. Len(frames) = 1 /\ frames[1] = f
    BY <1>1
  <2>2. Rest = SubSeq(<<f>>, 1, 0)
    BY <1>1, <2>1 DEF Rest
  <2> QED
    BY <2>1, <2>2 DEF Top
<1>2. ASSUME frames = <<f, g>> PROVE frames # <<>> /\ Top = g /\ Rest = <<f>>
  <2>1. Len(frames) = 2 /\ frames[2] = g
    BY <1>2
  <2>2. Rest = SubSeq(<<f, g>>, 1, 1)
    BY <1>2, <2>1 DEF Rest
  <2>3. Rest = <<f>>
    BY <2>2, PopSecond, Zenon
  <2> QED
    BY <1>2, <2>1, <2>3 DEF Top
<1>3. Append(<<>>, f) = <<f>>
  OBVIOUS
<1> QED
  BY <1>1, <1>2, <1>3, PushSecond, Zenon

(* The fields of the frames.                                                 *)
LEMMA FrameFields ==
    /\ \A base, top : /\ Cascade(base, top).kind = "cascade" /\ Cascade(base, top).base = base
                      /\ Cascade(base, top).top = top
    /\ \A o : OnDestruct(o).kind = "on_destruct" /\ OnDestruct(o).ob = o
  BY DEF Cascade, OnDestruct

(* What the kind of the top frame says of the stack.                         *)
LEMMA QuietTop ==
    ASSUME QuietStack, frames # <<>>
    PROVE  /\ Top.kind = "asking" => \E self, ob \in Objects : AskStack(self, ob)
           /\ Top.kind = "on_destruct" =>
                \/ \E o \in Objects : LoneStack(o)
                \/ \E base \in Objects, top \in Objects \cup {NoObject}, o \in Objects :
                     BodyStack(base, top, o)
           /\ Top.kind = "cascade" =>
                \E base \in Objects, top \in Objects \cup {NoObject} : LoopStack(base, top)
<1>1. "asking" # "on_destruct" /\ "cascade" # "on_destruct" /\ "asking" # "cascade"
  OBVIOUS
<1>2. ASSUME NEW self \in Objects, NEW ob \in Objects, AskStack(self, ob)
      PROVE  Top.kind = "asking"
  <2>1. Top = [kind |-> "asking", self |-> self, ob |-> ob]
    BY <1>2, SmallStack, Zenon DEF AskStack
  <2> QED
    BY <2>1
<1>3. ASSUME NEW o \in Objects, LoneStack(o) PROVE Top.kind = "on_destruct"
  <2>1. Top = OnDestruct(o)
    BY <1>3, SmallStack, Zenon DEF LoneStack
  <2> QED
    BY <2>1, FrameFields, Zenon
<1>4. ASSUME NEW base \in Objects, NEW top \in Objects \cup {NoObject}, LoopStack(base, top)
      PROVE  Top.kind = "cascade"
  <2>1. Top = Cascade(base, top)
    BY <1>4, SmallStack, Zenon DEF LoopStack
  <2> QED
    BY <2>1, FrameFields, Zenon
<1>5. ASSUME NEW base \in Objects, NEW top \in Objects \cup {NoObject}, NEW o \in Objects,
             BodyStack(base, top, o)
      PROVE  Top.kind = "on_destruct"
  <2>1. Top = OnDestruct(o)
    BY <1>5, SmallStack, Zenon DEF BodyStack
  <2> QED
    BY <2>1, FrameFields, Zenon
<1> QED
  BY <1>1, <1>2, <1>3, <1>4, <1>5, Zenon DEF QuietStack

(* LPC code that calls an efun is not inside an apply.                       *)
LEMMA QuietCalls == ASSUME quiet, NEW efun, Calls(efun) PROVE frames = <<>>
  BY DEF Calls

(* Nothing above a live object is destructed.                                *)
LEMMA LiveAbove ==
    ASSUME LinkTypes, LinksMirror, DeadUnlinked, destructed \subseteq Objects,
           NEW o \in Objects \ destructed
    PROVE  UpFrom(o) \subseteq Objects \ destructed
<1>1. \A y \in Objects \ destructed : shadowedBy[y] \in (Objects \ destructed) \cup {NoObject}
  BY ShadowAssumption DEF LinkTypes, LinksMirror, DeadUnlinked, Unlinked
<1> QED
  BY <1>1, UpLeast

(* Cutting the top off a chain leaves the rest of it above its base.         *)
LEMMA CutKeepsAbove ==
    ASSUME LinkTypes, LinksMirror, NEW base \in Objects, NEW top \in UpFrom(base), top # base,
           shadowedBy[top] = NoObject, NEW below, below = shadowing[top],
           shadowedBy' = [x \in Objects |-> IF x = below THEN NoObject ELSE shadowedBy[x]]
    PROVE  below \in Objects /\ below # top /\ below \in UpFrom(base)' /\ shadowedBy'[below] = NoObject
<1> USE ShadowAssumption DEF LinkTypes
<1>1. top \in Objects /\ UpFrom(base) \subseteq Objects
  BY UpClosed
<1>2. below \in UpFrom(base)
  BY UpHasBelow
<1>3. below \in Objects /\ shadowedBy[below] = top /\ below # top
  BY <1>1, <1>2 DEF LinksMirror
<1>4. ASSUME NEW S \in SUBSET Objects, base \in S, \A y \in S : shadowedBy'[y] \in S \cup {NoObject}
      PROVE  below \in S
  <2>1. S \cup {top} \in SUBSET Objects /\ base \in S \cup {top}
    BY <1>1, <1>4
  <2>2. \A y \in S \cup {top} : shadowedBy[y] \in (S \cup {top}) \cup {NoObject}
    BY <1>1, <1>3, <1>4
  <2>3. UpFrom(base) \subseteq S \cup {top}
    BY <2>1, <2>2, UpLeast
  <2> QED
    BY <1>2, <1>3, <2>3
<1> QED
  BY <1>3, <1>4 DEF UpFrom

(* A change of links outside any call, with every destructed object told of. *)
LEMMA QuietLinks ==
    ASSUME DeadUnlinked, ToldOnce, frames = <<>>, UNCHANGED <<frames, destructed, told, retold>>,
           \A x \in Objects : Unlinked(x) => Unlinked(x)', destructed \subseteq Objects
    PROVE  QuietStack' /\ DeadUnlinked' /\ ToldOnce'
<1>1. DeadUnlinked'
  BY Zenon DEF DeadUnlinked
<1> QED
  BY <1>1 DEF QuietStack, ToldOnce

(* destruct() of an object that is not yet destructed enters the loop or     *)
(* takes the object out of its chain.                                        *)
LEMMA QuietDestruct ==
    ASSUME IInv, DeadUnlinked, ToldOnce, frames = <<>>, NEW o \in Objects,
           DestructObject(o, frames), UNCHANGED <<destructed, told, retold>>
    PROVE  QuietStack' /\ DeadUnlinked' /\ ToldOnce'
<1>0. LinkTypes /\ LinksMirror /\ destructed \subseteq Objects
  BY DEF IInv, TypeOK, LinkTypes
<1>1. ToldOnce'
  BY DEF ToldOnce
<1>2. CASE frames' = frames /\ UNCHANGED links
  BY <1>1, <1>2 DEF links, QuietStack, DeadUnlinked, Unlinked
<1>3. ASSUME NEW top \in Objects, shadowedBy[o] # NoObject, shadowing[o] = NoObject,
             IsTopOf(top, shadowedBy[o]), frames' = Append(frames, Cascade(o, top)), UNCHANGED links
      PROVE  QuietStack' /\ DeadUnlinked' /\ ToldOnce'
  <2>1. frames' = <<Cascade(o, top)>>
    BY <1>3, SmallStack
  <2>2. shadowedBy[o] \in Objects /\ shadowedBy[o] \in UpFrom(o)
    BY <1>0, <1>3, UpClosed DEF LinkTypes
  <2>3. UpFrom(shadowedBy[o]) \subseteq UpFrom(o)
    BY <1>0, <2>2, UpClosed, UpLeast, ShadowAssumption
  <2>4. LoopAt(o, top)
    BY <1>3, <2>3 DEF LoopAt, IsTopOf
  <2>5. LoopAt(o, top)'
    BY <1>3, <2>4 DEF LoopAt, UpFrom, links
  <2>6. top # NoObject /\ top \in Objects \cup {NoObject}
    BY ShadowAssumption
  <2>7. QuietStack'
    <3>1. LoopStack(o, top)'
      BY <2>1, <2>5, <2>6, Zenon DEF LoopStack
    <3> QED
      BY <2>6, <3>1, Zenon DEF QuietStack
  <2>8. DeadUnlinked'
    BY <1>3 DEF DeadUnlinked, Unlinked, links
  <2> QED
    BY <1>1, <2>7, <2>8
<1>4. ASSUME o \notin destructed, Spliced(o), frames' = Append(frames, OnDestruct(o))
      PROVE  QuietStack' /\ DeadUnlinked' /\ ToldOnce'
  <2>1. frames' = <<OnDestruct(o)>>
    BY <1>4, SmallStack
  <2>2. Leaving(o)'
    <3>1. shadowing'[o] = NoObject /\ shadowedBy'[o] = NoObject
      BY <1>4 DEF Spliced
    <3> QED
      BY <1>4, <3>1, Zenon DEF Leaving, Unlinked
  <2>3. DeadUnlinked'
    BY <1>0, <1>4, SpliceKeepsLoners DEF DeadUnlinked, Unlinked
  <2>4. QuietStack'
    BY <2>1, <2>2, Zenon DEF QuietStack, LoneStack
  <2> QED
    BY <1>1, <2>3, <2>4
<1> QED
  BY <1>2, <1>3, <1>4, Zenon DEF DestructObject, Cascade, OnDestruct

(* The applies return: a shadow() links its caller on top of a live chain,   *)
(* or does nothing.                                                          *)
LEMMA QuietAsked ==
    ASSUME IInv, QuietStack, DeadUnlinked, ToldOnce, ShadowLinks \/ ShadowRefused
    PROVE  QuietStack' /\ DeadUnlinked' /\ ToldOnce'
<1>0. LinkTypes /\ LinksMirror /\ destructed \subseteq Objects
  BY DEF IInv, TypeOK, LinkTypes
<1>1. /\ frames # <<>> /\ Top.kind = "asking" /\ frames' = Rest
      /\ UNCHANGED <<destructed, told, retold>>
  BY DEF ShadowLinks, ShadowRefused, In
<1>3. PICK self \in Objects, ob \in Objects : AskStack(self, ob)
  BY <1>1, QuietTop, Zenon
<1>4. Top = [kind |-> "asking", self |-> self, ob |-> ob] /\ Rest = <<>> /\ ob \notin destructed
  BY <1>3, SmallStack, Zenon DEF AskStack
<1>5. Top.self = self /\ Top.ob = ob
  BY <1>4
<1>6. QuietStack' /\ ToldOnce'
  BY <1>1, <1>4 DEF QuietStack, ToldOnce
<1>7. CASE ShadowRefused
  BY <1>1, <1>6, <1>7 DEF ShadowRefused, DeadUnlinked, Unlinked
<1>8. CASE ShadowLinks
  <2>1. PICK victim \in Objects :
           /\ IsTopOf(victim, ob) /\ self \notin destructed
           /\ shadowing' = [shadowing EXCEPT ![self] = victim]
           /\ shadowedBy' = [shadowedBy EXCEPT ![victim] = self]
    BY <1>5, <1>8, Zenon DEF ShadowLinks
  <2>2. victim \notin destructed
    BY <1>0, <1>4, <2>1, LiveAbove DEF IsTopOf
  <2>3. DeadUnlinked'
    BY <1>0, <1>1, <2>1, <2>2 DEF DeadUnlinked, Unlinked, LinkTypes
  <2> QED
    BY <1>6, <2>3
<1> QED
  BY <1>7, <1>8

(* on_destruct() returns: the object, in no chain, is flagged and told of    *)
(* for the first time.                                                       *)
LEMMA QuietReturns ==
    ASSUME IInv, QuietStack, DeadUnlinked, ToldOnce, OnDestructReturns
    PROVE  QuietStack' /\ DeadUnlinked' /\ ToldOnce'
<1>1. /\ frames # <<>> /\ Top.kind = "on_destruct" /\ frames' = Rest
      /\ destructed' = destructed \cup {Top.ob} /\ told' = told \cup {Top.ob}
      /\ retold' = retold \cup ({Top.ob} \cap told) /\ UNCHANGED links
  BY DEF OnDestructReturns, In, links
<1>3. ASSUME NEW o \in Objects, Leaving(o), Top = OnDestruct(o)
      PROVE  DeadUnlinked' /\ ToldOnce' /\ destructed' = destructed \cup {o}
  <2>1. Top.ob = o
    BY <1>3, FrameFields, Zenon
  <2>2. destructed' = destructed \cup {o} /\ told' = told \cup {o} /\ retold' = {}
    BY <1>1, <1>3, <2>1 DEF Leaving, ToldOnce
  <2>3. ToldOnce'
    BY <2>2 DEF ToldOnce
  <2>4. DeadUnlinked'
    BY <1>1, <1>3, <2>2 DEF DeadUnlinked, Unlinked, Leaving, links
  <2> QED
    BY <2>2, <2>3, <2>4
<1>4. ASSUME NEW o \in Objects, LoneStack(o)
      PROVE  QuietStack' /\ DeadUnlinked' /\ ToldOnce'
  <2>1. Top = OnDestruct(o) /\ Rest = <<>> /\ Leaving(o)
    BY <1>4, SmallStack, Zenon DEF LoneStack
  <2> QED
    BY <1>1, <1>3, <1>4, <2>1, Zenon DEF QuietStack
<1>5. ASSUME NEW base \in Objects, NEW top \in Objects \cup {NoObject}, NEW o \in Objects,
             BodyStack(base, top, o)
      PROVE  QuietStack' /\ DeadUnlinked' /\ ToldOnce'
  <2>1. /\ Top = OnDestruct(o) /\ Rest = <<Cascade(base, top)>> /\ Leaving(o) /\ LoopAt(base, top)
        /\ top = NoObject => base \in destructed \cup {o}
    BY <1>5, SmallStack, Zenon DEF BodyStack
  <2>2. DeadUnlinked' /\ ToldOnce' /\ destructed' = destructed \cup {o}
    BY <1>3, <2>1, Zenon
  <2>3. LoopAt(base, top)'
    BY <1>1, <2>1 DEF LoopAt, UpFrom, links
  <2>4. LoopStack(base, top)'
    BY <1>1, <2>1, <2>2, <2>3, Zenon DEF LoopStack
  <2>5. QuietStack'
    BY <2>4, Zenon DEF QuietStack
  <2> QED
    BY <2>2, <2>5
<1> QED
  BY <1>1, <1>4, <1>5, QuietTop, Zenon

(* One round of the loop cuts the top off; the loop ends once it has passed  *)
(* the base.                                                                 *)
LEMMA QuietLoop ==
    ASSUME IInv, QuietStack, DeadUnlinked, ToldOnce, CascadeStep \/ CascadeEnds
    PROVE  QuietStack' /\ DeadUnlinked' /\ ToldOnce'
<1>0. LinkTypes /\ LinksMirror /\ destructed \subseteq Objects
  BY DEF IInv, TypeOK, LinkTypes
<1>1. /\ frames # <<>> /\ Top.kind = "cascade" /\ UNCHANGED <<destructed, told, retold>>
  BY DEF CascadeStep, CascadeEnds, In
<1>2. ToldOnce'
  BY <1>1 DEF ToldOnce
<1>3. PICK base \in Objects, top \in Objects \cup {NoObject} : LoopStack(base, top)
  BY <1>1, QuietTop, Zenon
<1>4. /\ Top = Cascade(base, top) /\ Rest = <<>> /\ LoopAt(base, top)
      /\ top = NoObject => base \in destructed
  BY <1>3, SmallStack, Zenon DEF LoopStack
<1>5. Top.base = base /\ Top.top = top
  BY <1>4, FrameFields, Zenon
<1>6. CASE CascadeEnds
  <2>1. QuietStack'
    BY <1>4, <1>6, Zenon DEF CascadeEnds, QuietStack
  <2>2. DeadUnlinked'
    BY <1>6 DEF CascadeEnds, DeadUnlinked, Unlinked
  <2> QED
    BY <1>2, <2>1, <2>2
<1>7. CASE CascadeStep
  <2>0. PICK below : below = shadowing[top]
    OBVIOUS
  <2>1. /\ top # NoObject /\ shadowing' = [shadowing EXCEPT ![top] = NoObject]
        /\ shadowedBy' = [x \in Objects |-> IF x = below THEN NoObject ELSE shadowedBy[x]]
    BY <1>5, <1>7, <2>0 DEF CascadeStep
  <2>2. top \in Objects /\ top \in UpFrom(base) /\ shadowedBy[top] = NoObject
        /\ shadowing[base] = NoObject
    BY <1>4, <2>1 DEF LoopAt
  <2>3. below \in Objects \cup {NoObject} /\ below # top
    BY <1>0, <2>0, <2>2, ShadowAssumption DEF LinkTypes, LinksMirror
  <2>4. shadowing'[top] = NoObject /\ shadowedBy'[top] = NoObject
    BY <1>0, <2>1, <2>2 DEF LinkTypes
  <2>5. DeadUnlinked'
    BY <1>0, <1>1, <2>1 DEF DeadUnlinked, Unlinked, LinkTypes
  <2>6. LoopAt(base, below)' /\ (below = NoObject => base = top)
    <3>1. shadowing'[base] = NoObject
      BY <1>0, <2>1, <2>2 DEF LinkTypes
    <3>2. CASE top = base
      BY <2>0, <2>2, <3>1, <3>2 DEF LoopAt
    <3>3. CASE top # base
      <4>1. below \in Objects /\ below \in UpFrom(base)' /\ shadowedBy'[below] = NoObject
        BY <1>0, <2>0, <2>1, <2>2, <3>3, CutKeepsAbove
      <4> QED
        BY <3>1, <4>1, ShadowAssumption DEF LoopAt
    <3> QED
      BY <3>2, <3>3
  <2>7. \/ frames' = <<Cascade(base, below)>> /\ top \in destructed
        \/ frames' = <<Cascade(base, below), OnDestruct(top)>> /\ top \notin destructed
    <3> DEFINE looped == Append(Rest, [kind |-> "cascade", base |-> Top.base, top |-> shadowing[Top.top]])
    <3>1. looped = <<Cascade(base, below)>>
      BY <1>4, <1>5, <2>0, SmallStack, Zenon DEF Cascade
    <3>2. \/ frames' = looped /\ top \in destructed
          \/ frames' = Append(looped, OnDestruct(top)) /\ top \notin destructed
      BY <1>5, <1>7, <2>4, Zenon DEF CascadeStep, OnDestruct
    <3>3. Append(<<Cascade(base, below)>>, OnDestruct(top)) = <<Cascade(base, below), OnDestruct(top)>>
      BY PushSecond, Zenon
    <3> HIDE DEF looped
    <3> QED
      BY <3>1, <3>2, <3>3, Zenon
  <2>8. QuietStack'
    <3>1. CASE frames' = <<Cascade(base, below)>> /\ top \in destructed
      <4>1. LoopStack(base, below)'
        BY <1>1, <2>6, <3>1, Zenon DEF LoopStack
      <4> QED
        BY <2>3, <4>1, Zenon DEF QuietStack
    <3>2. CASE frames' = <<Cascade(base, below), OnDestruct(top)>> /\ top \notin destructed
      <4>1. Leaving(top)'
        BY <1>1, <2>2, <2>4, <3>2, Zenon DEF Leaving, Unlinked
      <4>2. below = NoObject => base \in destructed' \cup {top}
        BY <2>6
      <4>3. BodyStack(base, below, top)'
        BY <2>6, <3>2, <4>1, <4>2, Zenon DEF BodyStack
      <4> QED
        BY <2>2, <2>3, <4>3, Zenon DEF QuietStack
    <3> QED
      BY <2>7, <3>1, <3>2
  <2> QED
    BY <1>2, <2>5, <2>8
<1> QED
  BY <1>6, <1>7

(* Every step keeps the invariant where no apply interferes.                 *)
LEMMA QuietNext == QuietInv /\ [Next]_vars => QuietInv'
<1> SUFFICES ASSUME QuietInv, [Next]_vars, quiet' PROVE QuietInv'
  BY Zenon DEF QuietInv
<1>q. quiet /\ UNCHANGED quiet
  BY Zenon DEF Next, vars
<1>0. IInv /\ QuietStack /\ DeadUnlinked /\ ToldOnce
  BY <1>q DEF QuietInv
<1>1. IInv'
  BY <1>q, <1>0, NextIInv DEF Unnested
<1>2. LinkTypes /\ LinksMirror /\ destructed \subseteq Objects
  BY <1>0 DEF IInv, TypeOK, LinkTypes
<1> DEFINE Kept == QuietStack' /\ DeadUnlinked' /\ ToldOnce'
<1> SUFFICES Kept
  BY <1>1 DEF QuietInv
<1>3. ASSUME NEW self \in Objects, NEW ob \in Objects, ShadowAsks(self, ob) PROVE Kept
  <2>1. frames = <<>>
    BY <1>q, <1>3, QuietCalls, Zenon DEF ShadowAsks
  <2>2. frames' = <<[kind |-> "asking", self |-> self, ob |-> ob]>>
    BY <1>3, <2>1, SmallStack, Zenon DEF ShadowAsks
  <2>3. UNCHANGED <<shadowing, shadowedBy, destructed, told, retold>> /\ ob \notin destructed
    BY <1>3, Zenon DEF ShadowAsks
  <2>4. AskStack(self, ob)'
    BY <2>2, <2>3, Zenon DEF AskStack
  <2>5. QuietStack'
    BY <2>4, Zenon DEF QuietStack
  <2>6. DeadUnlinked' /\ ToldOnce'
    BY <1>0, <2>3 DEF DeadUnlinked, Unlinked, ToldOnce
  <2> QED
    BY <2>5, <2>6
<1>4. CASE ShadowLinks \/ ShadowRefused
  BY <1>0, <1>4, QuietAsked, Zenon
<1>5. CASE CascadeStep \/ CascadeEnds
  BY <1>0, <1>5, QuietLoop, Zenon
<1>6. CASE OnDestructReturns
  BY <1>0, <1>6, QuietReturns, Zenon
<1>7. ASSUME NEW o \in Objects, RemoveShadow(o) \/ Unshadow(o) \/ ReplaceProgram(o) PROVE Kept
  <2>1. frames = <<>>
    BY <1>q, <1>7, QuietCalls, Zenon DEF RemoveShadow, Unshadow, ReplaceProgram
  <2>2. Spliced(o) /\ UNCHANGED <<frames, destructed, told, retold>>
    BY <1>7 DEF RemoveShadow, Unshadow, ReplaceProgram
  <2>3. \A x \in Objects : Unlinked(x) => Unlinked(x)'
    BY <1>2, <2>2, SpliceKeepsLoners DEF Unlinked
  <2> QED
    BY <1>0, <1>2, <2>1, <2>2, <2>3, QuietLinks
<1>8. ASSUME NEW o \in Objects, Destruct(o) PROVE Kept
  <2>1. frames = <<>>
    BY <1>q, <1>8, QuietCalls, Zenon DEF Destruct
  <2> QED
    BY <1>0, <1>8, <2>1, QuietDestruct DEF Destruct
<1>9. ASSUME NEW o \in Objects, Reload(o) PROVE Kept
  <2>1. frames = <<>> /\ frames' = <<>>
    BY <1>q, <1>9, QuietCalls, Zenon DEF Reload
  <2>2. QuietStack'
    BY <2>1 DEF QuietStack
  <2>3. CASE shadowing[o] = NoObject
    <3> DEFINE above == UpFrom(o) \ {o}
    <3>1. /\ shadowing' = [x \in Objects |-> IF x \in above THEN NoObject ELSE shadowing[x]]
          /\ shadowedBy' = [x \in Objects |-> IF x \in above \cup {o} THEN NoObject ELSE shadowedBy[x]]
          /\ destructed' = destructed \cup above /\ told' = told \cup (above \ destructed)
          /\ retold' = retold \cup (told \cap (above \ destructed))
      BY <1>9, <2>3, Zenon DEF Reload
    <3>2. above \subseteq Objects
      BY DEF UpFrom
    <3> HIDE DEF above
    <3>3. DeadUnlinked'
      BY <1>0, <1>2, <3>1, <3>2 DEF DeadUnlinked, Unlinked
    <3>4. ToldOnce'
      BY <1>0, <3>1 DEF ToldOnce
    <3> QED
      BY <2>2, <3>3, <3>4
  <2>4. CASE shadowing[o] # NoObject
    <3>1. Spliced(o) /\ UNCHANGED <<frames, destructed, told, retold>>
      BY <1>9, <2>4, Zenon DEF Reload
    <3>2. \A x \in Objects : Unlinked(x) => Unlinked(x)'
      BY <1>2, <3>1, SpliceKeepsLoners DEF Unlinked
    <3> QED
      BY <1>0, <1>2, <2>1, <3>1, <3>2, QuietLinks
  <2> QED
    BY <2>3, <2>4
<1>10. ASSUME NEW o \in Objects, Free(o) PROVE Kept
  <2>1. frames = <<>>
    BY <1>q, <1>10, QuietCalls, Zenon DEF Free
  <2>2. \A x \in Objects : Unlinked(x) => Unlinked(x)'
    BY <1>10 DEF Free, Unlinked
  <2> QED
    BY <1>0, <1>2, <1>10, <2>1, <2>2, QuietLinks DEF Free
<1>11. CASE UNCHANGED vars
  BY <1>0, <1>11 DEF vars, QuietStack, AskStack, LoneStack, LoopStack, BodyStack, LoopAt, Leaving,
     UpFrom, DeadUnlinked, Unlinked, ToldOnce
<1> QED
  BY <1>3, <1>4, <1>5, <1>6, <1>7, <1>8, <1>9, <1>10, <1>11, Zenon DEF Next, Step

(* ... and so holds throughout.                                              *)
LEMMA QuietTheorem == Spec => []QuietInv
<1>1. Init => QuietInv
  BY InitIInv DEF Init, QuietInv, QuietStack, DeadUnlinked, ToldOnce
<1> QED
  BY <1>1, QuietNext, PTL DEF Spec

(* Where no apply interferes, destruct() of the base of a chain of any       *)
(* length takes the whole chain, the base last, and onDestructed is called   *)
(* exactly once for every object that is destructed, reload_object()'s       *)
(* included.                                                                 *)
THEOREM CompleteTheorem == Spec => []DestructComplete
<1>1. QuietInv => DestructComplete
  <2> SUFFICES ASSUME QuietInv, quiet, In("cascade"), Top.top = NoObject
               PROVE  Top.base \in destructed
    BY Zenon DEF QuietInv, DestructComplete, CascadeReachesBase
  <2>1. PICK base \in Objects, top \in Objects \cup {NoObject} : LoopStack(base, top)
    BY QuietTop, Zenon DEF QuietInv, In
  <2>2. Top = Cascade(base, top) /\ (top = NoObject => base \in destructed)
    BY <2>1, SmallStack, Zenon DEF LoopStack
  <2>3. Top.base = base /\ Top.top = top
    BY <2>2, FrameFields, Zenon
  <2> QED
    BY <2>2, <2>3, Zenon
<1> QED
  BY <1>1, QuietTheorem, PTL

(* Where no apply interferes, a destructed object is in no chain, and so no  *)
(* call to a live object, passed up and down its chain of shadows, runs a    *)
(* destructed one's function.                                                *)
THEOREM GhostTheorem == Spec => []NoGhostCalls
<1>1. QuietInv => NoGhostCalls
  <2> SUFFICES ASSUME QuietInv, quiet, NEW o \in Objects \ (destructed \cup freed), NEW c \in Objects,
                      NEW x \in ActiveUp(o, c)
               PROVE  DownFrom(x) \cap destructed = {}
    BY Zenon DEF NoGhostCalls, CallsStayLive
  <2> DEFINE live == Objects \ destructed
  <2>1. LinkTypes /\ LinksMirror /\ DeadUnlinked
    BY DEF QuietInv, IInv, TypeOK, LinkTypes
  <2>2. o \in live /\ \A y \in live : shadowedBy[y] \in live \cup destructed \cup {c, NoObject}
    BY <2>1 DEF LinkTypes
  <2>3. x \in live
    BY <2>2 DEF ActiveUp
  <2>4. \A y \in live : shadowing[y] \in live \cup {NoObject}
    BY <2>1, ShadowAssumption DEF LinkTypes, LinksMirror, DeadUnlinked, Unlinked
  <2>5. DownFrom(x) \subseteq live
    BY <2>3, <2>4 DEF DownFrom
  <2> QED
    BY <2>5
<1> QED
  BY <1>1, QuietTheorem, PTL
==============================================================================
