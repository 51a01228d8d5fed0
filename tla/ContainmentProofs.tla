------------------------- MODULE ContainmentProofs -------------------------
(***************************************************************************)
(* Proofs about Containment.  LinksAgree is inductive with the types of    *)
(* env and inv; StaysOut needs, besides, that no LPC code calls            *)
(* set_environment() itself.  For EveryoneIntroduced the invariant says of *)
(* every moment which init() calls the moves under way still owe.          *)
(***************************************************************************)
EXTENDS Containment, TLAPS

LinkTypes ==
    /\ env \in [Objects -> Objects \cup {NoObject}]
    /\ inv \in [Objects -> SUBSET Objects]

Links == LinkTypes /\ LinksAgree

(* Moving an item: Relink, whoever calls it. *)
LEMMA RelinkKeepsLinks ==
    ASSUME NEW item \in Objects, NEW dest \in Objects, Links, Relink(item, dest)
    PROVE  Links'
<1>1. LinkTypes'
  BY DEF Links, LinkTypes, Relink, Unlinked
<1>2. ASSUME NEW o \in Objects, NEW e \in Objects
      PROVE  o \in inv'[e] <=> env'[o] = e
  <2>1. CASE o = item
    BY <2>1, ContainmentAssumption DEF Links, LinkTypes, LinksAgree, Relink, Unlinked
  <2>2. CASE o # item
    BY <2>2 DEF Links, LinkTypes, LinksAgree, Relink, Unlinked
  <2> QED
    BY <2>1, <2>2
<1> QED
  BY <1>1, <1>2 DEF Links, LinksAgree

(* Taking an object out of its environment: destruct() and                 *)
(* set_environment() without a second argument.                            *)
LEMMA UnlinkKeepsLinks ==
    ASSUME NEW item \in Objects, Links,
           inv' = Unlinked(item), env' = [env EXCEPT ![item] = NoObject]
    PROVE  Links'
<1>1. LinkTypes'
  BY DEF Links, LinkTypes, Unlinked
<1>2. ASSUME NEW o \in Objects, NEW e \in Objects
      PROVE  o \in inv'[e] <=> env'[o] = e
  <2>1. CASE o = item
    BY <2>1, ContainmentAssumption DEF Links, LinkTypes, LinksAgree, Unlinked
  <2>2. CASE o # item
    BY <2>2 DEF Links, LinkTypes, LinksAgree, Unlinked
  <2> QED
    BY <2>1, <2>2
<1> QED
  BY <1>1, <1>2 DEF Links, LinksAgree

(* Freeing a destructed container: weak pointers to it expire with it. *)
LEMMA FreeKeepsLinks ==
    ASSUME NEW f \in Objects, Links, Free(f)
    PROVE  Links'
<1>1. LinkTypes'
  BY DEF Links, LinkTypes, Free
<1>2. ASSUME NEW o \in Objects, NEW e \in Objects
      PROVE  o \in inv'[e] <=> env'[o] = e
  BY ContainmentAssumption DEF Links, LinkTypes, LinksAgree, Free
<1> QED
  BY <1>1, <1>2 DEF Links, LinksAgree

LEMMA SameLinks ==
    ASSUME Links, UNCHANGED <<env, inv>>
    PROVE  Links'
BY DEF Links, LinkTypes, LinksAgree

(* Every step keeps the links in agreement.                                *)
LEMMA NextLinks == Links /\ [Next]_vars => Links'
<1> SUFFICES ASSUME Links, [Next]_vars PROVE Links'
  OBVIOUS
<1>1. CASE Driver
  BY <1>1, SameLinks DEF Driver, LookAround, Returns, Claims, Fails, Ends, Calls
<1>2. CASE Efun
  <2> PICK o \in Objects :
          \/ Destruct(o) \/ Free(o) \/ Enable(o) \/ Disable(o) \/ Unparent(o)
          \/ \E p \in Objects : Move(o, p) \/ Reparent(o, p) \/ AddAction(o, p) \/ RemoveAction(o, p)
          \/ \E matching \in SUBSET actions[o] : Command(o, matching)
    BY <1>2 DEF Efun
  <2>1. CASE Destruct(o) \/ Unparent(o)
    BY <2>1, UnlinkKeepsLinks DEF Destruct, Unparent
  <2>2. CASE Free(o)
    BY <2>2, FreeKeepsLinks
  <2>3. CASE \E p \in Objects : Move(o, p) \/ Reparent(o, p)
    BY <2>3, RelinkKeepsLinks DEF Move, Reparent
  <2>4. CASE Enable(o) \/ Disable(o)
    BY <2>4, SameLinks DEF Enable, Disable
  <2>5. CASE \E p \in Objects : AddAction(o, p) \/ RemoveAction(o, p)
    BY <2>5, SameLinks DEF AddAction, RemoveAction
  <2>6. CASE \E matching \in SUBSET actions[o] : Command(o, matching)
    BY <2>6, SameLinks DEF Command
  <2> QED
    BY <2>1, <2>2, <2>3, <2>4, <2>5, <2>6
<1>3. CASE UNCHANGED vars
  BY <1>3, SameLinks DEF vars
<1> QED
  BY <1>1, <1>2, <1>3 DEF Next, Step

(* The moves, destructs and frees of any nesting of init() bodies and      *)
(* handlers keep environment() and inventory() in agreement, for any set   *)
(* of objects and any depth.                                               *)
THEOREM LinksTheorem == Spec => []LinksAgree
<1>1. Init => Links
  BY ContainmentAssumption DEF Init, Links, LinkTypes, LinksAgree
<1>2. Links => LinksAgree
  BY DEF Links
<1> QED
  BY <1>1, <1>2, NextLinks, PTL DEF Spec

(* If LPC code leaves set_environment() to the move hook's checks, no step *)
(* puts a destructed object back into an environment: moveObject()'s guard *)
(* is enough, although a move is requested by code that may have           *)
(* destructed the item.                                                    *)
THEOREM StaysOutTheorem ==
    ASSUME ~SetEnvironment
    PROVE  Spec => []StaysOut
<1> DEFINE Out == env \in [Objects -> Objects \cup {NoObject}] /\ destructed \subseteq Objects /\ StaysOut
<1>1. Init => Out
  BY DEF Init, StaysOut
<1>2. Out /\ [Next]_vars => Out'
  <2> SUFFICES ASSUME Out, [Next]_vars PROVE Out'
    OBVIOUS
  <2>1. CASE Driver
    BY <2>1 DEF Driver, LookAround, Returns, Claims, Fails, Ends, Calls, StaysOut
  <2>2. CASE Efun
    <3> PICK o \in Objects :
            \/ Destruct(o) \/ Free(o) \/ Enable(o) \/ Disable(o) \/ Unparent(o)
            \/ \E p \in Objects : Move(o, p) \/ Reparent(o, p) \/ AddAction(o, p) \/ RemoveAction(o, p)
            \/ \E matching \in SUBSET actions[o] : Command(o, matching)
      BY <2>2 DEF Efun
    <3>1. CASE Destruct(o)
      BY <3>1 DEF Destruct, StaysOut
    <3>2. CASE Free(o)
      BY <3>2 DEF Free, StaysOut
    <3>3. CASE \E p \in Objects : Move(o, p)
      BY <3>3 DEF Move, Relink, StaysOut
    <3>4. CASE Enable(o) \/ Disable(o)
      BY <3>4 DEF Enable, Disable, StaysOut
    <3>5. CASE \E p \in Objects : AddAction(o, p) \/ RemoveAction(o, p)
      BY <3>5 DEF AddAction, RemoveAction, StaysOut
    <3>6. CASE \E matching \in SUBSET actions[o] : Command(o, matching)
      BY <3>6 DEF Command, StaysOut
    <3>7. ~Unparent(o) /\ ~\E p \in Objects : Reparent(o, p)
      BY DEF Unparent, Reparent
    <3> QED
      BY <3>1, <3>2, <3>3, <3>4, <3>5, <3>6, <3>7
  <2>3. CASE UNCHANGED vars
    BY <2>3 DEF vars, StaysOut
  <2> QED
    BY <2>1, <2>2, <2>3 DEF Next, Step
<1>3. Out => StaysOut
  OBVIOUS
<1> QED
  BY <1>1, <1>2, <1>3, PTL DEF Spec

-----------------------------------------------------------------------------
(* Introductions.  Two that are together have met, or a move that is under   *)
(* way has the call still to make; for two who stand in one environment it   *)
(* may also be a move of one of them that has not looked around there yet.   *)
Waits(f, a, b) == f.kind = "move" /\ <<a, b>> \in f.left
Looks(f, a, b, e) == f.kind = "move" /\ ~f.looked /\ f.item \in {a, b} /\ f.dest = e

InsideMet ==
    \A a \in Objects \ destructed, b \in enabled \ destructed :
        a # b /\ env[b] = a => <<a, b>> \in met \/ \E i \in DOMAIN stack : Waits(stack[i], a, b)

BesideMet ==
    \A a \in Objects \ destructed, b \in enabled \ destructed :
        a # b /\ env[b] # NoObject /\ env[a] = env[b] =>
            \/ <<a, b>> \in met
            \/ \E i \in DOMAIN stack : Waits(stack[i], a, b) \/ Looks(stack[i], a, b, env[b])

Shape == TypeOK /\ LinksAgree

MetInv == Shape /\ (plain => InsideMet /\ BesideMet)

(* The innermost frame is replaced, or taken off.                            *)
LEMMA StackOps ==
    ASSUME stack \in Seq(Frames), stack # <<>>
    PROVE  /\ Len(stack) \in Nat /\ Len(stack) > 0 /\ DOMAIN stack = 1..Len(stack) /\ Top \in Frames
           /\ \A i \in DOMAIN stack : stack[i] \in Frames
           /\ Below \in Seq(Frames) /\ DOMAIN Below = 1..(Len(stack) - 1)
           /\ \A i \in 1..(Len(stack) - 1) : Below[i] = stack[i]
           /\ \A f \in Frames :
                /\ Put(f) \in Seq(Frames) /\ DOMAIN Put(f) = 1..Len(stack) /\ Put(f)[Len(stack)] = f
                /\ \A i \in 1..(Len(stack) - 1) : Put(f)[i] = stack[i]
<1>1. Len(stack) \in Nat /\ Len(stack) > 0 /\ DOMAIN stack = 1..Len(stack) /\ Top \in Frames
  BY DEF Top
<1>2. \A i \in DOMAIN stack : stack[i] \in Frames
  OBVIOUS
<1>3. /\ Below \in Seq(Frames) /\ Len(Below) = Len(stack) - 1
      /\ \A i \in 1..(Len(stack) - 1) : Below[i] = stack[i]
  BY <1>1, <1>2 DEF Below
<1>4. ASSUME NEW f \in Frames
      PROVE  /\ Put(f) \in Seq(Frames) /\ DOMAIN Put(f) = 1..Len(stack) /\ Put(f)[Len(stack)] = f
             /\ \A i \in 1..(Len(stack) - 1) : Put(f)[i] = stack[i]
  <2>1. PICK below \in Seq(Frames) : below = Below
    BY <1>3
  <2>2. Put(f) = below \o <<f>> /\ Len(below) = Len(stack) - 1
    BY <1>3, <2>1 DEF Put
  <2>3. Put(f) \in Seq(Frames) /\ Len(Put(f)) = Len(stack) /\ Put(f)[Len(stack)] = f
    <3>1. below \o <<f>> \in Seq(Frames) /\ Len(below \o <<f>>) = Len(below) + 1
      BY <2>1
    <3>2. (below \o <<f>>)[Len(below) + 1] = f
      BY <2>1
    <3>3. Len(below) + 1 = Len(stack)
      BY <1>1, <2>2
    <3> QED
      BY <2>2, <3>1, <3>2, <3>3, Zenon
  <2>4. \A i \in 1..(Len(stack) - 1) : Put(f)[i] = below[i]
    BY <1>1, <2>2
  <2> QED
    BY <1>3, <2>1, <2>3, <2>4
<1>5. DOMAIN Below = 1..(Len(stack) - 1)
  BY <1>3
<1> QED
  BY <1>1, <1>2, <1>3, <1>4, <1>5

(* A step of the driver that moves nothing: whoever was to be introduced by  *)
(* a frame is introduced by it, or still to be.                              *)
LEMMA FrameMet ==
    ASSUME InsideMet, BesideMet, UNCHANGED <<env, destructed, enabled>>, met \subseteq met',
           \A a \in Objects \ destructed, b \in enabled \ destructed, i \in DOMAIN stack :
             a # b /\ Together(<<a, b>>) =>
               /\ Waits(stack[i], a, b) =>
                    <<a, b>> \in met' \/ \E j \in DOMAIN stack' : Waits(stack'[j], a, b)
               /\ Looks(stack[i], a, b, env[b]) /\ env[a] = env[b] =>
                    \E j \in DOMAIN stack' : Waits(stack'[j], a, b) \/ Looks(stack'[j], a, b, env[b])
    PROVE  InsideMet' /\ BesideMet'
<1>1. ASSUME NEW a \in Objects \ destructed, NEW b \in enabled \ destructed, a # b, env[b] = a
      PROVE  <<a, b>> \in met' \/ \E i \in DOMAIN stack' : Waits(stack'[i], a, b)
  <2>1. Together(<<a, b>>)
    BY <1>1, ContainmentAssumption DEF Together
  <2>2. <<a, b>> \in met \/ \E i \in DOMAIN stack : Waits(stack[i], a, b)
    BY <1>1, Zenon DEF InsideMet
  <2> QED
    BY <1>1, <2>1, <2>2, Zenon
<1>2. ASSUME NEW a \in Objects \ destructed, NEW b \in enabled \ destructed, a # b,
             env[b] # NoObject, env[a] = env[b]
      PROVE  \/ <<a, b>> \in met'
             \/ \E i \in DOMAIN stack' : Waits(stack'[i], a, b) \/ Looks(stack'[i], a, b, env[b])
  <2>1. Together(<<a, b>>)
    BY <1>2 DEF Together
  <2>2. \/ <<a, b>> \in met
        \/ \E i \in DOMAIN stack : Waits(stack[i], a, b) \/ Looks(stack[i], a, b, env[b])
    BY <1>2, Zenon DEF BesideMet
  <2> QED
    BY <1>2, <2>1, <2>2, Zenon
<1> QED
  BY <1>1, <1>2, Zenon DEF InsideMet, BesideMet

(* Every step keeps the types.                                               *)
LEMMA NextTypes == TypeOK /\ LinksAgree /\ [Next]_vars => TypeOK'
<1> SUFFICES ASSUME TypeOK, LinksAgree, [Next]_vars PROVE TypeOK'
  OBVIOUS
<1>1. LinkTypes' /\ UNCHANGED plain
  <2>1. Links /\ UNCHANGED plain
    BY Zenon DEF Links, LinkTypes, TypeOK, Next, vars
  <2> QED
    BY <2>1, NextLinks, Zenon DEF Links
<1>2. destructed' \subseteq Objects /\ enabled' \subseteq Objects /\ actions' \in [Objects -> SUBSET Objects]
  <2>1. destructed' = destructed \/ \E o \in Objects : destructed' = destructed \cup {o}
    BY Zenon DEF Next, Step, vars, Efun, Driver, LookAround, Returns, Claims, Fails, Ends, Calls, Destruct, Free,
       Enable, Disable, Unparent, Move, Reparent, AddAction, RemoveAction, Command
  <2>2. enabled' = enabled \/ \E o \in Objects : enabled' \in {enabled \cup {o}, enabled \ {o}}
    BY Zenon DEF Next, Step, vars, Efun, Driver, LookAround, Returns, Claims, Fails, Ends, Calls, Destruct, Free,
       Enable, Disable, Unparent, Move, Reparent, AddAction, RemoveAction, Command
  <2>3. actions' = actions \/ \E o, g \in Objects : \/ actions' = [actions EXCEPT ![g] = @ \cup {o}]
                                                     \/ actions' = [actions EXCEPT ![g] = @ \ {o}]
    BY Zenon DEF Next, Step, vars, Efun, Driver, LookAround, Returns, Claims, Fails, Ends, Calls, Destruct, Free,
       Enable, Disable, Unparent, Move, Reparent, AddAction, RemoveAction, Command
  <2> QED
    BY <2>1, <2>2, <2>3 DEF TypeOK
<1>3. met' \subseteq Pairs
  BY DEF TypeOK, Next, Step, vars, Efun, Driver, LookAround, Returns, Claims, Fails, Ends, Calls, Destruct, Free,
     Enable, Disable, Unparent, Move, Reparent, Relink, AddAction, RemoveAction, Command
<1>4. stack' \in Seq(Frames)
  <2>1. stack \in Seq(Frames) /\ inv \in [Objects -> SUBSET Objects]
        /\ actions \in [Objects -> SUBSET Objects]
    BY DEF TypeOK
  <2>2. CASE UNCHANGED stack
    BY <2>1, <2>2
  <2>3. CASE Claims \/ Fails \/ Ends
    BY <2>1, <2>3, StackOps DEF Claims, Fails, Ends
  <2>4. CASE LookAround
    <3>1. stack # <<>> /\ stack' = Put([Top EXCEPT !.looked = TRUE, !.left = Exchange(Top.item, inv[Top.dest])])
      BY <2>4 DEF LookAround
    <3>2. Top \in Frames
      BY <2>1, <3>1, StackOps
    <3>3. Exchange(Top.item, inv[Top.dest]) \subseteq Pairs
      BY <2>1, <3>2 DEF Exchange, Pairs, Frames
    <3>4. [Top EXCEPT !.looked = TRUE, !.left = Exchange(Top.item, inv[Top.dest])] \in Frames
      BY <3>2, <3>3 DEF Frames
    <3> QED
      BY <2>1, <3>1, <3>4, StackOps
  <2>5. CASE Returns
    <3>1. stack # <<>> /\ stack' = Put([Top EXCEPT !.call = NoCall])
      BY <2>5 DEF Returns
    <3>2. Top \in Frames
      BY <2>1, <3>1, StackOps
    <3>3. [Top EXCEPT !.call = NoCall] \in Frames
      BY <3>2 DEF Frames
    <3> QED
      BY <2>1, <3>1, <3>3, StackOps
  <2>6. ASSUME NEW c \in Pairs, Calls(c) PROVE stack' \in Seq(Frames)
    <3>1. /\ stack # <<>>
          /\ \/ stack' = Put([Top EXCEPT !.left = @ \ {c}, !.call = c])
             \/ stack' = Put([Top EXCEPT !.left = @ \ {c}])
      BY <2>6, Zenon DEF Calls
    <3>2. Top \in Frames
      BY <2>1, <3>1, StackOps
    <3>3. /\ [Top EXCEPT !.left = @ \ {c}, !.call = c] \in Frames
          /\ [Top EXCEPT !.left = @ \ {c}] \in Frames
      BY <3>2 DEF Frames
    <3> QED
      BY <2>1, <3>1, <3>3, StackOps
  <2>7. ASSUME NEW item \in Objects, NEW dest \in Objects, Move(item, dest) PROVE stack' \in Seq(Frames)
    <3>1. [kind |-> "move", item |-> item, dest |-> dest, looked |-> FALSE,
           left |-> {<<dest, item>>}, call |-> NoCall] \in Frames
      BY DEF Frames, Pairs
    <3> QED
      BY <2>1, <2>7, <3>1 DEF Move
  <2>8. ASSUME NEW g \in Objects, NEW matching \in SUBSET actions[g], Command(g, matching)
        PROVE  stack' \in Seq(Frames)
    <3>1. [kind |-> "command", item |-> g, dest |-> g, looked |-> TRUE,
           left |-> {<<o, g>> : o \in matching}, call |-> NoCall] \in Frames
      BY <2>1 DEF Frames, Pairs
    <3> QED
      BY <2>1, <2>8, <3>1 DEF Command
  <2> QED
    BY <2>2, <2>3, <2>4, <2>5, <2>6, <2>7, <2>8, Zenon DEF Next, Step, vars, Efun, Driver, Destruct, Free,
       Enable, Disable, Unparent, Reparent, AddAction, RemoveAction
<1> QED
  BY <1>1, <1>2, <1>3, <1>4 DEF TypeOK, LinkTypes

(* A move: what the item comes to is in its frame, and the occupants will be *)
(* looked up where the item is now.                                          *)
LEMMA MoveMet ==
    ASSUME Shape, InsideMet, BesideMet, NEW item \in Objects, NEW dest \in Objects, Move(item, dest)
    PROVE  InsideMet' /\ BesideMet'
<1> DEFINE f == [kind |-> "move", item |-> item, dest |-> dest, looked |-> FALSE,
                 left |-> {<<dest, item>>}, call |-> NoCall]
<1>1. /\ item # dest /\ env' = [env EXCEPT ![item] = dest] /\ met' = {p \in met : Together(p)'}
      /\ stack' = Append(stack, f) /\ UNCHANGED <<destructed, enabled>>
  BY DEF Move, Relink
<1>2. /\ env'[item] = dest /\ \A x \in Objects \ {item} : env'[x] = env[x]
      /\ enabled \subseteq Objects /\ stack \in Seq(Frames)
  BY <1>1 DEF Shape, TypeOK
<1>3. /\ f.kind = "move" /\ ~f.looked /\ f.item = item /\ f.dest = dest /\ <<dest, item>> \in f.left
  OBVIOUS
<1>4. \E i \in DOMAIN stack' : stack'[i] = f
  <2>1. Len(stack) + 1 \in DOMAIN stack' /\ stack'[Len(stack) + 1] = f
    BY <1>1, <1>2
  <2> QED
    BY <2>1, Zenon
<1>5. \A i \in DOMAIN stack : i \in DOMAIN stack' /\ stack'[i] = stack[i]
  BY <1>1, <1>2
<1> HIDE DEF f
<1>6. ASSUME NEW a \in Objects \ destructed, NEW b \in enabled \ destructed, a # b, env'[b] = a
      PROVE  <<a, b>> \in met' \/ \E i \in DOMAIN stack' : Waits(stack'[i], a, b)
  <2>1. CASE b = item
    BY <1>2, <1>3, <1>4, <1>6, <2>1 DEF Waits
  <2>2. CASE b # item
    <3>1. env[b] = a
      BY <1>2, <1>6, <2>2
    <3>2. <<a, b>> \in met \/ \E i \in DOMAIN stack : Waits(stack[i], a, b)
      BY <1>6, <3>1, Zenon DEF InsideMet
    <3>3. Together(<<a, b>>)'
      BY <1>6, ContainmentAssumption DEF Together
    <3> QED
      BY <1>1, <1>5, <3>2, <3>3
  <2> QED
    BY <2>1, <2>2
<1>7. ASSUME NEW a \in Objects \ destructed, NEW b \in enabled \ destructed, a # b,
             env'[b] # NoObject, env'[a] = env'[b]
      PROVE  \/ <<a, b>> \in met'
             \/ \E i \in DOMAIN stack' : Waits(stack'[i], a, b) \/ Looks(stack'[i], a, b, env'[b])
  <2>1. CASE item \in {a, b}
    <3>1. env'[b] = dest
      BY <1>2, <1>7, <2>1
    <3> QED
      BY <1>3, <1>4, <2>1, <3>1 DEF Looks
  <2>2. CASE item \notin {a, b}
    <3>1. env[a] = env[b] /\ env[b] # NoObject /\ env'[b] = env[b]
      BY <1>2, <1>7, <2>2
    <3>2. \/ <<a, b>> \in met
          \/ \E i \in DOMAIN stack : Waits(stack[i], a, b) \/ Looks(stack[i], a, b, env[b])
      BY <1>7, <3>1, Zenon DEF BesideMet
    <3>3. Together(<<a, b>>)'
      BY <1>7 DEF Together
    <3> QED
      BY <1>1, <1>5, <3>1, <3>2, <3>3
  <2> QED
    BY <2>1, <2>2
<1> QED
  BY <1>1, <1>6, <1>7, Zenon DEF InsideMet, BesideMet

(* destruct(), and the end of what was destructed, bring nobody together.    *)
LEMMA LeaveMet ==
    ASSUME Shape, InsideMet, BesideMet, UNCHANGED <<stack, enabled>>, destructed \subseteq destructed',
           \A x \in Objects : env'[x] \in {env[x], NoObject}, met' = {p \in met : Together(p)'}
    PROVE  InsideMet' /\ BesideMet'
<1>1. enabled \subseteq Objects
  BY DEF Shape, TypeOK
<1>2. ASSUME NEW a \in Objects \ destructed', NEW b \in enabled \ destructed', a # b, env'[b] = a
      PROVE  <<a, b>> \in met' \/ \E i \in DOMAIN stack : Waits(stack[i], a, b)
  <2>1. env[b] = a
    BY <1>1, <1>2, ContainmentAssumption
  <2>2. <<a, b>> \in met \/ \E i \in DOMAIN stack : Waits(stack[i], a, b)
    BY <1>2, <2>1 DEF InsideMet
  <2>3. Together(<<a, b>>)'
    BY <1>2, ContainmentAssumption DEF Together
  <2> QED
    BY <2>2, <2>3
<1>3. ASSUME NEW a \in Objects \ destructed', NEW b \in enabled \ destructed', a # b,
             env'[b] # NoObject, env'[a] = env'[b]
      PROVE  \/ <<a, b>> \in met'
             \/ \E i \in DOMAIN stack : Waits(stack[i], a, b) \/ Looks(stack[i], a, b, env'[b])
  <2>1. env[b] # NoObject /\ env[a] = env[b] /\ env'[b] = env[b]
    BY <1>1, <1>3
  <2>2. \/ <<a, b>> \in met
        \/ \E i \in DOMAIN stack : Waits(stack[i], a, b) \/ Looks(stack[i], a, b, env[b])
    BY <1>3, <2>1 DEF BesideMet
  <2>3. Together(<<a, b>>)'
    BY <1>3 DEF Together
  <2> QED
    BY <2>1, <2>2, <2>3
<1> QED
  BY <1>2, <1>3, Zenon DEF InsideMet, BesideMet

(* The occupants are looked up where the two stand: both calls are due.      *)
LEMMA LookMet ==
    ASSUME Shape, InsideMet, BesideMet, LookAround
    PROVE  InsideMet' /\ BesideMet'
<1> DEFINE n == Len(stack)
           f == [Top EXCEPT !.looked = TRUE, !.left = Exchange(Top.item, inv[Top.dest])]
<1>1. /\ stack # <<>> /\ Top.left = {} /\ stack' = Put(f) /\ UNCHANGED <<env, destructed, enabled, met>>
      /\ stack \in Seq(Frames) /\ enabled \subseteq Objects /\ inv \in [Objects -> SUBSET Objects]
  BY DEF LookAround, Shape, TypeOK
<1>2. Top \in Frames
  BY <1>1, StackOps
<1>3. /\ f \in Frames /\ f.kind = Top.kind /\ f.left = Exchange(Top.item, inv[Top.dest])
  <2>1. Exchange(Top.item, inv[Top.dest]) \subseteq Pairs
    BY <1>1, <1>2 DEF Exchange, Pairs, Frames
  <2> QED
    BY <1>2, <2>1 DEF Frames
<1> HIDE DEF f
<1>4. /\ n \in Nat /\ n > 0 /\ DOMAIN stack = 1..n /\ DOMAIN stack' = 1..n /\ stack'[n] = f
      /\ \A i \in 1..(n - 1) : stack'[i] = stack[i]
  BY <1>1, <1>3, StackOps
<1>5. ASSUME NEW a \in Objects \ destructed, NEW b \in enabled \ destructed, NEW i \in DOMAIN stack, a # b,
             Waits(stack[i], a, b)
      PROVE  \E j \in DOMAIN stack' : Waits(stack'[j], a, b)
  <2>1. i # n
    BY <1>1, <1>5 DEF Waits, Top
  <2> QED
    BY <1>4, <1>5, <2>1
<1>6. ASSUME NEW a \in Objects \ destructed, NEW b \in enabled \ destructed, NEW i \in DOMAIN stack, a # b,
             Looks(stack[i], a, b, env[b]), env[a] = env[b]
      PROVE  \E j \in DOMAIN stack' : Waits(stack'[j], a, b) \/ Looks(stack'[j], a, b, env[b])
  <2>1. CASE i # n
    BY <1>4, <1>6, <2>1
  <2>2. CASE i = n
    <3>1. /\ Top.kind = "move" /\ Top.item \in {a, b} /\ Top.dest = env[b] /\ Top.dest = env[a]
      BY <1>6, <2>2 DEF Looks, Top
    <3>2. Top.dest \in Objects
      BY <1>2 DEF Frames
    <3>3. a \in inv[Top.dest] /\ b \in inv[Top.dest]
      BY <1>1, <3>1, <3>2 DEF Shape, LinksAgree
    <3>4. <<a, b>> \in Exchange(Top.item, inv[Top.dest])
      BY <1>6, <3>1, <3>3 DEF Exchange
    <3>5. Waits(f, a, b)
      BY <1>3, <3>1, <3>4 DEF Waits
    <3> QED
      BY <1>4, <3>5
  <2> QED
    BY <2>1, <2>2
<1> QED
  BY <1>1, <1>5, <1>6, FrameMet, Zenon

(* The next call is made: an init() of two who are together lets them meet.  *)
LEMMA CallsMet ==
    ASSUME Shape, InsideMet, BesideMet, NEW c \in Pairs, Calls(c)
    PROVE  InsideMet' /\ BesideMet'
<1> DEFINE n == Len(stack)
<1>1. /\ stack # <<>> /\ UNCHANGED <<env, destructed, enabled>> /\ met \subseteq met'
      /\ stack \in Seq(Frames)
      /\ \/ stack' = Put([Top EXCEPT !.left = @ \ {c}, !.call = c])
         \/ stack' = Put([Top EXCEPT !.left = @ \ {c}])
  BY DEF Calls, Shape, TypeOK
<1>2. Top.kind = "move" /\ c[2] \in enabled /\ c[1] \notin destructed /\ Together(c) => c \in met'
  BY Zenon DEF Calls
<1>3. Top \in Frames
  BY <1>1, StackOps
<1>4. PICK f \in Frames : /\ stack' = Put(f) /\ f.left = Top.left \ {c}
                          /\ f.kind = Top.kind /\ f.looked = Top.looked /\ f.item = Top.item /\ f.dest = Top.dest
  <2> DEFINE f1 == [Top EXCEPT !.left = @ \ {c}, !.call = c]
             f2 == [Top EXCEPT !.left = @ \ {c}]
  <2>1. /\ f1 \in Frames /\ f1.left = Top.left \ {c} /\ f1.kind = Top.kind
        /\ f1.looked = Top.looked /\ f1.item = Top.item /\ f1.dest = Top.dest
    BY <1>3 DEF Frames
  <2>2. /\ f2 \in Frames /\ f2.left = Top.left \ {c} /\ f2.kind = Top.kind
        /\ f2.looked = Top.looked /\ f2.item = Top.item /\ f2.dest = Top.dest
    BY <1>3 DEF Frames
  <2>3. stack' = Put(f1) \/ stack' = Put(f2)
    BY <1>1
  <2> HIDE DEF f1, f2
  <2> QED
    BY <2>1, <2>2, <2>3, Zenon
<1>5. /\ n \in Nat /\ n > 0 /\ DOMAIN stack = 1..n /\ DOMAIN stack' = 1..n /\ stack'[n] = f
      /\ \A i \in 1..(n - 1) : stack'[i] = stack[i]
  BY <1>1, <1>4, StackOps
<1>6. ASSUME NEW a \in Objects \ destructed, NEW b \in enabled \ destructed, NEW i \in DOMAIN stack, a # b,
             Together(<<a, b>>), Waits(stack[i], a, b)
      PROVE  <<a, b>> \in met' \/ \E j \in DOMAIN stack' : Waits(stack'[j], a, b)
  <2>1. CASE i # n
    BY <1>5, <1>6, <2>1
  <2>2. CASE i = n
    <3>1. Top.kind = "move" /\ <<a, b>> \in Top.left
      BY <1>6, <2>2 DEF Waits, Top
    <3>2. CASE c = <<a, b>>
      BY <1>2, <1>6, <3>1, <3>2
    <3>3. CASE c # <<a, b>>
      <4>1. Waits(f, a, b)
        BY <1>4, <3>1, <3>3 DEF Waits
      <4> QED
        BY <1>5, <4>1
    <3> QED
      BY <3>2, <3>3
  <2> QED
    BY <2>1, <2>2
<1>7. ASSUME NEW a \in Objects \ destructed, NEW b \in enabled \ destructed, NEW i \in DOMAIN stack,
             Looks(stack[i], a, b, env[b])
      PROVE  \E j \in DOMAIN stack' : Looks(stack'[j], a, b, env[b])
  <2>1. CASE i # n
    BY <1>5, <1>7, <2>1
  <2>2. CASE i = n
    BY <1>4, <1>5, <1>7, <2>2 DEF Looks, Top
  <2> QED
    BY <2>1, <2>2
<1> QED
  BY <1>1, <1>6, <1>7, FrameMet, Zenon

(* A call returns, a finished move or any command is taken off, a command is *)
(* put on: no introduction is lost.                                          *)
LEMMA OtherMet ==
    ASSUME Shape, InsideMet, BesideMet,
           Returns \/ Claims \/ Ends \/ \E g \in Objects, matching \in SUBSET Objects : Command(g, matching)
    PROVE  InsideMet' /\ BesideMet'
<1> DEFINE n == Len(stack)
<1>1. stack \in Seq(Frames) /\ UNCHANGED <<env, destructed, enabled, met>>
  BY Zenon DEF Shape, TypeOK, Returns, Claims, Ends, Command
<1>2. ASSUME NEW i \in DOMAIN stack,
             stack[i].kind = "move" /\ (stack[i].left # {} \/ ~stack[i].looked)
      PROVE  \E j \in DOMAIN stack' :
                /\ stack'[j].kind = "move" /\ stack'[j].left = stack[i].left
                /\ stack'[j].looked = stack[i].looked
                /\ stack'[j].item = stack[i].item /\ stack'[j].dest = stack[i].dest
  <2>1. CASE Returns
    <3> DEFINE f == [Top EXCEPT !.call = NoCall]
    <3>1. stack # <<>> /\ stack' = Put(f)
      BY <2>1 DEF Returns
    <3>2. Top \in Frames
      BY <1>1, <3>1, StackOps
    <3>3. /\ f \in Frames /\ f.kind = Top.kind /\ f.left = Top.left /\ f.looked = Top.looked
          /\ f.item = Top.item /\ f.dest = Top.dest
      BY <3>2 DEF Frames
    <3> HIDE DEF f
    <3>4. /\ n \in Nat /\ n > 0 /\ DOMAIN stack = 1..n /\ DOMAIN stack' = 1..n /\ stack'[n] = f
          /\ \A j \in 1..(n - 1) : stack'[j] = stack[j]
      BY <1>1, <3>1, <3>3, StackOps
    <3>5. CASE i # n
      BY <1>2, <3>4, <3>5
    <3>6. CASE i = n
      BY <1>2, <3>3, <3>4, <3>6 DEF Top
    <3> QED
      BY <3>5, <3>6
  <2>2. CASE Claims \/ Ends
    <3>1. /\ stack # <<>> /\ stack' = Below
          /\ Top.kind = "command" \/ (Top.left = {} /\ Top.looked)
      BY <2>2 DEF Claims, Ends
    <3>2. /\ n \in Nat /\ n > 0 /\ DOMAIN stack = 1..n /\ DOMAIN stack' = 1..(n - 1)
          /\ \A j \in 1..(n - 1) : stack'[j] = stack[j]
      BY <1>1, <3>1, StackOps
    <3>3. i # n
      BY <1>2, <3>1 DEF Top
    <3> QED
      BY <1>2, <3>2, <3>3
  <2>3. ASSUME NEW g \in Objects, NEW matching \in SUBSET Objects, Command(g, matching)
        PROVE  i \in DOMAIN stack' /\ stack'[i] = stack[i]
    <3>1. PICK f : stack' = Append(stack, f)
      BY <2>3 DEF Command
    <3> QED
      BY <1>1, <3>1
  <2> QED
    BY <1>2, <2>1, <2>2, <2>3, Zenon
<1>3. ASSUME NEW a, NEW b, NEW i \in DOMAIN stack, Waits(stack[i], a, b)
      PROVE  \E j \in DOMAIN stack' : Waits(stack'[j], a, b)
  BY <1>2, <1>3 DEF Waits
<1>4. ASSUME NEW a, NEW b, NEW e, NEW i \in DOMAIN stack, Looks(stack[i], a, b, e)
      PROVE  \E j \in DOMAIN stack' : Looks(stack'[j], a, b, e)
  BY <1>2, <1>4 DEF Looks
<1> QED
  BY <1>1, <1>3, <1>4, FrameMet, Zenon

(* Every step keeps the introductions.                                       *)
LEMMA NextMet == MetInv /\ [Next]_vars => MetInv'
<1> SUFFICES ASSUME MetInv, [Next]_vars PROVE MetInv'
  OBVIOUS
<1>1. Shape'
  <2>1. TypeOK' /\ Links
    BY NextTypes, Zenon DEF MetInv, Shape, Links, LinkTypes, TypeOK
  <2> QED
    BY <2>1, NextLinks, Zenon DEF Shape, Links
<1>2. ASSUME plain PROVE InsideMet' /\ BesideMet'
  <2>0. Shape /\ InsideMet /\ BesideMet
    BY <1>2 DEF MetInv
  <2>1. CASE UNCHANGED <<env, destructed, enabled, stack, met>>
    BY <2>0, <2>1, Zenon DEF InsideMet, BesideMet
  <2>2. CASE Driver
    <3>1. LookAround \/ Returns \/ Claims \/ Ends \/ \E c \in Pairs : Calls(c)
      BY <1>2, <2>2, Zenon DEF Driver, Fails
    <3> QED
      BY <2>0, <3>1, LookMet, CallsMet, OtherMet, Zenon
  <2>3. ASSUME NEW o \in Objects, Destruct(o) \/ Free(o) PROVE InsideMet' /\ BesideMet'
    <3>1. /\ \/ env' = [env EXCEPT ![o] = NoObject]
             \/ env' = [x \in Objects |-> IF env[x] = o THEN NoObject ELSE env[x]]
          /\ UNCHANGED <<stack, enabled>> /\ met' = {p \in met : Together(p)'}
          /\ destructed' = destructed \cup {o} \/ destructed' = destructed
      BY <2>3, Zenon DEF Destruct, Free
    <3>2. \A x \in Objects : env'[x] \in {env[x], NoObject}
      BY <2>0, <3>1 DEF Shape, TypeOK
    <3>3. destructed \subseteq destructed'
      BY <3>1
    <3> QED
      BY <2>0, <3>1, <3>2, <3>3, LeaveMet, Zenon
  <2>4. CASE Efun
    <3> PICK o \in Objects :
            \/ Destruct(o) \/ Free(o) \/ Enable(o) \/ Disable(o) \/ Unparent(o)
            \/ \E p \in Objects : Move(o, p) \/ Reparent(o, p) \/ AddAction(o, p) \/ RemoveAction(o, p)
            \/ \E matching \in SUBSET actions[o] : Command(o, matching)
      BY <2>4 DEF Efun
    <3>1. CASE \E p \in Objects : Move(o, p)
      BY <2>0, <3>1, MoveMet, Zenon
    <3>2. CASE \E matching \in SUBSET actions[o] : Command(o, matching)
      <4>1. actions[o] \subseteq Objects
        BY <2>0 DEF Shape, TypeOK
      <4>2. \E matching \in SUBSET Objects : Command(o, matching)
        BY <3>2, <4>1
      <4> QED
        BY <2>0, <4>2, OtherMet, Zenon
    <3>3. CASE \E p \in Objects : AddAction(o, p) \/ RemoveAction(o, p)
      BY <2>1, <3>3, Zenon DEF AddAction, RemoveAction
    <3>4. ~Enable(o) /\ ~Disable(o) /\ ~Unparent(o) /\ \A p \in Objects : ~Reparent(o, p)
      BY <1>2, Zenon DEF Enable, Disable, Unparent, Reparent
    <3> QED
      BY <2>3, <3>1, <3>2, <3>3, <3>4, Zenon
  <2> QED
    BY <2>1, <2>2, <2>4, Zenon DEF Next, Step, vars
<1>3. UNCHANGED plain
  BY DEF Next, vars
<1> QED
  BY <1>1, <1>2, <1>3, Zenon DEF MetInv

(* In a plain mudlib, with any number of objects and moves nested to any     *)
(* depth: whenever the outermost move has ended, everybody who is with       *)
(* someone has had init() called for them, although the init() bodies move   *)
(* and destruct objects, the occupants are copied in the middle of the move  *)
(* and commands are dispatched meanwhile.                                    *)
THEOREM IntroducedTheorem == Spec => []EveryoneIntroduced
<1>1. Init => MetInv
  BY ContainmentAssumption DEF Init, MetInv, Shape, TypeOK, LinksAgree, InsideMet, BesideMet
<1>2. MetInv => EveryoneIntroduced
  <2> SUFFICES ASSUME MetInv, plain, stack = <<>>, NEW a \in Objects \ destructed,
                      NEW b \in enabled \ destructed, a # b, Together(<<a, b>>)
               PROVE  <<a, b>> \in met
    BY DEF EveryoneIntroduced, AllIntroduced
  <2>1. DOMAIN stack = {}
    OBVIOUS
  <2>2. env[b] = a \/ (env[b] # NoObject /\ env[a] = env[b])
    BY DEF Together
  <2> QED
    BY <2>1, <2>2 DEF MetInv, InsideMet, BesideMet
<1> QED
  BY <1>1, <1>2, NextMet, PTL DEF Spec

(* The state stays well-formed, whatever is moved, destructed and called.    *)
THEOREM ContainmentTypes == Spec => []TypeOK
<1>1. Init => TypeOK /\ LinksAgree
  BY ContainmentAssumption DEF Init, TypeOK, LinksAgree
<1>2. TypeOK /\ LinksAgree => Links
  BY Zenon DEF Links, LinkTypes, TypeOK
<1>3. TypeOK /\ LinksAgree /\ [Next]_vars => (TypeOK /\ LinksAgree)'
  BY <1>2, NextTypes, NextLinks, Zenon DEF Links
<1> QED
  BY <1>1, <1>3, PTL DEF Spec
=============================================================================
