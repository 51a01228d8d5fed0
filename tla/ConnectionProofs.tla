-------------------------- MODULE ConnectionProofs --------------------------
(***************************************************************************)
(* Connections for any objects, connections, limit and LPC code: no raw    *)
(* Connection pointer dangles, snoop links stay paired, and the limit on   *)
(* connections holds.  The invariant adds what the server's loops rely on: *)
(* which connection is served in which phase, that one on its way in is    *)
(* below the limit, and that connections_ is not shortened during a round. *)
(* Chains of snoopers end, net_dead() is called once, and with orderly     *)
(* LPC code every session answers: each has an invariant of its own.       *)
(***************************************************************************)
EXTENDS Connections, FiniteSetTheorems, TLAPS

Entering == {"connect", "logon"}
Serving  == {"applies", "lines", "body", "net_dead"}
Resting  == {"idle", "accept", "round", "sockets", "erase"}

LinkTypes(sng, snd) ==
    /\ sng \in [Objects -> Objects \cup {NoObject}]
    /\ snd \in [Objects -> Objects \cup {NoObject}]

Paired(sng, snd) == \A x, y \in Objects : sng[x] = y <=> snd[y] = x

RegistryPoints == \A e \in registry : bound[e[2]] = e[1] /\ status[e[2]] # "none"

(* Who is served when. *)
Served ==
    /\ phase \in Entering \cup Serving => current \in Conns /\ status[current] # "none"
    /\ phase \in Resting => current = NoConn
    /\ phase \in Serving \cup {"round"} \/ todo = {}

(* Room for the connection on its way in. *)
Room ==
    /\ IsFiniteSet(listed)
    /\ Cardinality(listed) <= MaxConnections
    /\ phase \in Entering => Cardinality(listed) < MaxConnections

IInv == TypeOK /\ RegistryPoints /\ Served /\ Room /\ Paired(snooping, snoopedBy)

(* Nothing is connected at first.                                            *)
LEMMA InitIInv == Init => IInv
<1> SUFFICES ASSUME Init PROVE IInv
  OBVIOUS
<1>1. TypeOK
  BY ConnectionAssumption DEF Init, TypeOK
<1>2. RegistryPoints /\ Served
  BY DEF Init, RegistryPoints, Served, Entering, Serving, Resting
<1>3. IsFiniteSet(listed) /\ Cardinality(listed) = 0
  BY FS_EmptySet DEF Init
<1>4. Room
  BY <1>3, ConnectionAssumption DEF Init, Room, Entering
<1>5. Paired(snooping, snoopedBy)
  BY ConnectionAssumption DEF Init, Paired
<1> QED
  BY <1>1, <1>2, <1>4, <1>5 DEF IInv

(* Cutting the link to what is closed leaves the others paired.              *)
LEMMA CloseTypes ==
    ASSUME NEW c \in Conns, NEW to \in {"none", "closed"}, NEW sng, NEW snd,
           LinkTypes(sng, snd), TypeOK, RegistryPoints, Paired(sng, snd), Close(c, to, sng, snd)
    PROVE  /\ status' \in [Conns -> {"none", "open", "lost", "closed"}]
           /\ bound' \in [Conns -> Objects \cup {NoObject}]
           /\ registry' \subseteq Objects \X Conns
           /\ LinkTypes(snooping', snoopedBy')
           /\ Paired(snooping', snoopedBy')
           /\ RegistryPoints'
           /\ \A x \in Conns \ {c} : status'[x] = status[x]
           /\ status'[c] = to
<1>1. /\ status' = [status EXCEPT ![c] = to] /\ bound' = [bound EXCEPT ![c] = NoObject]
      /\ registry' = {e \in registry : e[1] # bound[c]}
      /\ snooping' = [x \in Objects |-> IF bound[c] # NoObject /\ x = snd[bound[c]] THEN NoObject ELSE sng[x]]
      /\ snoopedBy' = [x \in Objects |-> IF x = bound[c] THEN NoObject ELSE snd[x]]
  BY DEF Close, RemovedFrom
<1>2. /\ status \in [Conns -> {"none", "open", "lost", "closed"}]
      /\ bound \in [Conns -> Objects \cup {NoObject}] /\ registry \subseteq Objects \X Conns
  BY DEF TypeOK
<1>3. /\ status' \in [Conns -> {"none", "open", "lost", "closed"}]
      /\ bound' \in [Conns -> Objects \cup {NoObject}] /\ registry' \subseteq Objects \X Conns
      /\ \A x \in Conns \ {c} : status'[x] = status[x] /\ bound'[x] = bound[x]
      /\ status'[c] = to
  BY <1>1, <1>2
<1>4. LinkTypes(snooping', snoopedBy')
  BY <1>1 DEF LinkTypes
<1>5. Paired(snooping', snoopedBy')
  BY <1>1, <1>2, ConnectionAssumption DEF Paired, LinkTypes
<1>6. RegistryPoints'
  <2> SUFFICES ASSUME NEW e \in registry' PROVE bound'[e[2]] = e[1] /\ status'[e[2]] # "none"
    BY DEF RegistryPoints
  <2>1. e \in registry /\ e[1] # bound[c] /\ e[1] \in Objects /\ e[2] \in Conns
    BY <1>1, <1>2
  <2>2. bound[e[2]] = e[1] /\ status[e[2]] # "none"
    BY <2>1 DEF RegistryPoints
  <2> QED
    BY <1>3, <2>1, <2>2
<1> QED
  BY <1>3, <1>4, <1>5, <1>6

(* attach() leaves no entry of the object the connection had.                *)
LEMMA AttachPoints ==
    ASSUME NEW c \in Conns, NEW o \in Objects, TypeOK, RegistryPoints, status[c] # "none",
           Attach(c, o), UNCHANGED status
    PROVE  /\ bound' \in [Conns -> Objects \cup {NoObject}]
           /\ registry' \subseteq Objects \X Conns
           /\ RegistryPoints'
<1>1. /\ bound' = [bound EXCEPT ![c] = o]
      /\ registry' = {e \in registry : e[1] # bound[c]} \cup {<<o, c>>}
  BY DEF Attach, RemovedFrom
<1>2. bound \in [Conns -> Objects \cup {NoObject}] /\ registry \subseteq Objects \X Conns
  BY DEF TypeOK
<1>3. /\ bound' \in [Conns -> Objects \cup {NoObject}] /\ registry' \subseteq Objects \X Conns
      /\ \A x \in Conns \ {c} : bound'[x] = bound[x]
      /\ bound'[c] = o
  BY <1>1, <1>2
<1>4. RegistryPoints'
  <2> SUFFICES ASSUME NEW e \in registry' PROVE bound'[e[2]] = e[1] /\ status'[e[2]] # "none"
    BY DEF RegistryPoints
  <2>1. CASE e = <<o, c>>
    BY <2>1, <1>3
  <2>2. CASE e # <<o, c>>
    <3>1. e \in registry /\ e[1] # bound[c] /\ e[1] \in Objects /\ e[2] \in Conns
      BY <1>1, <1>2, <2>2
    <3>2. bound[e[2]] = e[1] /\ status[e[2]] # "none"
      BY <3>1 DEF RegistryPoints
    <3> QED
      BY <1>3, <3>1, <3>2
  <2> QED
    BY <2>1, <2>2
<1> QED
  BY <1>3, <1>4

(* snoop() makes one pair and cuts the links both had.                       *)
LEMMA SnoopPairs ==
    ASSUME NEW by \in Objects, NEW victim \in Objects, NEW sng, NEW snd,
           LinkTypes(sng, snd), Paired(sng, snd)
    PROVE  LET snd2 == [x \in Objects |-> IF x = victim THEN by
                                          ELSE IF x = sng[by] THEN NoObject ELSE snd[x]]
               sng2 == [x \in Objects |-> IF x = by THEN victim
                                          ELSE IF x = snd[victim] THEN NoObject ELSE sng[x]]
           IN  LinkTypes(sng2, snd2) /\ Paired(sng2, snd2)
<1> DEFINE snd2 == [x \in Objects |-> IF x = victim THEN by
                                      ELSE IF x = sng[by] THEN NoObject ELSE snd[x]]
           sng2 == [x \in Objects |-> IF x = by THEN victim
                                      ELSE IF x = snd[victim] THEN NoObject ELSE sng[x]]
<1>1. LinkTypes(sng2, snd2)
  BY DEF LinkTypes
<1>2. ASSUME NEW x \in Objects, NEW y \in Objects PROVE sng2[x] = y <=> snd2[y] = x
  BY ConnectionAssumption DEF LinkTypes, Paired
<1> HIDE DEF sng2, snd2
<1>3. Paired(sng2, snd2)
  BY <1>2 DEF Paired
<1> QED
  BY <1>1, <1>3 DEF sng2, snd2

(* Objects that stop snooping are forgotten by those they snooped.           *)
LEMMA UnsnoopPairs ==
    ASSUME NEW gone \in SUBSET Objects, NEW sng, NEW snd, LinkTypes(sng, snd), Paired(sng, snd)
    PROVE  LET sng2 == [x \in Objects |-> IF x \in gone THEN NoObject ELSE sng[x]]
               snd2 == [v \in Objects |-> IF \E x \in gone : sng[x] = v THEN NoObject ELSE snd[v]]
           IN  LinkTypes(sng2, snd2) /\ Paired(sng2, snd2)
<1> DEFINE sng2 == [x \in Objects |-> IF x \in gone THEN NoObject ELSE sng[x]]
           snd2 == [v \in Objects |-> IF \E x \in gone : sng[x] = v THEN NoObject ELSE snd[v]]
<1>1. LinkTypes(sng2, snd2)
  BY DEF LinkTypes
<1>2. ASSUME NEW x \in Objects, NEW y \in Objects PROVE sng2[x] = y <=> snd2[y] = x
  BY ConnectionAssumption DEF LinkTypes, Paired
<1> HIDE DEF sng2, snd2
<1>3. Paired(sng2, snd2)
  BY <1>2 DEF Paired
<1> QED
  BY <1>1, <1>3 DEF sng2, snd2

(* A step that leaves the bindings, the registry and the links alone.        *)
LEMMA BindingsKept ==
    ASSUME IInv, UNCHANGED <<status, bound, registry, destructed, snooping, snoopedBy>>
    PROVE  /\ RegistryPoints' /\ Paired(snooping, snoopedBy)'
           /\ status' \in [Conns -> {"none", "open", "lost", "closed"}]
           /\ bound' \in [Conns -> Objects \cup {NoObject}]
           /\ registry' \subseteq Objects \X Conns
           /\ destructed' \subseteq Objects
           /\ LinkTypes(snooping, snoopedBy)'
  BY DEF IInv, TypeOK, RegistryPoints, Paired, LinkTypes

(* The steps of the server loop itself that call nothing.                    *)
LEMMA LoopIInv ==
    ASSUME IInv, UNCHANGED orderly,
           PollBegins \/ RoundBegins \/ RoundEnds \/ PollEnds \/ LineToHandler \/ LineToCommand
             \/ LinesDone \/ AppliesReturn \/ LineReturns \/ NetDeadReturns \/ SocketsReturn
    PROVE  IInv'
<1>1. UNCHANGED <<status, listed, bound, registry, destructed, snooping, snoopedBy>>
  BY DEF PollBegins, RoundBegins, RoundEnds, PollEnds, LineToHandler, LineToCommand, LinesDone,
         AppliesReturn, LineReturns, NetDeadReturns, SocketsReturn
<1>2. /\ RegistryPoints' /\ Paired(snooping, snoopedBy)'
      /\ status' \in [Conns -> {"none", "open", "lost", "closed"}]
      /\ bound' \in [Conns -> Objects \cup {NoObject}]
      /\ registry' \subseteq Objects \X Conns /\ destructed' \subseteq Objects
      /\ LinkTypes(snooping, snoopedBy)'
  BY <1>1, BindingsKept
<1>3. /\ listed \subseteq Conns /\ current \in Conns \cup {NoConn} /\ todo \subseteq listed
      /\ left \in 0..MaxLines /\ told \subseteq Conns /\ MaxLines \in Nat
      /\ pending \in [Conns -> Objects \cup {NoObject}]
      /\ NoConn \notin Conns
  BY ConnectionAssumption DEF IInv, TypeOK
<1>4. /\ phase \in Entering \cup Serving => current \in Conns /\ status[current] # "none"
      /\ phase \in Resting => current = NoConn
      /\ phase \in Serving \cup {"round"} \/ todo = {}
  BY DEF IInv, Served
<1>5. /\ current' \in Conns \cup {NoConn} /\ todo' \subseteq listed'
      /\ left' \in 0..MaxLines /\ told' \subseteq Conns
      /\ phase' \in Serving \cup Resting
      /\ phase' \in Serving => current' \in Conns /\ status'[current'] # "none"
      /\ phase' \in Resting => current' = NoConn
      /\ phase' \in Serving \cup {"round"} \/ todo' = {}
  BY <1>1, <1>3, <1>4
     DEF PollBegins, RoundBegins, RoundEnds, PollEnds, LineToHandler, LineToCommand, LinesDone,
         AppliesReturn, LineReturns, NetDeadReturns, SocketsReturn, Entering, Serving, Resting
<1>6. pending' \in [Conns -> Objects \cup {NoObject}]
  BY <1>3, <1>4
     DEF PollBegins, RoundBegins, RoundEnds, PollEnds, LineToHandler, LineToCommand, LinesDone,
         AppliesReturn, LineReturns, NetDeadReturns, SocketsReturn
<1>7. TypeOK'
  <2>1. orderly' \in BOOLEAN
    BY DEF IInv, TypeOK
  <2> QED
    BY <1>1, <1>2, <1>3, <1>5, <1>6, <2>1 DEF TypeOK, LinkTypes, Serving, Resting
<1>8. Served'
  BY <1>5 DEF Served, Entering, Serving, Resting
<1>9. Room'
  BY <1>1, <1>5 DEF IInv, Room, Entering, Serving, Resting
<1> QED
  BY <1>2, <1>7, <1>8, <1>9 DEF IInv

(* A connection is polled.                                                   *)
LEMMA HandleIInv ==
    ASSUME IInv, UNCHANGED orderly, NEW c \in Conns, NEW n \in 0..MaxLines, NEW lost \in BOOLEAN, HandleConnection(c, n, lost)
    PROVE  IInv'
<1>1. UNCHANGED <<listed, bound, pending, registry, destructed, snooping, snoopedBy, told>>
  BY DEF HandleConnection
<1>2. TypeOK /\ RegistryPoints /\ Served /\ Room /\ Paired(snooping, snoopedBy)
  BY DEF IInv
<1>3. /\ status' \in [Conns -> {"none", "open", "lost", "closed"}]
      /\ \A x \in Conns : status[x] # "none" => status'[x] # "none"
  BY <1>2 DEF HandleConnection, TypeOK
<1>4. TypeOK'
  BY <1>1, <1>2, <1>3, ConnectionAssumption DEF TypeOK, HandleConnection
<1>5. RegistryPoints'
  BY <1>1, <1>2, <1>3 DEF RegistryPoints, TypeOK
<1>6. Served'
  <2>1. CASE IsOpen(c)
    <3>1. phase' \in Serving /\ current' = c
      BY <2>1 DEF HandleConnection, Serving
    <3>2. status[c] # "none"
      BY <2>1 DEF IsOpen
    <3> QED
      BY <3>1, <3>2, <1>3 DEF Served, Serving, Entering, Resting
  <2>2. CASE ~IsOpen(c)
    BY <2>2, <1>2 DEF HandleConnection, Served, Serving, Entering, Resting
  <2> QED
    BY <2>1, <2>2
<1>7. Room'
  BY <1>1, <1>2 DEF Room, HandleConnection, Entering
<1>8. Paired(snooping, snoopedBy)'
  BY <1>1, <1>2 DEF Paired
<1> QED
  BY <1>4, <1>5, <1>6, <1>7, <1>8 DEF IInv

(* A connection comes in: it was in use nowhere, and there is room for it.   *)
LEMMA AcceptIInv ==
    ASSUME IInv, UNCHANGED orderly, NEW c \in Conns, Accept(c)
    PROVE  IInv'
<1>1. UNCHANGED <<listed, bound, pending, registry, todo, left, destructed, snooping, snoopedBy>>
  BY DEF Accept
<1>2. TypeOK /\ RegistryPoints /\ Served /\ Room /\ Paired(snooping, snoopedBy)
  BY DEF IInv
<1>3. /\ status' \in [Conns -> {"none", "open", "lost", "closed"}]
      /\ \A x \in Conns : status[x] # "none" => status'[x] # "none"
      /\ status'[c] # "none"
  BY <1>2 DEF Accept, TypeOK
<1>4. TypeOK'
  BY <1>1, <1>2, <1>3 DEF TypeOK, Accept
<1>5. RegistryPoints'
  BY <1>1, <1>2, <1>3 DEF RegistryPoints, TypeOK
<1>6. Served'
  BY <1>2, <1>3 DEF Served, Accept, Serving, Entering, Resting
<1>7. Cardinality(listed) \in Nat
  BY <1>2, FS_CardinalityType DEF Room
<1>8. Room'
  BY <1>1, <1>2, <1>7, ConnectionAssumption DEF Room, Accept, AtMaxConnections
<1>9. Paired(snooping, snoopedBy)'
  BY <1>1, <1>2 DEF Paired
<1> QED
  BY <1>4, <1>5, <1>6, <1>8, <1>9 DEF IInv

(* A connection on its way in is given up.                                   *)
LEMMA GiveUpIInv ==
    ASSUME IInv, UNCHANGED orderly, ConnectFails \/ LogonThrows
    PROVE  IInv'
<1>1. /\ Close(current, "none", snooping, snoopedBy)
      /\ current' = NoConn /\ phase' = "accept" /\ phase \in Entering
      /\ pending' = [pending EXCEPT ![current] = NoObject]
      /\ UNCHANGED <<listed, todo, left, destructed, told>>
  BY DEF ConnectFails, LogonThrows, Entering
<1>2. TypeOK /\ RegistryPoints /\ Served /\ Room /\ Paired(snooping, snoopedBy)
  BY DEF IInv
<1>3. current \in Conns /\ todo = {}
  BY <1>1, <1>2 DEF Served, Entering, Serving
<1>4. LinkTypes(snooping, snoopedBy)
  BY <1>2 DEF TypeOK, LinkTypes
<1>5. /\ status' \in [Conns -> {"none", "open", "lost", "closed"}]
      /\ bound' \in [Conns -> Objects \cup {NoObject}]
      /\ registry' \subseteq Objects \X Conns
      /\ LinkTypes(snooping', snoopedBy') /\ Paired(snooping', snoopedBy') /\ RegistryPoints'
  BY <1>1, <1>2, <1>3, <1>4, CloseTypes
<1>6. TypeOK'
  BY <1>1, <1>2, <1>5 DEF TypeOK, LinkTypes
<1>7. Served' /\ Room'
  BY <1>1, <1>2, <1>3 DEF Served, Room, Serving, Entering, Resting
<1> QED
  BY <1>5, <1>6, <1>7 DEF IInv

(* connect() returns the first object, exec() gives another.                 *)
LEMMA BindIInv ==
    ASSUME IInv, UNCHANGED orderly, NEW o \in Objects, ConnectReturns(o) \/ Exec(o)
    PROVE  IInv'
<1>1. /\ Attach(current, o)
      /\ UNCHANGED <<status, listed, current, todo, left, destructed, snooping, snoopedBy, told>>
      /\ pending' = pending \/ pending' = [pending EXCEPT ![current] = NoObject]
      /\ phase' = phase \/ (phase = "connect" /\ phase' = "logon")
  BY DEF ConnectReturns, Exec
<1>2. TypeOK /\ RegistryPoints /\ Served /\ Room /\ Paired(snooping, snoopedBy)
  BY DEF IInv
<1>3. current \in Conns
  BY <1>2, ConnectionAssumption DEF ConnectReturns, Exec, Served, Entering, TypeOK
<1>4. phase \notin Resting
  BY <1>2, <1>3, ConnectionAssumption DEF Served
<1>5. status[current] # "none"
  BY <1>2, <1>4 DEF Served, TypeOK, Entering, Serving, Resting
<1>6. /\ bound' \in [Conns -> Objects \cup {NoObject}]
      /\ registry' \subseteq Objects \X Conns /\ RegistryPoints'
  BY <1>1, <1>2, <1>3, <1>5, AttachPoints
<1>7. pending' \in [Conns -> Objects \cup {NoObject}]
  BY <1>1, <1>2 DEF TypeOK
<1>8. TypeOK'
  BY <1>1, <1>2, <1>6, <1>7 DEF TypeOK
<1>9. Served' /\ Room'
  BY <1>1, <1>2 DEF Served, Room, Serving, Entering, Resting
<1>10. Paired(snooping, snoopedBy)'
  BY <1>1, <1>2 DEF Paired
<1> QED
  BY <1>6, <1>8, <1>9, <1>10 DEF IInv

(* A connection that came in takes the room kept for it.                     *)
LEMMA LogonIInv ==
    ASSUME IInv, UNCHANGED orderly, LogonReturns
    PROVE  IInv'
<1>1. /\ phase = "logon" /\ listed' = listed \cup {current} /\ current' = NoConn /\ phase' = "accept"
      /\ UNCHANGED <<status, bound, pending, registry, todo, left, destructed, snooping, snoopedBy, told>>
  BY DEF LogonReturns
<1>2. TypeOK /\ RegistryPoints /\ Served /\ Room /\ Paired(snooping, snoopedBy)
  BY DEF IInv
<1>3. current \in Conns
  BY <1>1, <1>2 DEF Served, Entering
<1>4. TypeOK' /\ RegistryPoints' /\ Paired(snooping, snoopedBy)'
  BY <1>1, <1>2, <1>3 DEF TypeOK, RegistryPoints, Paired
<1>5. Served'
  BY <1>1, <1>2 DEF Served, Serving, Entering, Resting
<1>6. /\ IsFiniteSet(listed) /\ Cardinality(listed) \in Nat /\ Cardinality(listed) < MaxConnections
  BY <1>1, <1>2, FS_CardinalityType DEF Room, Entering
<1>7. /\ IsFiniteSet(listed')
      /\ \/ Cardinality(listed') = Cardinality(listed)
         \/ Cardinality(listed') = Cardinality(listed) + 1
  BY <1>1, <1>6, FS_AddElement
<1>8. Room'
  BY <1>1, <1>6, <1>7, ConnectionAssumption DEF Room, Entering
<1> QED
  BY <1>4, <1>5, <1>8 DEF IInv

(* A closed connection is erased.                                            *)
LEMMA EraseIInv ==
    ASSUME IInv, UNCHANGED orderly, NEW c \in Conns, Erase(c)
    PROVE  IInv'
<1>1. /\ phase = "erase" /\ listed' = listed \ {c} /\ c \in listed
      /\ Close(c, "none", snooping, snoopedBy)
      /\ pending' = [pending EXCEPT ![c] = NoObject]
      /\ UNCHANGED <<current, phase, todo, left, destructed, told>>
  BY DEF Erase
<1>2. TypeOK /\ RegistryPoints /\ Served /\ Room /\ Paired(snooping, snoopedBy)
  BY DEF IInv
<1>3. LinkTypes(snooping, snoopedBy)
  BY <1>2 DEF TypeOK, LinkTypes
<1>4. /\ status' \in [Conns -> {"none", "open", "lost", "closed"}]
      /\ bound' \in [Conns -> Objects \cup {NoObject}]
      /\ registry' \subseteq Objects \X Conns
      /\ LinkTypes(snooping', snoopedBy') /\ Paired(snooping', snoopedBy') /\ RegistryPoints'
  BY <1>1, <1>2, <1>3, CloseTypes
<1>5. todo = {} /\ current = NoConn
  BY <1>1, <1>2 DEF Served, Serving, Resting
<1>6. TypeOK'
  BY <1>1, <1>2, <1>4, <1>5 DEF TypeOK, LinkTypes
<1>7. Served'
  BY <1>1, <1>5 DEF Served, Serving, Entering, Resting
<1>8. IsFiniteSet(listed) /\ Cardinality(listed) \in Nat /\ Cardinality(listed) <= MaxConnections
  BY <1>2, FS_CardinalityType DEF Room
<1>9. IsFiniteSet(listed') /\ Cardinality(listed') = Cardinality(listed) - 1
  BY <1>1, <1>8, FS_RemoveElement
<1>10. Room'
  BY <1>1, <1>8, <1>9, ConnectionAssumption DEF Room, Entering
<1> QED
  BY <1>4, <1>6, <1>7, <1>10 DEF IInv

(* An efun closes a connection, with links that are already paired.          *)
LEMMA ClosedByEfun ==
    ASSUME IInv, UNCHANGED orderly, NEW c \in Conns, NEW sng, NEW snd,
           LinkTypes(sng, snd), Paired(sng, snd), Close(c, "closed", sng, snd), destructed' \subseteq Objects,
           UNCHANGED <<listed, pending, current, phase, todo, left, told>>
    PROVE  IInv'
<1>1. TypeOK /\ RegistryPoints /\ Served /\ Room
  BY DEF IInv
<1>2. /\ status' \in [Conns -> {"none", "open", "lost", "closed"}]
      /\ bound' \in [Conns -> Objects \cup {NoObject}]
      /\ registry' \subseteq Objects \X Conns
      /\ LinkTypes(snooping', snoopedBy') /\ Paired(snooping', snoopedBy') /\ RegistryPoints'
      /\ \A x \in Conns \ {c} : status'[x] = status[x]
      /\ status'[c] = "closed"
  BY <1>1, CloseTypes
<1>3. TypeOK'
  BY <1>1, <1>2 DEF TypeOK, LinkTypes
<1>4. Served' /\ Room'
  BY <1>1, <1>2 DEF Served, Room
<1> QED
  BY <1>2, <1>3, <1>4 DEF IInv

(* An efun changes nothing but snoop links, flags and pending input.         *)
LEMMA RelinkedByEfun ==
    ASSUME IInv, UNCHANGED orderly, LinkTypes(snooping', snoopedBy'), Paired(snooping', snoopedBy'),
           destructed' \subseteq Objects, pending' \in [Conns -> Objects \cup {NoObject}],
           UNCHANGED <<status, listed, bound, registry, current, phase, todo, left, told>>
    PROVE  IInv'
<1>1. TypeOK /\ RegistryPoints /\ Served /\ Room
  BY DEF IInv
<1>2. TypeOK'
  BY <1>1 DEF TypeOK, LinkTypes
<1>3. RegistryPoints' /\ Served' /\ Room'
  BY <1>1 DEF RegistryPoints, Served, Room
<1> QED
  BY <1>2, <1>3 DEF IInv

(* What LPC code may do in any of its calls.                                 *)
LEMMA EfunIInv ==
    ASSUME IInv, UNCHANGED orderly, Efun
    PROVE  IInv'
<1>1. /\ LinkTypes(snooping, snoopedBy) /\ Paired(snooping, snoopedBy)
      /\ destructed \subseteq Objects /\ pending \in [Conns -> Objects \cup {NoObject}]
      /\ registry \subseteq Objects \X Conns
  BY DEF IInv, TypeOK, LinkTypes
<1>2. PICK o \in Objects : \/ Exec(o) \/ InputTo(o) \/ Destruct(o) \/ RemoveInteractive(o) \/ Unsnoop(o)
                           \/ \E victim \in Objects : Snoop(o, victim)
  BY DEF Efun
<1>3. CASE Exec(o)
  BY <1>3, BindIInv
<1>4. CASE InputTo(o)
  <2>1. /\ UNCHANGED <<status, listed, bound, registry, current, phase, todo, left, destructed, snooping, snoopedBy, told>>
        /\ pending' \in [Conns -> Objects \cup {NoObject}]
    BY <1>1, <1>4 DEF InputTo
  <2>2. LinkTypes(snooping', snoopedBy') /\ Paired(snooping', snoopedBy') /\ destructed' \subseteq Objects
    BY <1>1, <2>1
  <2> QED
    BY <2>1, <2>2, RelinkedByEfun
<1>5. CASE Destruct(o)
  <2> DEFINE gone == IF o \in destructed THEN {} ELSE Cascade[o] \ destructed
             sng  == [x \in Objects |-> IF x \in gone THEN NoObject ELSE snooping[x]]
             snd  == [v \in Objects |-> IF \E x \in gone : snooping[x] = v THEN NoObject ELSE snoopedBy[v]]
  <2>1. /\ destructed' = destructed \cup gone
        /\ \/ /\ snooping' = sng /\ snoopedBy' = snd
              /\ UNCHANGED <<status, bound, registry>>
           \/ \E c \in Conns : <<o, c>> \in registry /\ Close(c, "closed", sng, snd)
        /\ UNCHANGED <<listed, pending, current, phase, todo, left, told>>
    BY <1>5 DEF Destruct
  <2>2. gone \in SUBSET Objects
    BY ConnectionAssumption
  <2> HIDE DEF gone
  <2>3. LinkTypes(sng, snd) /\ Paired(sng, snd)
    BY <1>1, <2>2, UnsnoopPairs
  <2>4. destructed' \subseteq Objects
    BY <1>1, <2>1, <2>2
  <2> HIDE DEF sng, snd
  <2>5. CASE snooping' = sng /\ snoopedBy' = snd /\ UNCHANGED <<status, bound, registry>>
    BY <1>1, <2>1, <2>3, <2>4, <2>5, RelinkedByEfun
  <2>6. CASE \E c \in Conns : <<o, c>> \in registry /\ Close(c, "closed", sng, snd)
    BY <2>1, <2>3, <2>4, <2>6, ClosedByEfun
  <2> QED
    BY <2>1, <2>5, <2>6
<1>6. CASE RemoveInteractive(o)
  <2>1. PICK c \in Conns : Close(c, "closed", snooping, snoopedBy)
    BY <1>6 DEF RemoveInteractive
  <2>2. UNCHANGED <<listed, pending, current, phase, todo, left, destructed, told>>
    BY <1>6 DEF RemoveInteractive
  <2> QED
    BY <1>1, <2>1, <2>2, ClosedByEfun
<1>7. CASE Unsnoop(o)
  <2>1. /\ snoopedBy' = [x \in Objects |-> IF x = snooping[o] THEN NoObject ELSE snoopedBy[x]]
        /\ snooping' = [snooping EXCEPT ![o] = NoObject]
        /\ UNCHANGED <<status, listed, bound, pending, registry, current, phase, todo, left, destructed, told>>
    BY <1>7 DEF Unsnoop
  <2>2. LinkTypes(snooping', snoopedBy')
    BY <1>1, <2>1 DEF LinkTypes
  <2>3. Paired(snooping', snoopedBy')
    BY <1>1, <2>1, ConnectionAssumption DEF LinkTypes, Paired
  <2> QED
    BY <1>1, <2>1, <2>2, <2>3, RelinkedByEfun
<1>8. CASE \E victim \in Objects : Snoop(o, victim)
  <2>1. PICK victim \in Objects : Snoop(o, victim)
    BY <1>8
  <2>2. /\ snoopedBy' = [x \in Objects |-> IF x = victim THEN o
                                           ELSE IF x = snooping[o] THEN NoObject ELSE snoopedBy[x]]
        /\ snooping' = [x \in Objects |-> IF x = o THEN victim
                                          ELSE IF x = snoopedBy[victim] THEN NoObject ELSE snooping[x]]
        /\ UNCHANGED <<status, listed, bound, pending, registry, current, phase, todo, left, destructed, told>>
    BY <2>1 DEF Snoop
  <2>3. LinkTypes(snooping', snoopedBy') /\ Paired(snooping', snoopedBy')
    BY <1>1, <2>2, SnoopPairs
  <2> QED
    BY <1>1, <2>2, <2>3, RelinkedByEfun
<1> QED
  BY <1>2, <1>3, <1>4, <1>5, <1>6, <1>7, <1>8

(* Every step keeps the invariant.                                           *)
LEMMA NextIInv == IInv /\ [Next]_vars => IInv'
<1> SUFFICES ASSUME IInv, [Next]_vars PROVE IInv'
  OBVIOUS
<1>0. UNCHANGED orderly
  BY Zenon DEF Next, vars
<1>1. CASE Efun
  BY <1>0, <1>1, EfunIInv
<1>2. CASE ApplyReturns
  BY <1>0, <1>2, GiveUpIInv, BindIInv, LogonIInv, LoopIInv DEF ApplyReturns
<1>3. CASE ServerStep
  BY <1>0, <1>3, LoopIInv, EraseIInv, HandleIInv DEF ServerStep
<1>4. CASE \E c \in Conns : Accept(c)
  BY <1>0, <1>4, AcceptIInv
<1>5. CASE UNCHANGED vars
  BY <1>5 DEF vars, IInv, TypeOK, RegistryPoints, Served, Room, Paired
<1> QED
  BY <1>1, <1>2, <1>3, <1>4, <1>5 DEF Next, Step

(* The invariant holds in every state of every behaviour of the server.      *)
THEOREM IInvHolds == Spec => []IInv
  BY InitIInv, NextIInv, PTL DEF Spec

(* The state stays well typed; in particular a round never holds a           *)
(* connection that connections_ has lost.                                    *)
THEOREM ConnectionTypes == Spec => []TypeOK
<1>1. IInv => TypeOK
  BY DEF IInv
<1> QED
  BY <1>1, IInvHolds, PTL

(* InteractiveRegistry and OutputContext never hold a pointer to a           *)
(* connection that was destroyed, whatever the LPC code closes, rebinds or   *)
(* destructs while the server's loops are under way.                         *)
THEOREM NoDanglingTheorem == Spec => []NoDangling
<1>1. IInv => NoDangling
  <2> SUFFICES ASSUME IInv PROVE NoDangling
    OBVIOUS
  <2>1. phase \in Entering \cup Serving \cup Resting
    BY DEF IInv, TypeOK, Entering, Serving, Resting
  <2>2. current # NoConn => status[current] # "none"
    BY <2>1 DEF IInv, Served
  <2> QED
    BY <2>2 DEF IInv, RegistryPoints, NoDangling
<1> QED
  BY <1>1, IInvHolds, PTL

(* The snoop links of every two objects stay a symmetric pair through        *)
(* snoop(), destruct() and the close of any connection.                      *)
THEOREM SnoopPairedTheorem == Spec => []SnoopPaired
<1>1. IInv => SnoopPaired
  BY DEF IInv, Paired, SnoopPaired
<1> QED
  BY <1>1, IInvHolds, PTL

(* max_connections holds although the limit is tested before connect() and   *)
(* logon() run and the connection is listed only after them.                 *)
THEOREM WithinLimitTheorem == Spec => []WithinLimit
<1>1. IInv => WithinLimit
  BY DEF IInv, Room, WithinLimit
<1> QED
  BY <1>1, IInvHolds, PTL

-----------------------------------------------------------------------------
(* Snooping.  A step that only cuts links closes no loop.                    *)
LEMMA CutSnoops ==
    ASSUME SnoopEnds, NoObject \notin Objects,
           \A x \in Objects : snoopedBy'[x] \in {snoopedBy[x], NoObject}
    PROVE  SnoopEnds'
  BY DEF SnoopEnds

(* Closing a connection cuts what is already cut in snd, and one link more.  *)
LEMMA CloseSnoops ==
    ASSUME SnoopEnds, NEW c \in Conns, NEW to, NEW sng, NEW snd, Close(c, to, sng, snd),
           \A x \in Objects : snd[x] \in {snoopedBy[x], NoObject}
    PROVE  SnoopEnds'
<1>1. \A x \in Objects : snoopedBy'[x] \in {snoopedBy[x], NoObject}
  BY DEF Close
<1> QED
  BY <1>1, CutSnoops, ConnectionAssumption

(* snoop() closes no loop: the victim is not among those who learn, through  *)
(* others, what is sent to the snooper.                                      *)
LEMMA SnoopSnoops ==
    ASSUME TypeOK, SnoopEnds, NEW by \in Objects, NEW victim \in Objects, Snoop(by, victim)
    PROVE  SnoopEnds'
<1>1. /\ victim \notin SnoopersOf(by) /\ NoObject \notin Objects
      /\ snoopedBy' = [x \in Objects |-> IF x = victim THEN by
                                         ELSE IF x = snooping[by] THEN NoObject ELSE snoopedBy[x]]
  BY ConnectionAssumption DEF Snoop
<1>2. snoopedBy \in [Objects -> Objects \cup {NoObject}]
  BY DEF TypeOK
<1>3. /\ by \in SnoopersOf(by) /\ SnoopersOf(by) \subseteq Objects
      /\ \A x \in SnoopersOf(by) : snoopedBy[x] # NoObject => snoopedBy[x] \in SnoopersOf(by)
  BY <1>2 DEF SnoopersOf
<1>4. ASSUME NEW S \in (SUBSET Objects) \ {{}}, \A x \in S : snoopedBy'[x] \in S PROVE FALSE
  <2>1. CASE victim \notin S
    <3>1. \A x \in S : snoopedBy[x] \in S
      BY <1>1, <1>4, <2>1
    <3> QED
      BY <3>1 DEF SnoopEnds
  <2>2. CASE victim \in S
    <3>1. by \in S
      BY <1>1, <1>4, <2>2
    <3>2. \A x \in S \cap SnoopersOf(by) : snoopedBy[x] \in S \cap SnoopersOf(by)
      BY <1>1, <1>3, <1>4
    <3> QED
      BY <1>3, <3>1, <3>2 DEF SnoopEnds
  <2> QED
    BY <2>1, <2>2
<1> QED
  BY <1>4 DEF SnoopEnds

(* Every step keeps the chains of snoopers finite.                           *)
LEMMA NextSnoops == TypeOK /\ SnoopEnds /\ [Next]_vars => SnoopEnds'
<1> SUFFICES ASSUME TypeOK, SnoopEnds, [Next]_vars PROVE SnoopEnds'
  OBVIOUS
<1>1. CASE UNCHANGED snoopedBy
  BY <1>1 DEF SnoopEnds
<1>2. ASSUME NEW o \in Objects, Destruct(o) PROVE SnoopEnds'
  <2>1. PICK gone : gone = IF o \in destructed THEN {} ELSE Cascade[o] \ destructed
    OBVIOUS
  <2>2. PICK snd : snd = [v \in Objects |-> IF \E x \in gone : snooping[x] = v THEN NoObject ELSE snoopedBy[v]]
    OBVIOUS
  <2>3. \A x \in Objects : snd[x] \in {snoopedBy[x], NoObject}
    BY <2>2
  <2>4. snoopedBy' = snd \/ \E c \in Conns : \E sng : Close(c, "closed", sng, snd)
    BY <1>2, <2>1, <2>2, Zenon DEF Destruct
  <2> QED
    BY <2>3, <2>4, CutSnoops, CloseSnoops, ConnectionAssumption
<1>3. ASSUME NEW c \in Conns, NEW to, Close(c, to, snooping, snoopedBy) PROVE SnoopEnds'
  BY <1>3, CloseSnoops
<1>4. ASSUME NEW o \in Objects, RemoveInteractive(o) PROVE SnoopEnds'
  BY <1>3, <1>4, Zenon DEF RemoveInteractive
<1>5. CASE ConnectFails \/ LogonThrows \/ \E c \in Conns : Erase(c)
  <2>1. PICK c : \E to : Close(c, to, snooping, snoopedBy)
    BY <1>5, Zenon DEF ConnectFails, LogonThrows, Erase
  <2>2. \A x \in Objects : snoopedBy'[x] \in {snoopedBy[x], NoObject}
    BY <2>1 DEF Close
  <2> QED
    BY <2>2, CutSnoops, ConnectionAssumption
<1>6. ASSUME NEW o \in Objects, Unsnoop(o) PROVE SnoopEnds'
  <2>1. \A x \in Objects : snoopedBy'[x] \in {snoopedBy[x], NoObject}
    BY <1>6 DEF Unsnoop
  <2> QED
    BY <2>1, CutSnoops, ConnectionAssumption
<1>7. ASSUME NEW o \in Objects, NEW victim \in Objects, Snoop(o, victim) PROVE SnoopEnds'
  BY <1>7, SnoopSnoops
<1>8. CASE Efun
  BY <1>1, <1>2, <1>4, <1>6, <1>7, <1>8, Zenon DEF Efun, Exec, InputTo
<1>9. CASE ApplyReturns
  BY <1>1, <1>5, <1>9, Zenon DEF ApplyReturns, ConnectReturns, LogonReturns, AppliesReturn, LineReturns,
     NetDeadReturns, SocketsReturn
<1>10. CASE ServerStep
  BY <1>1, <1>5, <1>10, Zenon DEF ServerStep, PollBegins, RoundBegins, RoundEnds, PollEnds,
     LineToHandler, LineToCommand, LinesDone, HandleConnection
<1>11. CASE (\E c \in Conns : Accept(c)) \/ UNCHANGED vars
  BY <1>1, <1>11, Zenon DEF Accept, vars
<1> QED
  BY <1>8, <1>9, <1>10, <1>11, Zenon DEF Next, Step

(* Nobody is, through any number of others, their own snooper, whatever      *)
(* snoop(), destruct() and closed connections do to the links.               *)
THEOREM SnoopEndsTheorem == Spec => []SnoopEnds
<1>1. Init => SnoopEnds
  BY ConnectionAssumption DEF Init, SnoopEnds
<1> QED
  BY <1>1, NextSnoops, ConnectionTypes, PTL DEF Spec

-----------------------------------------------------------------------------
(* Sessions of orderly LPC code: every binding has its registry entry, and   *)
(* no object is bound to two connections, so that closing or rebinding one   *)
(* takes no other's entry away.                                              *)
EntriesKept == \A c \in Conns : bound[c] # NoObject => <<bound[c], c>> \in registry

OneEach == \A c, d \in Conns : bound[c] = bound[d] /\ bound[c] # NoObject => c = d

UnusedUnbound == \A c \in Conns : status[c] = "none" => bound[c] = NoObject

OrderlyInv == UnusedUnbound /\ (orderly => EntriesKept /\ OneEach /\ NoInertSession)

(* Closing a connection whose object is the only bound one that goes.        *)
LEMMA CloseOrderly ==
    ASSUME TypeOK, UnusedUnbound, NEW c \in Conns, NEW to \in {"none", "closed"}, NEW sng, NEW snd,
           Close(c, to, sng, snd), UNCHANGED orderly,
           orderly => EntriesKept /\ OneEach /\ NoInertSession,
           orderly => \A d \in Conns \ {c} : bound[d] \in destructed' => bound[d] \in destructed,
           destructed' \subseteq Objects
    PROVE  OrderlyInv'
<1>1. /\ registry' = {e \in registry : e[1] # bound[c]}
      /\ bound' = [bound EXCEPT ![c] = NoObject] /\ status' = [status EXCEPT ![c] = to]
      /\ bound \in [Conns -> Objects \cup {NoObject}] /\ NoObject \notin Objects
      /\ status \in [Conns -> {"none", "open", "lost", "closed"}]
  BY ConnectionAssumption DEF Close, RemovedFrom, TypeOK
<1>2. /\ bound'[c] = NoObject /\ status'[c] = to
      /\ \A d \in Conns \ {c} : bound'[d] = bound[d] /\ status'[d] = status[d]
  BY <1>1
<1>3. UnusedUnbound'
  BY <1>2 DEF UnusedUnbound
<1>4. ASSUME orderly PROVE EntriesKept' /\ OneEach' /\ NoInertSession'
  <2>1. EntriesKept'
    <3> SUFFICES ASSUME NEW d \in Conns, bound'[d] # NoObject PROVE <<bound'[d], d>> \in registry'
      BY DEF EntriesKept
    <3>1. d # c /\ bound'[d] = bound[d]
      BY <1>2
    <3>2. <<bound[d], d>> \in registry /\ bound[d] # bound[c]
      BY <1>4, <3>1 DEF EntriesKept, OneEach
    <3> QED
      BY <1>1, <3>1, <3>2
  <2>2. OneEach'
    BY <1>2, <1>4 DEF OneEach
  <2>3. NoInertSession'
    BY <1>1, <1>2, <1>4 DEF NoInertSession
  <2> QED
    BY <2>1, <2>2, <2>3
<1> QED
  BY <1>3, <1>4 DEF OrderlyInv

(* attach() of an object that is live and bound to nothing else.             *)
LEMMA AttachOrderly ==
    ASSUME TypeOK, OrderlyInv, NEW o \in Objects, current \in Conns, status[current] # "none",
           MayBind(o), Attach(current, o), UNCHANGED <<orderly, status, destructed>>
    PROVE  OrderlyInv'
<1>1. /\ bound' = [bound EXCEPT ![current] = o]
      /\ registry' = {e \in registry : e[1] # bound[current]} \cup {<<o, current>>}
      /\ bound \in [Conns -> Objects \cup {NoObject}] /\ NoObject \notin Objects
  BY ConnectionAssumption DEF Attach, RemovedFrom, TypeOK
<1>2. bound'[current] = o /\ \A d \in Conns \ {current} : bound'[d] = bound[d]
  BY <1>1
<1>3. UnusedUnbound'
  BY <1>2 DEF OrderlyInv, UnusedUnbound
<1>4. ASSUME orderly PROVE EntriesKept' /\ OneEach' /\ NoInertSession'
  <2>0. /\ EntriesKept /\ OneEach /\ NoInertSession
        /\ o \notin destructed /\ \A d \in Conns \ {current} : bound[d] # o
    BY <1>4 DEF OrderlyInv, MayBind
  <2>1. EntriesKept'
    <3> SUFFICES ASSUME NEW d \in Conns, bound'[d] # NoObject PROVE <<bound'[d], d>> \in registry'
      BY DEF EntriesKept
    <3>1. CASE d = current
      BY <1>1, <1>2, <3>1
    <3>2. CASE d # current
      <4>1. <<bound[d], d>> \in registry /\ bound[d] # bound[current]
        BY <1>2, <2>0, <3>2 DEF EntriesKept, OneEach
      <4> QED
        BY <1>1, <1>2, <3>2, <4>1
    <3> QED
      BY <3>1, <3>2
  <2>2. OneEach'
    BY <1>2, <2>0 DEF OneEach
  <2>3. NoInertSession'
    BY <1>2, <2>0 DEF NoInertSession
  <2> QED
    BY <2>1, <2>2, <2>3
<1> QED
  BY <1>3, <1>4 DEF OrderlyInv

(* A step that binds nothing and opens only what is bound to nothing.        *)
LEMMA UnboundStep ==
    ASSUME TypeOK, OrderlyInv, UNCHANGED <<orderly, bound, registry>>,
           \A c \in Conns : status'[c] = "none" => status[c] = "none",
           \A c \in Conns : status'[c] = "open" => status[c] = "open" \/ bound[c] = NoObject,
           orderly => \A c \in Conns : bound[c] \in destructed' => bound[c] \in destructed,
           destructed' \subseteq Objects
    PROVE  OrderlyInv'
<1>1. UnusedUnbound'
  BY DEF OrderlyInv, UnusedUnbound
<1>2. ASSUME orderly PROVE EntriesKept' /\ OneEach' /\ NoInertSession'
  <2>1. EntriesKept' /\ OneEach'
    BY <1>2 DEF OrderlyInv, EntriesKept, OneEach
  <2>2. NoInertSession'
    BY <1>2, ConnectionAssumption DEF OrderlyInv, NoInertSession
  <2> QED
    BY <2>1, <2>2
<1> QED
  BY <1>1, <1>2 DEF OrderlyInv

(* destruct(o): whoever else goes with o is bound to no connection, and o's  *)
(* own connection is found and closed.                                       *)
LEMMA DestructOrderly ==
    ASSUME IInv, OrderlyInv, UNCHANGED orderly, NEW o \in Objects, Destruct(o)
    PROVE  OrderlyInv'
<1>0. TypeOK /\ UnusedUnbound /\ (orderly => EntriesKept /\ OneEach /\ NoInertSession)
  BY DEF IInv, OrderlyInv
<1>1. PICK gone : gone = IF o \in destructed THEN {} ELSE Cascade[o] \ destructed
  OBVIOUS
<1>2. PICK sng, snd :
         /\ sng = [x \in Objects |-> IF x \in gone THEN NoObject ELSE snooping[x]]
         /\ snd = [v \in Objects |-> IF \E x \in gone : snooping[x] = v THEN NoObject ELSE snoopedBy[v]]
  BY Zenon
<1>3. /\ destructed' = destructed \cup gone /\ MayDestruct(o)
      /\ \/ ~Registered(o) /\ UNCHANGED <<status, bound, registry>>
         \/ \E c \in Conns : <<o, c>> \in registry /\ Close(c, "closed", sng, snd)
  BY <1>1, <1>2, Zenon DEF Destruct
<1>4. gone \subseteq Objects /\ destructed' \subseteq Objects
  BY <1>0, <1>1, <1>3, ConnectionAssumption DEF TypeOK
<1>5. orderly => \A d \in Conns : bound[d] \in gone => bound[d] = o
  BY <1>1, <1>3 DEF MayDestruct
<1>6. CASE ~Registered(o) /\ UNCHANGED <<status, bound, registry>>
  <2>1. orderly => \A d \in Conns : bound[d] # o
    BY <1>0, <1>6, ConnectionAssumption DEF Registered, EntriesKept
  <2>2. orderly => \A d \in Conns : bound[d] \in destructed' => bound[d] \in destructed
    BY <1>3, <1>5, <2>1
  <2> QED
    BY <1>0, <1>4, <1>6, <2>2, UnboundStep
<1>7. ASSUME NEW c \in Conns, <<o, c>> \in registry, Close(c, "closed", sng, snd) PROVE OrderlyInv'
  <2>1. bound[c] = o
    BY <1>7 DEF IInv, RegistryPoints
  <2>2. orderly => \A d \in Conns \ {c} : bound[d] \in destructed' => bound[d] \in destructed
    BY <1>0, <1>3, <1>5, <2>1, ConnectionAssumption DEF OneEach
  <2> QED
    BY <1>0, <1>4, <1>7, <2>2, CloseOrderly
<1> QED
  BY <1>3, <1>6, <1>7

(* Every step keeps the sessions of orderly code.                            *)
LEMMA NextOrderly == IInv /\ OrderlyInv /\ [Next]_vars => OrderlyInv'
<1> SUFFICES ASSUME IInv, OrderlyInv, [Next]_vars PROVE OrderlyInv'
  OBVIOUS
<1>0. /\ UNCHANGED orderly /\ TypeOK /\ UnusedUnbound /\ destructed \subseteq Objects
      /\ (orderly => EntriesKept /\ OneEach /\ NoInertSession)
  BY Zenon DEF Next, vars, IInv, OrderlyInv, TypeOK
<1>1. CASE UNCHANGED <<status, bound, registry, destructed>>
  BY <1>0, <1>1, UnboundStep
<1>2. ASSUME NEW c \in Conns, NEW to \in {"none", "closed"}, Close(c, to, snooping, snoopedBy),
             UNCHANGED destructed
      PROVE  OrderlyInv'
  BY <1>0, <1>2, CloseOrderly
<1>3. CASE ConnectFails \/ LogonThrows
  <2>1. current \in Conns /\ Close(current, "none", snooping, snoopedBy) /\ UNCHANGED destructed
    BY <1>3 DEF ConnectFails, LogonThrows, IInv, Served, Entering
  <2> QED
    BY <1>2, <2>1
<1>4. ASSUME NEW c \in Conns, Erase(c) PROVE OrderlyInv'
  BY <1>2, <1>4 DEF Erase
<1>5. ASSUME NEW o \in Objects, RemoveInteractive(o) PROVE OrderlyInv'
  <2>1. PICK c \in Conns : Close(c, "closed", snooping, snoopedBy) /\ UNCHANGED destructed
    BY <1>5, Zenon DEF RemoveInteractive
  <2> QED
    BY <1>2, <2>1
<1>6. ASSUME NEW o \in Objects, ConnectReturns(o) \/ Exec(o) PROVE OrderlyInv'
  <2>1. MayBind(o) /\ Attach(current, o) /\ UNCHANGED <<status, destructed>>
    BY <1>6, Zenon DEF ConnectReturns, Exec
  <2>2. current \in Conns
    BY <1>6, ConnectionAssumption DEF ConnectReturns, Exec, IInv, Served, Entering, TypeOK
  <2>3. phase \in Entering \cup Serving \cup Resting
    BY DEF IInv, TypeOK, Entering, Serving, Resting
  <2>4. status[current] # "none"
    BY <2>2, <2>3, ConnectionAssumption DEF IInv, Served
  <2> QED
    BY <1>0, <2>1, <2>2, <2>4, AttachOrderly
<1>7. ASSUME NEW o \in Objects, Destruct(o) PROVE OrderlyInv'
  BY <1>0, <1>7, DestructOrderly
<1>8. ASSUME NEW c \in Conns, Accept(c) PROVE OrderlyInv'
  <2>1. /\ status[c] = "none" /\ status' = [status EXCEPT ![c] = "open"]
        /\ UNCHANGED <<bound, registry, destructed>>
    BY <1>8 DEF Accept
  <2>2. bound[c] = NoObject
    BY <1>0, <2>1 DEF UnusedUnbound
  <2>3. status'[c] = "open" /\ \A d \in Conns \ {c} : status'[d] = status[d]
    BY <1>0, <2>1 DEF TypeOK
  <2> QED
    BY <1>0, <2>1, <2>2, <2>3, UnboundStep
<1>9. ASSUME NEW c \in Conns, NEW n \in 0..MaxLines, NEW lost \in BOOLEAN, HandleConnection(c, n, lost)
      PROVE  OrderlyInv'
  <2>1. /\ status' = status \/ (status' = [status EXCEPT ![c] = "lost"])
        /\ UNCHANGED <<bound, registry, destructed>>
    BY <1>9, Zenon DEF HandleConnection
  <2>2. \A d \in Conns : status'[d] = status[d] \/ status'[d] = "lost"
    BY <1>0, <2>1 DEF TypeOK
  <2> QED
    BY <1>0, <2>1, <2>2, UnboundStep
<1>10. CASE Efun
  BY <1>1, <1>5, <1>6, <1>7, <1>10, Zenon DEF Efun, InputTo, Unsnoop, Snoop
<1>11. CASE ApplyReturns
  BY <1>1, <1>3, <1>6, <1>11, Zenon DEF ApplyReturns, LogonReturns, AppliesReturn, LineReturns,
     NetDeadReturns, SocketsReturn
<1>12. CASE ServerStep
  BY <1>1, <1>4, <1>9, <1>12, Zenon DEF ServerStep, PollBegins, RoundBegins, RoundEnds, PollEnds,
     LineToHandler, LineToCommand, LinesDone
<1>13. CASE UNCHANGED vars
  BY <1>1, <1>13, Zenon DEF vars
<1> QED
  BY <1>8, <1>10, <1>11, <1>12, <1>13, Zenon DEF Next, Step

(* With orderly LPC code and any number of connections and objects, every    *)
(* object bound to a connection is found in the registry, and no open line   *)
(* is bound to a destructed object: destruct() has closed it.                *)
THEOREM SessionsTheorem == Spec => []SessionsAnswer
<1>1. Init => OrderlyInv
  <2> SUFFICES ASSUME Init PROVE OrderlyInv
    OBVIOUS
  <2>1. \A c \in Conns : bound[c] = NoObject /\ status[c] = "none"
    BY DEF Init
  <2> QED
    BY <2>1 DEF OrderlyInv, UnusedUnbound, EntriesKept, OneEach, NoInertSession
<1>2. OrderlyInv => SessionsAnswer
  BY DEF OrderlyInv, SessionsAnswer, RegistryComplete, Registered, EntriesKept
<1> QED
  BY <1>1, <1>2, NextOrderly, IInvHolds, PTL DEF Spec

-----------------------------------------------------------------------------
(* Lost lines.  Before a round no listed connection was told of, in it none  *)
(* that is still to come, or being served; and one that was lost and is      *)
(* bound was told of, or is being served.                                    *)
Before == {"idle", "accept", "connect", "logon"}
Reading == {"applies", "lines", "body"}

ToldBefore ==
    /\ phase \in Before => told \cap listed = {}
    /\ phase \in Entering => current \notin told /\ status[current] # "lost"
    /\ todo \cap told = {}
    /\ phase \in Reading => current \notin told \cup todo
    /\ phase = "net_dead" => current \in told

ToldClosed == \A c \in told : status[c] # "open"

LostTold ==
    \A c \in Conns : status[c] = "lost" /\ bound[c] # NoObject =>
        c \in told \/ (phase \in Reading /\ current = c)

DeadInv == ToldBefore /\ ToldClosed /\ LostTold

(* A connection in the list is in use, and one on its way in is not listed.  *)
ListedUsed ==
    /\ \A c \in listed : status[c] # "none"
    /\ phase \in Entering => current \notin listed

(* A connection leaves the list before its number is free again.             *)
LEMMA NextListed == IInv /\ ListedUsed /\ [Next]_vars => ListedUsed'
<1> SUFFICES ASSUME IInv, ListedUsed, [Next]_vars PROVE ListedUsed'
  OBVIOUS
<1>0. /\ TypeOK /\ listed \subseteq Conns /\ (phase \in Entering => current \in Conns)
      /\ status \in [Conns -> {"none", "open", "lost", "closed"}]
  BY DEF IInv, TypeOK, Served
<1>1. CASE UNCHANGED <<status, listed>> /\ (phase' \in Entering => phase \in Entering /\ current' = current)
  BY <1>1, Zenon DEF ListedUsed
<1>2. ASSUME NEW o \in Objects, RemoveInteractive(o) \/ Destruct(o) PROVE ListedUsed'
  <2>1. /\ UNCHANGED <<listed, phase, current>>
        /\ \/ UNCHANGED status
           \/ \E c \in Conns : status' = [status EXCEPT ![c] = "closed"]
    BY <1>2, Zenon DEF RemoveInteractive, Destruct, Close
  <2> QED
    BY <1>0, <2>1 DEF ListedUsed
<1>3. CASE ConnectFails \/ LogonThrows
  <2>1. /\ phase \in Entering /\ phase' = "accept" /\ UNCHANGED listed
        /\ status' = [status EXCEPT ![current] = "none"]
    BY <1>3 DEF ConnectFails, LogonThrows, Close, Entering
  <2> QED
    BY <1>0, <2>1 DEF ListedUsed, Entering
<1>4. CASE LogonReturns
  <2>1. /\ phase \in Entering /\ phase' = "accept" /\ UNCHANGED status /\ listed' = listed \cup {current}
    BY <1>4 DEF LogonReturns, Entering
  <2>2. status[current] # "none"
    BY <2>1 DEF IInv, Served
  <2> QED
    BY <2>1, <2>2 DEF ListedUsed, Entering
<1>5. ASSUME NEW c \in Conns, Erase(c) PROVE ListedUsed'
  <2>1. /\ phase' = "erase" /\ listed' = listed \ {c} /\ status' = [status EXCEPT ![c] = "none"]
    BY <1>5 DEF Erase, Close
  <2> QED
    BY <1>0, <2>1 DEF ListedUsed, Entering
<1>6. ASSUME NEW c \in Conns, Accept(c) PROVE ListedUsed'
  <2>1. /\ status[c] = "none" /\ UNCHANGED listed /\ status' = [status EXCEPT ![c] = "open"]
        /\ current' = c
    BY <1>6 DEF Accept
  <2> QED
    BY <1>0, <2>1 DEF ListedUsed
<1>7. ASSUME NEW c \in Conns, NEW n \in 0..MaxLines, NEW lost \in BOOLEAN, HandleConnection(c, n, lost)
      PROVE  ListedUsed'
  <2>1. /\ phase' \in {"round", "lines", "applies"} /\ UNCHANGED listed
        /\ status' = status \/ status' = [status EXCEPT ![c] = "lost"]
    BY <1>7, Zenon DEF HandleConnection
  <2> QED
    BY <1>0, <2>1 DEF ListedUsed, Entering
<1>8. CASE \E o \in Objects : Exec(o) \/ InputTo(o) \/ Unsnoop(o) \/ \E victim \in Objects : Snoop(o, victim)
  BY <1>1, <1>8, Zenon DEF Exec, InputTo, Unsnoop, Snoop
<1>9. CASE \E o \in Objects : ConnectReturns(o)
  <2>1. UNCHANGED <<status, listed, current>> /\ phase = "connect"
    BY <1>9, Zenon DEF ConnectReturns
  <2> QED
    BY <1>1, <2>1 DEF Entering
<1>10. CASE \/ PollBegins \/ RoundBegins \/ RoundEnds \/ PollEnds \/ LineToHandler \/ LineToCommand
            \/ LinesDone \/ AppliesReturn \/ LineReturns \/ NetDeadReturns \/ SocketsReturn
  <2>1. UNCHANGED <<status, listed>> /\ phase' \notin Entering
    BY <1>10 DEF PollBegins, RoundBegins, RoundEnds, PollEnds, LineToHandler, LineToCommand, LinesDone,
       AppliesReturn, LineReturns, NetDeadReturns, SocketsReturn, Entering
  <2> QED
    BY <1>1, <2>1
<1>11. CASE UNCHANGED vars
  BY <1>1, <1>11, Zenon DEF vars
<1> QED
  BY <1>2, <1>3, <1>4, <1>5, <1>6, <1>7, <1>8, <1>9, <1>10, <1>11, Zenon
     DEF Next, Step, Efun, ApplyReturns, ServerStep

(* What close() does to the state of the connections.                        *)
LEMMA CloseStatus ==
    ASSUME TypeOK, NEW c \in Conns, NEW to \in {"none", "closed"}, NEW sng, NEW snd, Close(c, to, sng, snd)
    PROVE  /\ status'[c] = to /\ bound'[c] = NoObject
           /\ \A d \in Conns \ {c} : status'[d] = status[d] /\ bound'[d] = bound[d]
  BY DEF Close, TypeOK

(* An efun closes a connection.                                              *)
LEMMA ClosedDead ==
    ASSUME IInv, DeadInv, NEW c \in Conns, NEW sng, NEW snd, Close(c, "closed", sng, snd),
           UNCHANGED <<listed, current, phase, todo, told>>
    PROVE  DeadInv'
<1>1. /\ status'[c] = "closed" /\ bound'[c] = NoObject
      /\ \A d \in Conns \ {c} : status'[d] = status[d] /\ bound'[d] = bound[d]
  BY CloseStatus DEF IInv
<1>2. /\ told \subseteq Conns /\ (phase \in Entering => current \in Conns)
  BY DEF IInv, TypeOK, Served
<1>3. ToldBefore'
  BY <1>1, <1>2 DEF DeadInv, ToldBefore
<1>4. ToldClosed' /\ LostTold'
  BY <1>1, <1>2 DEF DeadInv, ToldClosed, LostTold
<1> QED
  BY <1>3, <1>4 DEF DeadInv

(* The connection being served gets another object.                          *)
LEMMA BoundDead ==
    ASSUME IInv, DeadInv, NEW o \in Objects, ConnectReturns(o) \/ Exec(o)
    PROVE  DeadInv'
<1>1. /\ bound' = [bound EXCEPT ![current] = o] /\ UNCHANGED <<status, listed, current, todo, told>>
      /\ phase' = phase \/ (phase = "connect" /\ phase' = "logon")
      /\ phase \in Entering \cup Serving \cup Resting /\ NoConn \notin Conns
      /\ phase = "connect" \/ current # NoConn
  BY ConnectionAssumption DEF ConnectReturns, Exec, Attach, IInv, TypeOK, Entering, Serving, Resting
<1>2. phase \in Entering \cup Serving /\ current \in Conns
  BY <1>1 DEF IInv, Served, Entering, Resting
<1>3. \A d \in Conns \ {current} : bound'[d] = bound[d]
  BY <1>1 DEF IInv, TypeOK
<1>4. ToldBefore'
  BY <1>1 DEF DeadInv, ToldBefore, Before, Entering, Reading
<1>5. ToldClosed'
  BY <1>1 DEF DeadInv, ToldClosed
<1>6. LostTold'
  <2>1. CASE phase \in Entering
    BY <1>1, <1>3, <2>1 DEF DeadInv, LostTold, ToldBefore, Entering, Reading
  <2>2. CASE phase \in Serving
    BY <1>1, <1>3, <2>2 DEF DeadInv, LostTold, ToldBefore, Serving, Reading
  <2> QED
    BY <1>2, <2>1, <2>2
<1> QED
  BY <1>4, <1>5, <1>6 DEF DeadInv

(* A connection on its way in is given up, or listed.                        *)
LEMMA EnteredDead ==
    ASSUME IInv, DeadInv, ConnectFails \/ LogonThrows \/ LogonReturns
    PROVE  DeadInv'
<1>1. /\ phase \in Entering /\ phase' = "accept" /\ current' = NoConn /\ UNCHANGED <<todo, told>>
      /\ listed' \in {listed, listed \cup {current}}
  BY DEF ConnectFails, LogonThrows, LogonReturns, Entering
<1>2. current \in Conns /\ TypeOK /\ told \subseteq Conns
  BY <1>1 DEF IInv, Served, TypeOK
<1>3. \A d \in Conns : \/ status'[d] = status[d] /\ bound'[d] = bound[d]
                       \/ d = current /\ status'[d] = "none" /\ bound'[d] = NoObject
  <2>1. CASE LogonReturns
    BY <2>1 DEF LogonReturns
  <2>2. CASE ConnectFails \/ LogonThrows
    <3>1. Close(current, "none", snooping, snoopedBy)
      BY <2>2 DEF ConnectFails, LogonThrows
    <3> QED
      BY <1>2, <3>1, CloseStatus
  <2> QED
    BY <2>1, <2>2
<1>4. ToldBefore'
  BY <1>1 DEF DeadInv, ToldBefore, Before, Entering, Reading
<1>5. ToldClosed'
  BY <1>1, <1>2, <1>3 DEF DeadInv, ToldClosed
<1>6. LostTold'
  BY <1>1, <1>3 DEF DeadInv, LostTold, Entering, Reading
<1> QED
  BY <1>4, <1>5, <1>6 DEF DeadInv

(* A connection comes in under a number that was told of before.             *)
LEMMA AcceptedDead ==
    ASSUME IInv, DeadInv, NEW c \in Conns, Accept(c)
    PROVE  DeadInv'
<1>1. /\ phase = "accept" /\ phase' = "connect" /\ current' = c /\ told' = told \ {c}
      /\ status' = [status EXCEPT ![c] = "open"] /\ UNCHANGED <<listed, bound, todo>>
  BY DEF Accept
<1>2. /\ status'[c] = "open" /\ \A d \in Conns \ {c} : status'[d] = status[d]
      /\ told \subseteq Conns
  BY <1>1 DEF IInv, TypeOK
<1>3. ToldBefore'
  BY <1>1, <1>2 DEF DeadInv, ToldBefore, Before, Entering, Reading
<1>4. ToldClosed'
  BY <1>1, <1>2 DEF DeadInv, ToldClosed
<1>5. LostTold'
  BY <1>1, <1>2 DEF DeadInv, LostTold, Reading
<1> QED
  BY <1>3, <1>4, <1>5 DEF DeadInv

(* A connection is polled: it was not told of, and is served if it is lost.  *)
LEMMA HandledDead ==
    ASSUME IInv, DeadInv, NEW c \in Conns, NEW n \in 0..MaxLines, NEW lost \in BOOLEAN,
           HandleConnection(c, n, lost)
    PROVE  DeadInv'
<1>1. /\ phase = "round" /\ c \in todo /\ todo' = todo \ {c} /\ UNCHANGED <<listed, bound, told>>
  BY DEF HandleConnection
<1>2. c \notin told /\ told \subseteq Conns /\ TypeOK
  BY <1>1 DEF DeadInv, ToldBefore, IInv, TypeOK
<1>3. CASE IsOpen(c)
  <2>1. /\ current' = c /\ phase' \in {"lines", "applies"}
        /\ status' = IF lost THEN [status EXCEPT ![c] = "lost"] ELSE status
    BY <1>3, Zenon DEF HandleConnection
  <2>2. \A d \in Conns \ {c} : status'[d] = status[d]
    BY <1>2, <2>1 DEF TypeOK
  <2>3. ToldBefore'
    BY <1>1, <1>2, <2>1 DEF DeadInv, ToldBefore, Before, Entering, Reading
  <2>4. ToldClosed'
    BY <1>1, <1>2, <2>2 DEF DeadInv, ToldClosed
  <2>5. LostTold'
    BY <1>1, <2>1, <2>2 DEF DeadInv, LostTold, Reading
  <2> QED
    BY <2>3, <2>4, <2>5 DEF DeadInv
<1>4. CASE ~IsOpen(c)
  <2>1. UNCHANGED <<status, current, phase>>
    BY <1>4, Zenon DEF HandleConnection
  <2> QED
    BY <1>1, <2>1 DEF DeadInv, ToldBefore, ToldClosed, LostTold
<1> QED
  BY <1>3, <1>4

(* The lines are done: a lost connection that is bound is told of now.       *)
LEMMA DoneDead ==
    ASSUME IInv, DeadInv, LinesDone
    PROVE  DeadInv'
<1>1. /\ phase = "lines" /\ UNCHANGED <<status, listed, bound, todo>>
      /\ IF IsClosed(current) /\ bound[current] # NoObject
         THEN phase' = "net_dead" /\ told' = told \cup {current} /\ current' = current
         ELSE phase' = "round" /\ current' = NoConn /\ told' = told
  BY DEF LinesDone
<1>2. current \in Conns
  BY <1>1 DEF IInv, Served, Serving
<1>3. CASE IsClosed(current) /\ bound[current] # NoObject
  <2>1. phase' = "net_dead" /\ told' = told \cup {current} /\ current' = current
    BY <1>1, <1>3
  <2>2. ToldBefore'
    <3>1. current \notin todo
      BY <1>1 DEF DeadInv, ToldBefore, Reading
    <3> QED
      BY <1>1, <2>1, <3>1 DEF DeadInv, ToldBefore, Before, Entering, Reading
  <2>3. ToldClosed'
    BY <1>1, <1>3, <2>1 DEF DeadInv, ToldClosed, IsClosed
  <2>4. LostTold'
    BY <1>1, <2>1 DEF DeadInv, LostTold, Reading
  <2> QED
    BY <2>2, <2>3, <2>4 DEF DeadInv
<1>4. CASE ~(IsClosed(current) /\ bound[current] # NoObject)
  <2>1. phase' = "round" /\ current' = NoConn /\ told' = told
    BY <1>1, <1>4
  <2>2. ToldBefore' /\ ToldClosed'
    BY <1>1, <2>1 DEF DeadInv, ToldBefore, ToldClosed, Before, Entering, Reading
  <2>3. LostTold'
    BY <1>1, <1>4, <2>1 DEF DeadInv, LostTold, IsClosed, Reading
  <2> QED
    BY <2>2, <2>3 DEF DeadInv
<1> QED
  BY <1>3, <1>4

(* A closed connection is erased after the round.                            *)
LEMMA ErasedDead ==
    ASSUME IInv, DeadInv, NEW c \in Conns, Erase(c)
    PROVE  DeadInv'
<1>1. /\ phase = "erase" /\ Close(c, "none", snooping, snoopedBy)
      /\ UNCHANGED <<phase, current, todo, told>>
  BY DEF Erase
<1>2. /\ status'[c] = "none" /\ bound'[c] = NoObject
      /\ \A d \in Conns \ {c} : status'[d] = status[d] /\ bound'[d] = bound[d]
  BY <1>1, CloseStatus DEF IInv
<1>3. ToldBefore'
  BY <1>1 DEF DeadInv, ToldBefore, Before, Entering, Reading
<1>4. told \subseteq Conns
  BY DEF IInv, TypeOK
<1>5. ToldClosed' /\ LostTold'
  BY <1>1, <1>2, <1>4 DEF DeadInv, ToldClosed, LostTold
<1> QED
  BY <1>3, <1>5 DEF DeadInv

(* The steps between two calls: a poll ends with nothing closed in the list, *)
(* so that the next round has nothing in it that was told of.                *)
LEMMA PhaseDead ==
    ASSUME IInv, ListedUsed, DeadInv,
           PollBegins \/ RoundBegins \/ RoundEnds \/ PollEnds \/ LineToHandler \/ LineToCommand
             \/ AppliesReturn \/ LineReturns \/ NetDeadReturns \/ SocketsReturn
    PROVE  DeadInv'
<1>1. UNCHANGED <<status, listed, bound, told>>
  BY DEF PollBegins, RoundBegins, RoundEnds, PollEnds, LineToHandler, LineToCommand,
         AppliesReturn, LineReturns, NetDeadReturns, SocketsReturn
<1>2. /\ told \subseteq Conns /\ listed \subseteq Conns /\ (phase \in Resting => current = NoConn)
      /\ NoConn \notin Conns /\ status \in [Conns -> {"none", "open", "lost", "closed"}]
      /\ phase \in Serving \cup {"round"} \/ todo = {}
  BY ConnectionAssumption DEF IInv, TypeOK, Served
<1>3. CASE PollEnds
  <2>1. phase' = "idle" /\ phase = "erase" /\ \A c \in listed : ~IsClosed(c)
    BY <1>3 DEF PollEnds
  <2>2. UNCHANGED <<current, todo>>
    BY <1>3 DEF PollEnds
  <2>3. \A c \in told : status[c] \in {"none", "lost", "closed"}
    BY <1>2 DEF DeadInv, ToldClosed
  <2>4. told \cap listed = {}
    <3> SUFFICES ASSUME NEW c \in told \cap listed PROVE FALSE
      OBVIOUS
    <3>1. status[c] = "none"
      BY <2>1, <2>3 DEF IsClosed
    <3> QED
      BY <3>1 DEF ListedUsed
  <2>5. ToldBefore'
    BY <1>1, <1>2, <2>1, <2>2, <2>4 DEF DeadInv, ToldBefore, Before, Entering, Reading, Serving
  <2>6. LostTold' /\ ToldClosed'
    BY <1>1, <2>1 DEF DeadInv, LostTold, ToldClosed, Reading
  <2> QED
    BY <2>5, <2>6 DEF DeadInv
<1>4. CASE RoundBegins
  <2>1. phase' = "round" /\ phase = "accept" /\ todo' = listed /\ UNCHANGED current
    BY <1>4 DEF RoundBegins
  <2>2. ToldBefore'
    BY <1>1, <2>1 DEF DeadInv, ToldBefore, Before, Entering, Reading
  <2>3. LostTold' /\ ToldClosed'
    BY <1>1, <2>1 DEF DeadInv, LostTold, ToldClosed, Reading
  <2> QED
    BY <2>2, <2>3 DEF DeadInv
<1>5. CASE ~PollEnds /\ ~RoundBegins
  <2>1. /\ UNCHANGED todo
        /\ \/ phase \in Reading /\ phase' \in Reading /\ current' = current
           \/ phase \notin Reading /\ phase' \in {"round", "sockets", "erase"}
           \/ phase = "idle" /\ phase' = "accept"
    BY <1>5 DEF PollBegins, RoundEnds, LineToHandler, LineToCommand,
         AppliesReturn, LineReturns, NetDeadReturns, SocketsReturn, Reading
  <2>2. ToldBefore'
    BY <1>1, <2>1 DEF DeadInv, ToldBefore, Before, Entering, Reading
  <2>3. LostTold' /\ ToldClosed'
    BY <1>1, <2>1 DEF DeadInv, LostTold, ToldClosed, Reading
  <2> QED
    BY <2>2, <2>3 DEF DeadInv
<1> QED
  BY <1>3, <1>4, <1>5

(* Every step keeps the account of the lost lines.                           *)
LEMMA NextDead == IInv /\ ListedUsed /\ DeadInv /\ [Next]_vars => DeadInv'
<1> SUFFICES ASSUME IInv, ListedUsed, DeadInv, [Next]_vars PROVE DeadInv'
  OBVIOUS
<1>1. CASE UNCHANGED <<status, listed, bound, current, phase, todo, told>>
  BY <1>1 DEF DeadInv, ToldBefore, ToldClosed, LostTold
<1>2. ASSUME NEW o \in Objects, RemoveInteractive(o) \/ Destruct(o) PROVE DeadInv'
  <2>1. /\ UNCHANGED <<listed, current, phase, todo, told>>
        /\ \/ UNCHANGED <<status, bound>>
           \/ \E c \in Conns : \E sng, snd : Close(c, "closed", sng, snd)
    BY <1>2, Zenon DEF RemoveInteractive, Destruct
  <2> QED
    BY <1>1, <2>1, ClosedDead, Zenon
<1>3. CASE Efun
  <2> SUFFICES ASSUME NEW o \in Objects,
                      Exec(o) \/ InputTo(o) \/ Unsnoop(o) \/ \E victim \in Objects : Snoop(o, victim)
               PROVE  DeadInv'
    BY <1>2, <1>3, Zenon DEF Efun
  <2>1. CASE Exec(o)
    BY <2>1, BoundDead
  <2>2. CASE InputTo(o) \/ Unsnoop(o) \/ \E victim \in Objects : Snoop(o, victim)
    BY <1>1, <2>2, Zenon DEF InputTo, Unsnoop, Snoop
  <2> QED
    BY <2>1, <2>2
<1>4. CASE ApplyReturns
  <2>1. CASE \E o \in Objects : ConnectReturns(o)
    BY <2>1, BoundDead
  <2> QED
    BY <1>4, <2>1, EnteredDead, PhaseDead, Zenon DEF ApplyReturns
<1>5. CASE ServerStep
  <2>1. CASE \E c \in Conns : Erase(c)
    BY <2>1, ErasedDead
  <2>2. CASE \E c \in Conns, n \in 0..MaxLines, lost \in BOOLEAN : HandleConnection(c, n, lost)
    BY <2>2, HandledDead, Zenon
  <2> QED
    BY <1>5, <2>1, <2>2, DoneDead, PhaseDead, Zenon DEF ServerStep
<1>6. CASE \E c \in Conns : Accept(c)
  BY <1>6, AcceptedDead
<1>7. CASE UNCHANGED vars
  BY <1>1, <1>7, Zenon DEF vars
<1> QED
  BY <1>3, <1>4, <1>5, <1>6, <1>7, Zenon DEF Next, Step

(* With any LPC code and any number of connections: a line that was lost     *)
(* while an object was bound to it is not erased before                      *)
(* fireNetDeadIfLinkDead() called net_dead(), and not told of it twice.      *)
THEOREM NetDeadTheorem == Spec => NetDeadOnce
<1>1. Init => ListedUsed /\ DeadInv
  BY ConnectionAssumption DEF Init, ListedUsed, DeadInv, ToldBefore, ToldClosed, LostTold, Entering, Reading
<1>2. ASSUME IInv, DeadInv, [Next]_vars, NEW c \in listed \ listed',
             status[c] = "lost", bound[c] # NoObject
      PROVE  c \in told
  <2>1. phase = "erase"
    BY <1>2, Zenon DEF Next, Step, vars, Efun, ApplyReturns, ServerStep, Exec, InputTo, Destruct, RemoveInteractive,
       Unsnoop, Snoop, ConnectFails, ConnectReturns, LogonThrows, LogonReturns, AppliesReturn,
       LineReturns, NetDeadReturns, SocketsReturn, PollBegins, RoundBegins, RoundEnds, PollEnds,
       LineToHandler, LineToCommand, LinesDone, Erase, HandleConnection, Accept
  <2>2. c \in Conns
    BY <1>2 DEF IInv, TypeOK
  <2> QED
    BY <1>2, <2>1, <2>2 DEF DeadInv, LostTold, Reading
<1>3. ASSUME IInv, DeadInv, [Next]_vars, phase' = "net_dead", phase # "net_dead"
      PROVE  current \notin told
  <2>1. phase = "lines"
    BY <1>3 DEF Next, Step, vars, Efun, ApplyReturns, ServerStep, Exec, InputTo, Destruct, RemoveInteractive,
       Unsnoop, Snoop, ConnectFails, ConnectReturns, LogonThrows, LogonReturns, AppliesReturn,
       LineReturns, NetDeadReturns, SocketsReturn, PollBegins, RoundBegins, RoundEnds, PollEnds,
       LineToHandler, LineToCommand, LinesDone, Erase, HandleConnection, Accept
  <2> QED
    BY <1>3, <2>1 DEF DeadInv, ToldBefore, Reading
<1>4. IInv /\ DeadInv /\ [Next]_vars =>
        [/\ \A c \in listed \ listed' : status[c] = "lost" /\ bound[c] # NoObject => c \in told
         /\ phase' = "net_dead" /\ phase # "net_dead" => current \notin told]_vars
  BY <1>2, <1>3, Zenon
<1> QED
  BY <1>1, <1>4, IInvHolds, NextListed, NextDead, PTL DEF Spec, NetDeadOnce
=============================================================================
