---------------------------- MODULE Connections ----------------------------
(***************************************************************************)
(* Player connections: Server::pollOnce() accepts them, hands each one's   *)
(* lines to LPC code, notices when the line is lost and erases what is     *)
(* closed; attach(), exec() and close() bind connections to objects and    *)
(* keep InteractiveRegistry, which the rest of the driver finds a          *)
(* connection with, in step; snoop() links objects.  The LPC code called   *)
(* for one connection may close or rebind that one and any other.          *)
(*                                                                         *)
(* An object bound to a connection is kept alive by it; other objects are  *)
(* not freed here.  The order of the connections in a round is left open,  *)
(* and which of several registry entries of an object find() returns.      *)
(* A refused connection (at the limit) changes nothing and is no action.   *)
(***************************************************************************)
EXTENDS Integers, FiniteSets

CONSTANTS Objects, Conns,
          NoObject, NoConn,
          MaxConnections,
          MaxLines,    \* bound: complete lines one poll finds in the buffer
          Cascade      \* per object: what destruct() of it destructs, its shadows included

ASSUME ConnectionAssumption ==
    /\ NoObject \notin Objects /\ NoConn \notin Conns
    /\ MaxConnections \in Nat /\ MaxLines \in Nat
    /\ Cascade \in [Objects -> SUBSET Objects]

VARIABLES orderly,     \* what the mudlib's code does, fixed at boot: it binds no object
                       \* that is destructed or bound to another connection, and
                       \* destructs no object with a shadow that is bound to one
          status,      \* per connection: "none", "open", "lost" (closed_ set by the
                       \* poll, close() not run) or "closed" (close() has run)
          listed,      \* Server::connections_
          bound,       \* Connection::boundObject_
          pending,     \* object of Connection::pendingInputTo_
          registry,    \* InteractiveRegistry: pairs of an object and a connection
          current,     \* OutputContext: the connection being served
          phase,       \* what the driver is doing
          todo,        \* connections this round has not come to
          left,        \* lines of the current connection still to be dispatched
          destructed,
          snooping, snoopedBy,
          told         \* history: connections net_dead() was called for

vars == <<orderly, status, listed, bound, pending, registry, current, phase, todo, left,
          destructed, snooping, snoopedBy, told>>

TypeOK ==
    /\ orderly \in BOOLEAN
    /\ status \in [Conns -> {"none", "open", "lost", "closed"}]
    /\ listed \subseteq Conns
    /\ bound \in [Conns -> Objects \cup {NoObject}]
    /\ pending \in [Conns -> Objects \cup {NoObject}]
    /\ registry \subseteq Objects \X Conns
    /\ current \in Conns \cup {NoConn}
    /\ phase \in {"idle", "accept", "connect", "logon", "round", "applies", "lines", "body",
                  "net_dead", "sockets", "erase"}
    /\ todo \subseteq listed
    /\ left \in 0..MaxLines
    /\ destructed \subseteq Objects
    /\ snooping \in [Objects -> Objects \cup {NoObject}]
    /\ snoopedBy \in [Objects -> Objects \cup {NoObject}]
    /\ told \subseteq Conns

Init ==
    /\ orderly \in BOOLEAN
    /\ status = [c \in Conns |-> "none"]
    /\ listed = {} /\ todo = {} /\ told = {}
    /\ bound = [c \in Conns |-> NoObject]
    /\ pending = [c \in Conns |-> NoObject]
    /\ registry = {}
    /\ current = NoConn
    /\ phase = "idle"
    /\ left = 0
    /\ destructed = {}
    /\ snooping = [o \in Objects |-> NoObject]
    /\ snoopedBy = [o \in Objects |-> NoObject]

-----------------------------------------------------------------------------
(* LPC code runs: for a connection, or from heart_beats, call_outs and     *)
(* sockets while no connection is being served.                            *)
LpcRuns == phase \in {"idle", "connect", "logon", "applies", "body", "net_dead", "sockets"}

\* Mutant of IsClosed: only close() counts.
IsClosedFully(c) == status[c] = "closed"

IsOpen(c) == status[c] \in {"open", "lost"}           \* fd_ >= 0
IsClosed(c) == status[c] \in {"lost", "closed"}       \* closed_

RemovedFrom(reg, o) == {e \in reg : e[1] # o}         \* InteractiveRegistry::remove()
Registered(o) == \E c \in Conns : <<o, c>> \in registry

\* Mutant of Attach: the entry of the object bound before is left.
AttachKeepsOld(c, o) ==
    /\ registry' = registry \cup {<<o, c>>}
    /\ bound' = [bound EXCEPT ![c] = o]

(* Connection::attach(). *)
Attach(c, o) ==
    /\ registry' = RemovedFrom(registry, bound[c]) \cup {<<o, c>>}
    /\ bound' = [bound EXCEPT ![c] = o]

MayBind(o) ==
    orderly => o \notin destructed /\ \A c \in Conns \ {current} : bound[c] # o

MayDestruct(o) ==
    orderly => \A x \in Cascade[o] \ {o}, c \in Conns : bound[c] # x

\* Mutant of Close: only the snooper's side of the link is cut.
CloseHalfSnoop(c, to, sng, snd) ==
    /\ snooping' = [x \in Objects |-> IF bound[c] # NoObject /\ x = snd[bound[c]] THEN NoObject ELSE sng[x]]
    /\ snoopedBy' = snd
    /\ registry' = RemovedFrom(registry, bound[c])
    /\ bound' = [bound EXCEPT ![c] = NoObject]
    /\ status' = [status EXCEPT ![c] = to]

(* Connection::close(), with sng and snd as the snoop links: the bound     *)
(* object is no longer snooped and no longer registered.  pendingInputTo_  *)
(* stays.                                                                  *)
Close(c, to, sng, snd) ==
    /\ snooping' = [x \in Objects |-> IF bound[c] # NoObject /\ x = snd[bound[c]] THEN NoObject ELSE sng[x]]
    /\ snoopedBy' = [x \in Objects |-> IF x = bound[c] THEN NoObject ELSE snd[x]]
    /\ registry' = RemovedFrom(registry, bound[c])
    /\ bound' = [bound EXCEPT ![c] = NoObject]
    /\ status' = [status EXCEPT ![c] = to]

-----------------------------------------------------------------------------
(* Server::pollOnce(), its first loop. *)
PollBegins ==
    /\ phase = "idle"
    /\ phase' = "accept"
    /\ UNCHANGED <<status, listed, bound, pending, registry, current, todo, left, destructed, snooping, snoopedBy, told>>

AtMaxConnections == Cardinality(listed) >= MaxConnections

(* onNewConnection() up to the master's connect(). *)
Accept(c) ==
    /\ phase = "accept"
    /\ status[c] = "none"
    /\ ~AtMaxConnections
    /\ status' = [status EXCEPT ![c] = "open"]
    /\ current' = c
    /\ phase' = "connect"
    /\ told' = told \ {c}
    /\ UNCHANGED <<listed, bound, pending, registry, todo, left, destructed, snooping, snoopedBy>>

(* connect() throws or returns no object, or TLS failed: the connection is *)
(* destroyed, which closes it.                                             *)
ConnectFails ==
    /\ phase = "connect"
    /\ Close(current, "none", snooping, snoopedBy)
    /\ current' = NoConn
    /\ phase' = "accept"
    /\ pending' = [pending EXCEPT ![current] = NoObject]
    /\ UNCHANGED <<listed, todo, left, destructed, told>>

ConnectReturns(o) ==
    /\ phase = "connect"
    /\ MayBind(o)
    /\ Attach(current, o)
    /\ phase' = "logon"
    /\ UNCHANGED <<status, listed, pending, current, todo, left, destructed, snooping, snoopedBy, told>>

LogonThrows ==
    /\ phase = "logon"
    /\ Close(current, "none", snooping, snoopedBy)
    /\ current' = NoConn
    /\ phase' = "accept"
    /\ pending' = [pending EXCEPT ![current] = NoObject]
    /\ UNCHANGED <<listed, todo, left, destructed, told>>

LogonReturns ==
    /\ phase = "logon"
    /\ listed' = listed \cup {current}
    /\ current' = NoConn
    /\ phase' = "accept"
    /\ UNCHANGED <<status, bound, pending, registry, todo, left, destructed, snooping, snoopedBy, told>>

(* pollOnce(), its second loop over connections_. *)
RoundBegins ==
    /\ phase = "accept"
    /\ phase' = "round"
    /\ todo' = listed
    /\ UNCHANGED <<status, listed, bound, pending, registry, current, left, destructed, snooping, snoopedBy, told>>

(* handleConnection(): pollLines() yields n lines and may find the line    *)
(* lost; without an object they are not dispatched.  Before the lines come *)
(* window_size(), gmcp() and the other applies of telnet options.          *)
HandleConnection(c, n, lost) ==
    /\ phase = "round"
    /\ c \in todo
    /\ todo' = todo \ {c}
    /\ IF IsOpen(c)
       THEN /\ status' = IF lost THEN [status EXCEPT ![c] = "lost"] ELSE status
            /\ current' = c
            /\ left' = IF bound[c] = NoObject THEN 0 ELSE n
            /\ phase' = IF bound[c] = NoObject THEN "lines" ELSE "applies"
       ELSE UNCHANGED <<status, current, left, phase>>
    /\ UNCHANGED <<listed, bound, pending, registry, destructed, snooping, snoopedBy, told>>

AppliesReturn ==
    /\ phase = "applies"
    /\ phase' = "lines"
    /\ UNCHANGED <<status, listed, bound, pending, registry, current, todo, left, destructed, snooping, snoopedBy, told>>

(* dispatchLine(): a pending input_to() takes the line, whatever became of *)
(* the connection since the poll.                                          *)
LineToHandler ==
    /\ phase = "lines" /\ left > 0
    /\ pending[current] # NoObject
    /\ pending' = [pending EXCEPT ![current] = NoObject]
    /\ left' = left - 1
    /\ phase' = "body"
    /\ UNCHANGED <<status, listed, bound, registry, current, todo, destructed, snooping, snoopedBy, told>>

(* ... otherwise the bound object's process_input() and commands do. *)
LineToCommand ==
    /\ phase = "lines" /\ left > 0
    /\ pending[current] = NoObject
    /\ left' = left - 1
    /\ phase' = IF bound[current] = NoObject THEN "lines" ELSE "body"
    /\ UNCHANGED <<status, listed, bound, pending, registry, current, todo, destructed, snooping, snoopedBy, told>>

(* The LPC code returns, or throws and is cut off at this one line. *)
LineReturns ==
    /\ phase = "body"
    /\ phase' = "lines"
    /\ UNCHANGED <<status, listed, bound, pending, registry, current, todo, left, destructed, snooping, snoopedBy, told>>

\* Mutant of LinesDone: net_dead() only when the line was still usable.
LinesDoneSilent ==
    /\ phase = "lines" /\ left = 0
    /\ current' = NoConn
    /\ phase' = "round"
    /\ UNCHANGED <<status, listed, bound, pending, registry, todo, left, destructed, snooping, snoopedBy, told>>

(* fireNetDeadIfLinkDead(). *)
LinesDone ==
    /\ phase = "lines" /\ left = 0
    /\ IF IsClosed(current) /\ bound[current] # NoObject
       THEN phase' = "net_dead" /\ told' = told \cup {current} /\ UNCHANGED current
       ELSE phase' = "round" /\ current' = NoConn /\ UNCHANGED told
    /\ UNCHANGED <<status, listed, bound, pending, registry, todo, left, destructed, snooping, snoopedBy>>

NetDeadReturns ==
    /\ phase = "net_dead"
    /\ current' = NoConn
    /\ phase' = "round"
    /\ UNCHANGED <<status, listed, bound, pending, registry, todo, left, destructed, snooping, snoopedBy, told>>

(* pollOnce(): pollSockets() calls LPC code, then connections_ loses what  *)
(* is closed, each destroyed and so closed.                                *)
RoundEnds ==
    /\ phase = "round"
    /\ todo = {}
    /\ phase' = "sockets"
    /\ UNCHANGED <<status, listed, bound, pending, registry, current, todo, left, destructed, snooping, snoopedBy, told>>

SocketsReturn ==
    /\ phase = "sockets"
    /\ phase' = "erase"
    /\ UNCHANGED <<status, listed, bound, pending, registry, current, todo, left, destructed, snooping, snoopedBy, told>>

Erase(c) ==
    /\ phase = "erase"
    /\ c \in listed /\ IsClosed(c)
    /\ listed' = listed \ {c}
    /\ Close(c, "none", snooping, snoopedBy)
    /\ pending' = [pending EXCEPT ![c] = NoObject]
    /\ UNCHANGED <<current, phase, todo, left, destructed, told>>

PollEnds ==
    /\ phase = "erase"
    /\ \A c \in listed : ~IsClosed(c)
    /\ phase' = "idle"
    /\ UNCHANGED <<status, listed, bound, pending, registry, current, todo, left, destructed, snooping, snoopedBy, told>>

-----------------------------------------------------------------------------
(* exec(o): the connection being served gets another object. *)
Exec(o) ==
    /\ LpcRuns /\ current # NoConn
    /\ MayBind(o)
    /\ pending' = [pending EXCEPT ![current] = NoObject]
    /\ Attach(current, o)
    /\ UNCHANGED <<status, listed, current, phase, todo, left, destructed, snooping, snoopedBy, told>>

(* input_to() called by code of object o. *)
InputTo(o) ==
    /\ LpcRuns /\ current # NoConn
    /\ pending' = [pending EXCEPT ![current] = o]
    /\ UNCHANGED <<status, listed, bound, registry, current, phase, todo, left, destructed, snooping, snoopedBy, told>>

\* Mutant of Destruct: the connection being served is looked at, not the object's own.
DestructClosesCurrent(o) ==
    /\ LpcRuns
    /\ o \notin destructed
    /\ destructed' = destructed \cup {o}
    /\ IF current # NoConn /\ bound[current] = o
       THEN Close(current, "closed", snooping, snoopedBy)
       ELSE UNCHANGED <<status, bound, registry, snooping, snoopedBy>>
    /\ UNCHANGED <<listed, pending, current, phase, todo, left, told>>

(* destruct(o): everything that goes with o stops snooping and is flagged; *)
(* then the connection found for o itself is closed.                       *)
Destruct(o) ==
    /\ LpcRuns /\ MayDestruct(o)
    /\ LET gone == IF o \in destructed THEN {} ELSE Cascade[o] \ destructed
           sng  == [x \in Objects |-> IF x \in gone THEN NoObject ELSE snooping[x]]
           snd  == [v \in Objects |-> IF \E x \in gone : snooping[x] = v THEN NoObject ELSE snoopedBy[v]]
       IN  /\ destructed' = destructed \cup gone
           /\ \/ /\ ~Registered(o)
                 /\ snooping' = sng /\ snoopedBy' = snd
                 /\ UNCHANGED <<status, bound, registry>>
              \/ \E c \in Conns : <<o, c>> \in registry /\ Close(c, "closed", sng, snd)
    /\ UNCHANGED <<listed, pending, current, phase, todo, left, told>>

(* remove_interactive(o): the connection goes, the object stays. *)
RemoveInteractive(o) ==
    /\ LpcRuns
    /\ o \notin destructed
    /\ \E c \in Conns : <<o, c>> \in registry /\ Close(c, "closed", snooping, snoopedBy)
    /\ UNCHANGED <<listed, pending, current, phase, todo, left, destructed, told>>

(* Who learns what is sent to o: its snooper, its snooper's snooper, ... *)
SnoopersOf(o) ==
    {x \in Objects : \A S \in SUBSET Objects :
        (o \in S /\ \A y \in S : snoopedBy[y] \in S \cup {NoObject}) => x \in S}

\* Mutant of Snoop: only a direct loop is refused.
SnoopDirect(by, victim) ==
    /\ LpcRuns
    /\ {by, victim} \cap destructed = {}
    /\ Registered(victim)
    /\ victim # by /\ snoopedBy[by] # victim
    /\ snoopedBy' = [x \in Objects |-> IF x = victim THEN by
                                       ELSE IF x = snooping[by] THEN NoObject ELSE snoopedBy[x]]
    /\ snooping' = [x \in Objects |-> IF x = by THEN victim
                                      ELSE IF x = snoopedBy[victim] THEN NoObject ELSE snooping[x]]
    /\ UNCHANGED <<status, listed, bound, pending, registry, current, phase, todo, left, destructed, told>>

(* snoop(by, victim): refused if it would close a loop; both give up what  *)
(* they were linked to.                                                    *)
Snoop(by, victim) ==
    /\ LpcRuns
    /\ {by, victim} \cap destructed = {}
    /\ Registered(victim)
    /\ victim \notin SnoopersOf(by)
    /\ snoopedBy' = [x \in Objects |-> IF x = victim THEN by
                                       ELSE IF x = snooping[by] THEN NoObject ELSE snoopedBy[x]]
    /\ snooping' = [x \in Objects |-> IF x = by THEN victim
                                      ELSE IF x = snoopedBy[victim] THEN NoObject ELSE snooping[x]]
    /\ UNCHANGED <<status, listed, bound, pending, registry, current, phase, todo, left, destructed, told>>

(* snoop(by). *)
Unsnoop(by) ==
    /\ LpcRuns
    /\ by \notin destructed
    /\ snoopedBy' = [x \in Objects |-> IF x = snooping[by] THEN NoObject ELSE snoopedBy[x]]
    /\ snooping' = [snooping EXCEPT ![by] = NoObject]
    /\ UNCHANGED <<status, listed, bound, pending, registry, current, phase, todo, left, destructed, told>>

-----------------------------------------------------------------------------
Efun ==
    \E o \in Objects :
        \/ Exec(o) \/ InputTo(o) \/ Destruct(o) \/ RemoveInteractive(o) \/ Unsnoop(o)
        \/ \E victim \in Objects : Snoop(o, victim)

ApplyReturns ==
    \/ ConnectFails \/ (\E o \in Objects : ConnectReturns(o)) \/ LogonThrows \/ LogonReturns
    \/ AppliesReturn \/ LineReturns \/ NetDeadReturns \/ SocketsReturn

ServerStep ==
    \/ PollBegins \/ RoundBegins \/ RoundEnds \/ PollEnds
    \/ LineToHandler \/ LineToCommand \/ LinesDone
    \/ \E c \in Conns :
         Erase(c) \/ \E n \in 0..MaxLines, lost \in BOOLEAN : HandleConnection(c, n, lost)

Step == Efun \/ ApplyReturns \/ ServerStep \/ \E c \in Conns : Accept(c)

Next == Step /\ UNCHANGED orderly

Spec == Init /\ [][Next]_vars

(* Scheduler::run() polls again and again, the rounds go on, LPC code ends. *)
Fairness == WF_vars(ServerStep /\ UNCHANGED orderly) /\ WF_vars(ApplyReturns /\ UNCHANGED orderly)

FairSpec == Spec /\ Fairness

-----------------------------------------------------------------------------
(* No raw Connection pointer dangles: what find() returns and what         *)
(* OutputContext holds is a connection that exists, and a registry entry   *)
(* names the object its connection is bound to.                            *)
NoDangling ==
    /\ \A e \in registry : bound[e[2]] = e[1] /\ status[e[2]] # "none"
    /\ current # NoConn => status[current] # "none"

(* InteractiveRegistry.hpp: "Every object currently bound to a live        *)
(* connection" is in the registry, so that messages and destruct() find    *)
(* the connection.                                                         *)
RegistryComplete == \A c \in Conns : bound[c] # NoObject => Registered(bound[c])

(* destruct() closes the line of a destructed player: no connection stays  *)
(* open and bound to an object that answers nothing any more.              *)
NoInertSession == \A c \in Conns : status[c] = "open" => bound[c] \notin destructed

(* With orderly LPC code every object bound to a connection is registered, *)
(* and so found by messages and by destruct(); and destruct() closes the   *)
(* line of whom it destructs, so that no line stays open that answers      *)
(* nothing any more.                                                       *)
SessionsAnswer == orderly => RegistryComplete /\ NoInertSession

(* LpcObject.hpp: the snoop links are "a genuinely symmetric pair". *)
SnoopPaired == \A x, y \in Objects : snooping[x] = y <=> snoopedBy[y] = x

(* Nobody is, through others, their own snooper: what is sent to a snooped *)
(* object is handed on along the chain, and the chain ends.                *)
SnoopEnds == \A S \in (SUBSET Objects) \ {{}} : \E x \in S : snoopedBy[x] \notin S

(* max_connections is never exceeded. *)
WithinLimit == Cardinality(listed) <= MaxConnections

(* A connection that was lost is not erased before the object bound to it  *)
(* was told by net_dead(), and is told once.                               *)
NetDeadOnce ==
    [][/\ \A c \in listed \ listed' : status[c] = "lost" /\ bound[c] # NoObject => c \in told
       /\ phase' = "net_dead" /\ phase # "net_dead" => current \notin told]_vars

(* A lost connection is released in the end. *)
LostIsReleased == \A c \in Conns : (status[c] = "lost" /\ c \in listed) ~> (status[c] = "none")
=============================================================================
