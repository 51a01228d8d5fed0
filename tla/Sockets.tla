------------------------------ MODULE Sockets ------------------------------
(***************************************************************************)
(* LPC sockets: SocketRegistry, the table behind the socket efuns, and     *)
(* Server::pollSockets(), which calls LPC code back when data, a           *)
(* connection, the end of a write or the end of the line is there.  The    *)
(* poll works on a snapshot of the table, and every callback may create,   *)
(* write, close, hand over or destruct.  socket_release() calls LPC code   *)
(* in the middle of its own work: the releases under way are a stack.      *)
(*                                                                         *)
(* What a message holds is left out: it is some units, numbered in the     *)
(* order they were accepted in.  What the operating system answers is a    *)
(* choice.  A call that is refused changes nothing and is no action.       *)
(***************************************************************************)
EXTENDS Integers, Sequences

CONSTANTS Objects, NoObject,
          Modes,        \* of "stream", "mud", "datagram"
          MaxHandle,    \* bound: sockets ever made
          MaxUnits,     \* bound: units accepted by one socket
          MaxDepth      \* bound: releases under way

Handles == 1..MaxHandle

ASSUME SocketAssumption ==
    /\ NoObject \notin Objects
    /\ Modes \subseteq {"stream", "mud", "datagram"}
    /\ MaxHandle \in Nat /\ MaxUnits \in Nat /\ MaxDepth \in Nat

VARIABLES registry,      \* g_sockets: the handles in the table
          nextHandle,
          mode, state, owner,
          releasedTo,    \* releaseTarget while released is set
          acceptPending, \* listening sockets whose caller has not accepted yet
          blocked,       \* S_BLOCKED
          pendingWrite,  \* units accepted and not written
          wire,          \* units written
          accepted,      \* number of units accepted
          destructed,
          freed,         \* objects nothing refers to any more: weak pointers to them expire
          late,          \* history: sockets an object got when it was destructed already
          releases,      \* handles of the releases under way, innermost last
          phase,         \* what pollSockets() is doing
          todo,          \* what is left of the snapshot
          cur,           \* the socket being served
          after,         \* what follows the callback
          out,           \* cur was found writable
          closeTold      \* history: how often the close callback was called

sockets == <<mode, state, owner, releasedTo, acceptPending, blocked, pendingWrite, wire, accepted>>
poll    == <<phase, todo, cur, after, out>>
lives   == <<destructed, freed, late>>
vars    == <<registry, nextHandle, sockets, lives, releases, poll, closeTold>>

States == {"unbound", "bound", "listen", "data_xfer"}

TypeOK ==
    /\ registry \subseteq Handles
    /\ nextHandle \in 1..(MaxHandle + 1)
    /\ \A h \in registry : h < nextHandle
    /\ mode \in [Handles -> Modes \cup {"none"}]
    /\ state \in [Handles -> States]
    /\ owner \in [Handles -> Objects \cup {NoObject}]
    /\ releasedTo \in [Handles -> Objects \cup {NoObject}]
    /\ acceptPending \subseteq Handles
    /\ blocked \subseteq Handles
    /\ pendingWrite \in [Handles -> Seq(1..MaxUnits)]
    /\ wire \in [Handles -> Seq(1..MaxUnits)]
    /\ accepted \in [Handles -> 0..MaxUnits]
    /\ destructed \subseteq Objects /\ freed \subseteq Objects
    /\ late \subseteq Handles
    /\ releases \in Seq(Handles)
    /\ phase \in {"idle", "poll", "callback", "io"}
    /\ todo \subseteq Handles
    /\ cur \in Handles \cup {0}
    /\ after \in {"next", "more", "io"}
    /\ out \in BOOLEAN
    /\ closeTold \in [Handles -> Nat]

Init ==
    /\ registry = {} /\ nextHandle = 1
    /\ mode = [h \in Handles |-> "none"]
    /\ state = [h \in Handles |-> "unbound"]
    /\ owner = [h \in Handles |-> NoObject]
    /\ releasedTo = [h \in Handles |-> NoObject]
    /\ acceptPending = {} /\ blocked = {}
    /\ pendingWrite = [h \in Handles |-> <<>>]
    /\ wire = [h \in Handles |-> <<>>]
    /\ accepted = [h \in Handles |-> 0]
    /\ destructed = {} /\ freed = {} /\ late = {}
    /\ releases = <<>>
    /\ phase = "idle" /\ todo = {} /\ cur = 0 /\ after = "next" /\ out = FALSE
    /\ closeTold = [h \in Handles |-> 0]

-----------------------------------------------------------------------------
(* LPC code of object o runs: in a callback, or elsewhere in the driver    *)
(* while the sockets are not polled.  The code of a destructed object goes *)
(* on to the end of the call it is in.                                     *)
Runs(o) == phase \in {"idle", "callback"} /\ o \notin freed

(* The checks every efun starts with: a known handle and its owner. *)
Owns(o, h) == Runs(o) /\ h \in registry /\ owner[h] = o
(* o becomes the owner of h. *)
Gets(o, h) ==
    /\ owner' = [owner EXCEPT ![h] = o]
    /\ late' = IF o \in destructed THEN late \cup {h} ELSE late \ {h}
    /\ UNCHANGED <<destructed, freed>>

(* A socket enters the table under a handle that was never used before. *)
New(h, o, m, s) ==
    /\ h = nextHandle /\ h \in Handles
    /\ nextHandle' = nextHandle + 1
    /\ registry' = registry \cup {h}
    /\ mode' = [mode EXCEPT ![h] = m]
    /\ state' = [state EXCEPT ![h] = s]
    /\ Gets(o, h)

(* socket_create(). *)
Create(o, m) ==
    /\ Runs(o)
    /\ New(nextHandle, o, m, "unbound")
    /\ UNCHANGED <<releasedTo, acceptPending, blocked, pendingWrite, wire, accepted,
                   releases, poll, closeTold>>

(* socket_bind(). *)
Bind(o, h) ==
    /\ Owns(o, h)
    /\ state[h] = "unbound"
    /\ state' = [state EXCEPT ![h] = "bound"]
    /\ UNCHANGED <<registry, nextHandle, mode, owner, releasedTo, acceptPending, blocked, pendingWrite,
                   wire, accepted, lives, releases, poll, closeTold>>

(* socket_listen(). *)
Listen(o, h) ==
    /\ Owns(o, h)
    /\ mode[h] # "datagram" /\ state[h] = "bound"
    /\ state' = [state EXCEPT ![h] = "listen"]
    /\ UNCHANGED <<registry, nextHandle, mode, owner, releasedTo, acceptPending, blocked, pendingWrite,
                   wire, accepted, lives, releases, poll, closeTold>>

(* socket_accept(): the next connection may be announced again, whether    *)
(* or not one is got.                                                      *)
Accept(o, h) ==
    /\ Owns(o, h)
    /\ mode[h] # "datagram" /\ state[h] = "listen"
    /\ acceptPending' = acceptPending \ {h}
    /\ \/ New(nextHandle, o, mode[h], "data_xfer")
       \/ UNCHANGED <<registry, nextHandle, mode, state, owner, lives>>
    /\ UNCHANGED <<releasedTo, blocked, pendingWrite, wire, accepted,
                   releases, poll, closeTold>>

(* socket_connect(), done or in progress: no writes before the callback. *)
Connect(o, h) ==
    /\ Owns(o, h)
    /\ mode[h] # "datagram" /\ state[h] \in {"unbound", "bound"}
    /\ state' = [state EXCEPT ![h] = "data_xfer"]
    /\ blocked' = blocked \cup {h}
    /\ UNCHANGED <<registry, nextHandle, mode, owner, releasedTo, acceptPending, pendingWrite,
                   wire, accepted, lives, releases, poll, closeTold>>

Units(h, n) == [i \in 1..n |-> accepted[h] + i]

\* Mutant of Write: a write in progress is no reason to refuse.
WriteOver(o, h, n, k) ==
    /\ Owns(o, h)
    /\ mode[h] # "datagram" /\ state[h] = "data_xfer"
    /\ accepted[h] + n <= MaxUnits
    /\ k \in 1..n
    /\ accepted' = [accepted EXCEPT ![h] = @ + n]
    /\ wire' = [wire EXCEPT ![h] = @ \o SubSeq(Units(h, n), 1, k)]
    /\ pendingWrite' = [pendingWrite EXCEPT ![h] = SubSeq(Units(h, n), k + 1, n)]
    /\ blocked' = IF k < n THEN blocked \cup {h} ELSE blocked
    /\ UNCHANGED <<registry, nextHandle, mode, state, owner, releasedTo, acceptPending,
                   lives, releases, poll, closeTold>>

\* Mutant of Write: the rest is kept but the socket is not marked.
WriteUnmarked(o, h, n, k) ==
    /\ Owns(o, h)
    /\ mode[h] # "datagram" /\ state[h] = "data_xfer"
    /\ h \notin blocked
    /\ accepted[h] + n <= MaxUnits
    /\ k \in 1..n
    /\ accepted' = [accepted EXCEPT ![h] = @ + n]
    /\ wire' = [wire EXCEPT ![h] = @ \o SubSeq(Units(h, n), 1, k)]
    /\ pendingWrite' = [pendingWrite EXCEPT ![h] = SubSeq(Units(h, n), k + 1, n)]
    /\ UNCHANGED <<registry, nextHandle, mode, state, owner, releasedTo, acceptPending, blocked,
                   lives, releases, poll, closeTold>>

(* socket_write() of n units, k of them written at once. *)
Write(o, h, n, k) ==
    /\ Owns(o, h)
    /\ mode[h] # "datagram" /\ state[h] = "data_xfer"
    /\ h \notin blocked
    /\ accepted[h] + n <= MaxUnits  \* bound
    /\ k \in 1..n
    /\ accepted' = [accepted EXCEPT ![h] = @ + n]
    /\ wire' = [wire EXCEPT ![h] = @ \o SubSeq(Units(h, n), 1, k)]
    /\ pendingWrite' = IF k < n THEN [pendingWrite EXCEPT ![h] = SubSeq(Units(h, n), k + 1, n)]
                       ELSE pendingWrite
    /\ blocked' = IF k < n THEN blocked \cup {h} ELSE blocked
    /\ UNCHANGED <<registry, nextHandle, mode, state, owner, releasedTo, acceptPending,
                   lives, releases, poll, closeTold>>

(* ... which fails for good: the socket goes, without its close callback. *)
WriteFails(o, h) ==
    /\ Owns(o, h)
    /\ mode[h] # "datagram" /\ state[h] = "data_xfer"
    /\ h \notin blocked
    /\ registry' = registry \ {h}
    /\ UNCHANGED <<nextHandle, sockets, lives, releases, poll, closeTold>>

(* socket_close(): no close callback. *)
Close(o, h) ==
    /\ Owns(o, h)
    /\ registry' = registry \ {h}
    /\ UNCHANGED <<nextHandle, sockets, lives, releases, poll, closeTold>>

(* closeAllOwnedBy(). *)
ClosedFor(o) == {h \in registry : owner[h] = o}

(* reload_object(o), called by any object. *)
Reload(o) ==
    /\ o \notin freed
    /\ phase \in {"idle", "callback"}
    /\ registry' = registry \ ClosedFor(o)
    /\ UNCHANGED <<nextHandle, sockets, lives, releases, poll, closeTold>>

\* Mutant of Destruct: the sockets are left.
DestructKeeps(o) ==
    /\ phase \in {"idle", "callback"}
    /\ o \notin destructed \cup freed
    /\ destructed' = destructed \cup {o}
    /\ UNCHANGED <<registry, nextHandle, sockets, freed, late, releases, poll, closeTold>>

(* destruct(o), called by any object. *)
Destruct(o) ==
    /\ phase \in {"idle", "callback"}
    /\ o \notin destructed \cup freed
    /\ destructed' = destructed \cup {o}
    /\ registry' = registry \ ClosedFor(o)
    /\ UNCHANGED <<nextHandle, sockets, freed, late, releases, poll, closeTold>>

(* The last reference to o goes, without any destruct(): no call of o is   *)
(* under way, and no release holds it.  Its sockets stay in the table.     *)
Free(o) ==
    /\ phase \in {"idle", "callback"}
    /\ o \notin freed
    /\ phase = "callback" => owner[cur] # o
    /\ \A i \in DOMAIN releases : o \notin {owner[releases[i]], releasedTo[releases[i]]}
    /\ freed' = freed \cup {o}
    /\ UNCHANGED <<registry, nextHandle, sockets, destructed, late, releases, poll, closeTold>>

-----------------------------------------------------------------------------
(* socket_release() up to its callback. *)
Release(o, h, to) ==
    /\ Owns(o, h) /\ to \notin freed
    /\ releasedTo[h] = NoObject
    /\ Len(releases) < MaxDepth  \* bound
    /\ releasedTo' = [releasedTo EXCEPT ![h] = to]
    /\ releases' = Append(releases, h)
    /\ UNCHANGED <<registry, nextHandle, mode, state, owner, acceptPending, blocked, pendingWrite,
                   wire, accepted, lives, poll, closeTold>>

\* Mutant of ReleaseReturns: an offer nobody took stays.
ReleaseReturnsOpen ==
    /\ releases # <<>>
    /\ releases' = SubSeq(releases, 1, Len(releases) - 1)
    /\ UNCHANGED <<registry, nextHandle, sockets, lives, poll, closeTold>>

(* The callback returns or throws: an offer nobody took is withdrawn.  It  *)
(* is looked up in the table, where a socket closed meanwhile is not.      *)
ReleaseReturns ==
    /\ releases # <<>>
    /\ LET h == releases[Len(releases)] IN
         releasedTo' = IF h \in registry THEN [releasedTo EXCEPT ![h] = NoObject] ELSE releasedTo
    /\ releases' = SubSeq(releases, 1, Len(releases) - 1)
    /\ UNCHANGED <<registry, nextHandle, mode, state, owner, acceptPending, blocked, pendingWrite,
                   wire, accepted, lives, poll, closeTold>>

\* Mutant of Acquire: it does not matter who asks.
AcquireAnyone(o, h) ==
    /\ Runs(o) /\ h \in registry
    /\ releasedTo[h] # NoObject
    /\ Gets(o, h)
    /\ releasedTo' = [releasedTo EXCEPT ![h] = NoObject]
    /\ UNCHANGED <<registry, nextHandle, mode, state, acceptPending, blocked, pendingWrite,
                   wire, accepted, releases, poll, closeTold>>

(* socket_acquire(). *)
Acquire(o, h) ==
    /\ Runs(o) /\ h \in registry
    /\ releasedTo[h] = o
    /\ Gets(o, h)
    /\ releasedTo' = [releasedTo EXCEPT ![h] = NoObject]
    /\ UNCHANGED <<registry, nextHandle, mode, state, acceptPending, blocked, pendingWrite,
                   wire, accepted, releases, poll, closeTold>>

-----------------------------------------------------------------------------
(* pollSockets(): all() is a snapshot that keeps its sockets alive. *)
PollBegins ==
    /\ phase = "idle" /\ releases = <<>>
    /\ phase' = "poll"
    /\ todo' = registry
    /\ UNCHANGED <<registry, nextHandle, sockets, lives, releases, cur, after, out, closeTold>>

Takes(h) == phase = "poll" /\ h \in todo /\ todo' = todo \ {h} /\ cur' = h

(* Nothing is there for h. *)
PollQuiet(h) ==
    /\ phase = "poll" /\ h \in todo
    /\ todo' = todo \ {h}
    /\ UNCHANGED <<registry, nextHandle, sockets, lives, releases, phase, cur, after, out, closeTold>>

(* A datagram, in whatever state the socket is. *)
PollDatagram(h) ==
    /\ Takes(h)
    /\ mode[h] = "datagram"
    /\ phase' = "callback" /\ after' = "next" /\ out' = FALSE
    /\ UNCHANGED <<registry, nextHandle, sockets, lives, releases, closeTold>>

(* A connection waits at a listening socket. *)
PollListen(h) ==
    /\ Takes(h)
    /\ mode[h] # "datagram" /\ state[h] = "listen"
    /\ h \notin acceptPending
    /\ acceptPending' = acceptPending \cup {h}
    /\ phase' = "callback" /\ after' = "next" /\ out' = FALSE
    /\ UNCHANGED <<registry, nextHandle, mode, state, owner, releasedTo, blocked, pendingWrite,
                   wire, accepted, lives, releases, closeTold>>

(* Data: the read callback, once per frame in mud mode; writable is looked *)
(* for only if the socket is blocked.                                      *)
PollData(h, writable) ==
    /\ Takes(h)
    /\ mode[h] # "datagram" /\ state[h] = "data_xfer"
    /\ out' = (writable /\ h \in blocked)
    /\ phase' = "callback"
    /\ after' = IF mode[h] = "mud" THEN "more" ELSE "io"
    /\ UNCHANGED <<registry, nextHandle, sockets, lives, releases, closeTold>>

(* No data, or no whole frame, and writable. *)
PollWritable(h) ==
    /\ Takes(h)
    /\ mode[h] # "datagram" /\ state[h] = "data_xfer"
    /\ h \in blocked
    /\ out' = TRUE
    /\ phase' = "io"
    /\ UNCHANGED <<registry, nextHandle, sockets, lives, releases, after, closeTold>>

\* Mutant of CloseTells: the table is not told.
CloseTellsOnly(h) ==
    /\ closeTold' = [closeTold EXCEPT ![h] = @ + 1]
    /\ phase' = "callback" /\ after' = "next"
    /\ UNCHANGED registry

(* closeSocketAndFireCallback(). *)
CloseTells(h) ==
    /\ registry' = registry \ {h}
    /\ closeTold' = [closeTold EXCEPT ![h] = @ + 1]
    /\ phase' = "callback" /\ after' = "next"

(* The end of the line, an error, or a frame header that makes no sense. *)
PollEnd(h) ==
    /\ Takes(h)
    /\ mode[h] # "datagram" /\ state[h] = "data_xfer"
    /\ CloseTells(h)
    /\ UNCHANGED <<nextHandle, sockets, lives, releases, out>>

NextSocket == phase' = "poll" /\ cur' = 0

(* A callback of the poll returns or throws. *)
CallbackReturns ==
    /\ phase = "callback" /\ releases = <<>>
    /\ \/ /\ after = "next" /\ NextSocket
          /\ UNCHANGED <<registry, after, closeTold>>
       \/ /\ after = "io" /\ phase' = "io"
          /\ UNCHANGED <<registry, cur, after, closeTold>>
       \/ /\ after = "more"
          /\ \/ after' = "io" /\ UNCHANGED <<registry, phase, closeTold>>
             \/ CloseTells(cur)
             \/ UNCHANGED <<registry, phase, after, closeTold>>
          /\ UNCHANGED cur
    /\ UNCHANGED <<nextHandle, sockets, lives, releases, todo, out>>

(* The rest of a write goes out, k units of it; when nothing is left (or   *)
(* it was a connect() that is done) the write callback is called.          *)
Flush(k) ==
    /\ phase = "io" /\ out /\ cur \in blocked
    /\ k \in 0..Len(pendingWrite[cur])
    /\ wire' = [wire EXCEPT ![cur] = @ \o SubSeq(pendingWrite[cur], 1, k)]
    /\ pendingWrite' = [pendingWrite EXCEPT ![cur] = SubSeq(@, k + 1, Len(@))]
    /\ IF k = Len(pendingWrite[cur])
       THEN /\ blocked' = blocked \ {cur}
            /\ phase' = "callback" /\ after' = "next" /\ UNCHANGED cur
       ELSE NextSocket /\ UNCHANGED <<blocked, after>>
    /\ UNCHANGED <<registry, nextHandle, mode, state, owner, releasedTo, acceptPending,
                   accepted, lives, releases, todo, out, closeTold>>

(* ... or the write fails. *)
FlushFails ==
    /\ phase = "io" /\ out /\ cur \in blocked
    /\ pendingWrite[cur] # <<>>
    /\ CloseTells(cur)
    /\ UNCHANGED <<nextHandle, sockets, lives, releases, todo, cur, out>>

NoFlush ==
    /\ phase = "io"
    /\ ~(out /\ cur \in blocked)
    /\ NextSocket
    /\ UNCHANGED <<registry, nextHandle, sockets, lives, releases, todo, after, out, closeTold>>

PollEnds ==
    /\ phase = "poll" /\ todo = {}
    /\ phase' = "idle"
    /\ UNCHANGED <<registry, nextHandle, sockets, lives, releases, todo, cur, after, out, closeTold>>

-----------------------------------------------------------------------------
Efun ==
    \E o \in Objects :
        \/ \E m \in Modes : Create(o, m)
        \/ Reload(o) \/ Destruct(o) \/ Free(o)
        \/ \E h \in Handles :
             \/ Bind(o, h) \/ Listen(o, h) \/ Accept(o, h) \/ Connect(o, h)
             \/ \E n \in 1..MaxUnits : \E k \in 1..n : Write(o, h, n, k)
             \/ WriteFails(o, h) \/ Close(o, h) \/ Acquire(o, h)
             \/ \E to \in Objects : Release(o, h, to)

PollSocket(h) ==
    \/ PollQuiet(h) \/ PollDatagram(h) \/ PollListen(h) \/ PollWritable(h) \/ PollEnd(h)
    \/ \E writable \in BOOLEAN : PollData(h, writable)

Poll ==
    \/ PollBegins \/ PollEnds \/ CallbackReturns \/ FlushFails \/ NoFlush
    \/ \E h \in Handles : PollSocket(h)
    \/ \E k \in 0..MaxUnits : Flush(k)

Next == Efun \/ ReleaseReturns \/ Poll

Spec == Init /\ [][Next]_vars

-----------------------------------------------------------------------------
(* What a peer has received is what socket_write() accepted, in order and  *)
(* without gaps, and the rest is waiting: partial writes, refused writes   *)
(* and flushes by the poll neither lose, repeat nor reorder.               *)
StreamInOrder ==
    \A h \in Handles : wire[h] \o pendingWrite[h] = [i \in 1..accepted[h] |-> i]

(* A rest that waits is watched for: the socket is marked blocked and      *)
(* connected, so that the poll will flush it.                              *)
RestIsWatched ==
    \A h \in Handles : pendingWrite[h] # <<>> => h \in blocked /\ state[h] = "data_xfer"

(* socket_release() offers a socket for the length of its callback only:   *)
(* in the table none is on offer once the release has returned.            *)
OffersEnd ==
    \A h \in registry : releasedTo[h] # NoObject => \E i \in DOMAIN releases : releases[i] = h

(* A socket changes hands only by an offer to the new owner whose release *)
(* is still under way: whatever its callbacks close, hand on or destruct,  *)
(* no efun of another object gets at it and no stale offer is taken up.    *)
HandOver(h) ==
    owner'[h] # owner[h] =>
        \/ h \notin registry
        \/ releasedTo[h] = owner'[h] /\ \E i \in DOMAIN releases : releases[i] = h

HandedOver == [][\A h \in Handles : HandOver(h)]_vars

(* "Force-closing every socket a destructed object still owns": if the     *)
(* owner of a socket in the table is destructed, it was so when it got the *)
(* socket.  What the object owned at its destruct() is gone, whether it    *)
(* made it, accepted it or took it over in the middle of a release, and    *)
(* whatever was handed to it and on since.                                 *)
NoOrphans == \A h \in registry : owner[h] \in destructed => h \in late

(* The close callback is called once for a socket, whatever callbacks do   *)
(* while the snapshot is worked on.                                        *)
ToldOfCloseOnce == \A h \in Handles : closeTold[h] <= 1
=============================================================================
