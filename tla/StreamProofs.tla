---------------------------- MODULE StreamProofs ----------------------------
(***************************************************************************)
(* Proofs about the byte streams.  First Sockets, for any objects, handles *)
(* and bounds: each theorem has an inductive invariant of its own, since   *)
(* what the others need of the state would only be in the way.  Then       *)
(* Telnet, for any contents, options, masks, requests and rooms: whatever  *)
(* is sent and however it is cut into frames and reads, the mudlib is told *)
(* what was sent.  Its invariant says that there is a run of an ideal      *)
(* parser, which sees all bytes that were sent one by one, such that the   *)
(* sender is where that run ends and the driver's parser is where it was   *)
(* after the bytes the transport has handed over.                          *)
(***************************************************************************)
EXTENDS Sockets, Telnet, SequenceTheorems, FiniteSetTheorems, TLAPS

-----------------------------------------------------------------------------
(* Close callbacks.  A socket whose end was reported is in neither the     *)
(* table nor the rest of the snapshot, and the poll is done with it.       *)
Reported ==
    /\ registry \subseteq Handles /\ todo \subseteq Handles
    /\ nextHandle \in Nat
    /\ closeTold \in [Handles -> Nat]
    /\ \A h \in registry \cup todo : h < nextHandle
    /\ \A h \in Handles : h >= nextHandle => closeTold[h] = 0
    /\ phase \in {"callback", "io"} => cur \in Handles \ todo /\ cur < nextHandle
    /\ \A h \in Handles : closeTold[h] # 0 =>
          /\ closeTold[h] = 1
          /\ h \notin registry \cup todo
          /\ cur = h => phase # "io" /\ (phase = "callback" => after = "next")

LEMMA EfunKeepsReported ==
    ASSUME Reported, Efun \/ ReleaseReturns
    PROVE  Reported'
<1> USE DEF Handles
<1>1. CASE \E o \in Objects, m \in Modes : Create(o, m)
  BY <1>1, SocketAssumption DEF Create, New, Reported, poll
<1>2. CASE \E o \in Objects, h \in Handles : Accept(o, h)
  <2>1. PICK o \in Objects, h \in Handles : Accept(o, h)
    BY <1>2
  <2>2. UNCHANGED <<poll, closeTold>>
    BY <2>1 DEF Accept
  <2>3. CASE New(nextHandle, o, mode[h], "data_xfer")
    BY <2>2, <2>3, SocketAssumption DEF New, Reported, poll
  <2>4. CASE UNCHANGED <<registry, nextHandle>>
    BY <2>2, <2>4 DEF Reported, poll
  <2> QED
    BY <2>1, <2>3, <2>4 DEF Accept
<1>3. CASE \E o \in Objects : Reload(o) \/ Destruct(o)
  BY <1>3 DEF Reload, Destruct, Reported, poll
<1>4. CASE \E o \in Objects, h \in Handles : WriteFails(o, h) \/ Close(o, h)
  BY <1>4 DEF WriteFails, Close, Reported, poll
<1>5. CASE UNCHANGED <<registry, nextHandle, poll, closeTold>>
  BY <1>5 DEF Reported, poll
<1>6. ASSUME NEW o \in Objects, NEW h \in Handles,
             \/ Bind(o, h) \/ Listen(o, h) \/ Connect(o, h) \/ Acquire(o, h)
             \/ \E n \in 1..MaxUnits : \E k \in 1..n : Write(o, h, n, k)
             \/ \E to \in Objects : Release(o, h, to)
      PROVE  UNCHANGED <<registry, nextHandle, poll, closeTold>>
  BY <1>6 DEF Bind, Listen, Connect, Acquire, Write, Release
<1>7. CASE ReleaseReturns
  BY <1>7, <1>5 DEF ReleaseReturns
<1>8. CASE \E o \in Objects : Free(o)
  BY <1>8, <1>5 DEF Free
<1> QED
  BY <1>1, <1>2, <1>3, <1>4, <1>5, <1>6, <1>7, <1>8 DEF Efun

(* The end of h is reported: it is neither in what is left of the snapshot *)
(* nor was it reported before.                                             *)
LEMMA TellingKeepsReported ==
    ASSUME Reported, NEW h \in Handles, h \notin todo', h < nextHandle, closeTold[h] = 0,
           CloseTells(h), cur' = h, todo' \subseteq todo, UNCHANGED nextHandle
    PROVE  Reported'
<1>1. registry' \subseteq Handles /\ todo' \subseteq Handles /\ closeTold' \in [Handles -> Nat]
  BY DEF Reported, CloseTells
<1>2. \A g \in Handles : closeTold'[g] = IF g = h THEN 1 ELSE closeTold[g]
  BY DEF Reported, CloseTells
<1>3. ASSUME NEW g \in Handles, closeTold'[g] # 0
      PROVE  /\ closeTold'[g] = 1
             /\ g \notin registry' \cup todo'
             /\ cur' = g => phase' # "io" /\ (phase' = "callback" => after' = "next")
  BY <1>2, <1>3 DEF Reported, CloseTells
<1>4. phase' = "callback"
  BY DEF CloseTells
<1>5. \A g \in Handles : g >= nextHandle' => closeTold'[g] = 0
  BY <1>2 DEF Reported, Handles
<1>6. \A g \in registry' \cup todo' : g < nextHandle'
  BY DEF Reported, CloseTells
<1> QED
  BY <1>1, <1>3, <1>4, <1>5, <1>6 DEF Reported

LEMMA PollKeepsReported ==
    ASSUME Reported, Poll
    PROVE  Reported'
<1> USE DEF Handles
<1>1. CASE PollBegins \/ PollEnds
  BY <1>1 DEF PollBegins, PollEnds, Reported
<1>2. CASE CallbackReturns
  <2>1. CASE CloseTells(cur) /\ after = "more" /\ UNCHANGED cur
    <3>1. cur \in Handles \ todo /\ cur < nextHandle /\ closeTold[cur] = 0
      BY <1>2, <2>1 DEF CallbackReturns, Reported
    <3> QED
      BY <1>2, <2>1, <3>1, TellingKeepsReported DEF CallbackReturns
  <2>2. CASE after \in {"next", "io"} /\ UNCHANGED <<registry, after, closeTold>>
    BY <1>2, <2>2 DEF CallbackReturns, NextSocket, Reported
  <2>3. CASE after = "more" /\ UNCHANGED <<registry, phase, closeTold, cur>>
    BY <1>2, <2>3 DEF CallbackReturns, Reported
  <2> QED
    BY <1>2, <2>1, <2>2, <2>3 DEF CallbackReturns
<1>3. CASE FlushFails
  <2>1. cur \in Handles \ todo /\ cur < nextHandle /\ closeTold[cur] = 0
    BY <1>3 DEF FlushFails, Reported
  <2> QED
    BY <1>3, <2>1, TellingKeepsReported DEF FlushFails
<1>4. CASE NoFlush
  BY <1>4 DEF NoFlush, NextSocket, Reported
<1>6. CASE \E k \in 0..MaxUnits : Flush(k)
  <2>1. phase = "io" /\ UNCHANGED <<registry, nextHandle, todo, closeTold>>
    BY <1>6 DEF Flush
  <2>2. \/ phase' = "callback" /\ after' = "next" /\ UNCHANGED cur
        \/ phase' = "poll" /\ cur' = 0 /\ UNCHANGED after
    BY <1>6 DEF Flush, NextSocket
  <2> QED
    BY <2>1, <2>2 DEF Reported
<1>5. ASSUME NEW h \in Handles, PollSocket(h)
      PROVE  Reported'
  <2>1. CASE PollEnd(h)
    BY <2>1 DEF PollEnd, Takes, CloseTells, Reported
  <2>2. CASE PollQuiet(h)
    BY <2>2 DEF PollQuiet, Reported
  <2>3. CASE PollDatagram(h) \/ PollListen(h) \/ PollWritable(h)
    BY <2>3 DEF PollDatagram, PollListen, PollWritable, Takes, Reported
  <2>4. CASE \E writable \in BOOLEAN : PollData(h, writable)
    BY <2>4 DEF PollData, Takes, Reported
  <2> QED
    BY <1>5, <2>1, <2>2, <2>3, <2>4 DEF PollSocket
<1> QED
  BY <1>1, <1>2, <1>3, <1>4, <1>5, <1>6 DEF Poll

(* The poll calls a socket's close callback at most once, whatever         *)
(* callbacks close, create or destruct while the snapshot is worked on.    *)
THEOREM ToldTheorem == Spec => []ToldOfCloseOnce
<1>1. Init => Reported
  BY SocketAssumption DEF Init, Reported, Handles
<1>2. Reported /\ [Next]_vars => Reported'
  BY EfunKeepsReported, PollKeepsReported DEF Next, vars, poll, Reported
<1>3. Reported => ToldOfCloseOnce
  BY DEF Reported, ToldOfCloseOnce
<1> QED
  BY <1>1, <1>2, <1>3, PTL DEF Spec

-----------------------------------------------------------------------------
(* Offers.  A handle that was never used is not on offer. *)
Offers ==
    /\ registry \subseteq Handles
    /\ nextHandle \in Nat
    /\ releasedTo \in [Handles -> Objects \cup {NoObject}]
    /\ releases \in Seq(Handles)
    /\ \A h \in registry : h < nextHandle
    /\ \A h \in Handles : h >= nextHandle => releasedTo[h] = NoObject
    /\ OffersEnd

LEMMA SameOffers ==
    ASSUME Offers, registry' \subseteq registry, UNCHANGED <<nextHandle, releasedTo, releases>>
    PROVE  Offers'
BY DEF Offers, OffersEnd

LEMMA ReleaseKeepsOffers ==
    ASSUME Offers, NEW o \in Objects, NEW h \in Handles, NEW to \in Objects, Release(o, h, to)
    PROVE  Offers'
<1>1. releases' \in Seq(Handles) /\ Len(releases') = Len(releases) + 1
  BY DEF Release, Offers
<1>2. releases'[Len(releases')] = h /\ \A i \in DOMAIN releases : releases'[i] = releases[i]
  BY DEF Release, Offers
<1>3. DOMAIN releases \subseteq DOMAIN releases' /\ Len(releases') \in DOMAIN releases'
  BY <1>1 DEF Offers
<1>4. h < nextHandle
  BY DEF Release, Owns, Offers
<1>5. OffersEnd'
  BY <1>1, <1>2, <1>3 DEF Release, Offers, OffersEnd
<1> QED
  BY <1>1, <1>4, <1>5 DEF Release, Offers, Handles

LEMMA ReturnKeepsOffers ==
    ASSUME Offers, ReleaseReturns
    PROVE  Offers'
<1> DEFINE last == releases[Len(releases)]
<1>1. Len(releases) \in Nat \ {0} /\ last \in Handles
  BY DEF Offers, ReleaseReturns
<1>2. /\ releases' \in Seq(Handles) /\ Len(releases') = Len(releases) - 1
      /\ \A i \in 1..(Len(releases) - 1) : releases'[i] = releases[i]
  <2> DEFINE n == Len(releases) - 1
  <2>1. releases \in Seq(Handles) /\ n \in 0..Len(releases) /\ 1 \in 1..(Len(releases) + 1)
    BY <1>1 DEF Offers
  <2>2. releases' = SubSeq(releases, 1, n)
    BY DEF ReleaseReturns
  <2> HIDE DEF n
  <2>3. /\ SubSeq(releases, 1, n) \in Seq(Handles) /\ Len(SubSeq(releases, 1, n)) = n
        /\ \A i \in 1..n : SubSeq(releases, 1, n)[i] = releases[i]
    BY <2>1
  <2> QED
    BY <2>2, <2>3 DEF n
<1>4. releasedTo' \in [Handles -> Objects \cup {NoObject}]
  BY DEF Offers, ReleaseReturns
<1>5. ASSUME NEW h \in registry, releasedTo'[h] # NoObject
      PROVE  \E i \in DOMAIN releases' : releases'[i] = h
  <2>1. h # last /\ releasedTo[h] # NoObject
    BY <1>1, <1>5 DEF Offers, ReleaseReturns
  <2>2. PICK i \in DOMAIN releases : releases[i] = h
    BY <2>1 DEF Offers, OffersEnd
  <2>3. i \in 1..(Len(releases) - 1)
    BY <1>1, <2>1, <2>2 DEF Offers
  <2> QED
    BY <1>2, <2>2, <2>3
<1>6. \A h \in Handles : h >= nextHandle => releasedTo'[h] = NoObject
  BY <1>1 DEF Offers, ReleaseReturns
<1> QED
  BY <1>2, <1>4, <1>5, <1>6 DEF Offers, OffersEnd, ReleaseReturns

LEMMA StepKeepsOffers ==
    ASSUME Offers, [Next]_vars
    PROVE  Offers'
<1>1. CASE \E o \in Objects, m \in Modes : Create(o, m)
  BY <1>1, SocketAssumption DEF Create, New, Offers, OffersEnd, Handles
<1>2. CASE \E o \in Objects, h \in Handles : Accept(o, h)
  <2>1. PICK o \in Objects, h \in Handles : Accept(o, h)
    BY <1>2
  <2>2. CASE New(nextHandle, o, mode[h], "data_xfer")
    BY <2>1, <2>2, SocketAssumption DEF Accept, New, Offers, OffersEnd, Handles
  <2>3. CASE UNCHANGED <<registry, nextHandle>>
    BY <2>1, <2>3, SameOffers DEF Accept
  <2> QED
    BY <2>1, <2>2, <2>3 DEF Accept
<1>3. CASE \E o \in Objects, h \in Handles : Acquire(o, h)
  BY <1>3 DEF Acquire, Offers, OffersEnd
<1>4. CASE \E o \in Objects, h \in Handles, to \in Objects : Release(o, h, to)
  BY <1>4, ReleaseKeepsOffers
<1>5. CASE ReleaseReturns
  BY <1>5, ReturnKeepsOffers
<1>6. CASE \E o \in Objects : Reload(o) \/ Destruct(o) \/ Free(o)
  BY <1>6, SameOffers DEF Reload, Destruct, Free, sockets
<1>7. ASSUME NEW o \in Objects, NEW h \in Handles,
             \/ Bind(o, h) \/ Listen(o, h) \/ Connect(o, h) \/ WriteFails(o, h) \/ Close(o, h)
             \/ \E n \in 1..MaxUnits : \E k \in 1..n : Write(o, h, n, k)
      PROVE  Offers'
  BY <1>7, SameOffers DEF Bind, Listen, Connect, WriteFails, Close, Write, sockets
<1>8. CASE PollBegins \/ PollEnds \/ CallbackReturns \/ FlushFails \/ NoFlush
  BY <1>8, SameOffers DEF PollBegins, PollEnds, CallbackReturns, FlushFails, NoFlush, CloseTells, sockets
<1>9. CASE \E k \in 0..MaxUnits : Flush(k)
  BY <1>9, SameOffers DEF Flush
<1>10. CASE \E h \in Handles : PollSocket(h)
  BY <1>10, SameOffers DEF PollSocket, PollQuiet, PollDatagram, PollListen, PollWritable, PollEnd,
                           PollData, CloseTells, sockets
<1>11. CASE UNCHANGED vars
  BY <1>11, SameOffers DEF vars, sockets
<1> QED
  BY <1>1, <1>2, <1>3, <1>4, <1>5, <1>6, <1>7, <1>8, <1>9, <1>10, <1>11 DEF Next, Efun, Poll

(* socket_release() leaves no offer behind, however releases nest and      *)
(* whatever their callbacks acquire, close or destruct.                    *)
THEOREM OffersTheorem == Spec => []OffersEnd
<1>1. Init => Offers
  BY SocketAssumption DEF Init, Offers, OffersEnd, Handles
<1>2. Offers => OffersEnd
  BY DEF Offers
<1> QED
  BY <1>1, <1>2, StepKeepsOffers, PTL DEF Spec

-----------------------------------------------------------------------------
(* Owners. *)
Owners ==
    /\ registry \subseteq Handles
    /\ owner \in [Handles -> Objects \cup {NoObject}]

(* The steps after which a socket may have another owner. *)
Takeover ==
    \/ \E o \in Objects, m \in Modes : Create(o, m)
    \/ \E o \in Objects, h \in Handles : Accept(o, h)
    \/ \E o \in Objects, h \in Handles : Acquire(o, h)

LEMMA OtherSteps ==
    ASSUME [Next]_vars, ~Takeover
    PROVE  /\ owner' = owner /\ late' = late
           /\ registry' \subseteq registry
           /\ \/ destructed' = destructed
              \/ \E o \in Objects : Destruct(o)
<1>1. ASSUME NEW o \in Objects, Reload(o) \/ Destruct(o) \/ Free(o)
      PROVE  owner' = owner /\ late' = late /\ registry' \subseteq registry /\ (destructed' = destructed \/ Destruct(o))
  BY <1>1 DEF Reload, Destruct, Free, sockets, lives
<1>2. ASSUME NEW o \in Objects, NEW h \in Handles,
             \/ Bind(o, h) \/ Listen(o, h) \/ Connect(o, h) \/ WriteFails(o, h) \/ Close(o, h)
             \/ \E n \in 1..MaxUnits : \E k \in 1..n : Write(o, h, n, k)
             \/ \E to \in Objects : Release(o, h, to)
      PROVE  owner' = owner /\ late' = late /\ registry' \subseteq registry /\ destructed' = destructed
  BY <1>2 DEF Bind, Listen, Connect, WriteFails, Close, Write, Release, sockets, lives
<1>3. ASSUME ReleaseReturns \/ UNCHANGED vars
      PROVE  owner' = owner /\ late' = late /\ registry' \subseteq registry /\ destructed' = destructed
  BY <1>3 DEF ReleaseReturns, vars, sockets, lives
<1>4. ASSUME PollBegins \/ PollEnds \/ CallbackReturns \/ FlushFails \/ NoFlush \/ \E k \in 0..MaxUnits : Flush(k)
      PROVE  owner' = owner /\ late' = late /\ registry' \subseteq registry /\ destructed' = destructed
  BY <1>4 DEF PollBegins, PollEnds, CallbackReturns, FlushFails, NoFlush, Flush, CloseTells, sockets, lives
<1>5. ASSUME NEW h \in Handles, PollSocket(h)
      PROVE  owner' = owner /\ late' = late /\ registry' \subseteq registry /\ destructed' = destructed
  BY <1>5 DEF PollSocket, PollQuiet, PollDatagram, PollListen, PollWritable, PollEnd, PollData,
              CloseTells, sockets, lives
<1> QED
  BY <1>1, <1>2, <1>3, <1>4, <1>5 DEF Next, Efun, Poll, Takeover

LEMMA StepKeepsOwners ==
    ASSUME Owners, [Next]_vars
    PROVE  Owners'
<1>1. CASE ~Takeover
  BY <1>1, OtherSteps DEF Owners
<1>2. CASE Takeover
  BY <1>2 DEF Takeover, Create, Accept, Acquire, New, Gets, Owners
<1> QED
  BY <1>1, <1>2

(* A socket in the table changes hands only through an offer to the new    *)
(* owner whose release is under way.                                       *)
THEOREM HandedOverTheorem == Spec => HandedOver
<1>1. Init => Owners /\ Offers
  BY SocketAssumption DEF Init, Owners, Offers, OffersEnd, Handles
<1>2. Owners /\ Offers /\ [Next]_vars => [\A h \in Handles : HandOver(h)]_vars
  <2> SUFFICES ASSUME Owners, Offers, [Next]_vars, NEW h \in Handles, owner'[h] # owner[h]
               PROVE  h \notin registry \/ (releasedTo[h] = owner'[h] /\ \E i \in DOMAIN releases : releases[i] = h)
    BY DEF HandOver
  <2>1. CASE ~Takeover
    BY <2>1, OtherSteps
  <2>2. CASE \E o \in Objects, m \in Modes : Create(o, m)
    BY <2>2 DEF Create, New, Gets, Owners, Offers
  <2>3. CASE \E o \in Objects, g \in Handles : Accept(o, g)
    BY <2>3 DEF Accept, New, Gets, Owners, Offers
  <2>4. CASE \E o \in Objects, g \in Handles : Acquire(o, g)
    BY <2>4, SocketAssumption DEF Acquire, Gets, Owners, Offers, OffersEnd
  <2> QED
    BY <2>1, <2>2, <2>3, <2>4 DEF Takeover
<1> QED
  BY <1>1, <1>2, StepKeepsOffers, StepKeepsOwners, PTL DEF Spec, HandedOver

(* After an object has become the owner of g: dead only if it was then.    *)
LEMMA GetsKeepsNoOrphans ==
    ASSUME Owners, NoOrphans, NEW o \in Objects, NEW g \in Handles, Gets(o, g),
           registry' \subseteq registry \cup {g}
    PROVE  NoOrphans'
<1> SUFFICES ASSUME NEW h \in registry', owner'[h] \in destructed'
             PROVE  h \in late'
  BY DEF NoOrphans
<1>1. CASE h = g
  BY <1>1 DEF Gets, Owners
<1>2. CASE h # g
  BY <1>2 DEF Gets, Owners, NoOrphans
<1> QED
  BY <1>1, <1>2

(* destruct() closes what the object owns at that moment, and nothing      *)
(* makes it the owner of a socket again but its own code, if that goes on: *)
(* a socket whose owner is destructed was got by a destructed object,      *)
(* whatever was accepted, offered, handed over, withdrawn or freed.        *)
THEOREM NoOrphansTheorem == Spec => []NoOrphans
<1>1. Init => Owners /\ NoOrphans
  BY DEF Init, Owners, NoOrphans
<1>2. Owners /\ NoOrphans /\ [Next]_vars => NoOrphans'
  <2> SUFFICES ASSUME Owners, NoOrphans, [Next]_vars PROVE NoOrphans'
    OBVIOUS
  <2>1. CASE \E o \in Objects, m \in Modes : Create(o, m)
    BY <2>1, GetsKeepsNoOrphans DEF Create, New
  <2>2. CASE \E o \in Objects, h \in Handles : Accept(o, h)
    <3>1. PICK o \in Objects, h \in Handles : Accept(o, h)
      BY <2>2
    <3>2. CASE New(nextHandle, o, mode[h], "data_xfer")
      BY <3>2, GetsKeepsNoOrphans DEF New
    <3>3. CASE UNCHANGED <<registry, nextHandle, mode, state, owner, lives>>
      BY <3>3 DEF lives, NoOrphans
    <3> QED
      BY <3>1, <3>2, <3>3 DEF Accept
  <2>3. CASE \E o \in Objects, h \in Handles : Acquire(o, h)
    BY <2>3, GetsKeepsNoOrphans DEF Acquire
  <2>4. CASE ~Takeover /\ \E o \in Objects : Destruct(o)
    BY <2>4, OtherSteps DEF Destruct, ClosedFor, sockets, NoOrphans
  <2>5. CASE ~Takeover /\ destructed' = destructed
    BY <2>5, OtherSteps DEF NoOrphans
  <2> QED
    BY <2>1, <2>2, <2>3, <2>4, <2>5, OtherSteps DEF Takeover
<1> QED
  BY <1>1, <1>2, StepKeepsOwners, PTL DEF Spec

-----------------------------------------------------------------------------
(* Streams.  What was written are the first units, what is left are the    *)
(* next ones; a handle that was never used has nothing left.               *)
InOrder(w, p, n) ==
    /\ w \in Seq(Nat) /\ p \in Seq(Nat) /\ n \in Nat
    /\ Len(w) + Len(p) = n
    /\ \A i \in 1..Len(w) : w[i] = i
    /\ \A i \in 1..Len(p) : p[i] = Len(w) + i

Streams ==
    /\ registry \subseteq Handles
    /\ nextHandle \in Nat
    /\ blocked \subseteq Handles
    /\ state \in [Handles -> States]
    /\ pendingWrite \in [Handles -> Seq(Nat)]
    /\ wire \in [Handles -> Seq(Nat)]
    /\ accepted \in [Handles -> Nat]
    /\ \A h \in registry \cup blocked : h < nextHandle
    /\ RestIsWatched
    /\ \A h \in Handles : InOrder(wire[h], pendingWrite[h], accepted[h])

LEMMA InOrderIsIdentity ==
    ASSUME NEW w, NEW p, NEW n, InOrder(w, p, n)
    PROVE  w \o p = [i \in 1..n |-> i]
<1>1. w \o p \in Seq(Nat) /\ Len(w \o p) = n
  BY ConcatProperties DEF InOrder
<1>2. \A i \in 1..n : (w \o p)[i] = i
  BY ConcatProperties DEF InOrder
<1>3. n \in Nat
  BY DEF InOrder
<1> DEFINE t == [i \in 1..n |-> i]
<1>4. t \in Seq(Nat) /\ Len(t) = n /\ \A i \in 1..n : t[i] = i
  BY <1>3
<1> DEFINE s == w \o p
<1>5. s \in Seq(Nat) /\ Len(s) = n /\ \A i \in 1..n : s[i] = i
  BY <1>1, <1>2
<1> HIDE DEF s, t
<1>6. s = t
  BY <1>4, <1>5, SeqEqual
<1> QED
  BY <1>6 DEF s, t

(* Part of what is left goes out. *)
LEMMA FlushInOrder ==
    ASSUME NEW w, NEW p, NEW n, InOrder(w, p, n), NEW k \in 0..Len(p)
    PROVE  /\ InOrder(w \o SubSeq(p, 1, k), SubSeq(p, k + 1, Len(p)), n)
           /\ k = Len(p) => SubSeq(p, k + 1, Len(p)) = <<>>
<1> DEFINE q == SubSeq(p, 1, k)
<1> DEFINE r == SubSeq(p, k + 1, Len(p))
<1>0. p \in Seq(Nat) /\ w \in Seq(Nat) /\ k \in Nat /\ k <= Len(p) /\ Len(p) \in Nat /\ Len(w) \in Nat /\ n \in Nat
  BY DEF InOrder
<1>1. q \in Seq(Nat) /\ Len(q) = k /\ \A i \in 1..k : q[i] = p[i]
  BY <1>0
<1>2. r \in Seq(Nat) /\ Len(r) = Len(p) - k /\ \A i \in 1..(Len(p) - k) : r[i] = p[k + i]
  BY <1>0
<1> HIDE DEF q, r
<1> DEFINE v == w \o q
<1>3. /\ v \in Seq(Nat) /\ Len(v) = Len(w) + k
      /\ \A i \in 1..(Len(w) + k) : v[i] = IF i <= Len(w) THEN w[i] ELSE q[i - Len(w)]
  BY <1>0, <1>1, ConcatProperties
<1> HIDE DEF v
<1>4. \A i \in 1..Len(v) : v[i] = i
  <2> TAKE i \in 1..Len(v)
  <2>1. CASE i <= Len(w)
    <3>1. i \in 1..Len(w)
      BY <1>0, <1>3, <2>1
    <3> QED
      BY <1>0, <1>3, <2>1, <3>1 DEF InOrder
  <2>2. CASE ~(i <= Len(w))
    <3>1. i - Len(w) \in 1..k /\ i - Len(w) \in 1..Len(p)
      BY <1>0, <1>3, <2>2
    <3>2. v[i] = p[i - Len(w)]
      BY <1>0, <1>1, <1>3, <2>2, <3>1
    <3> QED
      BY <1>0, <3>1, <3>2 DEF InOrder
  <2> QED
    BY <2>1, <2>2
<1>5. \A i \in 1..Len(r) : r[i] = Len(v) + i
  BY <1>0, <1>2, <1>3 DEF InOrder
<1>6. Len(v) + Len(r) = n
  <2>1. Len(w) + Len(p) = n
    BY DEF InOrder
  <2> DEFINE a == Len(w)
  <2> DEFINE b == Len(p)
  <2> DEFINE c == Len(v)
  <2> DEFINE d == Len(r)
  <2>2. /\ a \in Nat /\ b \in Nat /\ k \in Nat /\ n \in Nat
        /\ a + b = n /\ c = a + k /\ d = b - k
    BY <1>0, <1>2, <1>3, <2>1
  <2> HIDE DEF a, b, c, d
  <2>3. c + d = n
    BY <2>2
  <2> QED
    BY <2>3 DEF c, d
<1>7. InOrder(v, r, n)
  BY <1>0, <1>2, <1>3, <1>4, <1>5, <1>6 DEF InOrder
<1>8. k = Len(p) => r = <<>>
  BY <1>2, <1>0
<1> QED
  BY <1>7, <1>8 DEF q, r, v

(* A message is accepted when nothing is left. *)
LEMMA WriteInOrder ==
    ASSUME NEW w, NEW a, InOrder(w, <<>>, a), NEW n \in Nat
    PROVE  InOrder(w, [i \in 1..n |-> a + i], a + n)
BY DEF InOrder

LEMMA SameStreams ==
    ASSUME Streams, registry' \subseteq registry,
           UNCHANGED <<nextHandle, state, blocked, pendingWrite, wire, accepted>>
    PROVE  Streams'
BY DEF Streams, RestIsWatched

LEMMA WriteKeepsStreams ==
    ASSUME Streams, NEW o \in Objects, NEW h \in Handles, NEW n \in 1..MaxUnits, NEW k \in 1..n,
           Write(o, h, n, k)
    PROVE  Streams'
<1> DEFINE u == Units(h, n)
<1>0. h < nextHandle /\ pendingWrite[h] = <<>> /\ InOrder(wire[h], <<>>, accepted[h])
  BY DEF Write, Owns, Streams, RestIsWatched
<1>1. InOrder(wire[h], u, accepted[h] + n) /\ Len(u) = n
  <2>1. n \in Nat /\ u = [i \in 1..n |-> accepted[h] + i]
    BY SocketAssumption DEF Units
  <2> HIDE DEF u
  <2>2. InOrder(wire[h], u, accepted[h] + n)
    BY <1>0, <2>1, WriteInOrder
  <2>3. Len(u) = n
    BY <2>1, <2>2 DEF InOrder
  <2> QED
    BY <2>2, <2>3
<1> HIDE DEF u
<1>2. /\ InOrder(wire[h] \o SubSeq(u, 1, k), SubSeq(u, k + 1, n), accepted[h] + n)
      /\ k = n => SubSeq(u, k + 1, n) = <<>>
  BY <1>1, FlushInOrder
<1>3. /\ wire' = [wire EXCEPT ![h] = wire[h] \o SubSeq(u, 1, k)]
      /\ accepted' = [accepted EXCEPT ![h] = accepted[h] + n]
      /\ pendingWrite' = IF k < n THEN [pendingWrite EXCEPT ![h] = SubSeq(u, k + 1, n)] ELSE pendingWrite
      /\ blocked' = IF k < n THEN blocked \cup {h} ELSE blocked
      /\ state[h] = "data_xfer" /\ UNCHANGED <<registry, nextHandle, state>>
  BY DEF Write, Streams, u
<1>4. pendingWrite'[h] = SubSeq(u, k + 1, n) /\ wire'[h] = wire[h] \o SubSeq(u, 1, k) /\ accepted'[h] = accepted[h] + n
  <2>1. wire'[h] = wire[h] \o SubSeq(u, 1, k) /\ accepted'[h] = accepted[h] + n
    BY <1>3 DEF Streams
  <2>2. CASE k < n
    BY <1>3, <2>2, <2>1 DEF Streams
  <2>3. CASE ~(k < n)
    <3>1. k = n
      BY <2>3
    <3>2. SubSeq(u, k + 1, n) = <<>>
      BY <3>1, <1>2
    <3>3. pendingWrite' = pendingWrite
      BY <1>3, <2>3
    <3> QED
      BY <1>0, <2>1, <3>2, <3>3
  <2> QED
    BY <2>2, <2>3
<1>5. /\ wire' \in [Handles -> Seq(Nat)] /\ pendingWrite' \in [Handles -> Seq(Nat)]
      /\ accepted' \in [Handles -> Nat] /\ blocked' \subseteq Handles
  BY <1>2, <1>3 DEF Streams, InOrder
<1>6. \A g \in Handles : InOrder(wire'[g], pendingWrite'[g], accepted'[g])
  <2> TAKE g \in Handles
  <2>1. CASE g = h
    BY <2>1, <1>2, <1>4
  <2>2. CASE g # h
    BY <2>2, <1>3 DEF Streams
  <2> QED
    BY <2>1, <2>2
<1>7. RestIsWatched'
  BY <1>0, <1>3 DEF Streams, RestIsWatched
<1> QED
  BY <1>0, <1>3, <1>5, <1>6, <1>7 DEF Streams

LEMMA FlushKeepsStreams ==
    ASSUME Streams, NEW k \in 0..MaxUnits, Flush(k)
    PROVE  Streams'
<1> DEFINE p == pendingWrite[cur]
<1>0. cur \in Handles /\ cur < nextHandle /\ k \in 0..Len(p) /\ InOrder(wire[cur], p, accepted[cur])
  BY DEF Flush, Streams
<1>1. /\ InOrder(wire[cur] \o SubSeq(p, 1, k), SubSeq(p, k + 1, Len(p)), accepted[cur])
      /\ k = Len(p) => SubSeq(p, k + 1, Len(p)) = <<>>
  BY <1>0, FlushInOrder
<1>2. /\ wire' = [wire EXCEPT ![cur] = wire[cur] \o SubSeq(p, 1, k)]
      /\ pendingWrite' = [pendingWrite EXCEPT ![cur] = SubSeq(p, k + 1, Len(p))]
      /\ blocked' = IF k = Len(p) THEN blocked \ {cur} ELSE blocked
      /\ cur \in blocked /\ UNCHANGED <<registry, nextHandle, state, accepted>>
  BY <1>0 DEF Flush, Streams
<1> HIDE DEF p
<1>3. pendingWrite'[cur] = SubSeq(p, k + 1, Len(p)) /\ wire'[cur] = wire[cur] \o SubSeq(p, 1, k)
  BY <1>0, <1>2 DEF Streams
<1>4. /\ wire' \in [Handles -> Seq(Nat)] /\ pendingWrite' \in [Handles -> Seq(Nat)]
      /\ blocked' \subseteq Handles
  BY <1>1, <1>2 DEF Streams, InOrder
<1>5. \A g \in Handles : InOrder(wire'[g], pendingWrite'[g], accepted'[g])
  <2> TAKE g \in Handles
  <2>1. CASE g = cur
    BY <2>1, <1>1, <1>2, <1>3
  <2>2. CASE g # cur
    BY <2>2, <1>2 DEF Streams
  <2> QED
    BY <2>1, <2>2
<1>6. ASSUME NEW g \in Handles, pendingWrite'[g] # <<>>
      PROVE  g \in blocked' /\ state'[g] = "data_xfer"
  <2>1. CASE g = cur
    <3>1. k # Len(p) /\ p # <<>>
      BY <1>0, <1>1, <1>3, <1>6, <2>1 DEF InOrder
    <3> QED
      BY <1>2, <2>1, <3>1 DEF Streams, RestIsWatched, p
  <2>2. CASE g # cur
    BY <1>2, <1>6, <2>2 DEF Streams, RestIsWatched
  <2> QED
    BY <2>1, <2>2
<1> QED
  BY <1>0, <1>2, <1>4, <1>5, <1>6 DEF Streams, RestIsWatched

(* A new handle, or a change of state of one that has nothing left. *)
LEMMA StateKeepsStreams ==
    ASSUME Streams, NEW h \in Handles, NEW s \in States,
           state' = [state EXCEPT ![h] = s], s = "data_xfer" \/ pendingWrite[h] = <<>>,
           blocked' \in {blocked, blocked \cup {h}}, h < nextHandle',
           registry' \subseteq registry \cup {h}, nextHandle' \in Nat, nextHandle <= nextHandle',
           UNCHANGED <<pendingWrite, wire, accepted>>
    PROVE  Streams'
<1>1. state' \in [Handles -> States] /\ RestIsWatched'
  BY DEF Streams, RestIsWatched
<1>2. \A g \in registry' \cup blocked' : g < nextHandle'
  BY DEF Streams, Handles
<1> QED
  BY <1>1, <1>2 DEF Streams

LEMMA StepKeepsStreams ==
    ASSUME Streams, [Next]_vars
    PROVE  Streams'
<1>1. ASSUME NEW h \in Handles, NEW o \in Objects, NEW m, NEW s \in States, New(h, o, m, s),
             UNCHANGED <<blocked, pendingWrite, wire, accepted>>
      PROVE  Streams'
  <2>1. pendingWrite[h] = <<>>
    BY <1>1 DEF New, Streams, RestIsWatched
  <2>2. nextHandle' \in Nat /\ nextHandle <= nextHandle' /\ h < nextHandle'
    BY <1>1 DEF New, Streams
  <2> QED
    BY <1>1, <2>1, <2>2, StateKeepsStreams DEF New
<1>2. CASE \E o \in Objects, m \in Modes : Create(o, m)
  BY <1>1, <1>2 DEF Create, New, States
<1>3. CASE \E o \in Objects, h \in Handles : Accept(o, h)
  <2>1. PICK o \in Objects, h \in Handles : Accept(o, h)
    BY <1>3
  <2>2. CASE New(nextHandle, o, mode[h], "data_xfer")
    BY <1>1, <2>1, <2>2 DEF Accept, New, States
  <2>3. CASE UNCHANGED <<registry, nextHandle, mode, state, owner>>
    BY <2>1, <2>3, SameStreams DEF Accept
  <2> QED
    BY <2>1, <2>2, <2>3 DEF Accept
<1>4. CASE \E o \in Objects, h \in Handles : Bind(o, h) \/ Listen(o, h) \/ Connect(o, h)
  <2>1. PICK o \in Objects, h \in Handles : Bind(o, h) \/ Listen(o, h) \/ Connect(o, h)
    BY <1>4
  <2>2. state[h] # "data_xfer" /\ h < nextHandle /\ UNCHANGED <<registry, nextHandle, pendingWrite, wire, accepted>>
    BY <2>1 DEF Bind, Listen, Connect, Owns, Streams
  <2>3. pendingWrite[h] = <<>>
    BY <2>2 DEF Streams, RestIsWatched
  <2>4. \E s \in States : state' = [state EXCEPT ![h] = s]
    BY <2>1 DEF Bind, Listen, Connect, States
  <2>5. blocked' \in {blocked, blocked \cup {h}}
    BY <2>1 DEF Bind, Listen, Connect
  <2>6. nextHandle' \in Nat /\ nextHandle <= nextHandle' /\ h < nextHandle'
    BY <2>2 DEF Streams
  <2> QED
    BY <2>2, <2>3, <2>4, <2>5, <2>6, StateKeepsStreams
<1>5. CASE \E o \in Objects, h \in Handles : \E n \in 1..MaxUnits : \E k \in 1..n : Write(o, h, n, k)
  BY <1>5, WriteKeepsStreams
<1>6. CASE \E k \in 0..MaxUnits : Flush(k)
  BY <1>6, FlushKeepsStreams
<1>7. CASE \E o \in Objects : Reload(o) \/ Destruct(o) \/ Free(o)
  BY <1>7, SameStreams DEF Reload, Destruct, Free, sockets
<1>8. CASE \E o \in Objects, h \in Handles : WriteFails(o, h) \/ Close(o, h) \/ Acquire(o, h)
  BY <1>8, SameStreams DEF WriteFails, Close, Acquire, sockets
<1>9. CASE \E o \in Objects, h \in Handles, to \in Objects : Release(o, h, to)
  BY <1>9, SameStreams DEF Release
<1>10. CASE ReleaseReturns \/ UNCHANGED vars
  BY <1>10, SameStreams DEF ReleaseReturns, vars, sockets
<1>11. CASE PollBegins \/ PollEnds \/ CallbackReturns \/ FlushFails \/ NoFlush
  BY <1>11, SameStreams DEF PollBegins, PollEnds, CallbackReturns, FlushFails, NoFlush, CloseTells, sockets
<1>12. CASE \E h \in Handles : PollSocket(h)
  BY <1>12, SameStreams DEF PollSocket, PollQuiet, PollDatagram, PollListen, PollWritable, PollEnd,
                            PollData, CloseTells, sockets
<1> QED
  BY <1>2, <1>3, <1>4, <1>5, <1>6, <1>7, <1>8, <1>9, <1>10, <1>11, <1>12 DEF Next, Efun, Poll

LEMMA StreamsHold == Spec => []Streams
<1>1. Init => Streams
  <2> SUFFICES ASSUME Init PROVE Streams
    OBVIOUS
  <2>1. \A h \in Handles : InOrder(wire[h], pendingWrite[h], accepted[h])
    BY DEF Init, InOrder
  <2> QED
    BY <2>1, SocketAssumption DEF Init, Streams, RestIsWatched, States
<1> QED
  BY <1>1, StepKeepsStreams, PTL DEF Spec

(* What socket_write() accepted reaches the peer in order, without gaps or *)
(* repetitions, across partial writes and flushes.                         *)
THEOREM StreamTheorem == Spec => []StreamInOrder
<1>1. Streams => StreamInOrder
  BY InOrderIsIdentity DEF Streams, StreamInOrder
<1> QED
  BY <1>1, StreamsHold, PTL

(* A rest is never forgotten: its socket is marked so that the poll        *)
(* watches for it.                                                         *)
THEOREM WatchedTheorem == Spec => []RestIsWatched
<1>1. Streams => RestIsWatched
  BY DEF Streams
<1> QED
  BY <1>1, StreamsHold, PTL

-----------------------------------------------------------------------------
(* Sequences that are cut, joined and go on.                               *)

(* What SubSeq() cuts out of a sequence. *)
LEMMA Cut ==
    ASSUME NEW S, NEW s \in Seq(S), NEW m \in Nat, m >= 1, NEW n \in Int, n <= Len(s)
    PROVE  /\ SubSeq(s, m, n) \in Seq(S)
           /\ Len(SubSeq(s, m, n)) = IF m <= n THEN n - m + 1 ELSE 0
           /\ \A i \in 1..(n - m + 1) : SubSeq(s, m, n)[i] = s[m + i - 1]
<1>1. \A i \in m..n : s[i] \in S
  BY LenProperties
<1>2. SubSeq(s, m, n) \in Seq(S) /\ Len(SubSeq(s, m, n)) = IF m <= n THEN n - m + 1 ELSE 0
  BY <1>1, SubSeqProperties
<1>3. ASSUME NEW i \in 1..(n - m + 1)
      PROVE  SubSeq(s, m, n)[i] = s[m + i - 1]
  BY <1>3
<1> QED
  BY <1>2, <1>3

LEMMA CutPrefix ==
    ASSUME NEW S, NEW s \in Seq(S), NEW t \in Seq(S), NEW m \in Nat, m >= 1, NEW n \in Int, n <= Len(s)
    PROVE  SubSeq(s \o t, m, n) = SubSeq(s, m, n)
<1>1. /\ s \o t \in Seq(S) /\ Len(s \o t) = Len(s) + Len(t) /\ Len(s) \in Nat /\ Len(t) \in Nat
      /\ \A i \in 1..Len(s) : (s \o t)[i] = s[i]
  BY ConcatProperties, LenProperties
<1> DEFINE a == SubSeq(s \o t, m, n)
           b == SubSeq(s, m, n)
<1>2. /\ a \in Seq(S) /\ Len(a) = IF m <= n THEN n - m + 1 ELSE 0
      /\ \A i \in 1..(n - m + 1) : a[i] = (s \o t)[m + i - 1]
  BY <1>1, Cut
<1>3. /\ b \in Seq(S) /\ Len(b) = IF m <= n THEN n - m + 1 ELSE 0
      /\ \A i \in 1..(n - m + 1) : b[i] = s[m + i - 1]
  BY <1>1, Cut
<1>4. \A i \in 1..Len(a) : a[i] = b[i]
  BY <1>1, <1>2, <1>3
<1> HIDE DEF a, b
<1> QED
  <2>1. Len(a) = Len(b)
    BY <1>2, <1>3
  <2>2. a = b
    BY <1>2, <1>3, <1>4, <2>1, SeqEqual
  <2> QED
    BY <2>2 DEF a, b

(* Sequences that are cut at the same place go on. *)
LEMMA CutGrows ==
    ASSUME NEW S, NEW s \in Seq(S), NEW m \in Nat, m >= 1, NEW n \in Nat, n < Len(s), m <= n + 1
    PROVE  Append(SubSeq(s, m, n), s[n + 1]) = SubSeq(s, m, n + 1)
<1>1. s[n + 1] \in S /\ Len(s) \in Nat
  BY LenProperties
<1> DEFINE a == SubSeq(s, m, n)
           b == SubSeq(s, m, n + 1)
<1>2. a \in Seq(S) /\ Len(a) = n - m + 1 /\ \A i \in 1..(n - m + 1) : a[i] = s[m + i - 1]
  BY <1>1, Cut
<1>3. b \in Seq(S) /\ Len(b) = n - m + 2 /\ \A i \in 1..(n - m + 2) : b[i] = s[m + i - 1]
  BY <1>1, Cut
<1> HIDE DEF a, b
<1> DEFINE c == Append(a, s[n + 1])
<1>4. /\ c \in Seq(S) /\ Len(c) = n - m + 2
      /\ \A i \in 1..(n - m + 1) : c[i] = a[i]
      /\ c[n - m + 2] = s[n + 1]
  BY <1>1, <1>2, AppendProperties
<1>5. \A i \in 1..Len(c) : c[i] = b[i]
  BY <1>2, <1>3, <1>4
<1> HIDE DEF c
<1>6. c = b
  BY <1>3, <1>4, <1>5, SeqEqual
<1> QED
  BY <1>6 DEF a, b, c

LEMMA CutTail ==
    ASSUME NEW S, NEW s \in Seq(S), NEW m \in Nat, m >= 1, NEW n \in Nat, n <= Len(s), m <= n
    PROVE  /\ SubSeq(s, m, n) # <<>> /\ Head(SubSeq(s, m, n)) = s[m]
           /\ Tail(SubSeq(s, m, n)) = SubSeq(s, m + 1, n)
<1>1. m \in 1..Len(s) /\ n \in m..Len(s)
  BY LenProperties
<1>2. SubSeq(s, m, n) \in Seq(S) /\ Len(SubSeq(s, m, n)) > 0
  BY Cut
<1> QED
  BY <1>1, <1>2, HeadTailOfSubSeq, EmptySeq

LEMMA CutJoins ==
    ASSUME NEW S, NEW s \in Seq(S), NEW m \in Nat, m >= 1, NEW k \in Nat, NEW n \in Nat,
           m <= k + 1, k <= n, n <= Len(s)
    PROVE  SubSeq(s, m, k) \o SubSeq(s, k + 1, n) = SubSeq(s, m, n)
<1>1. m \in 1..(Len(s) + 1) /\ k \in (m - 1)..Len(s) /\ n \in k..Len(s)
  BY LenProperties
<1> QED
  BY <1>1, ConcatAdjacentSubSeq

LEMMA CutTwice ==
    ASSUME NEW S, NEW s \in Seq(S), NEW a \in Nat, a >= 1, NEW b \in Nat, b <= Len(s), a <= b + 1,
           NEW c \in Nat, c >= 1, NEW d \in Int, d <= b - a + 1
    PROVE  SubSeq(SubSeq(s, a, b), c, d) = SubSeq(s, a + c - 1, a + d - 1)
<1> DEFINE t == SubSeq(s, a, b)
<1>1. t \in Seq(S) /\ Len(t) = b - a + 1 /\ \A i \in 1..(b - a + 1) : t[i] = s[a + i - 1]
  BY Cut
<1> HIDE DEF t
<1> DEFINE u == SubSeq(t, c, d)
           v == SubSeq(s, a + c - 1, a + d - 1)
<1>2. /\ u \in Seq(S) /\ Len(u) = IF c <= d THEN d - c + 1 ELSE 0
      /\ \A i \in 1..(d - c + 1) : u[i] = t[c + i - 1]
  BY <1>1, Cut
<1>3. /\ v \in Seq(S) /\ Len(v) = IF c <= d THEN d - c + 1 ELSE 0
      /\ \A i \in 1..(d - c + 1) : v[i] = s[a + c - 1 + i - 1]
  <2>1. a + c - 1 \in Nat /\ a + c - 1 >= 1 /\ a + d - 1 \in Int /\ a + d - 1 <= Len(s)
    BY LenProperties
  <2> PICK first \in Nat : first = a + c - 1
    BY <2>1
  <2> PICK last \in Int : last = a + d - 1
    BY <2>1
  <2>2. first >= 1 /\ last <= Len(s) /\ last - first + 1 = d - c + 1 /\ (first <= last <=> c <= d)
    BY <2>1
  <2>3. v = SubSeq(s, first, last)
    OBVIOUS
  <2> HIDE DEF v
  <2>4. /\ v \in Seq(S)
        /\ Len(v) = IF first <= last THEN last - first + 1 ELSE 0
        /\ \A i \in 1..(last - first + 1) : v[i] = s[first + i - 1]
    BY <2>2, <2>3, Cut
  <2>5. Len(v) = IF c <= d THEN d - c + 1 ELSE 0
    BY <2>2, <2>4
  <2>6. ASSUME NEW i \in 1..(d - c + 1)
        PROVE  v[i] = s[a + c - 1 + i - 1]
    BY <2>2, <2>4
  <2> QED
    BY <2>4, <2>5, <2>6
<1> HIDE DEF u, v
<1>4. ASSUME NEW i \in 1..Len(u)
      PROVE  u[i] = v[i]
  <2>1. i \in 1..(d - c + 1)
    BY <1>2
  <2>2. c + i - 1 \in 1..(b - a + 1)
    BY <2>1
  <2>3. u[i] = s[a + (c + i - 1) - 1]
    BY <1>1, <1>2, <2>1, <2>2
  <2>4. v[i] = s[a + c - 1 + i - 1]
    BY <1>3, <2>1
  <2>5. a + (c + i - 1) - 1 = a + c - 1 + i - 1
    BY <2>1
  <2> QED
    BY <2>3, <2>4, <2>5
<1>5. u = v
  BY <1>2, <1>3, <1>4, SeqEqual
<1> QED
  BY <1>5 DEF t, u, v

LEMMA AppendConcat ==
    ASSUME NEW S, NEW s \in Seq(S), NEW t \in Seq(S), NEW e \in S
    PROVE  Append(s \o t, e) = s \o Append(t, e)
<1>1. Append(s \o t, e) = (s \o t) \o <<e>> /\ Append(t, e) = t \o <<e>>
  BY ConcatProperties, AppendIsConcat
<1>2. <<e>> \in Seq(S)
  OBVIOUS
<1> QED
  BY <1>1, <1>2, ConcatAssociative

-----------------------------------------------------------------------------
(***************************************************************************)
(* The parser as a function of the bytes alone.  Besides the state and the *)
(* subnegotiation it counts the bytes of lines so far, and the messages of *)
(* each kind.                                                              *)
(***************************************************************************)
ParserStates == {"Data", "Iac", "Will", "Wont", "Do", "Dont", "Sb", "SbIac"}

StateAfter(st, b) ==
    CASE st = "Data" -> IF b = Iac THEN "Iac" ELSE "Data"
      [] st = "Iac" -> StateAfterIac(b)
      [] st = "Sb" -> IF b = Iac THEN "SbIac" ELSE "Sb"
      [] st = "SbIac" -> IF b = Iac THEN "Sb" ELSE "Data"
      [] OTHER -> "Data"

SbAfter(st, sb, b) ==
    CASE st = "Iac" /\ b = Sb -> <<>>
      [] st = "Sb" /\ b # Iac -> Append(sb, b)
      [] st = "SbIac" /\ b = Iac -> Append(sb, b)
      [] OTHER -> sb

IsText(st, b) == (st = "Data" /\ b # Iac) \/ (st = "Iac" /\ b = Iac)

Gives(k, st, sb, b) ==
    CASE st \in {"Will", "Wont", "Do", "Dont"} -> Announced(k, st, b)
      [] st = "SbIac" /\ b = Se -> Delivered(k, sb)
      [] OTHER -> <<>>

Parsers == [state : ParserStates, sb : Seq(Byte), chars : Nat, said : [Kinds -> Nat]]
Start == [state |-> "Data", sb |-> <<>>, chars |-> 0, said |-> [k \in Kinds |-> 0]]

After(p, b) ==
    [state |-> StateAfter(p.state, b), sb |-> SbAfter(p.state, p.sb, b),
     chars |-> IF IsText(p.state, b) THEN p.chars + 1 ELSE p.chars,
     said |-> [k \in Kinds |-> IF Gives(k, p.state, p.sb, b) = <<>> THEN p.said[k] ELSE p.said[k] + 1]]

(* What p makes of b is the next byte of text, the next message of msgs. *)
Fits(p, b, text, msgs) ==
    /\ IsText(p.state, b) => p.chars < Len(text) /\ text[p.chars + 1] = b
    /\ \A k \in Kinds : Gives(k, p.state, p.sb, b) # <<>> =>
          p.said[k] < Len(msgs[k]) /\ Gives(k, p.state, p.sb, b) = <<msgs[k][p.said[k] + 1]>>

Behind(r, p) == r.chars <= p.chars /\ \A k \in Kinds : r.said[k] <= p.said[k]

(* run[i] is the parser after i bytes of s. *)
Parses(run, s, text, msgs) ==
    /\ run \in [0..Len(s) -> Parsers] /\ run[0] = Start
    /\ \A i \in 0..(Len(s) - 1) : /\ run[i + 1] = After(run[i], s[i + 1])
                                  /\ Fits(run[i], s[i + 1], text, msgs)
    /\ \A i \in 0..Len(s) : Behind(run[i], run[Len(s)])

(* After n bytes of s the parser is r, after all of them p; the bytes of    *)
(* lines and the messages are those of text and msgs.                       *)
Reached(s, text, msgs, n, r, p) ==
    /\ n \in 0..Len(s)
    /\ \E run : Parses(run, s, text, msgs) /\ r = run[n] /\ p = run[Len(s)]

(* t goes on where s ends. *)
Longer(s, t) == Len(s) <= Len(t) /\ \A i \in 1..Len(s) : t[i] = s[i]

LEMMA StatesAfter ==
    ASSUME NEW p \in Parsers, NEW b \in Byte
    PROVE  /\ StateAfter(p.state, b) \in ParserStates
           /\ SbAfter(p.state, p.sb, b) \in Seq(Byte)
<1>1. p.state \in ParserStates /\ p.sb \in Seq(Byte)
  BY DEF Parsers
<1>2. StateAfter(p.state, b) \in ParserStates
  BY <1>1 DEF StateAfter, StateAfterIac, ParserStates
<1>3. Append(p.sb, b) \in Seq(Byte) /\ <<>> \in Seq(Byte)
  BY <1>1, AppendProperties, EmptySeq
<1>4. SbAfter(p.state, p.sb, b) \in Seq(Byte)
  BY <1>1, <1>3 DEF SbAfter
<1> QED
  BY <1>2, <1>4

LEMMA AfterFields ==
    ASSUME NEW p, NEW b
    PROVE  /\ After(p, b).state = StateAfter(p.state, b)
           /\ After(p, b).sb = SbAfter(p.state, p.sb, b)
           /\ After(p, b).chars = IF IsText(p.state, b) THEN p.chars + 1 ELSE p.chars
           /\ \A k \in Kinds : After(p, b).said[k] =
                 IF Gives(k, p.state, p.sb, b) = <<>> THEN p.said[k] ELSE p.said[k] + 1
  BY DEF After

LEMMA AfterTyped ==
    ASSUME NEW p \in Parsers, NEW b \in Byte
    PROVE  After(p, b) \in Parsers /\ Behind(p, After(p, b))
<1>1. p.chars \in Nat /\ p.said \in [Kinds -> Nat]
  BY DEF Parsers
<1> DEFINE chars == IF IsText(p.state, b) THEN p.chars + 1 ELSE p.chars
           said == [k \in Kinds |-> IF Gives(k, p.state, p.sb, b) = <<>> THEN p.said[k] ELSE p.said[k] + 1]
<1>2. chars \in Nat /\ p.chars <= chars
  BY <1>1
<1>3. said \in [Kinds -> Nat] /\ \A k \in Kinds : p.said[k] <= said[k]
  BY <1>1
<1>4. After(p, b) = [state |-> StateAfter(p.state, b), sb |-> SbAfter(p.state, p.sb, b),
                     chars |-> chars, said |-> said]
  BY DEF After
<1> HIDE DEF chars, said
<1> QED
  BY <1>2, <1>3, <1>4, StatesAfter DEF Parsers, Behind

LEMMA BehindBoth ==
    ASSUME NEW q \in Parsers, NEW r \in Parsers, NEW p \in Parsers, Behind(q, r), Behind(r, p)
    PROVE  Behind(q, p)
  BY DEF Parsers, Behind

LEMMA StartTyped == Start \in Parsers
<1>1. <<>> \in Seq(Byte)
  BY EmptySeq
<1>2. [k \in Kinds |-> 0] \in [Kinds -> Nat]
  OBVIOUS
<1> QED
  BY <1>1, <1>2 DEF Start, Parsers, ParserStates

LEMMA NothingParsed ==
    ASSUME NEW text, NEW msgs
    PROVE  Reached(<<>>, text, msgs, 0, Start, Start)
<1> DEFINE run == [i \in 0..0 |-> Start]
<1>1. run \in [0..Len(<<>>) -> Parsers] /\ run[0] = Start /\ Len(<<>>) = 0
  BY StartTyped
<1>2. Behind(Start, Start)
  <2>1. Start.chars <= Start.chars
    BY StartTyped DEF Start
  <2>2. \A k \in Kinds : Start.said[k] <= Start.said[k]
    BY DEF Start
  <2> QED
    BY <2>1, <2>2 DEF Behind
<1>3. Parses(run, <<>>, text, msgs)
  BY <1>1, <1>2 DEF Parses
<1> QED
  BY <1>1, <1>3 DEF Reached

(* The parsers of a run. *)
LEMMA ReachedTyped ==
    ASSUME NEW s \in Seq(Byte), NEW text, NEW msgs, NEW n, NEW r, NEW p,
           Reached(s, text, msgs, n, r, p)
    PROVE  /\ n \in 0..Len(s) /\ r \in Parsers /\ p \in Parsers /\ Behind(r, p)
           /\ n = Len(s) => r = p
<1> PICK run : Parses(run, s, text, msgs) /\ r = run[n] /\ p = run[Len(s)]
  BY DEF Reached
<1>1. n \in 0..Len(s) /\ Len(s) \in 0..Len(s)
  BY LenProperties DEF Reached
<1> QED
  BY <1>1 DEF Parses

(* The parser that is behind goes one byte on. *)
LEMMA ParsesOn ==
    ASSUME NEW s \in Seq(Byte), NEW text, NEW msgs, NEW n, NEW r, NEW p,
           Reached(s, text, msgs, n, r, p), n < Len(s)
    PROVE  /\ Fits(r, s[n + 1], text, msgs)
           /\ Reached(s, text, msgs, n + 1, After(r, s[n + 1]), p)
<1> PICK run : Parses(run, s, text, msgs) /\ r = run[n] /\ p = run[Len(s)]
  BY DEF Reached
<1>1. n \in 0..(Len(s) - 1) /\ n + 1 \in 0..Len(s)
  BY LenProperties DEF Reached
<1>2. run[n + 1] = After(run[n], s[n + 1]) /\ Fits(run[n], s[n + 1], text, msgs)
  BY <1>1 DEF Parses
<1> QED
  BY <1>1, <1>2 DEF Reached

LEMMA FitsLonger ==
    ASSUME NEW p \in Parsers, NEW b, NEW text \in Seq(Byte), NEW text2 \in Seq(Byte), NEW msgs, NEW msgs2, NEW S,
           msgs \in [Kinds -> Seq(S)], msgs2 \in [Kinds -> Seq(S)],
           Longer(text, text2), \A k \in Kinds : Longer(msgs[k], msgs2[k]),
           Fits(p, b, text, msgs)
    PROVE  Fits(p, b, text2, msgs2)
<1>1. p.chars \in Nat /\ \A k \in Kinds : p.said[k] \in Nat
  BY DEF Parsers
<1>2. Len(text) \in Nat /\ Len(text2) \in Nat
  BY LenProperties
<1>3. ASSUME IsText(p.state, b)
      PROVE  p.chars < Len(text2) /\ text2[p.chars + 1] = b
  <2>1. p.chars < Len(text) /\ text[p.chars + 1] = b
    BY <1>3 DEF Fits
  <2>2. p.chars + 1 \in 1..Len(text)
    BY <1>1, <1>2, <2>1
  <2>3. text2[p.chars + 1] = text[p.chars + 1] /\ Len(text) <= Len(text2)
    BY <2>2 DEF Longer
  <2> QED
    BY <1>1, <1>2, <2>1, <2>3
<1>4. ASSUME NEW k \in Kinds, Gives(k, p.state, p.sb, b) # <<>>
      PROVE  p.said[k] < Len(msgs2[k]) /\ Gives(k, p.state, p.sb, b) = <<msgs2[k][p.said[k] + 1]>>
  <2>1. p.said[k] < Len(msgs[k]) /\ Gives(k, p.state, p.sb, b) = <<msgs[k][p.said[k] + 1]>>
    BY <1>4 DEF Fits
  <2>2. Len(msgs[k]) \in Nat /\ Len(msgs2[k]) \in Nat
    BY LenProperties
  <2>3. p.said[k] + 1 \in 1..Len(msgs[k])
    BY <1>1, <2>1, <2>2
  <2>4. msgs2[k][p.said[k] + 1] = msgs[k][p.said[k] + 1] /\ Len(msgs[k]) <= Len(msgs2[k])
    BY <2>3 DEF Longer
  <2> QED
    BY <1>1, <2>1, <2>2, <2>4
<1> QED
  BY <1>3, <1>4 DEF Fits

(* One byte more is sent: the run goes on, and is the same so far. *)
LEMMA OneMoreByte ==
    ASSUME NEW s \in Seq(Byte), NEW text \in Seq(Byte), NEW text2 \in Seq(Byte), NEW msgs, NEW msgs2, NEW S,
           msgs \in [Kinds -> Seq(S)], msgs2 \in [Kinds -> Seq(S)],
           NEW n, NEW r, NEW p, NEW b \in Byte,
           Reached(s, text, msgs, n, r, p),
           Longer(text, text2), \A k \in Kinds : Longer(msgs[k], msgs2[k]),
           Fits(p, b, text2, msgs2)
    PROVE  Reached(Append(s, b), text2, msgs2, n, r, After(p, b))
<1> DEFINE N == Len(s)
           t == Append(s, b)
<1> PICK run : Parses(run, s, text, msgs) /\ r = run[n] /\ p = run[N]
  BY DEF Reached
<1>1. N \in Nat /\ n \in 0..N
  BY LenProperties DEF Reached
<1>2. t \in Seq(Byte) /\ Len(t) = N + 1 /\ t[N + 1] = b /\ \A i \in 1..N : t[i] = s[i]
  BY AppendProperties
<1> HIDE DEF N, t
<1> DEFINE run2 == [i \in 0..(N + 1) |-> IF i = N + 1 THEN After(p, b) ELSE run[i]]
<1>3. run \in [0..N -> Parsers] /\ run[0] = Start
  BY DEF Parses, N
<1>4. p \in Parsers /\ After(p, b) \in Parsers /\ Behind(p, After(p, b))
  BY <1>1, <1>3, AfterTyped
<1>5. /\ run2 \in [0..(N + 1) -> Parsers] /\ run2[N + 1] = After(p, b)
      /\ \A i \in 0..N : run2[i] = run[i]
  BY <1>1, <1>3, <1>4
<1> HIDE DEF run2
<1>6. ASSUME NEW i \in 0..N
      PROVE  run2[i + 1] = After(run2[i], t[i + 1]) /\ Fits(run2[i], t[i + 1], text2, msgs2)
  <2>1. CASE i = N
    BY <1>1, <1>2, <1>5, <2>1
  <2>2. CASE i # N
    <3>1. i \in 0..(N - 1) /\ i + 1 \in 0..N /\ i + 1 \in 1..N
      BY <1>1, <2>2
    <3>2. run[i + 1] = After(run[i], s[i + 1]) /\ Fits(run[i], s[i + 1], text, msgs)
      BY <3>1 DEF Parses, N
    <3>3. run[i] \in Parsers
      BY <1>3
    <3>4. Fits(run[i], s[i + 1], text2, msgs2)
      BY <3>2, <3>3, FitsLonger
    <3> QED
      BY <1>2, <1>5, <3>1, <3>2, <3>4
  <2> QED
    BY <2>1, <2>2
<1>7. ASSUME NEW i \in 0..(N + 1)
      PROVE  Behind(run2[i], run2[N + 1])
  <2>1. CASE i = N + 1
    BY <1>4, <1>5, <2>1 DEF Behind, Parsers
  <2>2. CASE i # N + 1
    <3>1. i \in 0..N
      BY <1>1, <2>2
    <3>2. Behind(run[i], p) /\ run[i] \in Parsers
      BY <1>3, <3>1 DEF Parses, N
    <3> QED
      BY <1>4, <1>5, <3>1, <3>2, BehindBoth
  <2> QED
    BY <2>1, <2>2
<1>8. run2[0] = Start
  BY <1>1, <1>3, <1>5
<1>9. Parses(run2, t, text2, msgs2)
  <2>1. Len(t) - 1 = N
    BY <1>1, <1>2
  <2> QED
    BY <1>2, <1>5, <1>6, <1>7, <1>8, <2>1 DEF Parses
<1>10. n \in 0..Len(t) /\ r = run2[n] /\ After(p, b) = run2[Len(t)]
  BY <1>1, <1>2, <1>5
<1> QED
  BY <1>9, <1>10 DEF Reached, t

-----------------------------------------------------------------------------
(* Marks that cut a text into lines or fields.                             *)

(* The marks in text are at end[1], end[2], ..., end[n]. *)
Marks(text, mark, end, n) ==
    /\ end \in [0..n -> 0..Len(text)] /\ end[0] = 0
    /\ \A i, j \in 0..n : i < j => end[i] < end[j]
    /\ \A i \in 1..Len(text) : text[i] = mark <=> \E j \in 1..n : end[j] = i

NextMark(end, n, i) == [j \in 0..(n + 1) |-> IF j = n + 1 THEN i ELSE end[j]]

LEMMA NoMark ==
    ASSUME NEW mark, mark \in Byte
    PROVE  Marks(<<>>, mark, [j \in 0..0 |-> 0], 0)
<1>1. Len(<<>>) = 0
  OBVIOUS
<1> QED
  BY <1>1 DEF Marks

LEMMA MarksGoOn ==
    ASSUME NEW text \in Seq(Byte), NEW b \in Byte, NEW mark, b # mark, NEW n \in Nat, NEW end,
           Marks(text, mark, end, n)
    PROVE  Marks(Append(text, b), mark, end, n)
<1>1. /\ Len(text) \in Nat /\ Len(Append(text, b)) = Len(text) + 1
      /\ \A i \in 1..Len(text) : Append(text, b)[i] = text[i]
      /\ Append(text, b)[Len(text) + 1] = b
  BY AppendProperties, LenProperties
<1>2. end \in [0..n -> 0..(Len(text) + 1)]
  BY <1>1 DEF Marks
<1>3. ASSUME NEW i \in 1..(Len(text) + 1)
      PROVE  Append(text, b)[i] = mark <=> \E j \in 1..n : end[j] = i
  <2>1. CASE i = Len(text) + 1
    <3>1. \A j \in 1..n : end[j] \in 0..Len(text)
      BY DEF Marks
    <3>2. \A j \in 1..n : end[j] # i
      BY <1>1, <2>1, <3>1
    <3> QED
      BY <1>1, <2>1, <3>2
  <2>2. CASE i # Len(text) + 1
    <3>1. i \in 1..Len(text)
      BY <1>1, <2>2
    <3> QED
      BY <1>1, <3>1 DEF Marks
  <2> QED
    BY <2>1, <2>2
<1> QED
  BY <1>1, <1>2, <1>3 DEF Marks

LEMMA MarkIsNext ==
    ASSUME NEW text \in Seq(Byte), NEW mark \in Byte, NEW n \in Nat, NEW end,
           Marks(text, mark, end, n)
    PROVE  Marks(Append(text, mark), mark, NextMark(end, n, Len(text) + 1), n + 1)
<1> DEFINE t == Append(text, mark)
           e == NextMark(end, n, Len(text) + 1)
<1>1. /\ Len(text) \in Nat /\ Len(t) = Len(text) + 1
      /\ \A i \in 1..Len(text) : t[i] = text[i]
      /\ t[Len(text) + 1] = mark
  BY AppendProperties, LenProperties
<1>2. \A j \in 0..n : end[j] \in 0..Len(text)
  BY DEF Marks
<1>3. /\ DOMAIN e = 0..(n + 1) /\ e[n + 1] = Len(text) + 1
      /\ \A j \in 0..n : e[j] = end[j]
  BY DEF NextMark
<1>8. e = [j \in 0..(n + 1) |-> e[j]]
  BY DEF NextMark
<1> HIDE DEF t, e
<1>4. e \in [0..(n + 1) -> 0..Len(t)]
  <2>1. \A j \in 0..(n + 1) : e[j] \in 0..Len(t)
    <3> TAKE j \in 0..(n + 1)
    <3>1. CASE j = n + 1
      BY <1>1, <1>3, <3>1
    <3>2. CASE j \in 0..n
      BY <1>1, <1>2, <1>3, <3>2
    <3> QED
      BY <3>1, <3>2
  <2> QED
    BY <1>8, <2>1
<1>5. e[0] = 0
  BY <1>3 DEF Marks
<1>6. ASSUME NEW i \in 0..(n + 1), NEW j \in 0..(n + 1), i < j
      PROVE  e[i] < e[j]
  <2>1. i \in 0..n
    BY <1>6
  <2>2. CASE j = n + 1
    <3>1. e[i] \in 0..Len(text)
      BY <1>2, <1>3, <2>1
    <3> QED
      BY <1>1, <1>3, <2>2, <3>1
  <2>3. CASE j \in 0..n
    <3>1. end[i] < end[j]
      BY <1>6, <2>1, <2>3 DEF Marks
    <3> QED
      BY <1>3, <2>1, <2>3, <3>1
  <2> QED
    BY <2>2, <2>3
<1>7. ASSUME NEW i \in 1..Len(t)
      PROVE  t[i] = mark <=> \E j \in 1..(n + 1) : e[j] = i
  <2>1. CASE i = Len(text) + 1
    <3>1. t[i] = mark /\ e[n + 1] = i /\ n + 1 \in 1..(n + 1)
      BY <1>1, <1>3, <2>1
    <3> QED
      BY <3>1
  <2>2. CASE i \in 1..Len(text)
    <3>1. t[i] = mark <=> \E j \in 1..n : end[j] = i
      BY <1>1, <2>2 DEF Marks
    <3>2. e[n + 1] # i
      BY <1>1, <1>3, <2>2
    <3>3. (\E j \in 1..n : end[j] = i) <=> (\E j \in 1..(n + 1) : e[j] = i)
      <4>1. ASSUME NEW j \in 1..n, end[j] = i
            PROVE  \E l \in 1..(n + 1) : e[l] = i
        <5>1. j \in 1..(n + 1) /\ e[j] = i
          BY <1>3, <4>1
        <5> QED
          BY <5>1
      <4>2. ASSUME NEW j \in 1..(n + 1), e[j] = i
            PROVE  \E l \in 1..n : end[l] = i
        <5>1. j \in 1..n
          BY <3>2, <4>2
        <5> QED
          BY <1>3, <4>2, <5>1
      <4> QED
        BY <4>1, <4>2
    <3> QED
      BY <3>1, <3>3
  <2> QED
    BY <1>1, <2>1, <2>2
<1> QED
  BY <1>4, <1>5, <1>6, <1>7 DEF Marks, t, e

Unmarked(text, mark, e, pos) == \A i \in 1..Len(text) : e < i /\ i < pos => text[i] # mark

(* The first mark behind end[m] is end[m + 1]. *)
LEMMA FirstMark ==
    ASSUME NEW text \in Seq(Byte), NEW mark, NEW n \in Nat, NEW end, Marks(text, mark, end, n),
           NEW m \in 0..n, NEW e \in Nat, e = end[m], NEW pos \in Nat, e < pos, pos <= Len(text), text[pos] = mark,
           Unmarked(text, mark, e, pos)
    PROVE  m < n /\ end[m + 1] = pos
<1>1. Len(text) \in Nat /\ \A j \in 0..n : end[j] \in 0..Len(text)
  BY LenProperties DEF Marks
<1>2. pos \in 1..Len(text)
  BY <1>1
<1>3. PICK j \in 1..n : end[j] = pos
  BY <1>2 DEF Marks
<1>4. m < j
  <2>1. CASE j < m
    <3>1. end[j] < end[m]
      BY <2>1 DEF Marks
    <3> QED
      BY <1>1, <1>3, <3>1
  <2>2. CASE j = m
    BY <1>1, <1>3, <2>2
  <2> QED
    BY <2>1, <2>2
<1>5. j = m + 1
  <2> SUFFICES ASSUME m + 1 < j PROVE FALSE
    BY <1>4
  <2>1. m + 1 \in 0..n /\ m + 1 \in 1..n
    BY <1>4
  <2>2. end[m] < end[m + 1] /\ end[m + 1] < end[j]
    BY <2>1 DEF Marks
  <2>3. end[m + 1] \in 1..Len(text)
    BY <1>1, <2>1, <2>2
  <2>4. text[end[m + 1]] = mark
    BY <2>1, <2>3 DEF Marks
  <2> QED
    BY <1>3, <2>2, <2>3, <2>4 DEF Unmarked
<1> QED
  BY <1>3, <1>5

(* Between end[m] and end[m + 1], and behind end[n], there is no mark. *)
LEMMA NoMarkBehind ==
    ASSUME NEW text \in Seq(Byte), NEW mark, NEW n \in Nat, NEW end, Marks(text, mark, end, n),
           NEW m \in 0..n, \A i \in 1..Len(text) : end[m] < i => text[i] # mark
    PROVE  m = n
<1> SUFFICES ASSUME m # n PROVE FALSE
  OBVIOUS
<1>1. m + 1 \in 1..n /\ m + 1 \in 0..n
  OBVIOUS
<1>2. end[m] < end[m + 1] /\ end[m + 1] \in 0..Len(text) /\ end[m] \in 0..Len(text)
  BY <1>1 DEF Marks
<1>3. end[m + 1] \in 1..Len(text)
  BY <1>2
<1>4. text[end[m + 1]] = mark
  BY <1>1, <1>3 DEF Marks
<1> QED
  BY <1>2, <1>3, <1>4

(* Every set of natural numbers that is not empty has a least one. *)
LEMMA LeastNatural ==
    ASSUME NEW T \in SUBSET Nat, T # {}
    PROVE  \E x \in T : \A y \in T : x <= y
<1> DEFINE R == {ss \in Nat \X Nat : ss[1] < ss[2]}
<1>1. IsWellFoundedOn(R, Nat)
  BY NatLessThanWellFounded, Zenon DEF OpToRel
<1>2. \A x, y \in Nat : <<y, x>> \in R <=> y < x
  OBVIOUS
<1> HIDE DEF R
<1>3. PICK x \in T : \A y \in T : ~(<<y, x>> \in R)
  BY <1>1, WFMin
<1>4. ASSUME NEW y \in T PROVE x <= y
  <2>1. x \in Nat /\ y \in Nat
    OBVIOUS
  <2>2. ~(y < x)
    BY <1>2, <1>3, <2>1, Zenon
  <2> QED
    BY <2>1, <2>2
<1> QED
  BY <1>4, Zenon

(* Numbers from 1 to n in n increasing steps are all of them. *)
LEMMA CountsUp ==
    ASSUME NEW n \in Nat, NEW g \in [1..n -> 1..n], \A i, j \in 1..n : i < j => g[i] < g[j],
           NEW i \in 1..n
    PROVE  g[i] = i
<1>1. ASSUME g[i] < i PROVE FALSE
  <2> DEFINE T == {j \in 1..n : g[j] < j}
  <2>1. T \in SUBSET Nat /\ T # {}
    BY <1>1
  <2>2. PICK j \in T : \A l \in T : j <= l
    BY <2>1, LeastNatural
  <2>3. j \in 1..n /\ g[j] < j /\ g[j] \in 1..n
    OBVIOUS
  <2>4. g[j] \in T
    BY <2>3
  <2> QED
    BY <2>2, <2>3, <2>4
<1>2. ASSUME g[i] > i PROVE FALSE
  <2> DEFINE T == {x \in 0..n : n - x \in 1..n /\ g[n - x] > n - x}
  <2>0. n - i \in T
    <3>1. n - i \in 0..n /\ n - (n - i) = i
      OBVIOUS
    <3>2. n - (n - i) \in 1..n /\ g[n - (n - i)] > n - (n - i)
      BY <1>2, <3>1
    <3> QED
      BY <3>1, <3>2
  <2>1. T \in SUBSET Nat /\ T # {}
    <3>1. T \in SUBSET Nat
      OBVIOUS
    <3> QED
      BY <2>0, <3>1, Zenon
  <2>2. PICK x \in T : \A y \in T : x <= y
    BY <2>1, LeastNatural
  <2> DEFINE j == n - x
  <2>3. x \in 0..n /\ j \in 1..n /\ g[j] > j /\ g[j] \in 1..n
    OBVIOUS
  <2>4. n - g[j] \in 0..n /\ n - (n - g[j]) = g[j] /\ n - g[j] < x
    BY <2>3
  <2>5. g[g[j]] > g[j]
    BY <2>3
  <2>6. n - g[j] \in T
    BY <2>3, <2>4, <2>5
  <2> QED
    BY <2>2, <2>3, <2>4, <2>6
<1> QED
  BY <1>1, <1>2

LEMMA MinIs ==
    ASSUME NEW T \in SUBSET Int, NEW x \in T, \A y \in T : x <= y
    PROVE  Min(T) = x
<1>1. Min(T) \in T /\ \A y \in T : Min(T) <= y
  BY DEF Min
<1>2. Min(T) \in Int /\ x \in Int /\ Min(T) <= x /\ x <= Min(T)
  BY <1>1
<1> QED
  BY <1>2

(* Fields() cuts at the marks. *)
LEMMA FieldsCut ==
    ASSUME NEW text \in Seq(Byte), NEW n \in Nat, NEW end, Marks(text, 0, end, n)
    PROVE  Fields(text) = [j \in 1..n |-> SubSeq(text, end[j - 1] + 1, end[j] - 1)]
<1> DEFINE nuls == {i \in DOMAIN text : text[i] = 0}
           Up(e) == \A i, j \in DOMAIN e : i < j => e[i] < e[j]
           E == CHOOSE e \in [1..Cardinality(nuls) -> nuls] : Up(e)
           f == [j \in 1..n |-> end[j]]
<1>1. DOMAIN text = 1..Len(text) /\ Len(text) \in Nat
  BY LenProperties
<1>2. \A j \in 0..n : end[j] \in 0..Len(text)
  BY DEF Marks
<1>3. \A i, j \in 0..n : i < j => end[i] < end[j]
  BY DEF Marks
<1>4. \A j \in 1..n : end[j] \in nuls
  <2> TAKE j \in 1..n
  <2>1. end[0] < end[j] /\ end[0] = 0 /\ end[j] \in 0..Len(text)
    BY <1>2, <1>3 DEF Marks
  <2>2. end[j] \in 1..Len(text)
    BY <2>1
  <2> QED
    BY <1>1, <2>2 DEF Marks
<1>5. \A i \in nuls : \E j \in 1..n : end[j] = i
  BY <1>1 DEF Marks
<1>6. f \in [1..n -> nuls] /\ \A j \in 1..n : f[j] = end[j]
  BY <1>4
<1>7. \A i, j \in 1..n : i < j => f[i] < f[j]
  BY <1>3, <1>6
<1>8. \A i \in nuls : i \in Nat
  BY <1>1
<1> HIDE DEF f, nuls
<1>9. Cardinality(nuls) = n
  <2>1. \A i, j \in 1..n : f[i] = f[j] => i = j
    <3> SUFFICES ASSUME NEW i \in 1..n, NEW j \in 1..n, f[i] = f[j], i # j PROVE FALSE
      OBVIOUS
    <3>1. f[i] \in Nat /\ f[j] \in Nat
      BY <1>6, <1>8
    <3>2. i < j \/ j < i
      OBVIOUS
    <3> QED
      BY <1>7, <3>1, <3>2
  <2>2. \A i \in nuls : \E j \in 1..n : f[j] = i
    BY <1>5, <1>6
  <2>3. f \in Bijection(1..n, nuls)
    BY <1>6, <2>1, <2>2, Zenon DEF Bijection, Injection, Surjection, IsInjective
  <2>4. ExistsBijection(1..n, nuls)
    BY <2>3 DEF ExistsBijection
  <2> QED
    BY <2>4, FS_CountingElements
<1>10. E \in [1..n -> nuls] /\ Up(E)
  <2>1. f \in [1..Cardinality(nuls) -> nuls] /\ Up(f)
    BY <1>6, <1>7, <1>9
  <2>2. E \in [1..Cardinality(nuls) -> nuls] /\ Up(E)
    <3> HIDE DEF Up
    <3> QED
      BY <2>1
  <2> QED
    BY <1>9, <2>2
<1>11. \A i, j \in 1..n : i < j => E[i] < E[j]
  BY <1>10
<1>12. Fields(text) = [j \in DOMAIN E |-> SubSeq(text, IF j = 1 THEN 1 ELSE E[j - 1] + 1, E[j] - 1)]
  BY Zenon DEF Fields, nuls
<1> HIDE DEF E
<1>13. \A i \in 1..n : E[i] = end[i]
  <2> DEFINE g == [i \in 1..n |-> CHOOSE j \in 1..n : end[j] = E[i]]
  <2>1. \A i \in 1..n : g[i] \in 1..n /\ end[g[i]] = E[i]
    BY <1>5, <1>10
  <2>2. g \in [1..n -> 1..n]
    BY <2>1
  <2> HIDE DEF g
  <2>3. ASSUME NEW i \in 1..n, NEW j \in 1..n, i < j
        PROVE  g[i] < g[j]
    <3>1. end[g[i]] < end[g[j]]
      BY <1>11, <2>1, <2>3
    <3>2. g[i] \in 0..n /\ g[j] \in 0..n
      BY <2>2
    <3>3. end[g[i]] \in Int /\ end[g[j]] \in Int
      BY <1>2, <3>2
    <3>4. ~(g[j] < g[i]) /\ g[i] # g[j]
      BY <1>3, <3>1, <3>2, <3>3
    <3> QED
      BY <3>2, <3>4
  <2>4. \A i \in 1..n : g[i] = i
    BY <2>2, <2>3, CountsUp
  <2> QED
    BY <2>1, <2>4
<1>14. DOMAIN E = 1..n
  BY <1>10
<1>15. ASSUME NEW j \in 1..n
       PROVE  (IF j = 1 THEN 1 ELSE E[j - 1] + 1) = end[j - 1] + 1
  <2>1. CASE j = 1
    BY <2>1 DEF Marks
  <2>2. CASE j # 1
    BY <1>13, <2>2
  <2> QED
    BY <2>1, <2>2
<1>16. ASSUME NEW j \in 1..n
       PROVE  SubSeq(text, IF j = 1 THEN 1 ELSE E[j - 1] + 1, E[j] - 1) = SubSeq(text, end[j - 1] + 1, end[j] - 1)
  BY <1>13, <1>15
<1> QED
  BY <1>12, <1>14, <1>16

(* MsdpPair() cuts a name that holds no mark from the value. *)
LEMMA MsdpPairCut ==
    ASSUME NEW name \in Seq(Byte), \A i \in 1..Len(name) : name[i] # ValMark, NEW value \in Seq(Byte)
    PROVE  /\ MsdpPair(<<VarMark>> \o name) = <<name, <<>>>>
           /\ MsdpPair((<<VarMark>> \o name) \o (<<ValMark>> \o value)) = <<name, value>>
           /\ (<<VarMark>> \o name) \o (<<ValMark>> \o value) # <<>>
           /\ ((<<VarMark>> \o name) \o (<<ValMark>> \o value))[1] = VarMark
<1> DEFINE short == <<VarMark>> \o name
           long == short \o (<<ValMark>> \o value)
           valsOf(t) == {i \in 2..Len(t) : t[i] = ValMark}
<1>0. <<VarMark>> \in Seq(Byte) /\ <<ValMark>> \in Seq(Byte) /\ Len(<<VarMark>>) = 1 /\ Len(<<ValMark>>) = 1
  BY DEF VarMark, ValMark, Byte
<1>a. Len(name) \in Nat /\ Len(value) \in Nat
  BY LenProperties
<1>1. /\ short \in Seq(Byte) /\ Len(short) = Len(name) + 1
      /\ \A i \in 1..(Len(name) + 1) : short[i] = IF i = 1 THEN VarMark ELSE name[i - 1]
  BY <1>0, <1>a, ConcatProperties
<1>2. /\ <<ValMark>> \o value \in Seq(Byte) /\ Len(<<ValMark>> \o value) = Len(value) + 1
      /\ \A i \in 1..(Len(value) + 1) : (<<ValMark>> \o value)[i] = IF i = 1 THEN ValMark ELSE value[i - 1]
  BY <1>0, <1>a, ConcatProperties
<1> HIDE DEF short
<1>3. /\ long \in Seq(Byte) /\ Len(long) = Len(name) + Len(value) + 2
      /\ \A i \in 1..(Len(name) + 1) : long[i] = short[i]
      /\ \A i \in 1..(Len(value) + 1) : long[Len(name) + 1 + i] = (<<ValMark>> \o value)[i]
  <2> DEFINE v == <<ValMark>> \o value
  <2> HIDE DEF v
  <2>1. /\ short \o v \in Seq(Byte) /\ Len(short \o v) = Len(short) + Len(v)
        /\ \A i \in 1..(Len(short) + Len(v)) :
              (short \o v)[i] = IF i <= Len(short) THEN short[i] ELSE v[i - Len(short)]
    <3>1. v \in Seq(Byte)
      BY <1>2 DEF v
    <3> QED
      BY <1>1, <3>1, ConcatProperties
  <2>2. Len(v) = Len(value) + 1
    BY <1>2 DEF v
  <2>3. ASSUME NEW i \in 1..(Len(value) + 1)
        PROVE  (short \o v)[Len(name) + 1 + i] = v[i]
    <3>1. /\ Len(name) + 1 + i \in 1..(Len(short) + Len(v)) /\ ~(Len(name) + 1 + i <= Len(short))
          /\ Len(name) + 1 + i - Len(short) = i
      BY <1>1, <1>a, <2>2
    <3> QED
      BY <2>1, <3>1
  <2>4. \A i \in 1..(Len(name) + 1) : (short \o v)[i] = short[i]
    BY <1>1, <1>a, <2>1, <2>2
  <2>5. Len(short \o v) = Len(name) + Len(value) + 2
    BY <1>1, <1>a, <2>1, <2>2
  <2> QED
    BY <2>1, <2>3, <2>4, <2>5 DEF v
<1>4. long # <<>> /\ long[1] = VarMark
  BY <1>1, <1>3, <1>a, EmptySeq
<1> HIDE DEF long
<1>5. MsdpPair(short) = <<name, <<>>>>
  <2>1. valsOf(short) = {}
    BY <1>1, <1>a
  <2>2. Tail(short) = name
    <3>1. Tail(short) = SubSeq(short, 2, Len(short)) /\ Len(short) >= 1
      BY <1>1, <1>a, TailIsSubSeq, EmptySeq
    <3>2. /\ SubSeq(short, 2, Len(short)) \in Seq(Byte)
          /\ Len(SubSeq(short, 2, Len(short))) = Len(name)
          /\ \A i \in 1..(Len(short) - 2 + 1) : SubSeq(short, 2, Len(short))[i] = short[2 + i - 1]
      BY <1>1, <1>a, Cut
    <3>3. \A i \in 1..Len(name) : SubSeq(short, 2, Len(short))[i] = name[i]
      BY <1>1, <1>a, <3>2
    <3> QED
      BY <3>1, <3>2, <3>3, SeqEqual
  <2> QED
    BY <2>1, <2>2 DEF MsdpPair
<1>6. MsdpPair(long) = <<name, value>>
  <2> DEFINE at == Len(name) + 2
  <2>1. at \in valsOf(long)
    <3>1. long[Len(name) + 1 + 1] = ValMark
      BY <1>2, <1>3, <1>a
    <3> QED
      BY <1>3, <1>a, <3>1
  <2>2. \A i \in valsOf(long) : at <= i
    <3> SUFFICES ASSUME NEW i \in 2..Len(long), long[i] = ValMark, i <= Len(name) + 1 PROVE FALSE
      BY <1>a, <1>3
    <3>1. long[i] = name[i - 1] /\ i - 1 \in 1..Len(name)
      BY <1>1, <1>3, <1>a
    <3> QED
      BY <3>1
  <2>3. Min(valsOf(long)) = at /\ valsOf(long) # {}
    <3>1. valsOf(long) \in SUBSET Int
      OBVIOUS
    <3> HIDE DEF valsOf, at
    <3> QED
      BY <2>1, <2>2, <3>1, MinIs
  <2>4. SubSeq(long, 2, at - 1) = name
    <3>1. /\ SubSeq(long, 2, at - 1) \in Seq(Byte)
          /\ Len(SubSeq(long, 2, at - 1)) = Len(name)
          /\ \A i \in 1..(at - 1 - 2 + 1) : SubSeq(long, 2, at - 1)[i] = long[2 + i - 1]
      BY <1>3, <1>a, Cut
    <3>2. ASSUME NEW i \in 1..Len(name)
          PROVE  SubSeq(long, 2, at - 1)[i] = name[i]
      <4>1. i \in 1..(at - 1 - 2 + 1) /\ 2 + i - 1 = i + 1 /\ i + 1 \in 1..(Len(name) + 1) /\ i + 1 # 1
            /\ i + 1 - 1 = i
        BY <1>a
      <4>2. SubSeq(long, 2, at - 1)[i] = long[i + 1]
        BY <3>1, <4>1
      <4>3. long[i + 1] = short[i + 1]
        BY <1>3, <4>1
      <4>4. short[i + 1] = name[i]
        BY <1>1, <4>1
      <4> HIDE DEF at
      <4> QED
        BY <4>2, <4>3, <4>4
    <3> QED
      BY <3>1, <3>2, SeqEqual
  <2>5. SubSeq(long, at + 1, Len(long)) = value
    <3>1. at + 1 \in Nat /\ at + 1 >= 1 /\ Len(long) \in Int
      BY <1>3, <1>a
    <3>2. /\ SubSeq(long, at + 1, Len(long)) \in Seq(Byte)
          /\ Len(SubSeq(long, at + 1, Len(long))) = IF at + 1 <= Len(long) THEN Len(long) - (at + 1) + 1 ELSE 0
          /\ \A i \in 1..(Len(long) - (at + 1) + 1) : SubSeq(long, at + 1, Len(long))[i] = long[at + 1 + i - 1]
      BY <1>3, <3>1, Cut
    <3>3. Len(SubSeq(long, at + 1, Len(long))) = Len(value) /\ Len(long) - (at + 1) + 1 = Len(value)
      BY <1>3, <1>a, <3>2
    <3>4. ASSUME NEW i \in 1..Len(value)
          PROVE  SubSeq(long, at + 1, Len(long))[i] = value[i]
      <4>1. at + 1 + i - 1 = Len(name) + 1 + (i + 1) /\ i + 1 \in 1..(Len(value) + 1) /\ i + 1 # 1 /\ i + 1 - 1 = i
        BY <1>a
      <4>2. SubSeq(long, at + 1, Len(long))[i] = long[at + 1 + i - 1]
        BY <3>2, <3>3
      <4>3. long[Len(name) + 1 + (i + 1)] = (<<ValMark>> \o value)[i + 1]
        BY <1>3, <4>1
      <4>4. (<<ValMark>> \o value)[i + 1] = value[i]
        BY <1>2, <4>1
      <4> HIDE DEF at
      <4> QED
        BY <4>1, <4>2, <4>3, <4>4
    <3> QED
      BY <3>2, <3>3, <3>4, SeqEqual
  <2> HIDE DEF at
  <2> QED
    BY <2>3, <2>4, <2>5 DEF MsdpPair
<1> QED
  BY <1>4, <1>5, <1>6 DEF short, long

-----------------------------------------------------------------------------
(* Subnegotiations: the message that is said, and the one that is found in *)
(* the bytes.                                                              *)

Sayings == [kind : {"none", "other"} \cup DOMAIN Opening, parts : Seq(Seq(Byte)), text : Seq(Byte)]

OptionsOf(kind) ==
    CASE kind = "gmcp" -> {Gmcp} [] kind = "msdp" -> {Msdp} [] kind = "zmp_command" -> {Zmp}
      [] kind = "window_size" -> {Naws} [] kind = "terminal_type" -> {Ttype}
      [] kind = "other" -> Meaningless [] OTHER -> {}

NoValMark(text) == \A i \in 1..Len(text) : text[i] # ValMark

(* body is what of s has been sent, behind the option. *)
InBody(s, body) ==
    /\ s.kind \in {"gmcp", "window_size"} => body = s.text
    /\ s.kind = "terminal_type" => body = <<TelQualIs>> \o s.text
    /\ s.kind = "msdp" =>
          \/ s.parts = <<>> /\ body = <<VarMark>> \o s.text /\ NoValMark(s.text)
          \/ \E name \in Seq(Byte) : /\ s.parts = <<name>> /\ NoValMark(name)
                                     /\ body = (<<VarMark>> \o name) \o (<<ValMark>> \o s.text)
    /\ s.kind = "zmp_command" =>
          \E end : /\ Marks(body, 0, end, Len(s.parts))
                   /\ \A j \in 1..Len(s.parts) : s.parts[j] = SubSeq(body, end[j - 1] + 1, end[j] - 1)
                   /\ s.text = SubSeq(body, end[Len(s.parts)] + 1, Len(body))

Holds(s, sb) ==
    \E option \in OptionsOf(s.kind), body \in Seq(Byte) : sb = <<option>> \o body /\ InBody(s, body)

LEMMA OptionFirst ==
    ASSUME NEW b \in Byte, NEW body \in Seq(Byte)
    PROVE  /\ <<b>> \o body \in Seq(Byte) /\ <<b>> \o body # <<>>
           /\ (<<b>> \o body)[1] = b /\ Tail(<<b>> \o body) = body
           /\ Len(<<b>> \o body) = Len(body) + 1
<1> DEFINE s == <<b>> \o body
<1>0. <<b>> \in Seq(Byte) /\ Len(<<b>>) = 1 /\ <<b>>[1] = b
  OBVIOUS
<1>a. Len(body) \in Nat
  BY LenProperties
<1>1. /\ s \in Seq(Byte) /\ Len(s) = Len(body) + 1
      /\ \A i \in 1..(Len(body) + 1) : s[i] = IF i <= 1 THEN <<b>>[i] ELSE body[i - 1]
  BY <1>0, <1>a, ConcatProperties
<1>2. s[1] = b
  BY <1>0, <1>1, <1>a
<1> HIDE DEF s
<1>3. s # <<>>
  BY <1>1, <1>a
<1>4. Tail(s) = SubSeq(s, 2, Len(s))
  BY <1>1, <1>3, TailIsSubSeq
<1>5. Tail(s) \in Seq(Byte) /\ Len(Tail(s)) = Len(body)
  BY <1>1, <1>4, <1>a, Cut
<1>6. ASSUME NEW i \in 1..Len(body)
      PROVE  Tail(s)[i] = body[i]
  <2>1. \A j \in 1..(Len(s) - 2 + 1) : SubSeq(s, 2, Len(s))[j] = s[2 + j - 1]
    BY <1>1, <1>a, Cut
  <2>2. i \in 1..(Len(s) - 2 + 1) /\ 2 + i - 1 = i + 1 /\ i + 1 \in 1..(Len(body) + 1) /\ ~(i + 1 <= 1)
        /\ i + 1 - 1 = i
    BY <1>1, <1>a
  <2>3. Tail(s)[i] = s[i + 1]
    BY <1>4, <2>1, <2>2
  <2>4. s[i + 1] = body[i]
    BY <1>1, <2>2
  <2> QED
    BY <2>3, <2>4
<1>7. Tail(s) = body
  BY <1>5, <1>6, SeqEqual
<1> QED
  BY <1>1, <1>2, <1>3, <1>7 DEF s

(* The parts of a ZMP command are what Fields() finds, if the last is ended. *)
LEMMA FieldsAsSaid ==
    ASSUME NEW s \in Sayings, s.kind = "zmp_command", NEW body \in Seq(Byte), InBody(s, body)
    PROVE  /\ s.text = <<>> /\ s.parts # <<>> <=> body # <<>> /\ Last(body) = 0
           /\ Fields(body) = s.parts
<1> DEFINE n == Len(s.parts)
<1>1. s.parts \in Seq(Seq(Byte)) /\ s.text \in Seq(Byte)
  BY DEF Sayings
<1>2. n \in Nat /\ Len(body) \in Nat /\ DOMAIN s.parts = 1..n
  BY <1>1, LenProperties
<1> PICK end : /\ Marks(body, 0, end, n)
               /\ \A j \in 1..n : s.parts[j] = SubSeq(body, end[j - 1] + 1, end[j] - 1)
               /\ s.text = SubSeq(body, end[n] + 1, Len(body))
  BY DEF InBody
<1> HIDE DEF n
<1>3. \A j \in 0..n : end[j] \in 0..Len(body)
  BY DEF Marks
<1>4. Fields(body) = [j \in 1..n |-> SubSeq(body, end[j - 1] + 1, end[j] - 1)]
  BY <1>2, FieldsCut
<1>5. Fields(body) = s.parts
  <2>1. s.parts = [j \in 1..n |-> s.parts[j]]
    BY <1>1, <1>2
  <2>2. [j \in 1..n |-> s.parts[j]] = [j \in 1..n |-> SubSeq(body, end[j - 1] + 1, end[j] - 1)]
    OBVIOUS
  <2> QED
    BY <1>4, <2>1, <2>2, Zenon
<1>6. s.parts # <<>> <=> n > 0
  BY <1>1, <1>2, EmptySeq DEF n
<1>7. body # <<>> <=> Len(body) > 0
  BY <1>2, EmptySeq
<1>8. s.text = <<>> <=> end[n] = Len(body)
  <2>1. end[n] \in 0..Len(body)
    BY <1>2, <1>3
  <2>2. Len(s.text) = IF end[n] + 1 <= Len(body) THEN Len(body) - (end[n] + 1) + 1 ELSE 0
    BY <1>2, <2>1, Cut
  <2>3. s.text = <<>> <=> Len(s.text) = 0
    BY <1>1, EmptySeq
  <2> QED
    BY <1>2, <2>1, <2>2, <2>3
<1>9. ASSUME n > 0, end[n] = Len(body)
      PROVE  Len(body) > 0 /\ Last(body) = 0
  <2>1. n \in 1..n /\ n \in 0..n
    BY <1>2, <1>9
  <2>2. end[0] < end[n] /\ end[0] = 0
    BY <1>2, <2>1, <1>9 DEF Marks
  <2>3. Len(body) \in 1..Len(body)
    BY <1>2, <1>9, <2>2
  <2>4. body[Len(body)] = 0
    BY <1>9, <2>1, <2>3 DEF Marks
  <2> QED
    BY <1>9, <2>2, <2>4 DEF Last
<1>10. ASSUME Len(body) > 0, Last(body) = 0
       PROVE  n > 0 /\ end[n] = Len(body)
  <2>1. Len(body) \in 1..Len(body) /\ body[Len(body)] = 0
    BY <1>2, <1>10 DEF Last
  <2>2. PICK j \in 1..n : end[j] = Len(body)
    BY <2>1 DEF Marks
  <2>3. end[n] \in 0..Len(body) /\ n \in 0..n
    BY <1>2, <1>3
  <2>4. j = n
    <3> SUFFICES ASSUME j # n PROVE FALSE
      OBVIOUS
    <3>1. j < n /\ j \in 0..n
      BY <1>2
    <3>2. end[j] < end[n]
      BY <2>3, <3>1 DEF Marks
    <3> QED
      BY <1>2, <2>2, <2>3, <3>2
  <2> QED
    BY <1>2, <2>2, <2>4
<1> QED
  BY <1>5, <1>6, <1>7, <1>8, <1>9, <1>10

(* What the sender says with the end of a subnegotiation is what            *)
(* handleSubnegotiation() makes of its bytes.                               *)
LEMMA DeliveredAsSaid ==
    ASSUME saying \in Sayings, saying.kind # "none", NEW sb \in Seq(Byte), Holds(saying, sb), NEW k \in Kinds
    PROVE  Said(k) = Delivered(k, sb)
<1> PICK option \in OptionsOf(saying.kind), body \in Seq(Byte) : sb = <<option>> \o body /\ InBody(saying, body)
  BY DEF Holds
<1> USE DEF OptionsOf, Gmcp, Msdp, Zmp, Naws, Ttype
<1>1. saying.kind \in {"other", "gmcp", "msdp", "zmp_command", "window_size", "terminal_type"}
      /\ saying.parts \in Seq(Seq(Byte)) /\ saying.text \in Seq(Byte)
  BY DEF Sayings, Opening
<1>2. option \in Byte
  BY <1>1 DEF Byte, Meaningless
<1>3. sb # <<>> /\ sb[1] = option /\ Tail(sb) = body
  BY <1>2, OptionFirst
<1>4. CASE k # saying.kind
  <2>1. Said(k) = <<>>
    BY <1>4 DEF Said
  <2>2. CASE saying.kind = "other"
    <3>1. option \notin {Gmcp, Msdp, Zmp, Naws, Ttype}
      BY <2>2 DEF Meaningless
    <3> QED
      BY <1>3, <2>1, <3>1, Zenon DEF Delivered
  <2>3. CASE saying.kind = "gmcp"
    BY <1>3, <1>4, <2>1, <2>3 DEF Delivered
  <2>4. CASE saying.kind = "msdp"
    BY <1>3, <1>4, <2>1, <2>4 DEF Delivered
  <2>5. CASE saying.kind = "zmp_command"
    BY <1>3, <1>4, <2>1, <2>5 DEF Delivered
  <2>6. CASE saying.kind = "window_size"
    BY <1>3, <1>4, <2>1, <2>6 DEF Delivered
  <2>7. CASE saying.kind = "terminal_type"
    BY <1>3, <1>4, <2>1, <2>7 DEF Delivered
  <2> QED
    BY <1>1, <2>2, <2>3, <2>4, <2>5, <2>6, <2>7
<1>5. CASE k = saying.kind /\ k = "gmcp"
  <2>1. body = saying.text /\ option = Gmcp
    BY <1>5 DEF InBody
  <2>2. Said(k) = IF saying.text # <<>> THEN <<saying.text>> ELSE <<>>
    BY <1>5 DEF Said
  <2>3. Delivered(k, sb) = IF Tail(sb) # <<>> THEN <<Tail(sb)>> ELSE <<>>
    BY <1>3, <1>5, <2>1, ZenonT(40) DEF Delivered
  <2> QED
    BY <1>3, <2>1, <2>2, <2>3
<1>6. CASE k = saying.kind /\ k = "msdp"
  <2>1. body # <<>> /\ body[1] = VarMark /\ Said(k) = <<MsdpPair(body)>>
    <3>0. VarMark \in Byte /\ ValMark \in Byte
      BY DEF VarMark, ValMark, Byte
    <3>1. ASSUME saying.parts = <<>>, body = <<VarMark>> \o saying.text, NoValMark(saying.text)
          PROVE  body # <<>> /\ body[1] = VarMark /\ Said(k) = <<MsdpPair(body)>>
      <4>1. MsdpPair(body) = <<saying.text, <<>>>>
        BY <1>1, <3>1, MsdpPairCut, EmptySeq DEF NoValMark
      <4>2. Said(k) = <<<<saying.text, <<>>>>>>
        BY <1>6, <3>1 DEF Said
      <4> QED
        BY <1>1, <3>0, <3>1, <4>1, <4>2, OptionFirst
    <3>2. ASSUME NEW name \in Seq(Byte), saying.parts = <<name>>, NoValMark(name),
                 body = (<<VarMark>> \o name) \o (<<ValMark>> \o saying.text)
          PROVE  body # <<>> /\ body[1] = VarMark /\ Said(k) = <<MsdpPair(body)>>
      <4>1. MsdpPair(body) = <<name, saying.text>> /\ body # <<>> /\ body[1] = VarMark
        BY <1>1, <3>2, MsdpPairCut DEF NoValMark
      <4>2. saying.parts # <<>> /\ saying.parts[1] = name
        BY <3>2
      <4>3. Said(k) = <<<<name, saying.text>>>>
        BY <1>6, <4>2 DEF Said
      <4> QED
        BY <4>1, <4>3
    <3> QED
      BY <1>6, <3>1, <3>2 DEF InBody
  <2>2. Delivered(k, sb) = <<MsdpPair(body)>>
    BY <1>3, <1>6, <2>1 DEF Delivered
  <2> QED
    BY <2>1, <2>2
<1>7. CASE k = saying.kind /\ k = "zmp_command"
  <2>1. /\ saying.text = <<>> /\ saying.parts # <<>> <=> body # <<>> /\ Last(body) = 0
        /\ Fields(body) = saying.parts
    BY <1>7, FieldsAsSaid
  <2>2. Delivered(k, sb) = IF body # <<>> /\ Last(body) = 0 THEN <<<<Head(Fields(body)), Tail(Fields(body))>>>>
                           ELSE <<>>
    BY <1>3, <1>7 DEF Delivered
  <2>3. Said(k) = IF saying.text = <<>> /\ saying.parts # <<>>
                  THEN <<<<Head(saying.parts), Tail(saying.parts)>>>> ELSE <<>>
    BY <1>7 DEF Said
  <2> QED
    BY <2>1, <2>2, <2>3
<1>8. CASE k = saying.kind /\ k = "window_size"
  <2>1. body = saying.text /\ (Len(body) >= 4 => body # <<>>)
    BY <1>8, EmptySeq DEF InBody
  <2> QED
    BY <1>3, <1>8, <2>1 DEF Said, Delivered
<1>9. CASE k = saying.kind /\ k = "terminal_type"
  <2>1. TelQualIs \in Byte
    BY DEF TelQualIs, Byte
  <2>2. body = <<TelQualIs>> \o saying.text
    BY <1>9 DEF InBody
  <2>3. body # <<>> /\ body[1] = TelQualIs /\ Tail(body) = saying.text
    BY <1>1, <2>1, <2>2, OptionFirst
  <2> QED
    BY <1>3, <1>9, <2>3 DEF Said, Delivered
<1>10. k # "other"
  BY DEF Kinds, Queued, Flagged, EnabledBy
<1> QED
  BY <1>1, <1>4, <1>5, <1>6, <1>7, <1>8, <1>9, <1>10

-----------------------------------------------------------------------------
(* What of a subnegotiation has been sent.                                 *)

LEMMA HoldsOpening ==
    ASSUME NEW kind \in DOMAIN Opening, NEW s, s = [Silence EXCEPT !.kind = kind]
    PROVE  Holds(s, Opening[kind])
<1> USE DEF VarMark, ValMark, TelQualIs, Gmcp, Msdp, Zmp, Naws, Ttype, Byte
<1>1. s.kind = kind /\ s.parts = <<>> /\ s.text = <<>>
  BY DEF Silence
<1>2. kind \in {"gmcp", "msdp", "zmp_command", "window_size", "terminal_type"}
  BY DEF Opening
<1>3. <<>> \in Seq(Byte) /\ Len(<<>>) = 0
  OBVIOUS
<1>4. CASE kind \in {"gmcp", "window_size", "zmp_command"}
  <2>1. PICK option \in OptionsOf(kind) : Opening[kind] = <<option>> /\ option \in Byte
    BY <1>4 DEF Opening, OptionsOf
  <2>2. Opening[kind] = <<option>> \o <<>>
    BY <2>1
  <2>3. kind = "zmp_command" =>
          \E end : /\ Marks(<<>>, 0, end, Len(s.parts))
                   /\ \A j \in 1..Len(s.parts) : s.parts[j] = SubSeq(<<>>, end[j - 1] + 1, end[j] - 1)
                   /\ s.text = SubSeq(<<>>, end[Len(s.parts)] + 1, Len(<<>>))
    <3> DEFINE end == [j \in 0..0 |-> 0]
    <3>1. Marks(<<>>, 0, end, 0)
      BY NoMark
    <3>2. end[0] = 0
      OBVIOUS
    <3> HIDE DEF end
    <3>3. SubSeq(<<>>, end[0] + 1, Len(<<>>)) = <<>>
      BY <1>3, <3>2, SubSeqEmpty
    <3>4. Len(s.parts) = 0
      BY <1>1, <1>3
    <3>5. /\ Marks(<<>>, 0, end, Len(s.parts))
          /\ \A j \in 1..Len(s.parts) : s.parts[j] = SubSeq(<<>>, end[j - 1] + 1, end[j] - 1)
          /\ s.text = SubSeq(<<>>, end[Len(s.parts)] + 1, Len(<<>>))
      <4> HIDE DEF end
      <4>1. \A j \in 1..Len(s.parts) : FALSE
        BY <3>4
      <4> QED
        BY <1>1, <3>1, <3>3, <3>4, <4>1, Zenon
    <3> QED
      BY <3>5, Zenon
  <2>4. InBody(s, <<>>)
    BY <1>1, <1>4, <2>3 DEF InBody
  <2> QED
    BY <1>1, <1>3, <2>1, <2>2, <2>4 DEF Holds
<1>5. CASE kind = "msdp"
  <2>1. Opening[kind] = <<Msdp>> \o <<VarMark>> /\ <<VarMark>> \in Seq(Byte) /\ <<VarMark>> = <<VarMark>> \o <<>>
    BY <1>5 DEF Opening
  <2>2. s.parts = <<>> /\ <<VarMark>> = <<VarMark>> \o s.text /\ NoValMark(s.text)
    BY <1>1, <1>3, <2>1 DEF NoValMark
  <2>3. InBody(s, <<VarMark>>)
    BY <1>1, <1>5, <2>2, Zenon DEF InBody
  <2> QED
    BY <1>1, <1>5, <2>1, <2>3 DEF Holds, OptionsOf
<1>6. CASE kind = "terminal_type"
  <2>1. Opening[kind] = <<Ttype>> \o <<TelQualIs>> /\ <<TelQualIs>> \in Seq(Byte)
        /\ <<TelQualIs>> = <<TelQualIs>> \o <<>>
    BY <1>6 DEF Opening
  <2>2. InBody(s, <<TelQualIs>>)
    BY <1>1, <1>3, <1>6, <2>1 DEF InBody
  <2> QED
    BY <1>1, <1>6, <2>1, <2>2 DEF Holds, OptionsOf
<1> QED
  BY <1>2, <1>4, <1>5, <1>6

LEMMA HoldsOther ==
    ASSUME NEW option \in Meaningless, NEW s, s = [Silence EXCEPT !.kind = "other"]
    PROVE  Holds(s, <<option>>)
<1>1. s.kind = "other"
  BY DEF Silence
<1>2. <<option>> = <<option>> \o <<>> /\ <<>> \in Seq(Byte)
  BY DEF Meaningless
<1>3. InBody(s, <<>>)
  BY <1>1 DEF InBody
<1> QED
  BY <1>1, <1>2, <1>3 DEF Holds, OptionsOf

LEMMA OptionsAreBytes ==
    ASSUME NEW kind
    PROVE  OptionsOf(kind) \subseteq Byte
  BY DEF OptionsOf, Byte, Meaningless, Gmcp, Msdp, Zmp, Naws, Ttype

LEMMA BodyGrows ==
    ASSUME NEW s \in Sayings, NEW t \in Sayings, s.kind = t.kind, NEW b \in Byte, NEW sb, Holds(s, sb),
           \A body \in Seq(Byte) : InBody(s, body) => InBody(t, Append(body, b))
    PROVE  Holds(t, Append(sb, b))
<1> PICK option \in OptionsOf(s.kind), body \in Seq(Byte) : sb = <<option>> \o body /\ InBody(s, body)
  BY DEF Holds
<1>1. <<option>> \in Seq(Byte)
  BY OptionsAreBytes
<1>2. Append(sb, b) = <<option>> \o Append(body, b)
  BY <1>1, AppendConcat
<1>3. Append(body, b) \in Seq(Byte) /\ InBody(t, Append(body, b))
  BY AppendProperties
<1> QED
  BY <1>2, <1>3 DEF Holds

LEMMA SubSeqOfAppend ==
    ASSUME NEW s \in Seq(Byte), NEW b \in Byte, NEW m \in Nat, m >= 1, NEW n \in Int, n <= Len(s)
    PROVE  SubSeq(Append(s, b), m, n) = SubSeq(s, m, n)
<1>1. Append(s, b) = s \o <<b>> /\ <<b>> \in Seq(Byte)
  BY AppendIsConcat
<1> QED
  BY <1>1, CutPrefix

LEMMA SubSeqToAppend ==
    ASSUME NEW s \in Seq(Byte), NEW b \in Byte, NEW m \in Nat, m >= 1, m <= Len(s) + 1
    PROVE  SubSeq(Append(s, b), m, Len(s) + 1) = Append(SubSeq(s, m, Len(s)), b)
<1> DEFINE t == Append(s, b)
<1>1. t \in Seq(Byte) /\ Len(t) = Len(s) + 1 /\ t[Len(s) + 1] = b /\ Len(s) \in Nat
  BY AppendProperties, LenProperties
<1>2. SubSeq(t, m, Len(s)) = SubSeq(s, m, Len(s))
  BY <1>1, SubSeqOfAppend
<1> HIDE DEF t
<1>3. Append(SubSeq(t, m, Len(s)), t[Len(s) + 1]) = SubSeq(t, m, Len(s) + 1)
  BY <1>1, CutGrows
<1> QED
  BY <1>1, <1>2, <1>3 DEF t

LEMMA AppendToBytes ==
    ASSUME NEW s \in Seq(Byte), NEW t \in Seq(Byte), NEW b \in Byte
    PROVE  Append(s \o t, b) = s \o Append(t, b)
<1>1. Append(s \o t, b) = (s \o t) \o <<b>> /\ Append(t, b) = t \o <<b>>
  BY ConcatProperties, AppendIsConcat
<1>2. <<b>> \in Seq(Byte)
  OBVIOUS
<1> QED
  BY <1>1, <1>2, ConcatAssociative

LEMMA AppendPart ==
    ASSUME NEW s \in Seq(Seq(Byte)), NEW t \in Seq(Byte)
    PROVE  /\ Len(Append(s, t)) = Len(s) + 1 /\ Append(s, t)[Len(s) + 1] = t
           /\ \A j \in 1..Len(s) : Append(s, t)[j] = s[j]
  BY AppendProperties

LEMMA ConsAppend ==
    ASSUME NEW a \in Byte, NEW s \in Seq(Byte), NEW b \in Byte
    PROVE  Append(<<a>> \o s, b) = <<a>> \o Append(s, b)
<1>1. <<a>> \in Seq(Byte)
  OBVIOUS
<1> QED
  BY <1>1, AppendConcat

LEMMA BodyWithByte ==
    ASSUME NEW s \in Sayings, NEW t, NEW b \in Byte,
           s.kind = "msdp" /\ s.parts = <<>> => b # ValMark,
           s.kind = "zmp_command" => b # 0,
           t.kind = s.kind, t.parts = s.parts, t.text = Append(s.text, b),
           NEW body \in Seq(Byte), InBody(s, body)
    PROVE  InBody(t, Append(body, b))
<1>1. t.kind = s.kind /\ t.parts = s.parts /\ t.text = Append(s.text, b)
      /\ s.text \in Seq(Byte) /\ s.parts \in Seq(Seq(Byte))
  BY DEF Sayings
<1>b. VarMark \in Byte /\ ValMark \in Byte /\ TelQualIs \in Byte
  BY DEF TelQualIs, VarMark, ValMark, Byte
<1>a. <<TelQualIs>> \in Seq(Byte) /\ <<VarMark>> \in Seq(Byte) /\ <<ValMark>> \in Seq(Byte)
  BY DEF TelQualIs, VarMark, ValMark, Byte
<1>2. CASE s.kind \notin {"terminal_type", "msdp", "zmp_command"}
  <2>1. s.kind \in {"gmcp", "window_size"} => body = s.text
    BY DEF InBody
  <2> QED
    BY <1>1, <1>2, <2>1 DEF InBody
<1>3. CASE s.kind = "terminal_type"
  <2>1. body = <<TelQualIs>> \o s.text
    BY <1>3 DEF InBody
  <2>2. Append(body, b) = <<TelQualIs>> \o Append(s.text, b)
    BY <1>1, <1>b, <2>1, ConsAppend
  <2> QED
    BY <1>1, <1>3, <2>2 DEF InBody
<1>4. CASE s.kind = "msdp"
  <2>1. ASSUME s.parts = <<>>, body = <<VarMark>> \o s.text, NoValMark(s.text)
        PROVE  InBody(t, Append(body, b))
    <3>1. Append(body, b) = <<VarMark>> \o Append(s.text, b)
      BY <1>1, <1>b, <2>1, ConsAppend
    <3>2. NoValMark(Append(s.text, b))
      <4>1. /\ Len(Append(s.text, b)) = Len(s.text) + 1 /\ Append(s.text, b)[Len(s.text) + 1] = b
            /\ \A i \in 1..Len(s.text) : Append(s.text, b)[i] = s.text[i]
            /\ Len(s.text) \in Nat
        BY <1>1, AppendProperties, LenProperties
      <4>2. b # ValMark
        BY <1>4, <2>1
      <4> DEFINE v == Append(s.text, b)
      <4>3. \A i \in 1..Len(s.text) : s.text[i] # ValMark
        BY <2>1 DEF NoValMark
      <4> HIDE DEF v
      <4>4. ASSUME NEW i \in 1..Len(v)
            PROVE  v[i] # ValMark
        <5>1. i \in 1..Len(s.text) \/ i = Len(s.text) + 1
          BY <4>1 DEF v
        <5>2. CASE i \in 1..Len(s.text)
          BY <4>1, <4>3, <5>2 DEF v
        <5>3. CASE i = Len(s.text) + 1
          BY <4>1, <4>2, <5>3 DEF v
        <5> QED
          BY <5>1, <5>2, <5>3
      <4> QED
        BY <4>4 DEF v, NoValMark
    <3> QED
      BY <1>1, <1>4, <2>1, <3>1, <3>2 DEF InBody
  <2>2. ASSUME NEW name \in Seq(Byte), s.parts = <<name>>, NoValMark(name),
               body = (<<VarMark>> \o name) \o (<<ValMark>> \o s.text)
        PROVE  InBody(t, Append(body, b))
    <3>1. <<VarMark>> \o name \in Seq(Byte) /\ <<ValMark>> \o s.text \in Seq(Byte)
      BY <1>1, <1>a, ConcatProperties
    <3>2. Append(body, b) = (<<VarMark>> \o name) \o Append(<<ValMark>> \o s.text, b)
      <4> DEFINE u == <<VarMark>> \o name
                 v == <<ValMark>> \o s.text
      <4>1. u \in Seq(Byte) /\ v \in Seq(Byte) /\ body = u \o v
        BY <2>2, <3>1
      <4> HIDE DEF u, v
      <4>2. Append(u \o v, b) = u \o Append(v, b)
        BY <4>1, AppendToBytes
      <4> QED
        BY <4>1, <4>2 DEF u, v
    <3>3. Append(<<ValMark>> \o s.text, b) = <<ValMark>> \o Append(s.text, b)
      BY <1>1, <1>b, ConsAppend
    <3> QED
      BY <1>1, <1>4, <2>2, <3>2, <3>3 DEF InBody
  <2> QED
    BY <1>4, <2>1, <2>2 DEF InBody
<1>5. CASE s.kind = "zmp_command"
  <2> DEFINE n == Len(s.parts)
  <2>0. PICK end : /\ Marks(body, 0, end, n)
                   /\ \A j \in 1..n : s.parts[j] = SubSeq(body, end[j - 1] + 1, end[j] - 1)
                   /\ s.text = SubSeq(body, end[n] + 1, Len(body))
    BY <1>5 DEF InBody
  <2>text. s.text = SubSeq(body, end[n] + 1, Len(body))
    BY <2>0, Zenon
  <2>1. n \in Nat /\ Len(body) \in Nat
    BY <1>1, LenProperties
  <2>2. t.parts = s.parts /\ Len(t.parts) = n
    BY <1>1, Zenon
  <2> HIDE DEF n
  <2>3. Marks(Append(body, b), 0, end, n)
    BY <1>5, <2>0, <2>1, MarksGoOn
  <2>4. \A j \in 0..n : end[j] \in 0..Len(body)
    BY <2>0 DEF Marks
  <2>5. ASSUME NEW j \in 1..n
        PROVE  t.parts[j] = SubSeq(Append(body, b), end[j - 1] + 1, end[j] - 1)
    <3>1. end[j - 1] \in 0..Len(body) /\ end[j] \in 0..Len(body)
      <4>1. j - 1 \in 0..n /\ j \in 0..n
        BY <2>1
      <4> QED
        BY <2>4, <4>1
    <3>2. end[j - 1] + 1 \in Nat /\ end[j - 1] + 1 >= 1 /\ end[j] - 1 \in Int /\ end[j] - 1 <= Len(body)
      BY <2>1, <3>1
    <3> QED
      BY <2>0, <2>2, <3>2, SubSeqOfAppend
  <2>6. t.text = SubSeq(Append(body, b), end[n] + 1, Len(Append(body, b)))
    <3>1. end[n] + 1 \in Nat /\ end[n] + 1 >= 1 /\ end[n] + 1 <= Len(body) + 1
      <4>1. end[n] \in 0..Len(body)
        BY <2>1, <2>4
      <4> QED
        BY <2>1, <4>1
    <3>2. Len(Append(body, b)) = Len(body) + 1
      BY AppendProperties
    <3> QED
      <4>1. SubSeq(Append(body, b), end[n] + 1, Len(body) + 1) = Append(SubSeq(body, end[n] + 1, Len(body)), b)
        BY <3>1, SubSeqToAppend
      <4>2. t.text = Append(s.text, b)
        BY <1>1
      <4>3. s.text = SubSeq(body, end[n] + 1, Len(body))
        BY <2>text
      <4> DEFINE c == SubSeq(body, end[n] + 1, Len(body))
                 l == Append(body, b)
      <4> HIDE DEF c, l
      <4>4. SubSeq(l, end[n] + 1, Len(body) + 1) = Append(c, b) /\ s.text = c /\ Len(l) = Len(body) + 1
        BY <3>2, <4>1, <4>3, Zenon DEF c, l
      <4>5. t.text = SubSeq(l, end[n] + 1, Len(l))
        BY <4>2, <4>4, Zenon
      <4> QED
        BY <4>5, Zenon DEF l
  <2> QED
    BY <1>1, <1>5, <2>2, <2>3, <2>5, <2>6 DEF InBody
<1> QED
  BY <1>2, <1>3, <1>4, <1>5

LEMMA BodyWithMark ==
    ASSUME NEW s \in Sayings, NEW t,
           s.kind = "zmp_command" \/ (s.kind = "msdp" /\ s.parts = <<>>),
           t.kind = s.kind, t.parts = Append(s.parts, s.text), t.text = <<>>,
           NEW b, b = (IF s.kind = "msdp" THEN ValMark ELSE 0),
           NEW body \in Seq(Byte), InBody(s, body)
    PROVE  InBody(t, Append(body, b))
<1>1. t.kind = s.kind /\ t.parts = Append(s.parts, s.text) /\ t.text = <<>>
      /\ s.text \in Seq(Byte) /\ s.parts \in Seq(Seq(Byte))
  BY DEF Sayings
<1>a. <<VarMark>> \in Seq(Byte) /\ ValMark \in Byte /\ 0 \in Byte
  BY DEF VarMark, ValMark, Byte
<1>2. CASE s.kind = "msdp"
  <2>1. body = <<VarMark>> \o s.text /\ NoValMark(s.text)
    <3>1. s.parts = <<>> /\ Len(<<>>) = 0
      BY <1>2
    <3>2. \A name : <<name>> # <<>>
      OBVIOUS
    <3> QED
      BY <1>2, <3>1, <3>2, Zenon DEF InBody
  <2>2. t.parts = <<s.text>>
    <3>1. t.parts = Append(<<>>, s.text)
      BY <1>1, <1>2
    <3>2. Append(<<>>, s.text) = <<s.text>>
      OBVIOUS
    <3> QED
      BY <3>1, <3>2, Zenon
  <2>3. <<VarMark>> \o s.text \in Seq(Byte)
    BY <1>1, <1>a, ConcatProperties
  <2>4. Append(body, b) = (<<VarMark>> \o s.text) \o <<ValMark>> /\ <<ValMark>> = <<ValMark>> \o t.text
    <3>1. body \in Seq(Byte) /\ Append(body, ValMark) = body \o <<ValMark>>
      BY <1>a, AppendIsConcat
    <3>2. <<ValMark>> = <<ValMark>> \o <<>>
      OBVIOUS
    <3> QED
      BY <1>1, <1>2, <2>1, <3>1, <3>2, Zenon
  <2>5. Append(body, b) = (<<VarMark>> \o s.text) \o (<<ValMark>> \o t.text)
    BY <2>4
  <2> QED
    BY <1>1, <1>2, <2>1, <2>2, <2>5 DEF InBody
<1>3. CASE s.kind = "zmp_command"
  <2> DEFINE n == Len(s.parts)
             long == Append(body, 0)
  <2>0. PICK end : /\ Marks(body, 0, end, n)
                   /\ \A j \in 1..n : s.parts[j] = SubSeq(body, end[j - 1] + 1, end[j] - 1)
                   /\ s.text = SubSeq(body, end[n] + 1, Len(body))
    BY <1>3 DEF InBody
  <2>text. s.text = SubSeq(body, end[n] + 1, Len(body))
    BY <2>0, Zenon
  <2>1. n \in Nat /\ Len(body) \in Nat
    BY <1>1, LenProperties
  <2>2. /\ Len(t.parts) = n + 1 /\ t.parts[n + 1] = s.text
        /\ \A j \in 1..n : t.parts[j] = s.parts[j]
    <3> DEFINE q == Append(s.parts, s.text)
    <3>1. Len(q) = Len(s.parts) + 1 /\ q[Len(s.parts) + 1] = s.text /\ \A j \in 1..Len(s.parts) : q[j] = s.parts[j]
      BY <1>1, AppendPart
    <3> HIDE DEF q
    <3>2. t.parts = q
      BY <1>1 DEF q
    <3> QED
      BY <3>1, <3>2
  <2> HIDE DEF n
  <2> DEFINE e == NextMark(end, n, Len(body) + 1)
  <2>3. Marks(long, 0, e, n + 1)
    BY <1>a, <2>0, <2>1, MarkIsNext
  <2>4. \A j \in 0..n : end[j] \in 0..Len(body)
    BY <2>0 DEF Marks
  <2>5. e[n + 1] = Len(body) + 1 /\ \A j \in 0..n : e[j] = end[j]
    BY <2>1 DEF NextMark
  <2>6. long \in Seq(Byte) /\ Len(long) = Len(body) + 1
    BY <1>a, AppendProperties
  <2> HIDE DEF e
  <2>7. ASSUME NEW j \in 1..(n + 1)
        PROVE  t.parts[j] = SubSeq(long, e[j - 1] + 1, e[j] - 1)
    <3>1. CASE j = n + 1
      <4>1. end[n] + 1 \in Nat /\ end[n] + 1 >= 1 /\ Len(body) <= Len(body) /\ Len(body) \in Int
        <5>1. end[n] \in 0..Len(body)
          BY <2>1, <2>4
        <5> QED
          BY <2>1, <5>1
      <4>2. SubSeq(long, end[n] + 1, Len(body)) = SubSeq(body, end[n] + 1, Len(body))
        BY <1>a, <4>1, SubSeqOfAppend
      <4>3. e[j - 1] = end[n] /\ e[j] - 1 = Len(body)
        BY <2>1, <2>5, <3>1
      <4> HIDE DEF long
      <4> QED
        <5>1. t.parts[j] = s.text
          BY <2>2, <3>1, Zenon
        <5>2. s.text = SubSeq(body, end[n] + 1, Len(body))
          BY <2>text
        <5>3. SubSeq(long, e[j - 1] + 1, e[j] - 1) = SubSeq(long, end[n] + 1, Len(body))
          BY <4>3, Zenon
        <5> QED
          BY <4>2, <5>1, <5>2, <5>3, Zenon
    <3>2. CASE j \in 1..n
      <4>1. end[j - 1] + 1 \in Nat /\ end[j - 1] + 1 >= 1 /\ end[j] - 1 \in Int /\ end[j] - 1 <= Len(body)
        <5>1. j - 1 \in 0..n /\ j \in 0..n
          BY <2>1, <3>2
        <5>2. end[j - 1] \in 0..Len(body) /\ end[j] \in 0..Len(body)
          BY <2>4, <5>1
        <5> QED
          BY <2>1, <5>2
      <4>2. SubSeq(long, end[j - 1] + 1, end[j] - 1) = SubSeq(body, end[j - 1] + 1, end[j] - 1)
        BY <1>a, <4>1, SubSeqOfAppend
      <4>3. e[j - 1] = end[j - 1] /\ e[j] = end[j]
        BY <2>1, <2>5, <3>2
      <4> HIDE DEF long
      <4> QED
        BY <2>0, <2>2, <3>2, <4>2, <4>3
    <3>3. j = n + 1 \/ j \in 1..n
      BY <2>1
    <3> QED
      BY <3>1, <3>2, <3>3
  <2>8. t.text = SubSeq(long, e[n + 1] + 1, Len(long))
    <3>1. SubSeq(long, e[n + 1] + 1, Len(long)) = <<>>
      BY <2>1, <2>5, <2>6, SubSeqEmpty
    <3> QED
      BY <1>1, <3>1
  <2>9. Append(body, b) = long
    BY <1>3
  <2> HIDE DEF long
  <2> QED
    BY <1>1, <1>3, <2>2, <2>3, <2>7, <2>8, <2>9 DEF InBody
<1> QED
  BY <1>2, <1>3

-----------------------------------------------------------------------------
(* What the bytes of a text or of a command make of the parser.            *)

Message == Seq(Byte) \cup (Seq(Byte) \X (Seq(Byte) \cup Seq(Seq(Byte)))) \cup (Nat \X Nat)
Histories == [Kinds -> Seq(Message)]

LEMMA LongerSelf ==
    ASSUME NEW S, NEW s \in Seq(S)
    PROVE  Longer(s, s)
  BY LenProperties DEF Longer

LEMMA LongerConcat ==
    ASSUME NEW S, NEW s \in Seq(S), NEW t \in Seq(S)
    PROVE  Longer(s, s \o t)
<1>1. Len(s) \in Nat /\ Len(t) \in Nat
  BY LenProperties
<1>2. Len(s \o t) = Len(s) + Len(t)
  BY ConcatProperties
<1>3. \A i \in 1..Len(s) : (s \o t)[i] = s[i]
  BY <1>1, ConcatProperties
<1> QED
  BY <1>1, <1>2, <1>3 DEF Longer

LEMMA LongerAppend ==
    ASSUME NEW S, NEW s \in Seq(S), NEW e \in S
    PROVE  Longer(s, Append(s, e))
  BY LenProperties, AppendProperties DEF Longer

(* A byte that is neither text nor the end of a message. *)
Quiet(p, b) == ~IsText(p.state, b) /\ \A k \in Kinds : Gives(k, p.state, p.sb, b) = <<>>

LEMMA QuietByte ==
    ASSUME NEW s \in Seq(Byte), NEW text \in Seq(Byte), NEW msgs \in Histories,
           NEW n, NEW r, NEW p, NEW b \in Byte, Reached(s, text, msgs, n, r, p), Quiet(p, b)
    PROVE  \E q \in Parsers : /\ Reached(Append(s, b), text, msgs, n, r, q)
                              /\ q.state = StateAfter(p.state, b) /\ q.sb = SbAfter(p.state, p.sb, b)
                              /\ q.chars = p.chars /\ \A k \in Kinds : q.said[k] = p.said[k]
<1>1. p \in Parsers
  BY ReachedTyped
<1>2. Fits(p, b, text, msgs)
  BY DEF Fits, Quiet
<1>3. Longer(text, text) /\ \A k \in Kinds : Longer(msgs[k], msgs[k])
  BY LongerSelf DEF Histories
<1>4. msgs \in [Kinds -> Seq(Message)]
  BY DEF Histories
<1>5. Reached(Append(s, b), text, msgs, n, r, After(p, b))
  BY <1>2, <1>3, <1>4, OneMoreByte
<1>6. After(p, b) \in Parsers
  BY <1>1, AfterTyped
<1>7. /\ After(p, b).state = StateAfter(p.state, b) /\ After(p, b).sb = SbAfter(p.state, p.sb, b)
      /\ After(p, b).chars = p.chars /\ \A k \in Kinds : After(p, b).said[k] = p.said[k]
  BY AfterFields DEF Quiet
<1> QED
  BY <1>5, <1>6, <1>7

(* The last byte of a byte of text. *)
LEMMA TextByte ==
    ASSUME NEW s \in Seq(Byte), NEW text \in Seq(Byte), NEW msgs \in Histories,
           NEW n, NEW r, NEW p, NEW b \in Byte, Reached(s, text, msgs, n, r, p),
           IsText(p.state, b), p.chars = Len(text)
    PROVE  \E q \in Parsers : /\ Reached(Append(s, b), Append(text, b), msgs, n, r, q)
                              /\ q.state = "Data"
                              /\ q.chars = Len(text) + 1 /\ \A k \in Kinds : q.said[k] = p.said[k]
<1>1. p \in Parsers
  BY ReachedTyped
<1>2. \A k \in Kinds : Gives(k, p.state, p.sb, b) = <<>>
  BY DEF IsText, Gives
<1>3. /\ Append(text, b) \in Seq(Byte) /\ Len(Append(text, b)) = Len(text) + 1
      /\ Append(text, b)[Len(text) + 1] = b /\ Len(text) \in Nat
  BY AppendProperties, LenProperties
<1>4. Fits(p, b, Append(text, b), msgs)
  BY <1>2, <1>3 DEF Fits
<1>5. Longer(text, Append(text, b)) /\ \A k \in Kinds : Longer(msgs[k], msgs[k])
  BY LongerSelf, LongerAppend DEF Histories
<1>6. msgs \in [Kinds -> Seq(Message)]
  BY DEF Histories
<1>7. Reached(Append(s, b), Append(text, b), msgs, n, r, After(p, b))
  BY <1>3, <1>4, <1>5, <1>6, OneMoreByte
<1>8. After(p, b) \in Parsers
  BY <1>1, AfterTyped
<1>9. After(p, b).state = "Data"
  BY AfterFields DEF IsText, StateAfter, StateAfterIac, Iac, Will, Wont, Do, Dont, Sb
<1>10. After(p, b).chars = Len(text) + 1 /\ \A k \in Kinds : After(p, b).said[k] = p.said[k]
  BY <1>2, AfterFields
<1> QED
  BY <1>7, <1>8, <1>9, <1>10

(* The last byte of messages, at most one of each kind. *)
Given(new, p, b) ==
    /\ \A k \in Kinds : new[k] = Gives(k, p.state, p.sb, b)
    /\ \A k \in Kinds : new[k] = <<>> \/ \E x \in Message : new[k] = <<x>>
    /\ new["line"] = <<>>
Joined(msgs2, msgs, new) == \A k \in Kinds : msgs2[k] = msgs[k] \o new[k]
Counted(p, msgs) == \A k \in Kinds \ {"line"} : p.said[k] = Len(msgs[k])

LEMMA MessageByte ==
    ASSUME NEW s \in Seq(Byte), NEW text \in Seq(Byte), NEW msgs \in Histories, NEW msgs2 \in Histories,
           NEW n, NEW r, NEW p, NEW b \in Byte, Reached(s, text, msgs, n, r, p),
           ~IsText(p.state, b), NEW new, Given(new, p, b), Joined(msgs2, msgs, new), Counted(p, msgs)
    PROVE  \E q \in Parsers : /\ Reached(Append(s, b), text, msgs2, n, r, q)
                              /\ q.state = StateAfter(p.state, b) /\ q.chars = p.chars
                              /\ Counted(q, msgs2)
<1>1. p \in Parsers
  BY ReachedTyped
<1>2. \A k \in Kinds : msgs[k] \in Seq(Message) /\ msgs2[k] \in Seq(Message) /\ new[k] \in Seq(Message)
  <2> TAKE k \in Kinds
  <2>1. new[k] = <<>> \/ \E x \in Message : new[k] = <<x>>
    BY DEF Given
  <2>2. <<>> \in Seq(Message) /\ \A x \in Message : <<x>> \in Seq(Message)
    OBVIOUS
  <2>3. new[k] \in Seq(Message)
    BY <2>1, <2>2, Zenon
  <2> QED
    BY <2>3 DEF Histories
<1>3. ASSUME NEW k \in Kinds
      PROVE  Longer(msgs[k], msgs2[k])
  <2>1. Longer(msgs[k], msgs[k] \o new[k])
    BY <1>2, LongerConcat
  <2> QED
    BY <2>1 DEF Joined
<1>4. ASSUME NEW k \in Kinds \ {"line"}
      PROVE  /\ Gives(k, p.state, p.sb, b) # <<>> =>
                   /\ p.said[k] < Len(msgs2[k])
                   /\ Gives(k, p.state, p.sb, b) = <<msgs2[k][p.said[k] + 1]>>
             /\ After(p, b).said[k] = Len(msgs2[k])
  <2>1. p.said[k] = Len(msgs[k]) /\ Len(msgs[k]) \in Nat /\ new[k] = Gives(k, p.state, p.sb, b)
        /\ msgs2[k] = msgs[k] \o new[k]
    BY <1>2, LenProperties DEF Given, Joined, Counted
  <2>2. After(p, b).said[k] = IF new[k] = <<>> THEN p.said[k] ELSE p.said[k] + 1
    BY <2>1, AfterFields
  <2>3. CASE new[k] = <<>>
    <3>1. msgs2[k] = msgs[k]
      BY <1>2, <2>1, <2>3, ConcatEmptySeq
    <3> QED
      BY <2>1, <2>2, <2>3, <3>1
  <2>4. CASE new[k] # <<>>
    <3>1. PICK x \in Message : new[k] = <<x>>
      BY <2>4 DEF Given
    <3>2. <<x>> \in Seq(Message) /\ Len(<<x>>) = 1 /\ <<x>>[1] = x
      OBVIOUS
    <3>3. msgs2[k] = Append(msgs[k], x)
      <4>1. Append(msgs[k], x) = msgs[k] \o <<x>>
        BY <1>2, AppendIsConcat
      <4> QED
        BY <2>1, <3>1, <4>1, Zenon
    <3>4. Len(Append(msgs[k], x)) = Len(msgs[k]) + 1 /\ Append(msgs[k], x)[Len(msgs[k]) + 1] = x
      BY <1>2, AppendProperties
    <3>5. Len(msgs2[k]) = p.said[k] + 1 /\ msgs2[k][p.said[k] + 1] = x
      BY <2>1, <3>3, <3>4, Zenon
    <3>6. p.said[k] < Len(msgs2[k]) /\ After(p, b).said[k] = Len(msgs2[k])
      BY <2>1, <2>2, <2>4, <3>5
    <3> QED
      BY <2>1, <3>1, <3>5, <3>6, Zenon
  <2> QED
    BY <2>3, <2>4
<1>5. Gives("line", p.state, p.sb, b) = <<>>
  BY DEF Kinds, Queued, Given
<1>6. Fits(p, b, text, msgs2)
  BY <1>4, <1>5 DEF Fits
<1>7. Longer(text, text)
  BY LongerSelf
<1>8. msgs \in [Kinds -> Seq(Message)] /\ msgs2 \in [Kinds -> Seq(Message)]
  BY DEF Histories
<1>9. Reached(Append(s, b), text, msgs2, n, r, After(p, b))
  BY <1>3, <1>6, <1>7, <1>8, OneMoreByte
<1>10. After(p, b) \in Parsers
  BY <1>1, AfterTyped
<1>11. After(p, b).state = StateAfter(p.state, b) /\ After(p, b).chars = p.chars
  BY AfterFields
<1>12. Counted(After(p, b), msgs2)
  BY <1>4 DEF Counted
<1> QED
  BY <1>9, <1>10, <1>11, <1>12

LEMMA Concat1 ==
    ASSUME NEW s \in Seq(Byte), NEW a \in Byte
    PROVE  s \o <<a>> = Append(s, a) /\ Append(s, a) \in Seq(Byte)
  BY AppendIsConcat, AppendProperties

LEMMA Concat2 ==
    ASSUME NEW s \in Seq(Byte), NEW a \in Byte, NEW b \in Byte
    PROVE  s \o <<a, b>> = Append(Append(s, a), b) /\ Append(Append(s, a), b) \in Seq(Byte)
<1>1. <<a, b>> = Append(<<a>>, b) /\ <<a>> \in Seq(Byte)
  OBVIOUS
<1>2. Append(s \o <<a>>, b) = s \o Append(<<a>>, b)
  BY <1>1, AppendToBytes
<1> QED
  BY <1>1, <1>2, Concat1

LEMMA Concat3 ==
    ASSUME NEW s \in Seq(Byte), NEW a \in Byte, NEW b \in Byte, NEW c \in Byte
    PROVE  /\ s \o <<a, b, c>> = Append(Append(Append(s, a), b), c)
           /\ Append(Append(Append(s, a), b), c) \in Seq(Byte)
<1>1. <<a, b, c>> = Append(<<a, b>>, c) /\ <<a, b>> \in Seq(Byte)
  OBVIOUS
<1>2. Append(s \o <<a, b>>, c) = s \o Append(<<a, b>>, c)
  BY <1>1, AppendToBytes
<1> QED
  BY <1>1, <1>2, Concat1, Concat2

LEMMA Concat4 ==
    ASSUME NEW s \in Seq(Byte), NEW a \in Byte, NEW b \in Byte, NEW c \in Byte, NEW d \in Byte
    PROVE  /\ s \o <<a, b, c, d>> = Append(Append(Append(Append(s, a), b), c), d)
           /\ Append(Append(Append(Append(s, a), b), c), d) \in Seq(Byte)
<1>1. <<a, b, c, d>> = Append(<<a, b, c>>, d) /\ <<a, b, c>> \in Seq(Byte)
  OBVIOUS
<1>2. Append(s \o <<a, b, c>>, d) = s \o Append(<<a, b, c>>, d)
  BY <1>1, AppendToBytes
<1> QED
  BY <1>1, <1>2, Concat1, Concat3

LEMMA Tuple2 ==
    ASSUME NEW a \in Byte, NEW b \in Byte
    PROVE  Append(<<>>, a) = <<a>> /\ Append(<<a>>, b) = <<a, b>> /\ <<a, b>> \in Seq(Byte)
<1>1. <<a>> = Append(<<>>, a) /\ <<>> \in Seq(Byte)
  OBVIOUS
<1>2. <<a, b>> = Append(<<a>>, b) /\ <<a>> \in Seq(Byte)
  OBVIOUS
<1>3. Append(<<a>>, b) \in Seq(Byte)
  BY <1>2, AppendProperties
<1> QED
  BY <1>1, <1>2, <1>3, Zenon

LEMMA Tuple3 ==
    ASSUME NEW a \in Byte, NEW b \in Byte, NEW c \in Byte
    PROVE  Append(<<a, b>>, c) = <<a, b, c>> /\ <<a, b>> \o <<c>> = <<a, b, c>>
<1>1. <<a, b, c>> = Append(<<a, b>>, c) /\ <<a, b>> \in Seq(Byte)
  OBVIOUS
<1>2. <<a, b>> \o <<c>> = Append(<<a, b>>, c)
  BY Tuple2, Concat1
<1> QED
  BY <1>1, <1>2, Zenon

LEMMA Tuple4 ==
    ASSUME NEW a \in Byte, NEW b \in Byte, NEW c \in Byte, NEW d \in Byte
    PROVE  <<a, b>> \o <<c, d>> = <<a, b, c, d>>
<1>1. <<a, b, c, d>> = Append(<<a, b, c>>, d) /\ <<a, b, c>> \in Seq(Byte)
  OBVIOUS
<1>2. <<a, b>> \o <<c, d>> = Append(Append(<<a, b>>, c), d)
  BY Tuple2, Concat2
<1> QED
  BY <1>1, <1>2, Tuple3, Zenon

Still(p, q) == q.chars = p.chars /\ \A k \in Kinds : q.said[k] = p.said[k]

LEMMA TextSent ==
    ASSUME NEW s \in Seq(Byte), NEW text \in Seq(Byte), NEW msgs \in Histories,
           NEW n, NEW r, NEW p, NEW b \in Byte, Reached(s, text, msgs, n, r, p),
           p.state = "Data", p.chars = Len(text)
    PROVE  /\ s \o Escaped(b) \in Seq(Byte)
           /\ \E q \in Parsers : /\ Reached(s \o Escaped(b), Append(text, b), msgs, n, r, q)
                                 /\ q.state = "Data"
                                 /\ q.chars = Len(text) + 1 /\ \A k \in Kinds : q.said[k] = p.said[k]
<1>1. CASE b # Iac
  <2>1. s \o Escaped(b) = Append(s, b) /\ Append(s, b) \in Seq(Byte)
    BY <1>1, Concat1 DEF Escaped
  <2>2. IsText(p.state, b)
    BY <1>1 DEF IsText
  <2> QED
    BY <2>1, <2>2, TextByte
<1>2. CASE b = Iac
  <2>1. /\ s \o Escaped(b) = Append(Append(s, Iac), Iac)
        /\ Append(s, Iac) \in Seq(Byte) /\ Append(Append(s, Iac), Iac) \in Seq(Byte)
    BY <1>2, Concat1, Concat2 DEF Escaped
  <2>2. Quiet(p, b) /\ StateAfter(p.state, b) = "Iac"
    BY <1>2 DEF Quiet, IsText, Gives, StateAfter
  <2>3. PICK q \in Parsers : /\ Reached(Append(s, b), text, msgs, n, r, q)
                             /\ q.state = "Iac" /\ q.chars = p.chars /\ \A k \in Kinds : q.said[k] = p.said[k]
    BY <2>2, QuietByte
  <2>4. IsText(q.state, b) /\ q.chars = Len(text)
    BY <1>2, <2>3 DEF IsText
  <2> DEFINE s2 == Append(s, b)
  <2>7. s2 \in Seq(Byte) /\ Reached(s2, text, msgs, n, r, q)
    BY <1>2, <2>1, <2>3
  <2> HIDE DEF s2
  <2>5. PICK u \in Parsers : /\ Reached(Append(s2, b), Append(text, b), msgs, n, r, u)
                             /\ u.state = "Data"
                             /\ u.chars = Len(text) + 1 /\ \A k \in Kinds : u.said[k] = q.said[k]
    BY <2>4, <2>7, TextByte
  <2>6. \A k \in Kinds : u.said[k] = p.said[k]
    BY <2>3, <2>5
  <2>8. s \o Escaped(b) = Append(s2, b)
    BY <1>2, <2>1 DEF s2
  <2> QED
    BY <1>2, <2>1, <2>5, <2>6, <2>8
<1> QED
  BY <1>1, <1>2

(* A command: IAC and one byte c. *)
LEMMA IacSent ==
    ASSUME NEW s \in Seq(Byte), NEW text \in Seq(Byte), NEW msgs \in Histories,
           NEW n, NEW r, NEW p, NEW c \in Byte, Reached(s, text, msgs, n, r, p),
           p.state = "Data", c # Iac
    PROVE  \E q \in Parsers : /\ Reached(Append(Append(s, Iac), c), text, msgs, n, r, q)
                              /\ q.state = StateAfterIac(c) /\ Still(p, q)
                              /\ c = Sb => q.sb = <<>>
<1>0. Iac \in Byte
  BY DEF Iac, Byte
<1>1. Append(s, Iac) \in Seq(Byte)
  BY <1>0, Concat1
<1>2. Quiet(p, Iac) /\ StateAfter(p.state, Iac) = "Iac"
  BY DEF Quiet, IsText, Gives, StateAfter
<1>3. PICK q \in Parsers : /\ Reached(Append(s, Iac), text, msgs, n, r, q)
                           /\ q.state = "Iac" /\ q.chars = p.chars /\ \A k \in Kinds : q.said[k] = p.said[k]
  BY <1>0, <1>2, QuietByte
<1>4. /\ Quiet(q, c) /\ StateAfter(q.state, c) = StateAfterIac(c)
      /\ c = Sb => SbAfter(q.state, q.sb, c) = <<>>
  BY <1>3 DEF Quiet, IsText, Gives, StateAfter, SbAfter
<1> DEFINE s2 == Append(s, Iac)
<1>6. s2 \in Seq(Byte) /\ Reached(s2, text, msgs, n, r, q)
  BY <1>1, <1>3
<1> HIDE DEF s2
<1>5. PICK u \in Parsers : /\ Reached(Append(s2, c), text, msgs, n, r, u)
                           /\ u.state = StateAfter(q.state, c) /\ u.sb = SbAfter(q.state, q.sb, c)
                           /\ u.chars = q.chars /\ \A k \in Kinds : u.said[k] = q.said[k]
  BY <1>4, <1>6, QuietByte
<1>7. u.state = StateAfterIac(c) /\ Still(p, u) /\ (c = Sb => u.sb = <<>>)
  BY <1>3, <1>4, <1>5 DEF Still
<1> QED
  BY <1>5, <1>7 DEF s2

LEMMA CommandSent ==
    ASSUME NEW s \in Seq(Byte), NEW text \in Seq(Byte), NEW msgs \in Histories,
           NEW n, NEW r, NEW p, NEW c \in Byte \ {Iac, Will, Wont, Do, Dont, Sb},
           Reached(s, text, msgs, n, r, p), p.state = "Data"
    PROVE  /\ s \o <<Iac, c>> \in Seq(Byte)
           /\ \E q \in Parsers : /\ Reached(s \o <<Iac, c>>, text, msgs, n, r, q)
                                 /\ q.state = "Data" /\ Still(p, q)
<1>0. c \in Byte /\ c # Iac /\ c # Sb /\ Iac \in Byte
  BY DEF Iac, Byte
<1>1. s \o <<Iac, c>> = Append(Append(s, Iac), c) /\ Append(Append(s, Iac), c) \in Seq(Byte)
  BY <1>0, Concat2
<1>2. StateAfterIac(c) = "Data"
  BY DEF StateAfterIac
<1>3. PICK q \in Parsers : /\ Reached(Append(Append(s, Iac), c), text, msgs, n, r, q)
                           /\ q.state = StateAfterIac(c) /\ Still(p, q)
  BY <1>0, IacSent
<1> QED
  BY <1>1, <1>2, <1>3

(* IAC SB and one or two bytes. *)
OpeningParsed(s2, text, msgs, n, r, p, bytes) ==
    \E q \in Parsers : Reached(s2, text, msgs, n, r, q) /\ q.state = "Sb" /\ q.sb = bytes /\ Still(p, q)

LEMMA OpeningSent ==
    ASSUME NEW s \in Seq(Byte), NEW text \in Seq(Byte), NEW msgs \in Histories,
           NEW n, NEW r, NEW p, NEW bytes, NEW a \in Byte \ {Iac}, NEW b \in Byte \ {Iac},
           bytes = <<a>> \/ bytes = <<a, b>>,
           Reached(s, text, msgs, n, r, p), p.state = "Data"
    PROVE  /\ s \o (<<Iac, Sb>> \o bytes) \in Seq(Byte)
           /\ OpeningParsed(s \o (<<Iac, Sb>> \o bytes), text, msgs, n, r, p, bytes)
<1>0. Iac \in Byte /\ Sb \in Byte /\ Sb # Iac /\ StateAfterIac(Sb) = "Sb"
  BY DEF Iac, Sb, Byte, StateAfterIac, Will, Wont, Do, Dont
<1> DEFINE s2 == Append(Append(s, Iac), Sb)
<1>1. s2 \in Seq(Byte)
  BY <1>0, Concat2
<1>2. PICK q \in Parsers : /\ Reached(s2, text, msgs, n, r, q) /\ q.state = "Sb" /\ Still(p, q) /\ q.sb = <<>>
  BY <1>0, IacSent
<1> HIDE DEF s2
<1>3. Quiet(q, a) /\ StateAfter(q.state, a) = "Sb" /\ SbAfter(q.state, q.sb, a) = <<a>>
  <2>1. Append(<<>>, a) = <<a>>
    BY Tuple2
  <2> QED
    BY <1>2, <2>1 DEF Quiet, IsText, Gives, StateAfter, SbAfter
<1>4. PICK u \in Parsers : /\ Reached(Append(s2, a), text, msgs, n, r, u) /\ u.state = "Sb" /\ u.sb = <<a>>
                           /\ u.chars = q.chars /\ \A k \in Kinds : u.said[k] = q.said[k]
  BY <1>1, <1>2, <1>3, QuietByte
<1>5. Append(s2, a) \in Seq(Byte) /\ Still(p, u)
  BY <1>1, <1>2, <1>4, Concat1 DEF Still
<1>6. CASE bytes = <<a>>
  <2>1. s \o (<<Iac, Sb>> \o bytes) = Append(s2, a)
    <3>1. <<Iac, Sb>> \o <<a>> = <<Iac, Sb, a>>
      BY <1>0, Tuple3
    <3>2. s \o <<Iac, Sb, a>> = Append(s2, a)
      BY <1>0, Concat3 DEF s2
    <3> QED
      BY <1>6, <3>1, <3>2
  <2> QED
    BY <1>4, <1>5, <1>6, <2>1 DEF OpeningParsed
<1>7. CASE bytes = <<a, b>>
  <2>1. s \o (<<Iac, Sb>> \o bytes) = Append(Append(s2, a), b) /\ Append(Append(s2, a), b) \in Seq(Byte)
    <3>0. a \in Byte /\ b \in Byte
      OBVIOUS
    <3>1. <<Iac, Sb>> \o <<a, b>> = <<Iac, Sb, a, b>>
      <4>1. Iac \in Byte /\ Sb \in Byte
        BY <1>0
      <4> QED
        BY <3>0, <4>1, Tuple4
    <3>2. s \o <<Iac, Sb, a, b>> = Append(Append(s2, a), b)
      BY <1>0, Concat4 DEF s2
    <3>3. Append(Append(s2, a), b) \in Seq(Byte)
      BY <1>5, Concat1
    <3> QED
      BY <1>7, <3>1, <3>2, <3>3
  <2>2. Quiet(u, b) /\ StateAfter(u.state, b) = "Sb" /\ SbAfter(u.state, u.sb, b) = <<a, b>>
    <3>1. Append(<<a>>, b) = <<a, b>>
      BY Tuple2
    <3> QED
      BY <1>4, <3>1 DEF Quiet, IsText, Gives, StateAfter, SbAfter
  <2> DEFINE s3 == Append(s2, a)
  <2>5. s3 \in Seq(Byte) /\ Reached(s3, text, msgs, n, r, u)
    BY <1>4, <1>5
  <2> HIDE DEF s3
  <2>6. PICK v \in Parsers : /\ Reached(Append(s3, b), text, msgs, n, r, v)
                             /\ v.state = StateAfter(u.state, b) /\ v.sb = SbAfter(u.state, u.sb, b)
                             /\ v.chars = u.chars /\ \A k \in Kinds : v.said[k] = u.said[k]
    BY <2>2, <2>5, QuietByte
  <2>3. /\ Reached(Append(Append(s2, a), b), text, msgs, n, r, v) /\ v.state = "Sb" /\ v.sb = <<a, b>>
        /\ v.chars = u.chars /\ \A k \in Kinds : v.said[k] = u.said[k]
    BY <2>2, <2>6 DEF s3
  <2>4. Still(p, v)
    BY <1>5, <2>3 DEF Still
  <2> QED
    BY <1>7, <2>1, <2>3, <2>4 DEF OpeningParsed
<1> QED
  BY <1>6, <1>7

(* A byte of a subnegotiation, escaped. *)
LEMMA ByteSent ==
    ASSUME NEW s \in Seq(Byte), NEW text \in Seq(Byte), NEW msgs \in Histories,
           NEW n, NEW r, NEW p, NEW b \in Byte, Reached(s, text, msgs, n, r, p),
           p.state = "Sb"
    PROVE  /\ s \o Escaped(b) \in Seq(Byte)
           /\ \E q \in Parsers : /\ Reached(s \o Escaped(b), text, msgs, n, r, q)
                                 /\ q.state = "Sb" /\ q.sb = Append(p.sb, b) /\ Still(p, q)
<1>1. CASE b # Iac
  <2>1. s \o Escaped(b) = Append(s, b) /\ Append(s, b) \in Seq(Byte)
    BY <1>1, Concat1 DEF Escaped
  <2>2. Quiet(p, b) /\ StateAfter(p.state, b) = "Sb" /\ SbAfter(p.state, p.sb, b) = Append(p.sb, b)
    BY <1>1 DEF Quiet, IsText, Gives, StateAfter, SbAfter
  <2> QED
    BY <2>1, <2>2, QuietByte DEF Still
<1>2. CASE b = Iac
  <2>1. /\ s \o Escaped(b) = Append(Append(s, Iac), Iac)
        /\ Append(s, Iac) \in Seq(Byte) /\ Append(Append(s, Iac), Iac) \in Seq(Byte)
    BY <1>2, Concat1, Concat2 DEF Escaped
  <2>2. Quiet(p, b) /\ StateAfter(p.state, b) = "SbIac" /\ SbAfter(p.state, p.sb, b) = p.sb
    BY <1>2 DEF Quiet, IsText, Gives, StateAfter, SbAfter
  <2>3. PICK q \in Parsers : /\ Reached(Append(s, b), text, msgs, n, r, q) /\ q.state = "SbIac" /\ q.sb = p.sb
                             /\ q.chars = p.chars /\ \A k \in Kinds : q.said[k] = p.said[k]
    BY <2>2, QuietByte
  <2>4. Quiet(q, b) /\ StateAfter(q.state, b) = "Sb" /\ SbAfter(q.state, q.sb, b) = Append(q.sb, b)
    BY <1>2, <2>3 DEF Quiet, IsText, Gives, StateAfter, SbAfter, Iac, Se
  <2> DEFINE s2 == Append(s, b)
  <2>7. s2 \in Seq(Byte) /\ Reached(s2, text, msgs, n, r, q)
    BY <1>2, <2>1, <2>3
  <2>8. s \o Escaped(b) = Append(s2, b) /\ Append(s2, b) \in Seq(Byte)
    BY <1>2, <2>1
  <2> HIDE DEF s2
  <2>5. PICK u \in Parsers : /\ Reached(Append(s2, b), text, msgs, n, r, u)
                             /\ u.state = StateAfter(q.state, b) /\ u.sb = SbAfter(q.state, q.sb, b)
                             /\ u.chars = q.chars /\ \A k \in Kinds : u.said[k] = q.said[k]
    BY <2>4, <2>7, QuietByte
  <2>6. Still(p, u) /\ u.state = "Sb" /\ u.sb = Append(p.sb, b)
    BY <2>3, <2>4, <2>5 DEF Still
  <2> QED
    BY <2>5, <2>6, <2>8
<1> QED
  BY <1>1, <1>2

LEMMA AbandonSent ==
    ASSUME NEW s \in Seq(Byte), NEW text \in Seq(Byte), NEW msgs \in Histories,
           NEW n, NEW r, NEW p, NEW c \in Byte \ {Iac, Se}, Reached(s, text, msgs, n, r, p),
           p.state = "Sb"
    PROVE  /\ s \o <<Iac, c>> \in Seq(Byte)
           /\ \E q \in Parsers : /\ Reached(s \o <<Iac, c>>, text, msgs, n, r, q)
                                 /\ q.state = "Data" /\ Still(p, q)
<1>0. Iac \in Byte
  BY DEF Iac, Byte
<1>1. s \o <<Iac, c>> = Append(Append(s, Iac), c) /\ Append(Append(s, Iac), c) \in Seq(Byte)
      /\ Append(s, Iac) \in Seq(Byte)
  BY <1>0, Concat1, Concat2
<1>2. Quiet(p, Iac) /\ StateAfter(p.state, Iac) = "SbIac"
  BY DEF Quiet, IsText, Gives, StateAfter
<1>3. PICK q \in Parsers : /\ Reached(Append(s, Iac), text, msgs, n, r, q) /\ q.state = "SbIac"
                           /\ q.chars = p.chars /\ \A k \in Kinds : q.said[k] = p.said[k]
  BY <1>0, <1>2, QuietByte
<1>4. Quiet(q, c) /\ StateAfter(q.state, c) = "Data"
  BY <1>3 DEF Quiet, IsText, Gives, StateAfter
<1> DEFINE s2 == Append(s, Iac)
<1>6. s2 \in Seq(Byte) /\ Reached(s2, text, msgs, n, r, q) /\ s \o <<Iac, c>> = Append(s2, c)
  BY <1>1, <1>3
<1> HIDE DEF s2
<1>5. PICK u \in Parsers : /\ Reached(Append(s2, c), text, msgs, n, r, u) /\ u.state = StateAfter(q.state, c)
                           /\ u.chars = q.chars /\ \A k \in Kinds : u.said[k] = q.said[k]
  BY <1>4, <1>6, QuietByte
<1>7. u.state = "Data" /\ Still(p, u)
  BY <1>3, <1>4, <1>5 DEF Still
<1> QED
  BY <1>1, <1>5, <1>6, <1>7

-----------------------------------------------------------------------------
(* The sender: the ideal parser that has read all that was sent is where    *)
(* the sender is.                                                          *)

(* text is the lines, each with its mark, and then line. *)
Lines(text, ends, lines, line) ==
    /\ Marks(text, LF, ends, Len(lines))
    /\ \A j \in 1..Len(lines) : lines[j] = WithoutCR(SubSeq(text, ends[j - 1] + 1, ends[j] - 1))
    /\ line = SubSeq(text, ends[Len(lines)] + 1, Len(text))

PeerLink(text, ends, p, line, s, msgs) ==
    /\ p.chars = Len(text)
    /\ \A k \in Kinds \ {"line"} : p.said[k] = Len(msgs[k])
    /\ p.state = IF s.kind = "none" THEN "Data" ELSE "Sb"
    /\ s.kind # "none" => Holds(s, p.sb)
    /\ Lines(text, ends, msgs["line"], line)

(* What was sent is not changed by what is sent later. *)
Extends(text, ends, msgs, text2, ends2, msgs2) ==
    /\ Longer(text, text2)
    /\ \A k \in Kinds : Longer(msgs[k], msgs2[k])
    /\ \A j \in 0..Len(msgs["line"]) : ends2[j] = ends[j]

LEMMA ExtendsSelf ==
    ASSUME NEW text \in Seq(Byte), NEW ends, NEW msgs \in Histories, NEW text2 \in Seq(Byte), Longer(text, text2)
    PROVE  Extends(text, ends, msgs, text2, ends, msgs)
<1>1. \A k \in Kinds : Longer(msgs[k], msgs[k])
  BY LongerSelf DEF Histories
<1> QED
  BY <1>1 DEF Extends

LEMMA LinesWithByte ==
    ASSUME NEW text \in Seq(Byte), NEW ends, NEW lines \in Seq(Message), NEW line \in Seq(Byte),
           Lines(text, ends, lines, line), NEW b \in Byte, b # LF
    PROVE  Lines(Append(text, b), ends, lines, Append(line, b))
<1> DEFINE n == Len(lines)
           long == Append(text, b)
<1>1. n \in Nat /\ Len(text) \in Nat
  BY LenProperties
<1>2. /\ Marks(text, LF, ends, n)
      /\ \A j \in 1..n : lines[j] = WithoutCR(SubSeq(text, ends[j - 1] + 1, ends[j] - 1))
  BY DEF Lines
<1>3. line = SubSeq(text, ends[n] + 1, Len(text))
  BY DEF Lines
<1> HIDE DEF n
<1>4. Marks(long, LF, ends, n)
  BY <1>1, <1>2, MarksGoOn
<1>5. \A j \in 0..n : ends[j] \in 0..Len(text)
  BY <1>2 DEF Marks
<1>6. ASSUME NEW j \in 1..n
      PROVE  lines[j] = WithoutCR(SubSeq(long, ends[j - 1] + 1, ends[j] - 1))
  <2>1. ends[j - 1] \in 0..Len(text) /\ ends[j] \in 0..Len(text)
    <3>1. j - 1 \in 0..n /\ j \in 0..n
      BY <1>1
    <3> QED
      BY <1>5, <3>1
  <2>2. ends[j - 1] + 1 \in Nat /\ ends[j - 1] + 1 >= 1 /\ ends[j] - 1 \in Int /\ ends[j] - 1 <= Len(text)
    BY <1>1, <2>1
  <2>3. SubSeq(long, ends[j - 1] + 1, ends[j] - 1) = SubSeq(text, ends[j - 1] + 1, ends[j] - 1)
    BY <2>2, SubSeqOfAppend
  <2>4. lines[j] = WithoutCR(SubSeq(text, ends[j - 1] + 1, ends[j] - 1))
    BY <1>2
  <2> QED
    BY <2>3, <2>4, Zenon
<1>7. Append(line, b) = SubSeq(long, ends[n] + 1, Len(long))
  <2>1. ends[n] + 1 \in Nat /\ ends[n] + 1 >= 1 /\ ends[n] + 1 <= Len(text) + 1
    <3>1. ends[n] \in 0..Len(text)
      BY <1>1, <1>5
    <3> QED
      BY <1>1, <3>1
  <2>2. Len(long) = Len(text) + 1
    BY AppendProperties
  <2>3. SubSeq(long, ends[n] + 1, Len(text) + 1) = Append(SubSeq(text, ends[n] + 1, Len(text)), b)
    BY <2>1, SubSeqToAppend
  <2> HIDE DEF long
  <2> QED
    BY <1>3, <2>2, <2>3, Zenon
<1> QED
  BY <1>4, <1>6, <1>7 DEF Lines, n

LEMMA LinesWithEnd ==
    ASSUME NEW text \in Seq(Byte), NEW ends, NEW lines \in Seq(Message), NEW line \in Seq(Byte),
           Lines(text, ends, lines, line), NEW e, e = NextMark(ends, Len(lines), Len(text) + 1),
           NEW more \in Seq(Message), NEW next \in Message, next = WithoutCR(line), more = Append(lines, next)
    PROVE  /\ Lines(Append(text, LF), e, more, <<>>)
           /\ \A j \in 0..Len(lines) : e[j] = ends[j]
<1> DEFINE n == Len(lines)
           long == Append(text, LF)
<1>0. LF \in Byte
  BY DEF LF, Byte
<1>1. n \in Nat /\ Len(text) \in Nat
  BY LenProperties
<1>2. /\ Marks(text, LF, ends, n)
      /\ \A j \in 1..n : lines[j] = WithoutCR(SubSeq(text, ends[j - 1] + 1, ends[j] - 1))
  BY DEF Lines
<1>3. line = SubSeq(text, ends[n] + 1, Len(text))
  BY DEF Lines
<1>a. Len(more) = n + 1 /\ more[n + 1] = next /\ \A j \in 1..n : more[j] = lines[j]
  <2> DEFINE q == Append(lines, next)
  <2>1. Len(q) = Len(lines) + 1 /\ q[Len(lines) + 1] = next /\ \A j \in 1..Len(lines) : q[j] = lines[j]
    BY AppendProperties
  <2> HIDE DEF q
  <2>2. more = q
    BY DEF q
  <2> QED
    BY <2>1, <2>2
<1>b. e = NextMark(ends, n, Len(text) + 1)
  OBVIOUS
<1> HIDE DEF n
<1>4. Marks(long, LF, e, n + 1)
  BY <1>0, <1>1, <1>2, <1>b, MarkIsNext
<1>5. \A j \in 0..n : ends[j] \in 0..Len(text)
  BY <1>2 DEF Marks
<1>6. e[n + 1] = Len(text) + 1 /\ \A j \in 0..n : e[j] = ends[j]
  BY <1>1, <1>b DEF NextMark
<1>7. long \in Seq(Byte) /\ Len(long) = Len(text) + 1
  BY <1>0, AppendProperties
<1>8. ASSUME NEW j \in 1..(n + 1)
      PROVE  more[j] = WithoutCR(SubSeq(long, e[j - 1] + 1, e[j] - 1))
  <2>1. CASE j = n + 1
    <3>1. ends[n] + 1 \in Nat /\ ends[n] + 1 >= 1 /\ Len(text) <= Len(text) /\ Len(text) \in Int
      <4>1. ends[n] \in 0..Len(text)
        BY <1>1, <1>5
      <4> QED
        BY <1>1, <4>1
    <3>2. SubSeq(long, ends[n] + 1, Len(text)) = SubSeq(text, ends[n] + 1, Len(text))
      BY <1>0, <3>1, SubSeqOfAppend
    <3>3. e[j - 1] = ends[n] /\ e[j] - 1 = Len(text)
      <4>1. j - 1 = n /\ n \in 0..n
        BY <1>1, <2>1
      <4>2. e[j] = Len(text) + 1 /\ e[j - 1] = ends[n]
        BY <1>6, <2>1, <4>1
      <4> QED
        BY <1>1, <4>2
    <3> HIDE DEF long
    <3>4. more[j] = WithoutCR(line)
      BY <1>a, <2>1, Zenon
    <3>5. SubSeq(long, e[j - 1] + 1, e[j] - 1) = line
      BY <1>3, <3>2, <3>3, Zenon
    <3> QED
      BY <3>4, <3>5, Zenon
  <2>2. CASE j \in 1..n
    <3>1. ends[j - 1] + 1 \in Nat /\ ends[j - 1] + 1 >= 1 /\ ends[j] - 1 \in Int /\ ends[j] - 1 <= Len(text)
      <4>1. j - 1 \in 0..n /\ j \in 0..n
        BY <1>1, <2>2
      <4>2. ends[j - 1] \in 0..Len(text) /\ ends[j] \in 0..Len(text)
        BY <1>5, <4>1
      <4> QED
        BY <1>1, <4>2
    <3>2. SubSeq(long, ends[j - 1] + 1, ends[j] - 1) = SubSeq(text, ends[j - 1] + 1, ends[j] - 1)
      BY <1>0, <3>1, SubSeqOfAppend
    <3>3. e[j - 1] = ends[j - 1] /\ e[j] = ends[j]
      BY <1>1, <1>6, <2>2
    <3> HIDE DEF long
    <3>4. more[j] = WithoutCR(SubSeq(text, ends[j - 1] + 1, ends[j] - 1))
      <4>1. lines[j] = WithoutCR(SubSeq(text, ends[j - 1] + 1, ends[j] - 1))
        BY <1>2, <2>2
      <4>2. more[j] = lines[j]
        BY <1>a, <2>2
      <4> QED
        BY <4>1, <4>2, Zenon
    <3> QED
      BY <3>2, <3>3, <3>4, Zenon
  <2>3. j = n + 1 \/ j \in 1..n
    BY <1>1
  <2> QED
    BY <2>1, <2>2, <2>3
<1>9. SubSeq(long, e[n + 1] + 1, Len(long)) = <<>>
  BY <1>1, <1>6, <1>7, SubSeqEmpty
<1> HIDE DEF long
<1>10. Lines(long, e, more, <<>>)
  <2>1. Marks(long, LF, e, Len(more)) /\ <<>> = SubSeq(long, e[Len(more)] + 1, Len(long))
    BY <1>4, <1>9, <1>a, Zenon
  <2>2. \A j \in 1..Len(more) : more[j] = WithoutCR(SubSeq(long, e[j - 1] + 1, e[j] - 1))
    BY <1>8, <1>a
  <2> QED
    BY <2>1, <2>2, Zenon DEF Lines
<1> QED
  BY <1>6, <1>10 DEF n, long

SenderTypes ==
    /\ sent \in Seq(Byte) /\ typed \in Seq(Byte)
    /\ saying \in Sayings /\ messages \in Histories

Linked(text, ends, n, r, p) ==
    /\ text \in Seq(Byte)
    /\ Reached(sent, text, messages, n, r, p)
    /\ PeerLink(text, ends, p, typed, saying, messages)

(* A step of the sender keeps the link, for longer texts and histories. *)
StillLinked(text, ends, n, r) ==
    /\ SenderTypes'
    /\ \E text2, ends2, p2 : /\ Linked(text2, ends2, n, r, p2)'
                             /\ Extends(text, ends, messages, text2, ends2, messages')

LEMMA LinkedTyped ==
    ASSUME NEW text, NEW ends, NEW n, NEW r, NEW p, SenderTypes, Linked(text, ends, n, r, p)
    PROVE  /\ text \in Seq(Byte) /\ Reached(sent, text, messages, n, r, p)
           /\ p \in Parsers /\ p.chars = Len(text) /\ Lines(text, ends, messages["line"], typed)
           /\ \A k \in Kinds \ {"line"} : p.said[k] = Len(messages[k])
           /\ saying.kind = "none" => p.state = "Data"
           /\ saying.kind # "none" => p.state = "Sb" /\ Holds(saying, p.sb) /\ p.sb \in Seq(Byte)
           /\ sent \in Seq(Byte) /\ typed \in Seq(Byte) /\ messages["line"] \in Seq(Message)
<1>1. sent \in Seq(Byte) /\ messages \in Histories
  BY DEF SenderTypes
<1>2. text \in Seq(Byte) /\ Reached(sent, text, messages, n, r, p)
  BY DEF Linked
<1>3. p \in Parsers
  BY <1>1, <1>2, ReachedTyped
<1>4. p.sb \in Seq(Byte)
  BY <1>3 DEF Parsers
<1>5. messages["line"] \in Seq(Message)
  BY <1>1 DEF Histories, Kinds, Queued
<1> QED
  BY <1>1, <1>2, <1>3, <1>4, <1>5 DEF Linked, PeerLink, SenderTypes

LEMMA SameMessages ==
    ASSUME NEW text, NEW ends, NEW n, NEW r, NEW p, SenderTypes, Linked(text, ends, n, r, p),
           NEW q, Still(p, q), q.state = (IF saying'.kind = "none" THEN "Data" ELSE "Sb"),
           saying'.kind # "none" => Holds(saying', q.sb), saying' \in Sayings,
           sent' \in Seq(Byte), Reached(sent', text, messages, n, r, q),
           typed' = typed, messages' = messages
    PROVE  StillLinked(text, ends, n, r)
<1>1. text \in Seq(Byte) /\ messages \in Histories /\ typed \in Seq(Byte)
  BY DEF Linked, SenderTypes
<1>2. PeerLink(text, ends, p, typed, saying, messages)
  BY DEF Linked
<1>3. PeerLink(text, ends, q, typed, saying', messages)
  BY <1>2 DEF PeerLink, Still, Kinds
<1>4. Linked(text, ends, n, r, q)'
  BY <1>1, <1>3 DEF Linked
<1>5. Extends(text, ends, messages, text, ends, messages')
  BY <1>1, ExtendsSelf, LongerSelf
<1>6. SenderTypes'
  BY <1>1 DEF SenderTypes
<1> QED
  BY <1>4, <1>5, <1>6 DEF StillLinked

LEMMA SilenceTyped == Silence \in Sayings /\ Silence.kind = "none"
<1>1. <<>> \in Seq(Byte) /\ <<>> \in Seq(Seq(Byte))
  BY EmptySeq
<1> QED
  BY <1>1 DEF Silence, Sayings

LEMMA TypeLinked ==
    ASSUME NEW text, NEW ends, NEW n, NEW r, NEW p, SenderTypes, Linked(text, ends, n, r, p),
           NEW b \in Byte, Type(b)
    PROVE  StillLinked(text, ends, n, r)
<1>1. /\ text \in Seq(Byte) /\ Reached(sent, text, messages, n, r, p)
      /\ p \in Parsers /\ p.chars = Len(text) /\ Lines(text, ends, messages["line"], typed)
      /\ \A k \in Kinds \ {"line"} : p.said[k] = Len(messages[k])
      /\ sent \in Seq(Byte) /\ typed \in Seq(Byte) /\ messages["line"] \in Seq(Message)
  BY LinkedTyped
<1>2. /\ saying.kind = "none" /\ b # LF /\ typed' = Append(typed, b) /\ sent' = sent \o Escaped(b)
      /\ saying' = saying /\ messages' = messages
  BY DEF Type, Writes
<1>3. messages \in Histories /\ saying \in Sayings
  BY DEF SenderTypes
<1>4. p.state = "Data"
  BY <1>2, LinkedTyped
<1>5. sent' \in Seq(Byte)
  BY <1>1, <1>2, <1>3, <1>4, TextSent
<1>6. PICK q \in Parsers : /\ Reached(sent', Append(text, b), messages, n, r, q)
                           /\ q.state = "Data"
                           /\ q.chars = Len(text) + 1 /\ \A k \in Kinds : q.said[k] = p.said[k]
  BY <1>1, <1>2, <1>3, <1>4, TextSent
<1>7. /\ Append(text, b) \in Seq(Byte) /\ Len(Append(text, b)) = Len(text) + 1
      /\ Append(typed, b) \in Seq(Byte)
  BY <1>1, AppendProperties
<1>8. Lines(Append(text, b), ends, messages["line"], Append(typed, b))
  BY <1>1, <1>2, LinesWithByte
<1>9. PeerLink(Append(text, b), ends, q, typed', saying', messages')
  BY <1>1, <1>2, <1>6, <1>7, <1>8 DEF PeerLink
<1>10. Linked(Append(text, b), ends, n, r, q)'
  BY <1>2, <1>6, <1>7, <1>9 DEF Linked
<1>11. Extends(text, ends, messages, Append(text, b), ends, messages')
  BY <1>1, <1>2, <1>3, <1>7, ExtendsSelf, LongerAppend
<1>12. SenderTypes'
  BY <1>2, <1>3, <1>5, <1>7 DEF SenderTypes
<1> QED
  BY <1>10, <1>11, <1>12 DEF StillLinked

LEMMA CommandLinked ==
    ASSUME NEW text, NEW ends, NEW n, NEW r, NEW p, SenderTypes, Linked(text, ends, n, r, p),
           NEW c \in Byte \ {Iac, Will, Wont, Do, Dont, Sb}, Command(c)
    PROVE  StillLinked(text, ends, n, r)
<1>1. /\ text \in Seq(Byte) /\ Reached(sent, text, messages, n, r, p) /\ sent \in Seq(Byte)
  BY LinkedTyped
<1>2. /\ saying.kind = "none" /\ sent' = sent \o <<Iac, c>>
      /\ saying' = saying /\ messages' = messages /\ typed' = typed
  BY DEF Command, Writes
<1>3. messages \in Histories /\ saying \in Sayings
  BY DEF SenderTypes
<1>4. p.state = "Data"
  BY <1>2, LinkedTyped
<1>5. sent' \in Seq(Byte)
  BY <1>1, <1>2, <1>3, <1>4, CommandSent
<1>6. PICK q \in Parsers : /\ Reached(sent', text, messages, n, r, q) /\ q.state = "Data" /\ Still(p, q)
  BY <1>1, <1>2, <1>3, <1>4, CommandSent
<1> QED
  BY <1>2, <1>3, <1>5, <1>6, SameMessages

LEMMA OpensLinked ==
    ASSUME NEW text, NEW ends, NEW n, NEW r, NEW p, SenderTypes, Linked(text, ends, n, r, p),
           NEW kind \in DOMAIN Opening \cup {"other"}, NEW bytes,
           NEW a \in Byte \ {Iac}, NEW b \in Byte \ {Iac}, bytes = <<a>> \/ bytes = <<a, b>>,
           \A s : s = [Silence EXCEPT !.kind = kind] => Holds(s, bytes),
           Opens(kind, bytes)
    PROVE  StillLinked(text, ends, n, r)
<1>1. /\ text \in Seq(Byte) /\ Reached(sent, text, messages, n, r, p) /\ sent \in Seq(Byte)
  BY LinkedTyped
<1>2. /\ saying.kind = "none" /\ sent' = sent \o (<<Iac, Sb>> \o bytes)
      /\ saying' = [Silence EXCEPT !.kind = kind] /\ messages' = messages /\ typed' = typed
  BY DEF Opens, Writes
<1>3. messages \in Histories
  BY DEF SenderTypes
<1>4. p.state = "Data"
  BY <1>2, LinkedTyped
<1> DEFINE s2 == sent \o (<<Iac, Sb>> \o bytes)
<1>a. s2 \in Seq(Byte) /\ OpeningParsed(s2, text, messages, n, r, p, bytes)
  BY <1>1, <1>3, <1>4, OpeningSent
<1>b. sent' = s2
  BY <1>2
<1> HIDE DEF s2
<1>5. sent' \in Seq(Byte)
  BY <1>a, <1>b
<1>6. PICK q \in Parsers : /\ Reached(sent', text, messages, n, r, q)
                           /\ q.state = "Sb" /\ q.sb = bytes /\ Still(p, q)
  BY <1>a, <1>b DEF OpeningParsed
<1>7. saying'.kind = kind /\ kind # "none"
  BY <1>2 DEF Silence, Opening
<1>8. saying' \in Sayings
  <2>1. <<>> \in Seq(Byte) /\ <<>> \in Seq(Seq(Byte))
    BY EmptySeq
  <2>2. saying' = [kind |-> kind, parts |-> <<>>, text |-> <<>>]
    BY <1>2 DEF Silence
  <2> QED
    BY <2>1, <2>2 DEF Sayings
<1>9. Holds(saying', q.sb)
  BY <1>2, <1>6
<1> QED
  BY <1>2, <1>5, <1>6, <1>7, <1>8, <1>9, SameMessages

LEMMA PutLinked ==
    ASSUME NEW text, NEW ends, NEW n, NEW r, NEW p, SenderTypes, Linked(text, ends, n, r, p),
           NEW b \in Byte, Put(b)
    PROVE  StillLinked(text, ends, n, r)
<1>1. /\ text \in Seq(Byte) /\ Reached(sent, text, messages, n, r, p) /\ sent \in Seq(Byte)
  BY LinkedTyped
<1>2. /\ saying.kind # "none" /\ sent' = sent \o Escaped(b)
      /\ saying.kind = "msdp" /\ saying.parts = <<>> => b # ValMark
      /\ saying.kind = "zmp_command" => b # 0
      /\ saying' = [saying EXCEPT !.text = Append(@, b)] /\ messages' = messages /\ typed' = typed
  BY DEF Put, Writes
<1>3. messages \in Histories /\ saying \in Sayings
  BY DEF SenderTypes
<1>4. p.state = "Sb" /\ Holds(saying, p.sb) /\ p.sb \in Seq(Byte)
  BY <1>2, LinkedTyped
<1>5. sent' \in Seq(Byte)
  BY <1>1, <1>2, <1>3, <1>4, ByteSent
<1>6. PICK q \in Parsers : /\ Reached(sent', text, messages, n, r, q)
                           /\ q.state = "Sb" /\ q.sb = Append(p.sb, b) /\ Still(p, q)
  BY <1>1, <1>2, <1>3, <1>4, ByteSent
<1>7. /\ saying'.kind = saying.kind /\ saying'.parts = saying.parts
      /\ saying'.text = Append(saying.text, b) /\ saying' \in Sayings
  <2>1. Append(saying.text, b) \in Seq(Byte)
    BY <1>3, AppendProperties DEF Sayings
  <2> QED
    BY <1>2, <1>3, <2>1 DEF Sayings
<1>8. \A body \in Seq(Byte) : InBody(saying, body) => InBody(saying', Append(body, b))
  BY <1>2, <1>3, <1>7, BodyWithByte
<1>9. Holds(saying', q.sb)
  BY <1>3, <1>4, <1>6, <1>7, <1>8, BodyGrows
<1> QED
  BY <1>2, <1>5, <1>6, <1>7, <1>9, SameMessages

LEMMA NextPartLinked ==
    ASSUME NEW text, NEW ends, NEW n, NEW r, NEW p, SenderTypes, Linked(text, ends, n, r, p), NextPart
    PROVE  StillLinked(text, ends, n, r)
<1> DEFINE b == IF saying.kind = "msdp" THEN ValMark ELSE 0
<1>0. b \in Byte /\ Escaped(b) = <<b>>
  BY DEF ValMark, Byte, Escaped, Iac
<1>1. /\ text \in Seq(Byte) /\ Reached(sent, text, messages, n, r, p) /\ sent \in Seq(Byte)
  BY LinkedTyped
<1>2. /\ saying.kind = "zmp_command" \/ (saying.kind = "msdp" /\ saying.parts = <<>>)
      /\ sent' = sent \o Escaped(b)
      /\ saying' = [saying EXCEPT !.parts = Append(@, saying.text), !.text = <<>>]
      /\ messages' = messages /\ typed' = typed
  BY <1>0 DEF NextPart, Writes
<1>b. b = IF saying.kind = "msdp" THEN ValMark ELSE 0
  OBVIOUS
<1> HIDE DEF b
<1>3. messages \in Histories /\ saying \in Sayings /\ saying.kind # "none"
  BY <1>2 DEF SenderTypes
<1>4. p.state = "Sb" /\ Holds(saying, p.sb) /\ p.sb \in Seq(Byte)
  BY <1>3, LinkedTyped
<1>5. sent' \in Seq(Byte)
  BY <1>0, <1>1, <1>2, <1>3, <1>4, ByteSent
<1>6. PICK q \in Parsers : /\ Reached(sent', text, messages, n, r, q)
                           /\ q.state = "Sb" /\ q.sb = Append(p.sb, b) /\ Still(p, q)
  BY <1>0, <1>1, <1>2, <1>3, <1>4, ByteSent
<1>7. /\ saying'.kind = saying.kind /\ saying'.parts = Append(saying.parts, saying.text)
      /\ saying'.text = <<>> /\ saying' \in Sayings
  <2>1. Append(saying.parts, saying.text) \in Seq(Seq(Byte)) /\ <<>> \in Seq(Byte)
    BY <1>3, AppendProperties, EmptySeq DEF Sayings
  <2> QED
    BY <1>2, <1>3, <2>1 DEF Sayings
<1>8. \A body \in Seq(Byte) : InBody(saying, body) => InBody(saying', Append(body, b))
  BY <1>2, <1>3, <1>7, <1>b, BodyWithMark
<1>9. Holds(saying', q.sb)
  BY <1>0, <1>3, <1>4, <1>6, <1>7, <1>8, BodyGrows
<1> QED
  BY <1>2, <1>3, <1>5, <1>6, <1>7, <1>9, SameMessages

LEMMA AbandonLinked ==
    ASSUME NEW text, NEW ends, NEW n, NEW r, NEW p, SenderTypes, Linked(text, ends, n, r, p),
           NEW c \in Byte \ {Iac, Se}, Abandon(c)
    PROVE  StillLinked(text, ends, n, r)
<1>1. /\ text \in Seq(Byte) /\ Reached(sent, text, messages, n, r, p) /\ sent \in Seq(Byte)
  BY LinkedTyped
<1>2. /\ saying.kind # "none" /\ sent' = sent \o <<Iac, c>>
      /\ saying' = Silence /\ messages' = messages /\ typed' = typed
  BY DEF Abandon, Writes
<1>3. messages \in Histories
  BY DEF SenderTypes
<1>4. p.state = "Sb"
  BY <1>2, LinkedTyped
<1>5. sent' \in Seq(Byte)
  BY <1>1, <1>2, <1>3, <1>4, AbandonSent
<1>6. PICK q \in Parsers : /\ Reached(sent', text, messages, n, r, q) /\ q.state = "Data" /\ Still(p, q)
  BY <1>1, <1>2, <1>3, <1>4, AbandonSent
<1> QED
  BY <1>2, <1>5, <1>6, SilenceTyped, SameMessages

LEMMA ReachedLonger ==
    ASSUME NEW s \in Seq(Byte), NEW text \in Seq(Byte), NEW text2 \in Seq(Byte),
           NEW msgs \in Histories, NEW msgs2 \in Histories, NEW n, NEW r, NEW p,
           Longer(text, text2), \A k \in Kinds : Longer(msgs[k], msgs2[k]),
           Reached(s, text, msgs, n, r, p)
    PROVE  Reached(s, text2, msgs2, n, r, p)
<1>1. PICK run : Parses(run, s, text, msgs) /\ r = run[n] /\ p = run[Len(s)]
  BY DEF Reached
<1>2. msgs \in [Kinds -> Seq(Message)] /\ msgs2 \in [Kinds -> Seq(Message)] /\ Len(s) \in Nat
  BY LenProperties DEF Histories
<1>3. ASSUME NEW i \in 0..(Len(s) - 1)
      PROVE  Fits(run[i], s[i + 1], text2, msgs2)
  <2>1. run[i] \in Parsers /\ Fits(run[i], s[i + 1], text, msgs)
    BY <1>1, <1>2 DEF Parses
  <2> QED
    BY <1>2, <2>1, FitsLonger
<1>4. Parses(run, s, text2, msgs2)
  BY <1>1, <1>3 DEF Parses
<1> QED
  BY <1>1, <1>4 DEF Reached

LEMMA ExtendsThrough ==
    ASSUME NEW text \in Seq(Byte), NEW text1 \in Seq(Byte), NEW text2 \in Seq(Byte),
           NEW msgs \in Histories, NEW msgs1 \in Histories, NEW msgs2 \in Histories,
           NEW ends, NEW ends1, NEW ends2,
           Extends(text, ends, msgs, text1, ends1, msgs1),
           Extends(text1, ends1, msgs1, text2, ends2, msgs2)
    PROVE  Extends(text, ends, msgs, text2, ends2, msgs2)
<1>1. ASSUME NEW S, NEW a \in Seq(S), NEW b \in Seq(S), NEW c \in Seq(S), Longer(a, b), Longer(b, c)
      PROVE  Longer(a, c)
  <2>1. Len(a) \in Nat /\ Len(b) \in Nat /\ Len(c) \in Nat
    BY LenProperties
  <2>2. \A i \in 1..Len(a) : i \in 1..Len(b)
    BY <1>1, <2>1 DEF Longer
  <2> QED
    BY <1>1, <2>1, <2>2 DEF Longer
<1>2. \A k \in Kinds : msgs[k] \in Seq(Message) /\ msgs1[k] \in Seq(Message) /\ msgs2[k] \in Seq(Message)
  BY DEF Histories
<1>3. Longer(text, text2) /\ \A k \in Kinds : Longer(msgs[k], msgs2[k])
  BY <1>1, <1>2 DEF Extends
<1>4. "line" \in Kinds
  BY DEF Kinds, Queued
<1>5. Len(msgs["line"]) \in Nat /\ Len(msgs1["line"]) \in Nat /\ Len(msgs["line"]) <= Len(msgs1["line"])
  BY <1>2, <1>4, LenProperties DEF Extends, Longer
<1>6. \A j \in 0..Len(msgs["line"]) : j \in 0..Len(msgs1["line"])
  BY <1>5
<1> QED
  BY <1>3, <1>6 DEF Extends

LEMMA LineTyped ==
    ASSUME NEW line \in Seq(Byte)
    PROVE  WithoutCR(line) \in Seq(Byte) /\ WithoutCR(line) \in Message
<1>1. ASSUME line # <<>>
      PROVE  Front(line) \in Seq(Byte)
  <2>1. Front(line) = SubSeq(line, 1, Len(line) - 1) /\ Len(line) \in Nat
    BY LenProperties DEF Front
  <2>2. Len(line) - 1 \in Int /\ Len(line) - 1 <= Len(line)
    BY <2>1
  <2> QED
    BY <2>1, <2>2, Cut
<1>2. WithoutCR(line) \in Seq(Byte)
  BY <1>1 DEF WithoutCR
<1> QED
  BY <1>2 DEF Message

(* A LF ends the line. *)
Ended(s, text, ends, msgs, n, r, msgs2, ends2, q) ==
    /\ Reached(Append(s, LF), Append(text, LF), msgs2, n, r, q)
    /\ q.state = "Data" /\ q.chars = Len(Append(text, LF))
    /\ \A k \in Kinds \ {"line"} : q.said[k] = Len(msgs2[k])
    /\ Lines(Append(text, LF), ends2, msgs2["line"], <<>>)
    /\ Extends(text, ends, msgs, Append(text, LF), ends2, msgs2)

LEMMA EndSent ==
    ASSUME NEW s \in Seq(Byte), NEW text \in Seq(Byte), NEW msgs \in Histories, NEW ends,
           NEW n, NEW r, NEW p, Reached(s, text, msgs, n, r, p),
           p.state = "Data", p.chars = Len(text), \A k \in Kinds \ {"line"} : p.said[k] = Len(msgs[k]),
           NEW line \in Seq(Byte), Lines(text, ends, msgs["line"], line),
           NEW msgs2, msgs2 = [msgs EXCEPT !["line"] = Append(@, WithoutCR(line))]
    PROVE  /\ msgs2 \in Histories
           /\ \E ends2 : \E q \in Parsers :
                Ended(s, text, ends, msgs, n, r, msgs2, ends2, q)
<1> DEFINE next == WithoutCR(line)
           text2 == Append(text, LF)
           ends2 == NextMark(ends, Len(msgs["line"]), Len(text) + 1)
<1>0. LF \in Byte /\ LF # Iac
  BY DEF LF, Byte, Iac
<1>1. next \in Message
  BY LineTyped
<1>2. "line" \in Kinds /\ msgs["line"] \in Seq(Message)
  BY DEF Kinds, Queued, Histories
<1>3. Append(msgs["line"], next) \in Seq(Message)
  BY <1>1, <1>2, AppendProperties
<1>4. msgs2["line"] = Append(msgs["line"], next) /\ \A k \in Kinds \ {"line"} : msgs2[k] = msgs[k]
  BY <1>2 DEF Histories
<1>5. msgs2 \in Histories
  BY <1>2, <1>3 DEF Histories
<1>6. \A k \in Kinds : Longer(msgs[k], msgs2[k])
  <2>1. Longer(msgs["line"], msgs2["line"])
    BY <1>1, <1>2, <1>4, LongerAppend
  <2>2. \A k \in Kinds \ {"line"} : Longer(msgs[k], msgs2[k])
    BY <1>4, LongerSelf DEF Histories
  <2> QED
    BY <2>1, <2>2
<1>7. Longer(text, text)
  BY LongerSelf
<1>8. Reached(s, text, msgs2, n, r, p)
  BY <1>5, <1>6, <1>7, ReachedLonger
<1>9. IsText(p.state, LF)
  BY <1>0 DEF IsText
<1>10. PICK q \in Parsers : /\ Reached(Append(s, LF), text2, msgs2, n, r, q) /\ q.state = "Data"
                            /\ q.chars = Len(text) + 1 /\ \A k \in Kinds : q.said[k] = p.said[k]
  BY <1>0, <1>5, <1>8, <1>9, TextByte
<1>11. text2 \in Seq(Byte) /\ Len(text2) = Len(text) + 1
  BY <1>0, AppendProperties
<1>12. Lines(text2, ends2, msgs2["line"], <<>>) /\ \A j \in 0..Len(msgs["line"]) : ends2[j] = ends[j]
  <2>1. ends2 = NextMark(ends, Len(msgs["line"]), Len(text) + 1) /\ next = WithoutCR(line)
    OBVIOUS
  <2> HIDE DEF ends2, next
  <2> DEFINE lines == msgs["line"]
             more == msgs2["line"]
  <2>2. /\ lines \in Seq(Message) /\ more \in Seq(Message) /\ more = Append(lines, next)
        /\ Lines(text, ends, lines, line) /\ ends2 = NextMark(ends, Len(lines), Len(text) + 1)
    BY <1>2, <1>3, <1>4, <2>1
  <2> HIDE DEF lines, more
  <2>3. Lines(text2, ends2, more, <<>>)
    BY <1>1, <2>1, <2>2, LinesWithEnd
  <2>4. \A j \in 0..Len(lines) : ends2[j] = ends[j]
    BY <2>2, LenProperties DEF NextMark
  <2> QED
    BY <2>3, <2>4 DEF lines, more
<1> HIDE DEF ends2, next
<1>13. Extends(text, ends, msgs, text2, ends2, msgs2)
  BY <1>0, <1>6, <1>12, LongerAppend DEF Extends
<1>14. \A k \in Kinds \ {"line"} : q.said[k] = Len(msgs2[k])
  BY <1>4, <1>10
<1> HIDE DEF text2
<1>15. q.chars = Len(text2)
  BY <1>10, <1>11
<1>16. Ended(s, text, ends, msgs, n, r, msgs2, ends2, q)
  BY <1>10, <1>12, <1>13, <1>14, <1>15 DEF Ended, text2
<1> QED
  BY <1>5, <1>16

LEMMA EndLineLinked ==
    ASSUME NEW text, NEW ends, NEW n, NEW r, NEW p, SenderTypes, Linked(text, ends, n, r, p),
           NEW cr \in BOOLEAN, EndLine(cr)
    PROVE  StillLinked(text, ends, n, r)
<1>0. CR \in Byte /\ LF \in Byte /\ CR # LF /\ CR # Iac
  BY DEF CR, LF, Byte, Iac
<1>1. /\ text \in Seq(Byte) /\ Reached(sent, text, messages, n, r, p)
      /\ p \in Parsers /\ p.chars = Len(text) /\ Lines(text, ends, messages["line"], typed)
      /\ \A k \in Kinds \ {"line"} : p.said[k] = Len(messages[k])
      /\ sent \in Seq(Byte) /\ typed \in Seq(Byte) /\ messages["line"] \in Seq(Message)
  BY LinkedTyped
<1>2. /\ saying.kind = "none" /\ (~cr /\ typed # <<>> => Last(typed) # CR)
      /\ typed' = <<>> /\ sent' = sent \o (IF cr THEN <<CR, LF>> ELSE <<LF>>)
      /\ saying' = saying /\ messages' = [messages EXCEPT !["line"] = Append(@, typed)]
  BY DEF EndLine, Writes
<1>3. messages \in Histories /\ saying \in Sayings
  BY DEF SenderTypes
<1>4. p.state = "Data"
  BY <1>2, LinkedTyped
<1>5. \E s \in Seq(Byte), text1 \in Seq(Byte), line \in Seq(Byte), q \in Parsers :
        /\ sent' = Append(s, LF) /\ Reached(s, text1, messages, n, r, q)
        /\ q.state = "Data" /\ q.chars = Len(text1) /\ \A k \in Kinds \ {"line"} : q.said[k] = Len(messages[k])
        /\ Lines(text1, ends, messages["line"], line) /\ WithoutCR(line) = typed
        /\ Longer(text, text1)
  <2>1. CASE ~cr
    <3>1. sent' = Append(sent, LF)
      BY <1>0, <1>1, <1>2, <2>1, Concat1
    <3>2. WithoutCR(typed) = typed
      BY <1>2, <2>1 DEF WithoutCR
    <3>3. Longer(text, text)
      BY <1>1, LongerSelf
    <3> QED
      BY <1>1, <1>4, <3>1, <3>2, <3>3
  <2>2. CASE cr
    <3> DEFINE s == Append(sent, CR)
               text1 == Append(text, CR)
               line == Append(typed, CR)
    <3>1. sent' = Append(s, LF) /\ s \in Seq(Byte)
      BY <1>0, <1>1, <1>2, <2>2, Concat1, Concat2
    <3>2. text1 \in Seq(Byte) /\ Len(text1) = Len(text) + 1 /\ Longer(text, text1)
      BY <1>0, <1>1, AppendProperties, LongerAppend
    <3>3. /\ line \in Seq(Byte) /\ Len(line) = Len(typed) + 1 /\ line[Len(typed) + 1] = CR
          /\ Len(typed) \in Nat /\ \A i \in 1..Len(typed) : line[i] = typed[i]
      BY <1>0, <1>1, AppendProperties, LenProperties
    <3>4. Lines(text1, ends, messages["line"], line)
      BY <1>0, <1>1, LinesWithByte
    <3>5. IsText(p.state, CR)
      BY <1>0, <1>4 DEF IsText
    <3>6. PICK q \in Parsers : /\ Reached(s, text1, messages, n, r, q) /\ q.state = "Data"
                               /\ q.chars = Len(text) + 1 /\ \A k \in Kinds : q.said[k] = p.said[k]
      BY <1>0, <1>1, <1>3, <3>5, TextByte
    <3> HIDE DEF s, text1, line
    <3>7. WithoutCR(line) = typed
      <4>1. line # <<>> /\ Last(line) = CR /\ Front(line) = SubSeq(line, 1, Len(line) - 1)
        BY <3>3, EmptySeq DEF Last, Front
      <4>2. Len(line) - 1 = Len(typed)
        BY <3>3
      <4>3. SubSeq(line, 1, Len(typed)) \in Seq(Byte) /\ Len(SubSeq(line, 1, Len(typed))) = Len(typed)
            /\ \A i \in 1..Len(typed) : SubSeq(line, 1, Len(typed))[i] = line[i]
        <5>1. Len(typed) \in Int /\ Len(typed) <= Len(line) /\ 1 \in Nat /\ 1 >= 1 /\ Len(typed) - 1 + 1 = Len(typed)
          BY <3>3
        <5>2. /\ SubSeq(line, 1, Len(typed)) \in Seq(Byte)
              /\ Len(SubSeq(line, 1, Len(typed))) = IF 1 <= Len(typed) THEN Len(typed) - 1 + 1 ELSE 0
              /\ \A i \in 1..(Len(typed) - 1 + 1) : SubSeq(line, 1, Len(typed))[i] = line[1 + i - 1]
          BY <3>3, <5>1, Cut
        <5>3. \A i \in 1..Len(typed) : 1 + i - 1 = i
          BY <3>3
        <5> QED
          BY <3>3, <5>1, <5>2, <5>3
      <4>4. SubSeq(line, 1, Len(typed)) = typed
        BY <1>1, <3>3, <4>3, SeqEqual
      <4> QED
        BY <4>1, <4>2, <4>4 DEF WithoutCR
    <3>8. q.chars = Len(text1) /\ \A k \in Kinds \ {"line"} : q.said[k] = Len(messages[k])
      BY <1>1, <3>2, <3>6
    <3> QED
      BY <3>1, <3>2, <3>3, <3>4, <3>6, <3>7, <3>8
  <2> QED
    BY <2>1, <2>2
<1>6. PICK s \in Seq(Byte), text1 \in Seq(Byte), line \in Seq(Byte), q \in Parsers :
        /\ sent' = Append(s, LF) /\ Reached(s, text1, messages, n, r, q)
        /\ q.state = "Data" /\ q.chars = Len(text1) /\ \A k \in Kinds \ {"line"} : q.said[k] = Len(messages[k])
        /\ Lines(text1, ends, messages["line"], line) /\ WithoutCR(line) = typed
        /\ Longer(text, text1)
  BY <1>5
<1> DEFINE later == messages'
<1>7. later = [messages EXCEPT !["line"] = Append(@, WithoutCR(line))]
  BY <1>2, <1>6
<1> HIDE DEF later
<1>8. /\ later \in Histories
      /\ \E e : \E u \in Parsers : Ended(s, text1, ends, messages, n, r, later, e, u)
  BY <1>3, <1>6, <1>7, EndSent
<1>9. PICK ends2 : \E u \in Parsers : Ended(s, text1, ends, messages, n, r, later, ends2, u)
  BY <1>8
<1>17. PICK u \in Parsers : Ended(s, text1, ends, messages, n, r, later, ends2, u)
  BY <1>9
<1> DEFINE text2 == Append(text1, LF)
<1>16. /\ Reached(sent', text2, messages', n, r, u)
       /\ u.state = "Data" /\ u.chars = Len(text2)
       /\ \A k \in Kinds \ {"line"} : u.said[k] = Len(messages'[k])
       /\ Lines(text2, ends2, messages'["line"], <<>>)
       /\ Extends(text1, ends, messages, text2, ends2, messages')
  BY <1>6, <1>17 DEF later, Ended
<1>10. text2 \in Seq(Byte) /\ sent' \in Seq(Byte)
  BY <1>0, <1>6, AppendProperties
<1> HIDE DEF text2
<1>11. PeerLink(text2, ends2, u, typed', saying', messages')
  BY <1>2, <1>16 DEF PeerLink
<1>12. Extends(text, ends, messages, text1, ends, messages)
  BY <1>1, <1>3, <1>6, ExtendsSelf
<1>13. Extends(text, ends, messages, text2, ends2, messages')
  BY <1>1, <1>3, <1>6, <1>8, <1>16, <1>10, <1>12, ExtendsThrough DEF later
<1>14. SenderTypes'
  <2>1. <<>> \in Seq(Byte)
    BY EmptySeq
  <2> QED
    BY <1>2, <1>3, <1>8, <1>10, <2>1 DEF SenderTypes, later
<1>15. Linked(text2, ends2, n, r, u)'
  BY <1>10, <1>11, <1>16 DEF Linked
<1> QED
  BY <1>13, <1>14, <1>15 DEF StillLinked

LEMMA SaidTyped ==
    ASSUME saying \in Sayings, NEW k \in Kinds
    PROVE  /\ Said(k) = <<>> \/ \E x \in Message : Said(k) = <<x>>
           /\ k = "line" => Said(k) = <<>>
<1> DEFINE text == saying.text
           parts == saying.parts
<1>1. text \in Seq(Byte) /\ parts \in Seq(Seq(Byte)) /\ <<>> \in Seq(Byte)
  BY EmptySeq DEF Sayings
<1>2. text \in Message
  BY <1>1 DEF Message
<1>3. ASSUME parts # <<>>
      PROVE  parts[1] \in Seq(Byte) /\ Head(parts) \in Seq(Byte) /\ Tail(parts) \in Seq(Seq(Byte))
  BY <1>1, <1>3, HeadTailProperties, EmptySeq
<1>4. \A a \in Seq(Byte), b \in Seq(Byte) \cup Seq(Seq(Byte)) : <<a, b>> \in Message
  BY DEF Message
<1>5. ASSUME Len(text) >= 4
      PROVE  <<text[1] * 256 + text[2], text[3] * 256 + text[4]>> \in Message
  <2>1. text[1] \in Byte /\ text[2] \in Byte /\ text[3] \in Byte /\ text[4] \in Byte
    BY <1>1, <1>5, ElementOfSeq
  <2>2. \A a, b \in Byte : a * 256 + b \in Nat
    BY DEF Byte
  <2>3. text[1] * 256 + text[2] \in Nat /\ text[3] * 256 + text[4] \in Nat
    BY <2>1, <2>2
  <2> QED
    BY <2>3 DEF Message
<1> HIDE DEF text, parts
<1>6. Said(k) = IF k # saying.kind THEN <<>>
        ELSE CASE k = "gmcp" /\ text # <<>> -> <<text>>
               [] k = "msdp" -> <<IF parts = <<>> THEN <<text, <<>>>> ELSE <<parts[1], text>>>>
               [] k = "zmp_command" /\ text = <<>> /\ parts # <<>> -> <<<<Head(parts), Tail(parts)>>>>
               [] k = "window_size" /\ Len(text) >= 4 ->
                      <<<<text[1] * 256 + text[2], text[3] * 256 + text[4]>>>>
               [] k = "terminal_type" -> <<text>>
               [] OTHER -> <<>>
  BY DEF Said, text, parts
<1>7. k = "line" => Said(k) = <<>>
  BY <1>6
<1>8. CASE k # saying.kind
  BY <1>6, <1>7, <1>8
<1>9. CASE k = saying.kind /\ k \in {"gmcp", "terminal_type"}
  BY <1>2, <1>6, <1>7, <1>9
<1>10. CASE k = saying.kind /\ k = "msdp"
  <2> DEFINE x == IF parts = <<>> THEN <<text, <<>>>> ELSE <<parts[1], text>>
  <2>1. x \in Message
    BY <1>1, <1>3, <1>4
  <2>2. Said(k) = <<x>>
    BY <1>6, <1>10
  <2> QED
    BY <1>10, <2>1, <2>2
<1>11. CASE k = saying.kind /\ k = "zmp_command"
  <2>1. CASE text = <<>> /\ parts # <<>>
    <3> DEFINE x == <<Head(parts), Tail(parts)>>
    <3>1. x \in Message
      BY <1>3, <1>4, <2>1
    <3>2. Said(k) = <<x>>
      BY <1>6, <1>11, <2>1
    <3> QED
      BY <1>11, <3>1, <3>2
  <2>2. CASE ~(text = <<>> /\ parts # <<>>)
    BY <1>6, <1>7, <1>11, <2>2
  <2> QED
    BY <2>1, <2>2
<1>12. CASE k = saying.kind /\ k = "window_size"
  <2>1. CASE Len(text) >= 4
    <3> DEFINE x == <<text[1] * 256 + text[2], text[3] * 256 + text[4]>>
    <3>1. x \in Message
      BY <1>5, <2>1
    <3>2. Said(k) = <<x>>
      BY <1>6, <1>12, <2>1
    <3> HIDE DEF x
    <3> QED
      BY <1>12, <3>1, <3>2
  <2>2. CASE ~(Len(text) >= 4)
    BY <1>6, <1>7, <1>12, <2>2
  <2> QED
    BY <2>1, <2>2
<1>13. CASE k = saying.kind /\ k \notin {"gmcp", "terminal_type", "msdp", "zmp_command", "window_size"}
  BY <1>6, <1>7, <1>13
<1> QED
  BY <1>8, <1>9, <1>10, <1>11, <1>12, <1>13

(* The end of a message: IAC SE, or the option of a negotiation. *)
LEMMA MessageLinked ==
    ASSUME NEW text, NEW ends, NEW n, NEW r, NEW p, SenderTypes, Linked(text, ends, n, r, p),
           NEW s \in Seq(Byte), NEW u \in Parsers, Reached(s, text, messages, n, r, u), Still(p, u),
           NEW b \in Byte, ~IsText(u.state, b), StateAfter(u.state, b) = "Data", sent' = Append(s, b),
           NEW new, messages' = [k \in Kinds |-> messages[k] \o new[k]], Given(new, u, b),
           typed' = typed, saying'.kind = "none", saying' \in Sayings
    PROVE  StillLinked(text, ends, n, r)
<1>1. /\ text \in Seq(Byte) /\ p.chars = Len(text) /\ Lines(text, ends, messages["line"], typed)
      /\ \A k \in Kinds \ {"line"} : p.said[k] = Len(messages[k])
      /\ messages["line"] \in Seq(Message) /\ typed \in Seq(Byte)
  BY LinkedTyped
<1>2. messages \in Histories
  BY DEF SenderTypes
<1> DEFINE msgs2 == messages'
<1>3. Joined(msgs2, messages, new)
  BY DEF Joined
<1>4. ASSUME NEW k \in Kinds
      PROVE  /\ messages[k] \in Seq(Message) /\ new[k] \in Seq(Message)
             /\ msgs2[k] \in Seq(Message)
  <2>1. <<>> \in Seq(Message) /\ \A x \in Message : <<x>> \in Seq(Message)
    OBVIOUS
  <2>2. new[k] = <<>> \/ \E x \in Message : new[k] = <<x>>
    BY DEF Given
  <2>3. new[k] \in Seq(Message)
    BY <2>1, <2>2, Zenon
  <2>4. messages[k] \in Seq(Message)
    BY <1>2 DEF Histories
  <2>5. messages[k] \o new[k] \in Seq(Message)
    BY <2>3, <2>4, ConcatProperties
  <2> QED
    BY <1>3, <2>3, <2>4, <2>5, Zenon DEF Joined
<1>5. msgs2 \in Histories
  <2>1. msgs2 = [k \in Kinds |-> messages[k] \o new[k]]
    OBVIOUS
  <2>2. \A k \in Kinds : messages[k] \o new[k] \in Seq(Message)
    BY <1>3, <1>4 DEF Joined
  <2> HIDE DEF msgs2
  <2> QED
    BY <2>1, <2>2 DEF Histories
<1> HIDE DEF msgs2
<1>6. Counted(u, messages)
  BY <1>1 DEF Still, Counted
<1>7. PICK q \in Parsers : /\ Reached(Append(s, b), text, msgs2, n, r, q)
                           /\ q.state = StateAfter(u.state, b) /\ q.chars = u.chars
                           /\ Counted(q, msgs2)
  BY <1>1, <1>2, <1>3, <1>5, <1>6, MessageByte
<1>8. "line" \in Kinds
  BY DEF Kinds, Queued
<1>9. msgs2["line"] = messages["line"]
  BY <1>1, <1>3, <1>8, ConcatEmptySeq DEF Given, Joined
<1>10. PeerLink(text, ends, q, typed, saying', msgs2)
  BY <1>1, <1>7, <1>9 DEF PeerLink, Still, Counted
<1>11. Linked(text, ends, n, r, q)'
  BY <1>1, <1>7, <1>10 DEF Linked, msgs2
<1>12. Append(s, b) \in Seq(Byte)
  BY AppendProperties
<1>13. SenderTypes'
  BY <1>1, <1>5, <1>12 DEF SenderTypes, msgs2
<1>14. \A k \in Kinds : Longer(messages[k], msgs2[k])
  <2> TAKE k \in Kinds
  <2>1. Longer(messages[k], messages[k] \o new[k])
    BY <1>4, LongerConcat
  <2> QED
    BY <1>3, <2>1 DEF Joined
<1>15. Extends(text, ends, messages, text, ends, msgs2)
  BY <1>1, <1>14, LongerSelf DEF Extends
<1> QED
  BY <1>11, <1>13, <1>15 DEF StillLinked, msgs2

LEMMA NegotiateLinked ==
    ASSUME NEW text, NEW ends, NEW n, NEW r, NEW p, SenderTypes, Linked(text, ends, n, r, p),
           NEW verb \in {Will, Wont, Do, Dont}, NEW option \in Byte, Negotiate(verb, option)
    PROVE  StillLinked(text, ends, n, r)
<1>0. verb \in Byte /\ verb # Iac /\ verb # Sb /\ Iac \in Byte
  BY DEF Will, Wont, Do, Dont, Byte, Iac, Sb
<1>1. text \in Seq(Byte) /\ Reached(sent, text, messages, n, r, p) /\ sent \in Seq(Byte) /\ typed \in Seq(Byte)
  BY LinkedTyped
<1> DEFINE new == [k \in Kinds |-> Asks(k, verb, option)]
<1>2. /\ saying.kind = "none" /\ sent' = sent \o <<Iac, verb, option>>
      /\ saying' = saying /\ messages' = [k \in Kinds |-> messages[k] \o new[k]] /\ typed' = typed
  BY DEF Negotiate, Writes
<1>3. messages \in Histories /\ saying \in Sayings
  BY DEF SenderTypes
<1>4. p.state = "Data"
  BY <1>2, LinkedTyped
<1> DEFINE s == Append(Append(sent, Iac), verb)
<1>5. s \in Seq(Byte) /\ sent' = Append(s, option)
  BY <1>0, <1>1, <1>2, Concat2, Concat3
<1>6. PICK u \in Parsers : /\ Reached(s, text, messages, n, r, u) /\ u.state = StateAfterIac(verb) /\ Still(p, u)
  BY <1>0, <1>1, <1>3, <1>4, IacSent
<1>7. /\ u.state \in {"Will", "Wont", "Do", "Dont"}
      /\ \A k \in Kinds : new[k] = Gives(k, u.state, u.sb, option)
  <2>1. u.state = CASE verb = Will -> "Will" [] verb = Wont -> "Wont" [] verb = Do -> "Do" [] verb = Dont -> "Dont"
                    [] OTHER -> "Data"
    BY <1>6 DEF StateAfterIac, Sb, Will, Wont, Do, Dont
  <2>2. u.state \in {"Will", "Wont", "Do", "Dont"}
    BY <2>1 DEF Will, Wont, Do, Dont
  <2>3. u.state \in {"Will", "Do"} <=> verb \in {Will, Do}
    BY <2>1 DEF Will, Wont, Do, Dont
  <2>4. ASSUME NEW k \in Kinds
        PROVE  new[k] = Gives(k, u.state, u.sb, option)
    <3>1. Gives(k, u.state, u.sb, option) = Announced(k, u.state, option)
      BY <2>2 DEF Gives
    <3>2. Announced(k, u.state, option) = Asks(k, verb, option)
      BY <2>3, Zenon DEF Announced, Asks
    <3> QED
      BY <3>1, <3>2
  <2> QED
    BY <2>2, <2>4
<1>8. ~IsText(u.state, option) /\ StateAfter(u.state, option) = "Data"
  BY <1>7 DEF IsText, StateAfter
<1>9. /\ \A k \in Kinds : new[k] = <<>> \/ \E x \in Message : new[k] = <<x>>
      /\ new["line"] = <<>>
  <2>1. <<>> \in Message
    BY EmptySeq DEF Message
  <2>2. \A k \in Kinds : new[k] = <<>> \/ new[k] = <<<<>>>>
    BY DEF Asks
  <2>3. "line" \in Kinds /\ Asks("line", verb, option) = <<>>
    BY DEF Kinds, Queued, Asks, EnabledBy
  <2> QED
    BY <2>1, <2>2, <2>3
<1> HIDE DEF s, new
<1>10. saying'.kind = "none" /\ saying' \in Sayings
  BY <1>2, <1>3
<1>11. Given(new, u, option)
  BY <1>7, <1>9 DEF Given
<1> QED
  BY <1>2, <1>5, <1>6, <1>8, <1>10, <1>11, MessageLinked

LEMMA FinishLinked ==
    ASSUME NEW text, NEW ends, NEW n, NEW r, NEW p, SenderTypes, Linked(text, ends, n, r, p), Finish
    PROVE  StillLinked(text, ends, n, r)
<1>0. Iac \in Byte /\ Se \in Byte
  BY DEF Byte, Iac, Se
<1>1. text \in Seq(Byte) /\ Reached(sent, text, messages, n, r, p) /\ sent \in Seq(Byte) /\ typed \in Seq(Byte)
  BY LinkedTyped
<1> DEFINE new == [k \in Kinds |-> Said(k)]
<1>2. /\ saying.kind # "none" /\ sent' = sent \o <<Iac, Se>>
      /\ saying' = Silence /\ messages' = [k \in Kinds |-> messages[k] \o new[k]] /\ typed' = typed
  BY DEF Finish, Writes
<1>3. messages \in Histories /\ saying \in Sayings
  BY DEF SenderTypes
<1>4. p.state = "Sb" /\ Holds(saying, p.sb) /\ p.sb \in Seq(Byte)
  BY <1>2, LinkedTyped
<1> DEFINE s == Append(sent, Iac)
<1>5. s \in Seq(Byte) /\ sent' = Append(s, Se)
  BY <1>0, <1>1, <1>2, Concat1, Concat2
<1>6. Quiet(p, Iac) /\ StateAfter(p.state, Iac) = "SbIac" /\ SbAfter(p.state, p.sb, Iac) = p.sb
  BY <1>4 DEF Quiet, IsText, Gives, StateAfter, SbAfter
<1>7. PICK u \in Parsers : /\ Reached(s, text, messages, n, r, u) /\ u.state = "SbIac" /\ u.sb = p.sb
                           /\ u.chars = p.chars /\ \A k \in Kinds : u.said[k] = p.said[k]
  BY <1>0, <1>1, <1>3, <1>6, QuietByte
<1>8. \A k \in Kinds : new[k] = Gives(k, u.state, u.sb, Se)
  <2> TAKE k \in Kinds
  <2>1. Gives(k, u.state, u.sb, Se) = Delivered(k, p.sb)
    BY <1>7 DEF Gives
  <2>2. Said(k) = Delivered(k, p.sb)
    BY <1>2, <1>3, <1>4, DeliveredAsSaid
  <2> QED
    BY <2>1, <2>2
<1>9. ~IsText(u.state, Se) /\ StateAfter(u.state, Se) = "Data" /\ Still(p, u)
  BY <1>7 DEF IsText, StateAfter, Still, Iac, Se
<1>10. /\ \A k \in Kinds : new[k] = <<>> \/ \E x \in Message : new[k] = <<x>>
       /\ new["line"] = <<>>
  <2>1. "line" \in Kinds
    BY DEF Kinds, Queued
  <2> QED
    BY <1>3, <2>1, SaidTyped
<1> HIDE DEF s, new
<1>11. Given(new, u, Se)
  BY <1>8, <1>10 DEF Given
<1>12. saying'.kind = "none" /\ saying' \in Sayings
  BY <1>2, SilenceTyped
<1> QED
  BY <1>0, <1>2, <1>5, <1>7, <1>9, <1>11, <1>12, MessageLinked

LEMMA OpeningIs ==
    ASSUME NEW kind \in DOMAIN Opening
    PROVE  \E a, b \in Byte \ {Iac} : Opening[kind] = <<a>> \/ Opening[kind] = <<a, b>>
<1>1. /\ Gmcp \in Byte \ {Iac} /\ Msdp \in Byte \ {Iac} /\ Zmp \in Byte \ {Iac} /\ Naws \in Byte \ {Iac}
      /\ Ttype \in Byte \ {Iac} /\ VarMark \in Byte \ {Iac} /\ TelQualIs \in Byte \ {Iac}
  BY DEF VarMark, TelQualIs, Gmcp, Msdp, Zmp, Naws, Ttype, Byte, Iac
<1>2. kind = "gmcp" => Opening[kind] = <<Gmcp>>
  BY DEF Opening
<1>3. kind = "msdp" => Opening[kind] = <<Msdp, VarMark>>
  BY DEF Opening
<1>4. kind = "zmp_command" => Opening[kind] = <<Zmp>>
  BY DEF Opening
<1>5. kind = "window_size" => Opening[kind] = <<Naws>>
  BY DEF Opening
<1>6. kind = "terminal_type" => Opening[kind] = <<Ttype, TelQualIs>>
  BY DEF Opening
<1>7. kind \in {"gmcp", "msdp", "zmp_command", "window_size", "terminal_type"}
  BY DEF Opening
<1>8. \E bytes : Opening[kind] = bytes /\ \E a, b \in Byte \ {Iac} : bytes = <<a>> \/ bytes = <<a, b>>
  BY <1>1, <1>2, <1>3, <1>4, <1>5, <1>6, <1>7
<1> QED
  BY <1>8

LEMMA SpeakLinked ==
    ASSUME StreamAssumption, NEW text, NEW ends, NEW n, NEW r, NEW p, SenderTypes, Linked(text, ends, n, r, p), Speak
    PROVE  StillLinked(text, ends, n, r)
<1>0. Contents \subseteq Byte /\ Options \subseteq Byte
  BY DEF StreamAssumption
<1>1. ASSUME NEW b \in Contents, Type(b) PROVE StillLinked(text, ends, n, r)
  BY <1>0, <1>1, TypeLinked
<1>2. ASSUME NEW b \in Contents, Put(b) PROVE StillLinked(text, ends, n, r)
  BY <1>0, <1>2, PutLinked
<1>3. ASSUME NEW cr \in BOOLEAN, EndLine(cr) PROVE StillLinked(text, ends, n, r)
  BY <1>3, EndLineLinked
<1>4. ASSUME NEW verb \in {Will, Wont, Do, Dont}, NEW option \in Options, Negotiate(verb, option)
      PROVE  StillLinked(text, ends, n, r)
  BY <1>0, <1>4, NegotiateLinked
<1>5. ASSUME NEW c \in Byte \ {Iac, Will, Wont, Do, Dont, Sb}, Command(c) PROVE StillLinked(text, ends, n, r)
  BY <1>5, CommandLinked
<1>6. ASSUME NEW kind \in DOMAIN Opening, Opens(kind, Opening[kind]) PROVE StillLinked(text, ends, n, r)
  <2>1. \E a, b \in Byte \ {Iac} : Opening[kind] = <<a>> \/ Opening[kind] = <<a, b>>
    BY OpeningIs
  <2>2. PICK a \in Byte \ {Iac}, b \in Byte \ {Iac} : Opening[kind] = <<a>> \/ Opening[kind] = <<a, b>>
    BY <2>1
  <2>3. \A s : s = [Silence EXCEPT !.kind = kind] => Holds(s, Opening[kind])
    BY HoldsOpening
  <2>4. kind \in DOMAIN Opening \cup {"other"}
    OBVIOUS
  <2> QED
    BY <1>6, <2>2, <2>3, <2>4, OpensLinked
<1>7. ASSUME NEW option \in Meaningless, Opens("other", <<option>>) PROVE StillLinked(text, ends, n, r)
  <2>1. option \in Byte \ {Iac}
    BY DEF Meaningless
  <2>2. \A s : s = [Silence EXCEPT !.kind = "other"] => Holds(s, <<option>>)
    BY HoldsOther
  <2>3. "other" \in DOMAIN Opening \cup {"other"}
    OBVIOUS
  <2> DEFINE bytes == <<option>>
  <2>4. bytes = <<option>> /\ Opens("other", bytes) /\ \A s : s = [Silence EXCEPT !.kind = "other"] => Holds(s, bytes)
    BY <1>7, <2>2
  <2> HIDE DEF bytes
  <2> QED
    BY <2>1, <2>3, <2>4, OpensLinked
<1>8. ASSUME NextPart PROVE StillLinked(text, ends, n, r)
  BY <1>8, NextPartLinked
<1>9. ASSUME Finish PROVE StillLinked(text, ends, n, r)
  BY <1>9, FinishLinked
<1>10. ASSUME NEW c \in Byte \ {Iac, Se}, Abandon(c) PROVE StillLinked(text, ends, n, r)
  BY <1>10, AbandonLinked
<1> QED
  BY <1>1, <1>2, <1>3, <1>4, <1>5, <1>6, <1>7, <1>8, <1>9, <1>10 DEF Speak

-----------------------------------------------------------------------------
(* What has been parsed, and what the mudlib has been told.                *)

Heard(k) == told[k] \o incoming[k]

(* Of msgs up to the n-th, in their order, and the n-th one among them. *)
Selects(at, heard, n, msgs) ==
    /\ at \in [1..Len(heard) -> 1..n]
    /\ \A i, j \in 1..Len(heard) : i < j => at[i] < at[j]
    /\ \A i \in 1..Len(heard) : heard[i] = msgs[at[i]]
    /\ n > 0 => Len(heard) > 0 /\ at[Len(heard)] = n

HeardLines(text, ends, chars, m) ==
    /\ m \in 0..Len(messages["line"]) /\ Heard("line") = SubSeq(messages["line"], 1, m)
    /\ ends[m] <= chars /\ inputBuffer = SubSeq(text, ends[m] + 1, chars)

ReceiverLink(text, ends, r) ==
    /\ telnetState = r.state /\ sbBuffer = r.sb
    /\ \E m : HeardLines(text, ends, r.chars, m)
    /\ \A k \in Queued \ {"line"} : Heard(k) = SubSeq(messages[k], 1, r.said[k])
    /\ \A k \in Flagged : /\ \E at : Selects(at, Heard(k), r.said[k], messages[k])
                          /\ Len(incoming[k]) <= 1

ReceiverTypes == told \in Histories /\ incoming \in Histories /\ inputBuffer \in Seq(Byte)

LEMMA LongerCut ==
    ASSUME NEW S, NEW s \in Seq(S), NEW t \in Seq(S), Longer(s, t),
           NEW m \in Nat, m >= 1, NEW n \in Int, n <= Len(s)
    PROVE  SubSeq(t, m, n) = SubSeq(s, m, n)
<1>1. Len(s) \in Nat /\ Len(t) \in Nat /\ Len(s) <= Len(t) /\ n <= Len(t)
  BY LenProperties DEF Longer
<1> DEFINE a == SubSeq(t, m, n)
           b == SubSeq(s, m, n)
<1>2. /\ a \in Seq(S) /\ Len(a) = IF m <= n THEN n - m + 1 ELSE 0
      /\ \A i \in 1..(n - m + 1) : a[i] = t[m + i - 1]
  BY <1>1, Cut
<1>3. /\ b \in Seq(S) /\ Len(b) = IF m <= n THEN n - m + 1 ELSE 0
      /\ \A i \in 1..(n - m + 1) : b[i] = s[m + i - 1]
  BY <1>1, Cut
<1> HIDE DEF a, b
<1>4. ASSUME NEW i \in 1..Len(a)
      PROVE  a[i] = b[i]
  <2>1. i \in 1..(n - m + 1) /\ m + i - 1 \in 1..Len(s)
    BY <1>1, <1>2
  <2>2. t[m + i - 1] = s[m + i - 1]
    BY <2>1 DEF Longer
  <2> QED
    BY <1>2, <1>3, <2>1, <2>2
<1>5. a = b
  BY <1>2, <1>3, <1>4, SeqEqual
<1> QED
  BY <1>5 DEF a, b

LEMMA SelectsLonger ==
    ASSUME NEW at, NEW heard \in Seq(Message), NEW n \in Nat, NEW msgs \in Seq(Message), NEW msgs2 \in Seq(Message),
           Longer(msgs, msgs2), n <= Len(msgs), Selects(at, heard, n, msgs)
    PROVE  Selects(at, heard, n, msgs2)
<1>1. \A i \in 1..Len(heard) : at[i] \in 1..n
  BY DEF Selects
<1>2. Len(msgs) \in Nat
  BY LenProperties
<1>3. \A i \in 1..n : msgs2[i] = msgs[i]
  BY <1>2 DEF Longer
<1>4. \A i \in 1..Len(heard) : heard[i] = msgs2[at[i]]
  BY <1>1, <1>3 DEF Selects
<1> QED
  BY <1>4 DEF Selects

LEMMA HeardTyped ==
    ASSUME ReceiverTypes, NEW k \in Kinds
    PROVE  /\ told[k] \in Seq(Message) /\ incoming[k] \in Seq(Message) /\ Heard(k) \in Seq(Message)
           /\ Len(Heard(k)) = Len(told[k]) + Len(incoming[k])
           /\ Len(told[k]) \in Nat /\ Len(incoming[k]) \in Nat /\ Len(Heard(k)) \in Nat
<1>1. told[k] \in Seq(Message) /\ incoming[k] \in Seq(Message)
  BY DEF ReceiverTypes, Histories
<1> QED
  BY <1>1, ConcatProperties, LenProperties DEF Heard

(* The parser that is behind has not more than what was sent. *)
LEMMA BehindTyped ==
    ASSUME SenderTypes, NEW text, NEW ends, NEW n, NEW r, NEW p, Linked(text, ends, n, r, p)
    PROVE  /\ r \in Parsers /\ r.chars \in Nat /\ r.chars <= Len(text) /\ Len(text) \in Nat
           /\ \A k \in Kinds : r.said[k] \in Nat /\ Len(messages[k]) \in Nat /\ messages[k] \in Seq(Message)
           /\ \A k \in Kinds \ {"line"} : r.said[k] <= Len(messages[k])
           /\ Marks(text, LF, ends, Len(messages["line"]))
           /\ \A j \in 0..Len(messages["line"]) : ends[j] \in 0..Len(text)
           /\ n \in 0..Len(sent) /\ (n = Len(sent) => r = p)
<1>1. sent \in Seq(Byte) /\ text \in Seq(Byte) /\ Reached(sent, text, messages, n, r, p)
  BY DEF SenderTypes, Linked
<1>2. /\ n \in 0..Len(sent) /\ r \in Parsers /\ p \in Parsers /\ Behind(r, p)
      /\ (n = Len(sent) => r = p)
  BY <1>1, ReachedTyped
<1>3. p.chars = Len(text) /\ \A k \in Kinds \ {"line"} : p.said[k] = Len(messages[k])
  BY LinkedTyped
<1>4. r.chars \in Nat /\ \A k \in Kinds : r.said[k] \in Nat
  BY <1>2 DEF Parsers
<1>5. \A k \in Kinds : messages[k] \in Seq(Message) /\ Len(messages[k]) \in Nat
  BY LenProperties DEF SenderTypes, Histories
<1>6. Lines(text, ends, messages["line"], typed)
  BY LinkedTyped
<1>7. Marks(text, LF, ends, Len(messages["line"]))
  BY <1>6 DEF Lines
<1>8. \A j \in 0..Len(messages["line"]) : ends[j] \in 0..Len(text)
  BY <1>7 DEF Marks
<1>9. r.chars <= Len(text) /\ \A k \in Kinds \ {"line"} : r.said[k] <= Len(messages[k])
  BY <1>2, <1>3 DEF Behind
<1> QED
  BY <1>1, <1>2, <1>4, <1>5, <1>7, <1>8, <1>9, LenProperties

LEMMA KindsAre ==
    /\ "line" \in Queued /\ "line" \in Kinds
    /\ Queued \subseteq Kinds /\ Flagged \subseteq Kinds /\ "line" \notin Flagged
    /\ \A k \in Kinds : k \in Queued \/ k \in Flagged
    /\ \A k \in Queued : k \notin Flagged
  BY DEF Queued, Flagged, Kinds, EnabledBy

(* More was sent: what was heard is part of it as before. *)
LEMMA ReceiverKept ==
    ASSUME SenderTypes, ReceiverTypes, NEW text, NEW ends, NEW n, NEW r, NEW p, Linked(text, ends, n, r, p),
           ReceiverLink(text, ends, r), NEW text2 \in Seq(Byte), NEW ends2, messages' \in Histories,
           Extends(text, ends, messages, text2, ends2, messages'),
           UNCHANGED <<telnetState, sbBuffer, inputBuffer, incoming, told>>
    PROVE  ReceiverLink(text2, ends2, r)' /\ ReceiverTypes'
<1>1. /\ r \in Parsers /\ r.chars \in Nat /\ r.chars <= Len(text) /\ Len(text) \in Nat
      /\ \A k \in Kinds : r.said[k] \in Nat /\ Len(messages[k]) \in Nat /\ messages[k] \in Seq(Message)
      /\ \A k \in Kinds \ {"line"} : r.said[k] <= Len(messages[k])
      /\ \A j \in 0..Len(messages["line"]) : ends[j] \in 0..Len(text)
  BY BehindTyped
<1>2. text \in Seq(Byte)
  BY DEF Linked
<1>3. \A k \in Kinds : Heard(k)' = Heard(k)
  BY DEF Heard
<1>4. \A k \in Kinds : messages'[k] \in Seq(Message) /\ Longer(messages[k], messages'[k])
  BY DEF Histories, Extends
<1>5. ASSUME NEW k \in Kinds, NEW l \in Nat, l <= Len(messages[k])
      PROVE  SubSeq(messages'[k], 1, l) = SubSeq(messages[k], 1, l)
  <2> DEFINE a == messages[k]
             b == messages'[k]
  <2>1. a \in Seq(Message) /\ b \in Seq(Message) /\ Longer(a, b) /\ l <= Len(a) /\ l \in Int
    BY <1>1, <1>4, <1>5
  <2> HIDE DEF a, b
  <2>2. SubSeq(b, 1, l) = SubSeq(a, 1, l)
    BY <2>1, LongerCut
  <2> QED
    BY <2>2 DEF a, b
<1>6. ASSUME NEW m, HeardLines(text, ends, r.chars, m)
      PROVE  HeardLines(text2, ends2, r.chars, m)'
  <2>1. /\ m \in 0..Len(messages["line"]) /\ Heard("line") = SubSeq(messages["line"], 1, m)
        /\ ends[m] <= r.chars /\ inputBuffer = SubSeq(text, ends[m] + 1, r.chars)
    BY <1>6 DEF HeardLines
  <2>2. ends2[m] = ends[m] /\ ends[m] \in 0..Len(text)
    BY <1>1, <2>1 DEF Extends
  <2>3. m \in Nat /\ m <= Len(messages["line"])
    BY <1>1, <2>1, KindsAre
  <2>4. Heard("line")' = SubSeq(messages'["line"], 1, m)
    BY <1>3, <1>5, <2>1, <2>3, KindsAre
  <2>5. SubSeq(text2, ends[m] + 1, r.chars) = SubSeq(text, ends[m] + 1, r.chars)
    <3>1. Longer(text, text2) /\ ends[m] + 1 \in Nat /\ ends[m] + 1 >= 1 /\ r.chars \in Int
      BY <1>1, <2>2 DEF Extends
    <3> QED
      <4> PICK first \in Nat : first = ends[m] + 1
        BY <3>1
      <4> PICK last \in Int : last = r.chars
        BY <3>1
      <4>1. first >= 1 /\ last <= Len(text) /\ Longer(text, text2) /\ text \in Seq(Byte)
        BY <1>1, <1>2, <3>1
      <4>2. SubSeq(text2, first, last) = SubSeq(text, first, last)
        BY <4>1, LongerCut
      <4> QED
        BY <4>2
  <2>6. m \in 0..Len(messages'["line"])
    <3>1. Len(messages["line"]) <= Len(messages'["line"]) /\ Len(messages'["line"]) \in Nat
      BY <1>4, KindsAre, LenProperties DEF Longer
    <3> QED
      BY <2>3, <3>1
  <2>7. inputBuffer' = SubSeq(text2, ends2[m] + 1, r.chars) /\ ends2[m] <= r.chars
    BY <2>1, <2>2, <2>5
  <2> QED
    BY <2>4, <2>6, <2>7 DEF HeardLines
<1>7. ASSUME NEW k \in Queued \ {"line"}
      PROVE  Heard(k)' = SubSeq(messages'[k], 1, r.said[k])
  <2>1. k \in Kinds /\ r.said[k] \in Nat /\ r.said[k] <= Len(messages[k])
    BY <1>1, KindsAre
  <2>2. Heard(k) = SubSeq(messages[k], 1, r.said[k])
    BY DEF ReceiverLink
  <2> QED
    BY <1>3, <1>5, <2>1, <2>2
<1>8. ASSUME NEW k \in Flagged
      PROVE  (\E at : Selects(at, Heard(k)', r.said[k], messages'[k])) /\ Len(incoming'[k]) <= 1
  <2>1. k \in Kinds /\ k # "line" /\ r.said[k] \in Nat /\ r.said[k] <= Len(messages[k])
    BY <1>1, KindsAre
  <2>2. PICK at : Selects(at, Heard(k), r.said[k], messages[k])
    BY DEF ReceiverLink
  <2>3. Heard(k) \in Seq(Message) /\ messages[k] \in Seq(Message)
    BY <1>1, <2>1, HeardTyped
  <2>4. Selects(at, Heard(k), r.said[k], messages'[k])
    BY <1>4, <2>1, <2>2, <2>3, SelectsLonger
  <2>5. Len(incoming'[k]) <= 1
    BY DEF ReceiverLink
  <2> QED
    BY <1>3, <2>1, <2>4, <2>5
<1>9. \E m : HeardLines(text2, ends2, r.chars, m)'
  BY <1>6 DEF ReceiverLink
<1>10. ReceiverLink(text2, ends2, r)'
  BY <1>7, <1>8, <1>9 DEF ReceiverLink
<1> QED
  BY <1>10 DEF ReceiverTypes

LEMMA GivesNoLine ==
    ASSUME NEW st, NEW sb, NEW b
    PROVE  Gives("line", st, sb, b) = <<>>
<1>1. Announced("line", st, b) = <<>>
  BY DEF Announced, EnabledBy
<1>2. Delivered("line", sb) = <<>>
  BY DEF Delivered
<1> QED
  BY <1>1, <1>2 DEF Gives

(* The newest message takes the place of those of this poll. *)
LEMMA SelectsNewest ==
    ASSUME NEW t \in Seq(Message), NEW u \in Seq(Message), NEW n \in Nat, NEW msgs \in Seq(Message), n < Len(msgs),
           NEW at, Selects(at, t \o u, n, msgs)
    PROVE  \E at2 : Selects(at2, Append(t, msgs[n + 1]), n + 1, msgs)
<1> DEFINE L == Len(t)
           x == msgs[n + 1]
           h == Append(t, x)
           at2 == [i \in 1..(L + 1) |-> IF i = L + 1 THEN n + 1 ELSE at[i]]
<1>1. x \in Message /\ Len(msgs) \in Nat
  BY ElementOfSeq, LenProperties
<1>2. L \in Nat /\ Len(h) = L + 1 /\ h[L + 1] = x /\ \A i \in 1..L : h[i] = t[i]
  BY <1>1, AppendProperties, LenProperties
<1>3. L <= Len(t \o u) /\ Len(t \o u) \in Nat /\ \A i \in 1..L : (t \o u)[i] = t[i]
  <2>1. Len(u) \in Nat /\ Len(t \o u) = L + Len(u)
    BY ConcatProperties, LenProperties
  <2>2. \A i \in 1..L : (t \o u)[i] = t[i]
    BY <2>1, <1>2, ConcatProperties
  <2> QED
    BY <1>2, <2>1, <2>2
<1> DEFINE v == t \o u
<1>4. L <= Len(v) /\ Len(v) \in Nat /\ (\A i \in 1..L : v[i] = t[i]) /\ Selects(at, v, n, msgs)
  BY <1>3
<1> HIDE DEF L, h, v
<1>5. \A i \in 1..L : /\ i \in 1..Len(v) /\ at[i] \in 1..n /\ t[i] = msgs[at[i]]
  <2>1. \A i \in 1..L : i \in 1..Len(v)
    BY <1>2, <1>4
  <2> QED
    BY <1>4, <2>1 DEF Selects
<1>6. /\ DOMAIN at2 = 1..(L + 1) /\ at2[L + 1] = n + 1 /\ \A i \in 1..L : at2[i] = at[i]
      /\ at2 = [i \in 1..(L + 1) |-> at2[i]]
  BY <1>2
<1> HIDE DEF at2
<1>7. ASSUME NEW i \in 1..(L + 1)
      PROVE  at2[i] \in 1..(n + 1) /\ h[i] = msgs[at2[i]]
  <2>1. CASE i = L + 1
    <3>1. at2[i] = n + 1 /\ h[i] = x
      BY <1>2, <1>6, <2>1
    <3> QED
      BY <3>1
  <2>2. CASE i \in 1..L
    <3>1. at2[i] = at[i] /\ at[i] \in 1..n /\ t[i] = msgs[at[i]] /\ h[i] = t[i]
      BY <1>2, <1>5, <1>6, <2>2
    <3> QED
      BY <3>1
  <2> QED
    BY <1>2, <2>1, <2>2
<1>8. ASSUME NEW i \in 1..(L + 1), NEW j \in 1..(L + 1), i < j
      PROVE  at2[i] < at2[j]
  <2>1. i \in 1..L
    BY <1>2, <1>8
  <2>2. CASE j = L + 1
    <3>1. at2[i] \in 1..n /\ at2[j] = n + 1
      BY <1>5, <1>6, <2>1, <2>2
    <3> QED
      BY <3>1
  <2>3. CASE j \in 1..L
    <3>1. at[i] < at[j]
      BY <1>4, <1>5, <1>8, <2>1, <2>3 DEF Selects
    <3> QED
      BY <1>6, <2>1, <2>3, <3>1
  <2> QED
    BY <1>2, <2>2, <2>3
<1>9. at2 \in [1..(L + 1) -> 1..(n + 1)]
  BY <1>6, <1>7
<1>10. Selects(at2, h, n + 1, msgs)
  <2>1. \A i \in 1..Len(h) : h[i] = msgs[at2[i]]
    BY <1>2, <1>7
  <2>2. \A i, j \in 1..Len(h) : i < j => at2[i] < at2[j]
    BY <1>2, <1>8
  <2>3. Len(h) > 0 /\ at2[Len(h)] = n + 1
    BY <1>2, <1>6
  <2>4. at2 \in [1..Len(h) -> 1..(n + 1)]
    BY <1>2, <1>9
  <2> QED
    BY <2>1, <2>2, <2>3, <2>4 DEF Selects
<1> QED
  BY <1>10 DEF h

(* One turn of processTelnetBytes() is one byte of the ideal parser. *)
Parsed(b) ==
    /\ telnetState' = StateAfter(telnetState, b)
    /\ sbBuffer' = SbAfter(telnetState, sbBuffer, b)
    /\ inputBuffer' = IF IsText(telnetState, b) THEN Append(inputBuffer, b) ELSE inputBuffer
    /\ incoming' \in [Kinds -> {incoming'[k] : k \in Kinds}]
    /\ \A k \in Kinds : LET new == Gives(k, telnetState, sbBuffer, b)
                        IN  incoming'[k] = IF k \in Flagged /\ new # <<>> THEN new ELSE incoming[k] \o new
    /\ step = "telnet" /\ rawChunk # <<>> /\ rawChunk' = Tail(rawChunk)
    /\ UNCHANGED <<sender, carrier, step, arrived, closed, told>>

LEMMA ProcessIsParsed ==
    ASSUME ReceiverTypes, ProcessTelnetBytes
    PROVE  Parsed(Head(rawChunk))
<1> DEFINE b == Head(rawChunk)
<1>0. incoming \in [Kinds -> Seq(Message)]
  BY DEF ReceiverTypes, Histories
<1>1. ASSUME UNCHANGED incoming, \A k \in Kinds : Gives(k, telnetState, sbBuffer, b) = <<>>
      PROVE  /\ incoming' \in [Kinds -> {incoming'[k] : k \in Kinds}]
             /\ \A k \in Kinds : LET new == Gives(k, telnetState, sbBuffer, b)
                                 IN  incoming'[k] = IF k \in Flagged /\ new # <<>> THEN new ELSE incoming[k] \o new
  <2>1. \A k \in Kinds : incoming[k] \o <<>> = incoming[k]
    BY <1>0, ConcatEmptySeq
  <2>2. incoming' \in [Kinds -> {incoming'[k] : k \in Kinds}]
    BY <1>0, <1>1
  <2> QED
    BY <1>1, <2>1, <2>2
<1>2. ASSUME NEW new, Receive(new), \A k \in Kinds : new[k] = Gives(k, telnetState, sbBuffer, b)
      PROVE  /\ incoming' \in [Kinds -> {incoming'[k] : k \in Kinds}]
             /\ \A k \in Kinds : LET g == Gives(k, telnetState, sbBuffer, b)
                                 IN  incoming'[k] = IF k \in Flagged /\ g # <<>> THEN g ELSE incoming[k] \o g
  <2>1. incoming' = [k \in Kinds |-> IF k \in Flagged /\ new[k] # <<>> THEN new[k] ELSE incoming[k] \o new[k]]
    BY <1>2 DEF Receive
  <2>2. incoming' \in [Kinds -> {incoming'[k] : k \in Kinds}]
    BY <2>1
  <2>3. \A k \in Kinds : incoming'[k] = IF k \in Flagged /\ new[k] # <<>> THEN new[k] ELSE incoming[k] \o new[k]
    BY <2>1
  <2> QED
    BY <1>2, <2>2, <2>3
<1> USE DEF TakesByte
<1>3. ASSUME DataByte(b) PROVE Parsed(b)
  <2>1. telnetState = "Data" /\ UNCHANGED incoming
    BY <1>3 DEF DataByte
  <2>2. \A k \in Kinds : Gives(k, telnetState, sbBuffer, b) = <<>>
    BY <2>1 DEF Gives
  <2>3. /\ telnetState' = StateAfter(telnetState, b) /\ sbBuffer' = SbAfter(telnetState, sbBuffer, b)
        /\ inputBuffer' = IF IsText(telnetState, b) THEN Append(inputBuffer, b) ELSE inputBuffer
    BY <1>3, <2>1 DEF DataByte, StateAfter, SbAfter, IsText
  <2>4. /\ step = "telnet" /\ rawChunk # <<>> /\ rawChunk' = Tail(rawChunk)
        /\ UNCHANGED <<sender, carrier, step, arrived, closed, told>>
    BY <1>3 DEF DataByte
  <2> QED
    BY <1>1, <2>1, <2>2, <2>3, <2>4 DEF Parsed
<1>4. ASSUME IacByte(b) PROVE Parsed(b)
  <2>1. telnetState = "Iac" /\ UNCHANGED incoming
    BY <1>4 DEF IacByte
  <2>2. \A k \in Kinds : Gives(k, telnetState, sbBuffer, b) = <<>>
    BY <2>1 DEF Gives
  <2>3. /\ telnetState' = StateAfter(telnetState, b) /\ sbBuffer' = SbAfter(telnetState, sbBuffer, b)
        /\ inputBuffer' = IF IsText(telnetState, b) THEN Append(inputBuffer, b) ELSE inputBuffer
    BY <1>4, <2>1 DEF IacByte, StateAfter, SbAfter, IsText, SbBegins
  <2>4. /\ step = "telnet" /\ rawChunk # <<>> /\ rawChunk' = Tail(rawChunk)
        /\ UNCHANGED <<sender, carrier, step, arrived, closed, told>>
    BY <1>4 DEF IacByte
  <2> QED
    BY <1>1, <2>1, <2>2, <2>3, <2>4 DEF Parsed
<1>5. ASSUME SbByte(b) PROVE Parsed(b)
  <2>1. telnetState = "Sb" /\ UNCHANGED incoming
    BY <1>5 DEF SbByte
  <2>2. \A k \in Kinds : Gives(k, telnetState, sbBuffer, b) = <<>>
    BY <2>1 DEF Gives
  <2>3. /\ telnetState' = StateAfter(telnetState, b) /\ sbBuffer' = SbAfter(telnetState, sbBuffer, b)
        /\ inputBuffer' = IF IsText(telnetState, b) THEN Append(inputBuffer, b) ELSE inputBuffer
    BY <1>5, <2>1 DEF SbByte, StateAfter, SbAfter, IsText
  <2>4. /\ step = "telnet" /\ rawChunk # <<>> /\ rawChunk' = Tail(rawChunk)
        /\ UNCHANGED <<sender, carrier, step, arrived, closed, told>>
    BY <1>5 DEF SbByte
  <2> QED
    BY <1>1, <2>1, <2>2, <2>3, <2>4 DEF Parsed
<1>6. ASSUME NegotiationByte(b) PROVE Parsed(b)
  <2>1. telnetState \in {"Will", "Wont", "Do", "Dont"}
        /\ Receive([k \in Kinds |-> Announced(k, telnetState, b)])
    BY <1>6 DEF NegotiationByte
  <2> DEFINE new == [k \in Kinds |-> Announced(k, telnetState, b)]
  <2>2. \A k \in Kinds : new[k] = Gives(k, telnetState, sbBuffer, b)
    BY <2>1 DEF Gives
  <2>3. /\ telnetState' = StateAfter(telnetState, b) /\ sbBuffer' = SbAfter(telnetState, sbBuffer, b)
        /\ inputBuffer' = IF IsText(telnetState, b) THEN Append(inputBuffer, b) ELSE inputBuffer
    BY <1>6, <2>1 DEF NegotiationByte, StateAfter, SbAfter, IsText
  <2>4. /\ step = "telnet" /\ rawChunk # <<>> /\ rawChunk' = Tail(rawChunk)
        /\ UNCHANGED <<sender, carrier, step, arrived, closed, told>>
    BY <1>6 DEF NegotiationByte
  <2>5. Receive(new)
    BY <2>1
  <2> HIDE DEF new
  <2> QED
    BY <1>2, <2>2, <2>3, <2>4, <2>5 DEF Parsed
<1>7. ASSUME SbIacByte(b) PROVE Parsed(b)
  <2>1. telnetState = "SbIac" /\ Receive([k \in Kinds |-> IF b = Se THEN Delivered(k, sbBuffer) ELSE <<>>])
    BY <1>7 DEF SbIacByte
  <2> DEFINE new == [k \in Kinds |-> IF b = Se THEN Delivered(k, sbBuffer) ELSE <<>>]
  <2>2. \A k \in Kinds : new[k] = Gives(k, telnetState, sbBuffer, b)
    BY <2>1 DEF Gives
  <2>3. /\ telnetState' = StateAfter(telnetState, b) /\ sbBuffer' = SbAfter(telnetState, sbBuffer, b)
        /\ inputBuffer' = IF IsText(telnetState, b) THEN Append(inputBuffer, b) ELSE inputBuffer
    <3>1. /\ telnetState' = (IF b = Iac THEN "Sb" ELSE "Data") /\ UNCHANGED inputBuffer
          /\ sbBuffer' = IF b = Iac THEN Append(sbBuffer, Iac) ELSE sbBuffer
      BY <1>7 DEF SbIacByte
    <3> QED
      BY <2>1, <3>1 DEF StateAfter, SbAfter, IsText
  <2>4. /\ step = "telnet" /\ rawChunk # <<>> /\ rawChunk' = Tail(rawChunk)
        /\ UNCHANGED <<sender, carrier, step, arrived, closed, told>>
    BY <1>7 DEF SbIacByte
  <2>5. Receive(new)
    BY <2>1
  <2> HIDE DEF new
  <2> QED
    BY <1>2, <2>2, <2>3, <2>4, <2>5 DEF Parsed
<1> QED
  BY <1>3, <1>4, <1>5, <1>6, <1>7 DEF ProcessTelnetBytes

FirstOf(h, msgs, n) == h = SubSeq(msgs, 1, n)

LEMMA FirstGoOn ==
    ASSUME NEW msgs \in Seq(Message), NEW n \in Nat, n < Len(msgs), NEW h, FirstOf(h, msgs, n), NEW new, new = <<msgs[n + 1]>>
    PROVE  new \in Seq(Message) /\ FirstOf(h \o new, msgs, n + 1)
<1> DEFINE x == msgs[n + 1]
<1>1. x \in Message
  BY ElementOfSeq, LenProperties
<1>2. h = SubSeq(msgs, 1, n) /\ Append(SubSeq(msgs, 1, n), x) = SubSeq(msgs, 1, n + 1)
  BY CutGrows DEF FirstOf
<1>3. new = <<x>> /\ SubSeq(msgs, 1, n) \in Seq(Message)
  BY Cut, LenProperties
<1> HIDE DEF x
<1>4. new \in Seq(Message)
  BY <1>1, <1>3
<1>5. h \o <<x>> = Append(h, x)
  BY <1>1, <1>2, <1>3, AppendIsConcat
<1>6. h \o new = SubSeq(msgs, 1, n + 1)
  BY <1>2, <1>3, <1>5, Zenon
<1> QED
  BY <1>4, <1>6 DEF FirstOf

(* A queued message is the next one of those that were sent. *)
LEMMA NextIsHeard ==
    ASSUME NEW t \in Seq(Message), NEW u \in Seq(Message), NEW msgs \in Seq(Message), NEW n \in Nat, n < Len(msgs),
           NEW h, h = t \o u, FirstOf(h, msgs, n), NEW new, new = <<msgs[n + 1]>>
    PROVE  u \o new \in Seq(Message) /\ FirstOf(t \o (u \o new), msgs, n + 1)
<1>1. new \in Seq(Message) /\ FirstOf(h \o new, msgs, n + 1)
  BY FirstGoOn
<1>2. u \o new \in Seq(Message)
  BY <1>1, ConcatProperties
<1>3. t \o (u \o new) = h \o new
  BY <1>1, ConcatAssociative
<1> QED
  BY <1>1, <1>2, <1>3

(* The newest of the kinds that are only flagged. *)
LEMMA NewestIsHeard ==
    ASSUME NEW t \in Seq(Message), NEW u \in Seq(Message), NEW msgs \in Seq(Message), NEW n \in Nat, n < Len(msgs),
           NEW at, Selects(at, t \o u, n, msgs), NEW new, new = <<msgs[n + 1]>>
    PROVE  /\ new \in Seq(Message) /\ Len(new) <= 1
           /\ \E at2 : Selects(at2, t \o new, n + 1, msgs)
<1> DEFINE x == msgs[n + 1]
<1>1. x \in Message
  BY ElementOfSeq, LenProperties
<1>2. t \o <<x>> = Append(t, x)
  BY <1>1, AppendIsConcat
<1>3. \E at2 : Selects(at2, Append(t, x), n + 1, msgs)
  BY SelectsNewest
<1>4. <<x>> \in Seq(Message) /\ Len(<<x>>) <= 1
  BY <1>1
<1> QED
  BY <1>2, <1>3, <1>4

(* A byte of a line is read into the buffer. *)
LEMMA BufferGrows ==
    ASSUME NEW text \in Seq(Byte), NEW e \in Nat, NEW chars \in Nat, e <= chars, chars < Len(text)
    PROVE  Append(SubSeq(text, e + 1, chars), text[chars + 1]) = SubSeq(text, e + 1, chars + 1)
  BY CutGrows

(* One turn of processTelnetBytes() takes what was parsed one byte on. *)
LEMMA ByteParsed ==
    ASSUME SenderTypes, ReceiverTypes, NEW text, NEW ends, NEW n, NEW r, NEW p, Linked(text, ends, n, r, p),
           ReceiverLink(text, ends, r), n < Len(sent), NEW b, b = sent[n + 1], Parsed(b)
    PROVE  /\ Linked(text, ends, n + 1, After(r, b), p)'
           /\ ReceiverLink(text, ends, After(r, b))' /\ ReceiverTypes' /\ SenderTypes'
<1> DEFINE q == After(r, b)
<1>1. /\ r \in Parsers /\ r.chars \in Nat /\ r.chars <= Len(text) /\ Len(text) \in Nat
      /\ \A k \in Kinds : r.said[k] \in Nat /\ Len(messages[k]) \in Nat /\ messages[k] \in Seq(Message)
      /\ \A k \in Kinds \ {"line"} : r.said[k] <= Len(messages[k])
      /\ \A j \in 0..Len(messages["line"]) : ends[j] \in 0..Len(text)
      /\ n \in 0..Len(sent)
  BY BehindTyped
<1>2. /\ text \in Seq(Byte) /\ sent \in Seq(Byte) /\ Reached(sent, text, messages, n, r, p)
      /\ PeerLink(text, ends, p, typed, saying, messages)
  BY DEF Linked, SenderTypes
<1>3. Fits(r, b, text, messages) /\ Reached(sent, text, messages, n + 1, q, p)
  BY <1>2, ParsesOn
<1>4. b \in Byte
  BY <1>1, <1>2, ElementOfSeq, LenProperties
<1>5. UNCHANGED <<sent, typed, saying, messages, told>>
  BY DEF Parsed, sender
<1>6. Linked(text, ends, n + 1, q, p)' /\ SenderTypes'
  BY <1>2, <1>3, <1>5 DEF Linked, SenderTypes
<1>7. /\ q.state = StateAfter(r.state, b) /\ q.sb = SbAfter(r.state, r.sb, b)
      /\ q.chars = IF IsText(r.state, b) THEN r.chars + 1 ELSE r.chars
      /\ \A k \in Kinds : q.said[k] = IF Gives(k, r.state, r.sb, b) = <<>> THEN r.said[k] ELSE r.said[k] + 1
  BY AfterFields
<1>8. telnetState = r.state /\ sbBuffer = r.sb
  BY DEF ReceiverLink
<1>9. telnetState' = q.state /\ sbBuffer' = q.sb
  BY <1>7, <1>8 DEF Parsed
<1>10. /\ inputBuffer' = (IF IsText(r.state, b) THEN Append(inputBuffer, b) ELSE inputBuffer)
       /\ inputBuffer' \in Seq(Byte)
  <2>1. inputBuffer \in Seq(Byte)
    BY DEF ReceiverTypes
  <2>2. Append(inputBuffer, b) \in Seq(Byte)
    BY <1>4, <2>1, AppendProperties
  <2> QED
    BY <1>8, <2>1, <2>2 DEF Parsed
<1> DEFINE new(k) == Gives(k, r.state, r.sb, b)
<1>11. ASSUME NEW k \in Kinds
       PROVE  incoming'[k] = IF k \in Flagged /\ new(k) # <<>> THEN new(k) ELSE incoming[k] \o new(k)
  BY <1>8 DEF Parsed
<1>12. ASSUME NEW k \in Kinds, new(k) # <<>>
       PROVE  r.said[k] < Len(messages[k]) /\ new(k) = <<messages[k][r.said[k] + 1]>>
  BY <1>3, <1>12 DEF Fits
<1>13. ASSUME NEW k \in Kinds
       PROVE  /\ told[k] \in Seq(Message) /\ incoming[k] \in Seq(Message) /\ Heard(k) = told[k] \o incoming[k]
              /\ Heard(k)' = told[k] \o incoming'[k]
  BY <1>5, HeardTyped DEF Heard
<1>14. ASSUME NEW k \in Kinds, new(k) = <<>>
       PROVE  incoming'[k] = incoming[k] /\ q.said[k] = r.said[k]
  <2>1. incoming[k] \in Seq(Message) /\ incoming[k] \o <<>> = incoming[k]
    BY <1>13, ConcatEmptySeq
  <2> QED
    BY <1>7, <1>11, <1>14, <2>1
<1>15. ASSUME NEW m, HeardLines(text, ends, r.chars, m)
       PROVE  HeardLines(text, ends, q.chars, m)'
  <2>1. /\ m \in 0..Len(messages["line"]) /\ Heard("line") = SubSeq(messages["line"], 1, m)
        /\ ends[m] <= r.chars /\ inputBuffer = SubSeq(text, ends[m] + 1, r.chars)
    BY <1>15 DEF HeardLines
  <2>2. ends[m] \in Nat
    BY <1>1, <2>1
  <2>3. Heard("line")' = Heard("line")
    <3>1. new("line") = <<>>
      BY GivesNoLine
    <3> QED
      BY <1>13, <1>14, <3>1, KindsAre
  <2>4. inputBuffer' = SubSeq(text, ends[m] + 1, q.chars) /\ ends[m] <= q.chars
    <3>1. CASE IsText(r.state, b)
      <4>1. r.chars < Len(text) /\ text[r.chars + 1] = b
        BY <1>3, <3>1 DEF Fits
      <4>2. Append(SubSeq(text, ends[m] + 1, r.chars), text[r.chars + 1]) = SubSeq(text, ends[m] + 1, r.chars + 1)
        BY <1>1, <1>2, <2>1, <2>2, <4>1, BufferGrows
      <4>3. q.chars = r.chars + 1 /\ inputBuffer' = Append(inputBuffer, b)
        BY <1>7, <1>10, <3>1
      <4>4. ends[m] <= r.chars + 1
        BY <1>1, <2>1, <2>2
      <4> QED
        BY <2>1, <4>1, <4>2, <4>3, <4>4
    <3>2. CASE ~IsText(r.state, b)
      BY <1>7, <1>10, <2>1, <3>2
    <3> QED
      BY <3>1, <3>2
  <2> QED
    BY <1>5, <2>1, <2>3, <2>4 DEF HeardLines
<1>16. ASSUME NEW k \in Queued \ {"line"}
       PROVE  incoming'[k] \in Seq(Message) /\ Heard(k)' = SubSeq(messages[k], 1, q.said[k])
  <2>1. k \in Kinds /\ k \notin Flagged
    BY KindsAre
  <2>2. Heard(k) = SubSeq(messages[k], 1, r.said[k])
    BY DEF ReceiverLink
  <2>3. CASE new(k) = <<>>
    <3>1. incoming'[k] = incoming[k] /\ q.said[k] = r.said[k]
      BY <1>14, <2>1, <2>3
    <3> QED
      BY <1>13, <2>1, <2>2, <3>1
  <2>4. CASE new(k) # <<>>
    <3>1. r.said[k] < Len(messages[k]) /\ new(k) = <<messages[k][r.said[k] + 1]>>
      BY <1>12, <2>1, <2>4
    <3>2. incoming'[k] = incoming[k] \o <<messages[k][r.said[k] + 1]>> /\ q.said[k] = r.said[k] + 1
      <4>1. incoming'[k] = incoming[k] \o new(k)
        BY <1>11, <2>1
      <4>2. q.said[k] = r.said[k] + 1
        BY <1>7, <2>1, <2>4
      <4> QED
        BY <3>1, <4>1, <4>2
    <3> DEFINE t == told[k]
               u == incoming[k]
               msgs == messages[k]
               j == r.said[k]
               g == new(k)
               h == Heard(k)
    <3>3. t \in Seq(Message) /\ u \in Seq(Message) /\ msgs \in Seq(Message) /\ j \in Nat /\ j < Len(msgs)
          /\ h = t \o u /\ FirstOf(h, msgs, j) /\ g = <<msgs[j + 1]>>
      BY <1>1, <1>13, <2>1, <2>2, <3>1 DEF FirstOf
    <3> HIDE DEF t, u, msgs, j, g, h
    <3>4. u \o g \in Seq(Message) /\ FirstOf(t \o (u \o g), msgs, j + 1)
      BY <3>3, NextIsHeard
    <3>5. Heard(k)' = t \o incoming'[k] /\ incoming'[k] = u \o g
      BY <1>13, <2>1, <3>1, <3>2 DEF t, u, g
    <3>6. q.said[k] = j + 1 /\ msgs = messages[k]
      BY <3>2 DEF j, msgs
    <3> QED
      BY <3>4, <3>5, <3>6, Zenon DEF FirstOf
  <2> QED
    BY <2>3, <2>4
<1>17. ASSUME NEW k \in Flagged
       PROVE  /\ incoming'[k] \in Seq(Message) /\ Len(incoming'[k]) <= 1
              /\ \E at : Selects(at, Heard(k)', q.said[k], messages[k])
  <2>1. k \in Kinds
    BY KindsAre
  <2>2. PICK at : Selects(at, Heard(k), r.said[k], messages[k])
    BY DEF ReceiverLink
  <2>3. Len(incoming[k]) <= 1
    BY DEF ReceiverLink
  <2>4. CASE new(k) = <<>>
    <3>1. incoming'[k] = incoming[k] /\ q.said[k] = r.said[k]
      BY <1>14, <2>1, <2>4
    <3>2. Heard(k)' = Heard(k) /\ incoming'[k] \in Seq(Message)
      BY <1>13, <2>1, <3>1
    <3>3. Selects(at, Heard(k)', q.said[k], messages[k])
      BY <2>2, <3>1, <3>2
    <3> QED
      BY <2>3, <3>1, <3>2, <3>3
  <2>5. CASE new(k) # <<>>
    <3>1. r.said[k] < Len(messages[k]) /\ new(k) = <<messages[k][r.said[k] + 1]>>
      BY <1>12, <2>1, <2>5
    <3>2. incoming'[k] = <<messages[k][r.said[k] + 1]>> /\ q.said[k] = r.said[k] + 1
      <4>1. incoming'[k] = new(k)
        BY <1>11, <2>1, <2>5
      <4>2. q.said[k] = r.said[k] + 1
        BY <1>7, <2>1, <2>5
      <4> QED
        BY <3>1, <4>1, <4>2
    <3> DEFINE t == told[k]
               u == incoming[k]
               msgs == messages[k]
               j == r.said[k]
               g == new(k)
    <3>3. t \in Seq(Message) /\ u \in Seq(Message) /\ msgs \in Seq(Message) /\ j \in Nat /\ j < Len(msgs)
          /\ Selects(at, t \o u, j, msgs) /\ g = <<msgs[j + 1]>>
      <4>1. Selects(at, told[k] \o incoming[k], r.said[k], messages[k])
        BY <1>13, <2>1, <2>2
      <4> QED
        BY <1>1, <1>13, <2>1, <3>1, <4>1
    <3> HIDE DEF t, u, msgs, j, g
    <3>4. g \in Seq(Message) /\ Len(g) <= 1 /\ \E at2 : Selects(at2, t \o g, j + 1, msgs)
      BY <3>3, NewestIsHeard
    <3>5. Heard(k)' = t \o incoming'[k] /\ incoming'[k] = g
      BY <1>13, <2>1, <3>1, <3>2 DEF t, g
    <3>6. q.said[k] = j + 1 /\ msgs = messages[k]
      BY <3>2 DEF j, msgs
    <3> QED
      BY <3>4, <3>5, <3>6, Zenon
  <2> QED
    BY <2>4, <2>5
<1>18. incoming' \in Histories /\ told' \in Histories
  <2>1. ASSUME NEW k \in Kinds
        PROVE  incoming'[k] \in Seq(Message)
    <3>1. CASE k = "line"
      <4>1. new("line") = <<>>
        BY GivesNoLine
      <4> QED
        BY <1>13, <1>14, <3>1, <4>1, KindsAre
    <3>2. CASE k \in Queued \ {"line"}
      BY <1>16, <3>2
    <3>3. CASE k \in Flagged
      BY <1>17, <3>3
    <3> QED
      BY <3>1, <3>2, <3>3, KindsAre
  <2>2. incoming' \in [Kinds -> {incoming'[k] : k \in Kinds}]
    BY DEF Parsed
  <2> QED
    BY <1>5, <2>1, <2>2 DEF ReceiverTypes, Histories
<1> HIDE DEF q, new
<1>19. \E m : HeardLines(text, ends, q.chars, m)'
  BY <1>15 DEF ReceiverLink
<1>20. ReceiverLink(text, ends, q)'
  BY <1>5, <1>9, <1>16, <1>17, <1>19 DEF ReceiverLink
<1>21. ReceiverTypes'
  BY <1>10, <1>18 DEF ReceiverTypes
<1> QED
  BY <1>6, <1>20, <1>21, Zenon DEF q

(* The buffer is a part of the text. *)
PartOf(buffer, text, e, c) == buffer = SubSeq(text, e + 1, c)

LEMMA BufferIs ==
    ASSUME NEW text \in Seq(Byte), NEW e \in Nat, NEW c \in Nat, e <= c, c <= Len(text),
           NEW buffer, PartOf(buffer, text, e, c)
    PROVE  /\ buffer \in Seq(Byte) /\ Len(buffer) = c - e /\ DOMAIN buffer = 1..(c - e)
           /\ \A i \in 1..(c - e) : buffer[i] = text[e + i]
<1>1. Len(text) \in Nat
  BY LenProperties
<1>2. /\ buffer \in Seq(Byte) /\ Len(buffer) = (IF e + 1 <= c THEN c - (e + 1) + 1 ELSE 0)
      /\ \A i \in 1..(c - (e + 1) + 1) : buffer[i] = text[e + 1 + i - 1]
  BY <1>1, Cut DEF PartOf
<1>3. c - (e + 1) + 1 = c - e /\ \A i \in 1..(c - e) : e + 1 + i - 1 = e + i
  OBVIOUS
<1>4. Len(buffer) = c - e
  BY <1>2
<1>5. DOMAIN buffer = 1..(c - e)
  BY <1>2, <1>4, LenProperties
<1>6. \A i \in 1..(c - e) : buffer[i] = text[e + i]
  BY <1>2, <1>3
<1> QED
  BY <1>2, <1>4, <1>5, <1>6

LEMMA BufferCut ==
    ASSUME NEW text \in Seq(Byte), NEW e \in Nat, NEW c \in Nat, e <= c, c <= Len(text),
           NEW buffer, PartOf(buffer, text, e, c), NEW pos \in 1..(c - e)
    PROVE  /\ SubSeq(buffer, 1, pos - 1) = SubSeq(text, e + 1, e + pos - 1)
           /\ PartOf(SubSeq(buffer, pos + 1, Len(buffer)), text, e + pos, c)
<1>1. Len(text) \in Nat /\ Len(buffer) = c - e
  BY BufferIs, LenProperties
<1>2. SubSeq(SubSeq(text, e + 1, c), 1, pos - 1) = SubSeq(text, e + 1 + 1 - 1, e + 1 + (pos - 1) - 1)
  BY <1>1, CutTwice
<1>3. SubSeq(SubSeq(text, e + 1, c), pos + 1, c - e) = SubSeq(text, e + 1 + (pos + 1) - 1, e + 1 + (c - e) - 1)
  BY <1>1, CutTwice
<1>4. /\ e + 1 + 1 - 1 = e + 1 /\ e + 1 + (pos - 1) - 1 = e + pos - 1
      /\ e + 1 + (pos + 1) - 1 = e + pos + 1 /\ e + 1 + (c - e) - 1 = c
  OBVIOUS
<1> QED
  BY <1>1, <1>2, <1>3, <1>4 DEF PartOf

FirstIn(buffer, mark, pos) == buffer[pos] = mark /\ \A i \in 1..(pos - 1) : buffer[i] # mark

LEMMA FirstInBuffer ==
    ASSUME NEW text \in Seq(Byte), NEW e \in Nat, NEW c \in Nat, e <= c, c <= Len(text),
           NEW buffer, PartOf(buffer, text, e, c), NEW mark, NEW pos \in 1..Len(buffer), FirstIn(buffer, mark, pos)
    PROVE  /\ e + pos \in Nat /\ e < e + pos /\ e + pos <= c /\ text[e + pos] = mark
           /\ Unmarked(text, mark, e, e + pos) /\ pos \in 1..(c - e)
<1>1. Len(text) \in Nat
  BY LenProperties
<1>2. Len(buffer) = c - e /\ \A i \in 1..(c - e) : buffer[i] = text[e + i]
  BY BufferIs
<1>3. pos \in 1..(c - e) /\ e + pos \in Nat /\ e < e + pos /\ e + pos <= c
  BY <1>2
<1>4. text[e + pos] = mark
  BY <1>2, <1>3 DEF FirstIn
<1>5. ASSUME NEW i \in 1..Len(text), e < i, i < e + pos
      PROVE  text[i] # mark
  <2>1. i - e \in 1..(pos - 1) /\ i - e \in 1..(c - e) /\ e + (i - e) = i
    BY <1>1, <1>3, <1>5
  <2>2. buffer[i - e] # mark /\ buffer[i - e] = text[e + (i - e)]
    BY <1>2, <2>1 DEF FirstIn
  <2> QED
    BY <2>1, <2>2
<1> QED
  BY <1>3, <1>4, <1>5 DEF Unmarked

(* What of a buffer up to its first line feed is a line is the next one that   *)
(* was sent.                                                                  *)
EndsAt(ends, m, e) == ends[m] = e

LEMMA LineIsNext ==
    ASSUME NEW text \in Seq(Byte), NEW ends, NEW lines \in Seq(Message), NEW line, Lines(text, ends, lines, line),
           NEW m \in 0..Len(lines), NEW e \in Nat, EndsAt(ends, m, e), NEW c \in Nat, e <= c, c <= Len(text),
           NEW buffer, PartOf(buffer, text, e, c), NEW pos \in 1..Len(buffer), FirstIn(buffer, LF, pos)
    PROVE  /\ m < Len(lines) /\ lines[m + 1] = WithoutCR(SubSeq(buffer, 1, pos - 1))
           /\ ends[m + 1] <= c /\ PartOf(SubSeq(buffer, pos + 1, Len(buffer)), text, ends[m + 1], c)
<1>1. Len(lines) \in Nat /\ Len(text) \in Nat
  BY LenProperties
<1>2. /\ Marks(text, LF, ends, Len(lines))
      /\ \A j \in 1..Len(lines) : lines[j] = WithoutCR(SubSeq(text, ends[j - 1] + 1, ends[j] - 1))
  BY DEF Lines
<1>3. /\ e + pos \in Nat /\ e < e + pos /\ e + pos <= c /\ text[e + pos] = LF
      /\ Unmarked(text, LF, e, e + pos) /\ pos \in 1..(c - e)
  BY FirstInBuffer
<1>4. /\ SubSeq(buffer, 1, pos - 1) = SubSeq(text, e + 1, e + pos - 1)
      /\ PartOf(SubSeq(buffer, pos + 1, Len(buffer)), text, e + pos, c)
  BY <1>3, BufferCut
<1>5. PICK P \in Nat : P = e + pos
  BY <1>3
<1>6. PICK L \in Nat : L = Len(lines)
  BY <1>1
<1>7. m < L /\ ends[m + 1] = P
  <2>1. e = ends[m]
    BY DEF EndsAt
  <2>2. Unmarked(text, LF, e, P) /\ e < P /\ P <= Len(text) /\ text[P] = LF
    BY <1>1, <1>3, <1>5
  <2>3. Marks(text, LF, ends, L) /\ m \in 0..L
    BY <1>2, <1>6
  <2> QED
    BY <2>1, <2>2, <2>3, FirstMark
<1>8. m + 1 \in 1..Len(lines) /\ m + 1 - 1 = m /\ m < Len(lines)
  BY <1>6, <1>7
<1>9. lines[m + 1] = WithoutCR(SubSeq(text, e + 1, P - 1))
  BY <1>2, <1>7, <1>8 DEF EndsAt
<1>10. lines[m + 1] = WithoutCR(SubSeq(buffer, 1, pos - 1))
  <2>1. SubSeq(buffer, 1, pos - 1) = SubSeq(text, e + 1, P - 1)
    BY <1>4, <1>5
  <2> QED
    BY <1>9, <2>1, Zenon
<1>11. ends[m + 1] <= c /\ PartOf(SubSeq(buffer, pos + 1, Len(buffer)), text, ends[m + 1], c)
  BY <1>3, <1>4, <1>5, <1>7
<1> QED
  BY <1>8, <1>10, <1>11

(* What the sender did does not change while the driver reads. *)
LEMMA SenderStill ==
    ASSUME SenderTypes, NEW text, NEW ends, NEW n, NEW r, NEW p, Linked(text, ends, n, r, p), UNCHANGED sender
    PROVE  Linked(text, ends, n, r, p)' /\ SenderTypes'
<1>1. UNCHANGED <<sent, typed, saying, messages>>
  BY DEF sender
<1> QED
  BY <1>1 DEF Linked, SenderTypes

(* A line is split off: it is the next one that was sent. *)
LEMMA SplitLineHeard ==
    ASSUME SenderTypes, ReceiverTypes, NEW text, NEW ends, NEW n, NEW r, NEW p, Linked(text, ends, n, r, p),
           ReceiverLink(text, ends, r), NEW pos \in DOMAIN inputBuffer, SplitLine(pos)
    PROVE  ReceiverLink(text, ends, r)' /\ ReceiverTypes'
<1>1. /\ r.chars \in Nat /\ r.chars <= Len(text) /\ Len(text) \in Nat
      /\ \A k \in Kinds : messages[k] \in Seq(Message) /\ Len(messages[k]) \in Nat
      /\ \A j \in 0..Len(messages["line"]) : ends[j] \in 0..Len(text)
  BY BehindTyped
<1>2. text \in Seq(Byte) /\ Lines(text, ends, messages["line"], typed)
  BY LinkedTyped
<1> DEFINE lines == messages["line"]
           line == WithoutCR(SubSeq(inputBuffer, 1, pos - 1))
<1>3. /\ inputBuffer[pos] = LF /\ \A i \in 1..(pos - 1) : inputBuffer[i] # LF
      /\ incoming' = [incoming EXCEPT !["line"] = Append(@, line)]
      /\ inputBuffer' = SubSeq(inputBuffer, pos + 1, Len(inputBuffer))
      /\ UNCHANGED <<messages, telnetState, sbBuffer, told>>
  BY DEF SplitLine, sender, polling
<1>4. PICK m : HeardLines(text, ends, r.chars, m)
  BY DEF ReceiverLink
<1>5. /\ m \in 0..Len(lines) /\ Heard("line") = SubSeq(lines, 1, m)
      /\ ends[m] <= r.chars /\ inputBuffer = SubSeq(text, ends[m] + 1, r.chars)
  BY <1>4 DEF HeardLines
<1>51. PartOf(inputBuffer, text, ends[m], r.chars)
  BY <1>5 DEF PartOf
<1>6. inputBuffer \in Seq(Byte) /\ pos \in 1..Len(inputBuffer) /\ Len(inputBuffer) \in Nat
  BY LenProperties DEF ReceiverTypes
<1>7. lines \in Seq(Message) /\ Len(lines) \in Nat
  BY <1>1, KindsAre
<1> HIDE DEF line, lines
<1>8. /\ m < Len(lines) /\ lines[m + 1] = line
      /\ ends[m + 1] <= r.chars /\ inputBuffer' = SubSeq(text, ends[m + 1] + 1, r.chars)
  <2>1. Lines(text, ends, lines, typed)
    BY <1>2 DEF lines
  <2>2. /\ m < Len(lines) /\ lines[m + 1] = WithoutCR(SubSeq(inputBuffer, 1, pos - 1))
        /\ ends[m + 1] <= r.chars
        /\ PartOf(SubSeq(inputBuffer, pos + 1, Len(inputBuffer)), text, ends[m + 1], r.chars)
    <3>1. m \in 0..Len(lines) /\ ends[m] <= r.chars
      BY <1>5
    <3>2. FirstIn(inputBuffer, LF, pos)
      BY <1>3 DEF FirstIn
    <3>3. PICK e \in Nat : EndsAt(ends, m, e)
      BY <1>1, <3>1 DEF lines, EndsAt
    <3>4. PICK c \in Nat : c = r.chars
      BY <1>1
    <3>5. e <= c /\ c <= Len(text) /\ PartOf(inputBuffer, text, e, c)
      BY <1>1, <1>51, <3>1, <3>3, <3>4 DEF EndsAt
    <3>6. /\ m < Len(lines) /\ lines[m + 1] = WithoutCR(SubSeq(inputBuffer, 1, pos - 1))
          /\ ends[m + 1] <= c
          /\ PartOf(SubSeq(inputBuffer, pos + 1, Len(inputBuffer)), text, ends[m + 1], c)
      BY <1>2, <1>6, <1>7, <2>1, <3>1, <3>2, <3>3, <3>5, LineIsNext
    <3> QED
      BY <3>4, <3>6
  <2> QED
    BY <1>3, <2>2 DEF line, PartOf
<1>9. told["line"] \in Seq(Message) /\ incoming["line"] \in Seq(Message)
  BY HeardTyped, KindsAre
<1> DEFINE t == told["line"]
           u == incoming["line"]
           h == Heard("line")
           new == <<line>>
<1>10. m \in Nat /\ FirstOf(h, lines, m) /\ h = t \o u /\ t \in Seq(Message) /\ u \in Seq(Message) /\ new = <<lines[m + 1]>>
  BY <1>5, <1>7, <1>8, <1>9 DEF FirstOf, Heard
<1>11. incoming \in [Kinds -> Seq(Message)] /\ told \in [Kinds -> Seq(Message)]
  BY DEF ReceiverTypes, Histories
<1>12. incoming'["line"] = u \o new /\ \A k \in Kinds \ {"line"} : incoming'[k] = incoming[k]
  <2>1. line \in Message
    <3>1. lines[m + 1] \in Message
      BY <1>7, <1>8, <1>10, ElementOfSeq
    <3> QED
      BY <1>8, <3>1
  <2>2. Append(u, line) = u \o <<line>>
    BY <1>9, <2>1, AppendIsConcat
  <2>3. incoming'["line"] = Append(u, line) /\ \A k \in Kinds \ {"line"} : incoming'[k] = incoming[k]
    BY <1>3, <1>11, KindsAre
  <2> QED
    BY <2>2, <2>3
<1>13. Heard("line")' = t \o (u \o new)
  BY <1>3, <1>12 DEF Heard
<1>14. \A k \in Kinds \ {"line"} : Heard(k)' = Heard(k)
  BY <1>3, <1>12 DEF Heard
<1> HIDE DEF t, u, h, new
<1>15. u \o new \in Seq(Message) /\ FirstOf(t \o (u \o new), lines, m + 1)
  BY <1>7, <1>8, <1>10, NextIsHeard
<1>16. Heard("line")' = SubSeq(messages["line"], 1, m + 1)
  BY <1>13, <1>15, Zenon DEF FirstOf, lines
<1>17. m + 1 \in 0..Len(messages["line"])
  BY <1>5, <1>7, <1>8 DEF lines
<1>18. HeardLines(text, ends, r.chars, m + 1)'
  BY <1>3, <1>8, <1>16, <1>17 DEF HeardLines
<1>19. ReceiverLink(text, ends, r)'
  <2>1. /\ \A k \in Queued \ {"line"} : k \in Kinds \ {"line"}
        /\ \A k \in Flagged : k \in Kinds \ {"line"}
    BY KindsAre
  <2>2. telnetState' = r.state /\ sbBuffer' = r.sb
    BY <1>3 DEF ReceiverLink
  <2>3. \A k \in Queued \ {"line"} : Heard(k)' = SubSeq(messages'[k], 1, r.said[k])
    BY <1>3, <1>14, <2>1 DEF ReceiverLink
  <2>4. \A k \in Flagged : (\E at : Selects(at, Heard(k)', r.said[k], messages'[k])) /\ Len(incoming'[k]) <= 1
    BY <1>3, <1>12, <1>14, <2>1 DEF ReceiverLink
  <2> QED
    BY <1>18, <2>2, <2>3, <2>4 DEF ReceiverLink
<1>20. inputBuffer' \in Seq(Byte)
  <2>1. SubSeq(inputBuffer, pos + 1, Len(inputBuffer)) \in Seq(Byte)
    BY <1>6, Cut
  <2> QED
    BY <1>3, <2>1
<1>21. incoming' \in Histories /\ told' \in Histories
  <2>1. \A k \in Kinds : incoming'[k] \in Seq(Message)
    BY <1>11, <1>12, <1>15
  <2>2. incoming' \in [Kinds -> {incoming'[k] : k \in Kinds}]
    BY <1>3, <1>11
  <2> QED
    BY <1>3, <1>11, <2>1, <2>2 DEF Histories
<1> QED
  BY <1>19, <1>20, <1>21 DEF ReceiverTypes

(* The mudlib is told what had come in. *)
LEMMA ConnectionHandled ==
    ASSUME SenderTypes, ReceiverTypes, NEW text, NEW ends, NEW n, NEW r, NEW p, Linked(text, ends, n, r, p),
           ReceiverLink(text, ends, r), HandleConnection
    PROVE  ReceiverLink(text, ends, r)' /\ ReceiverTypes'
<1>1. /\ told' = [k \in Kinds |-> told[k] \o incoming[k]] /\ incoming' = Nothing
      /\ UNCHANGED <<messages, telnetState, sbBuffer, inputBuffer>>
  BY DEF HandleConnection, sender
<1>2. ASSUME NEW k \in Kinds
      PROVE  told'[k] = Heard(k) /\ incoming'[k] = <<>> /\ Heard(k)' = Heard(k) /\ Heard(k) \in Seq(Message)
  <2>1. told'[k] = Heard(k) /\ incoming'[k] = <<>>
    BY <1>1 DEF Nothing, Heard
  <2>2. Heard(k) \in Seq(Message)
    BY HeardTyped
  <2>3. Heard(k)' = Heard(k) \o <<>>
    BY <2>1 DEF Heard
  <2>4. Heard(k) \o <<>> = Heard(k)
    BY <2>2, ConcatEmptySeq
  <2> QED
    BY <2>1, <2>2, <2>3, <2>4, Zenon
<1>3. \A m : HeardLines(text, ends, r.chars, m) => HeardLines(text, ends, r.chars, m)'
  BY <1>1, <1>2, KindsAre DEF HeardLines
<1>4. ReceiverLink(text, ends, r)'
  <2>1. \A k \in Queued \cup Flagged : k \in Kinds
    BY KindsAre
  <2>2. telnetState' = r.state /\ sbBuffer' = r.sb
    BY <1>1 DEF ReceiverLink
  <2>3. \A k \in Queued \ {"line"} : Heard(k)' = SubSeq(messages'[k], 1, r.said[k])
    BY <1>1, <1>2, <2>1 DEF ReceiverLink
  <2>4. \A k \in Flagged : (\E at : Selects(at, Heard(k)', r.said[k], messages'[k])) /\ Len(incoming'[k]) <= 1
    <3> SUFFICES ASSUME NEW k \in Flagged
                 PROVE  (\E at : Selects(at, Heard(k)', r.said[k], messages'[k])) /\ Len(incoming'[k]) <= 1
      OBVIOUS
    <3>1. Len(<<>>) = 0
      BY EmptySeq
    <3>2. Heard(k)' = Heard(k) /\ incoming'[k] = <<>> /\ messages' = messages
      BY <1>1, <1>2, <2>1
    <3>3. PICK at : Selects(at, Heard(k), r.said[k], messages[k])
      BY DEF ReceiverLink
    <3>4. Selects(at, Heard(k)', r.said[k], messages'[k])
      BY <3>2, <3>3
    <3>5. Len(incoming'[k]) <= 1
      BY <3>1, <3>2
    <3> QED
      BY <3>4, <3>5
  <2>5. \E m : HeardLines(text, ends, r.chars, m)'
    BY <1>3 DEF ReceiverLink
  <2> QED
    BY <2>2, <2>3, <2>4, <2>5 DEF ReceiverLink
<1>5. incoming' \in Histories /\ told' \in Histories
  <2>1. incoming' \in [Kinds -> Seq(Message)]
    BY <1>1, EmptySeq DEF Nothing
  <2>2. told' \in [Kinds -> Seq(Message)]
    <3>1. \A k \in Kinds : told'[k] \in Seq(Message)
      BY <1>2
    <3>2. told' = [k \in Kinds |-> told'[k]]
      BY <1>1
    <3> QED
      BY <3>1, <3>2
  <2> QED
    BY <2>1, <2>2 DEF Histories
<1>6. inputBuffer' \in Seq(Byte)
  BY <1>1 DEF ReceiverTypes
<1> QED
  BY <1>4, <1>5, <1>6 DEF ReceiverTypes

-----------------------------------------------------------------------------
(* Frames: what decodeWsFrames() finds in a frame as a client writes it.     *)

LEMMA Digits256 ==
    ASSUME NEW n \in Nat
    PROVE  /\ (n \div 256) * 256 + (n % 256) = n
           /\ n \div 256 \in Nat /\ n % 256 \in Byte /\ (n <= 65535 => n \div 256 \in Byte)
<1>1. /\ (n \div 256) * 256 + (n % 256) = n
      /\ n \div 256 \in Int /\ n \div 256 >= 0
      /\ n % 256 \in Int /\ n % 256 >= 0 /\ n % 256 <= 255
      /\ n <= 65535 => n \div 256 <= 255
  OBVIOUS
<1> QED
  BY <1>1 DEF Byte

LEMMA Digits65536 ==
    ASSUME NEW n \in Nat
    PROVE  /\ (n \div 65536) * 65536 + (n % 65536) = n
           /\ n \div 65536 \in Nat /\ n % 65536 \in Nat /\ n % 65536 <= 65535
           /\ n <= LongestFrame => n \div 65536 <= 65535
<1>1. /\ (n \div 65536) * 65536 + (n % 65536) = n
      /\ n \div 65536 \in Int /\ n \div 65536 >= 0
      /\ n % 65536 \in Int /\ n % 65536 >= 0 /\ n % 65536 <= 65535
  OBVIOUS
<1>2. n <= 2147483647 => n \div 65536 <= 65535
  OBVIOUS
<1> QED
  BY <1>1, <1>2 DEF LongestFrame

LEMMA Flags ==
    ASSUME NEW flag \in {0, 128}, NEW l \in 0..127
    PROVE  (flag + l) % 128 = l /\ (flag + l >= 128 <=> flag = 128) /\ flag + l \in Byte
  BY DEF Byte

(* The length of a frame: how many bytes tell it. *)
LengthSize(len) == IF len <= 125 THEN 1 ELSE IF len <= 65535 THEN 3 ELSE 9

LEMMA LengthsAre ==
    ASSUME NEW len \in Nat, len <= LongestFrame, NEW flag \in {0, 128}
    PROVE  /\ Lengths(len, flag) \in Seq(Byte) /\ Len(Lengths(len, flag)) = LengthSize(len)
           /\ LengthSize(len) \in {1, 3, 9}
<1>1. CASE len <= 125
  <2>1. flag + len \in Byte
    BY <1>1, Flags
  <2> DEFINE a == flag + len
  <2>2. Lengths(len, flag) = <<a>> /\ LengthSize(len) = 1
    BY <1>1 DEF Lengths, LengthSize
  <2> HIDE DEF a
  <2>3. <<a>> \in Seq(Byte) /\ Len(<<a>>) = 1
    BY <2>1 DEF a
  <2> QED
    BY <2>2, <2>3
<1>2. CASE len > 125 /\ len <= 65535
  <2> DEFINE a == flag + 126
             b == len \div 256
             c == len % 256
  <2>1. a \in Byte /\ b \in Byte /\ c \in Byte
    BY <1>2, Flags, Digits256
  <2>2. Lengths(len, flag) = <<a, b, c>> /\ LengthSize(len) = 3
    BY <1>2 DEF Lengths, LengthSize
  <2> HIDE DEF a, b, c
  <2>3. <<a, b, c>> \in Seq(Byte) /\ Len(<<a, b, c>>) = 3
    BY <2>1
  <2> QED
    BY <2>2, <2>3
<1>3. CASE len > 65535
  <2> DEFINE high == len \div 65536
             low == len % 65536
             a == flag + 127
             b == high \div 256
             c == high % 256
             d == low \div 256
             e == low % 256
  <2>1. high \in Nat /\ high <= 65535 /\ low \in Nat /\ low <= 65535
    BY Digits65536
  <2>2. Lengths(len, flag) = <<a, 0, 0, 0, 0, b, c, d, e>> /\ LengthSize(len) = 9
    BY <1>3 DEF Lengths, LengthSize
  <2> HIDE DEF high, low
  <2>3. a \in Byte /\ b \in Byte /\ c \in Byte /\ d \in Byte /\ e \in Byte /\ 0 \in Byte
    BY <2>1, Flags, Digits256 DEF Byte
  <2> HIDE DEF a, b, c, d, e
  <2>4. <<a, 0, 0, 0, 0, b, c, d, e>> \in Seq(Byte) /\ Len(<<a, 0, 0, 0, 0, b, c, d, e>>) = 9
    BY <2>3
  <2> QED
    BY <2>2, <2>4
<1> QED
  BY <1>1, <1>2, <1>3 DEF LengthSize

LongForm(len, flag, high, low) ==
    /\ high * 65536 + low = len
    /\ Lengths(len, flag) = <<flag + 127, 0, 0, 0, 0, high \div 256, high % 256, low \div 256, low % 256>>

LEMMA LongLengths ==
    ASSUME NEW len \in Nat, len > 65535, NEW flag \in {0, 128}
    PROVE  \E high, low \in Nat : LongForm(len, flag, high, low)
<1> DEFINE high == len \div 65536
           low == len % 65536
<1>1. high \in Nat /\ low \in Nat /\ high * 65536 + low = len
  BY Digits65536
<1>2. Lengths(len, flag) = <<flag + 127, 0, 0, 0, 0, high \div 256, high % 256, low \div 256, low % 256>>
  BY DEF Lengths
<1> QED
  BY <1>1, <1>2 DEF LongForm

(* The part of a buffer that tells a frame's length. *)
Begins(buf, len, flag) ==
    \A i \in 1..LengthSize(len) : 1 + i <= Len(buf) => buf[1 + i] = Lengths(len, flag)[i]

LEMMA LengthRead ==
    ASSUME NEW len \in Nat, len <= LongestFrame, NEW flag \in {0, 128}, NEW buf \in Seq(Byte), Len(buf) >= 2,
           Begins(buf, len, flag)
    PROVE  /\ MaskAt(buf) = 1 + LengthSize(len)
           /\ DataAt(buf) = 1 + LengthSize(len) + (IF flag = 128 THEN 4 ELSE 0)
           /\ Len(buf) >= MaskAt(buf) => FrameEnd(buf) = DataAt(buf) + len
<1>1. Len(buf) \in Nat
  BY LenProperties
<1>2. CASE len <= 125
  <2>1. LengthSize(len) = 1 /\ Lengths(len, flag) = <<flag + len>>
    BY <1>2 DEF Lengths, LengthSize
  <2>2. buf[2] = flag + len
    BY <1>1, <2>1 DEF Begins
  <2>3. buf[2] % 128 = len /\ (buf[2] >= 128 <=> flag = 128)
    <3>1. (flag + len) % 128 = len /\ (flag + len >= 128 <=> flag = 128)
      BY <1>2
    <3> QED
      BY <2>2, <3>1
  <2>4. Length(buf) = len /\ len # 126 /\ len # 127
    BY <1>2, <2>3 DEF Length
  <2>5. MaskAt(buf) = 2
    BY <2>4 DEF MaskAt
  <2>6. DataAt(buf) = 2 + (IF flag = 128 THEN 4 ELSE 0)
    BY <2>3, <2>5 DEF DataAt
  <2>7. FrameEnd(buf) = DataAt(buf) + len
    BY <2>4 DEF FrameEnd
  <2> QED
    BY <2>1, <2>5, <2>6, <2>7
<1>3. CASE len > 125 /\ len <= 65535
  <2> DEFINE b == len \div 256
             c == len % 256
  <2>1. LengthSize(len) = 3 /\ Lengths(len, flag) = <<flag + 126, b, c>>
    BY <1>3 DEF Lengths, LengthSize
  <2>2. b * 256 + c = len
    BY Digits256
  <2> HIDE DEF b, c
  <2>3. buf[2] = flag + 126
    BY <1>1, <2>1 DEF Begins
  <2>4. buf[2] % 128 = 126 /\ (buf[2] >= 128 <=> flag = 128)
    <3>1. (flag + 126) % 128 = 126 /\ (flag + 126 >= 128 <=> flag = 128)
      OBVIOUS
    <3> QED
      BY <2>3, <3>1
  <2>5. Length(buf) = 126
    BY <2>4 DEF Length
  <2>6. MaskAt(buf) = 4
    BY <2>5 DEF MaskAt
  <2>7. DataAt(buf) = 4 + (IF flag = 128 THEN 4 ELSE 0)
    BY <2>4, <2>6 DEF DataAt
  <2>8. ASSUME Len(buf) >= 4
        PROVE  FrameEnd(buf) = DataAt(buf) + len
    <3>1. buf[3] = b /\ buf[4] = c
      BY <1>1, <2>1, <2>8 DEF Begins
    <3>2. FrameEnd(buf) = DataAt(buf) + (buf[3] * 256 + buf[4])
      BY <2>5 DEF FrameEnd, NumberAt
    <3> QED
      BY <2>2, <3>1, <3>2
  <2> QED
    BY <2>1, <2>6, <2>7, <2>8
<1>4. CASE len > 65535
  <2>1. PICK high \in Nat, low \in Nat : LongForm(len, flag, high, low)
    BY <1>4, LongLengths
  <2> DEFINE b == high \div 256
             c == high % 256
             d == low \div 256
             e == low % 256
             a == flag + 127
  <2>2. Lengths(len, flag) = <<a, 0, 0, 0, 0, b, c, d, e>> /\ LengthSize(len) = 9
    BY <1>4, <2>1 DEF LengthSize, LongForm
  <2>3. b * 256 + c = high /\ d * 256 + e = low
    BY Digits256
  <2> HIDE DEF a, b, c, d, e
  <2>4. buf[2] = flag + 127
    BY <1>1, <2>2 DEF Begins, a
  <2>5. buf[2] % 128 = 127 /\ (buf[2] >= 128 <=> flag = 128)
    <3>1. (flag + 127) % 128 = 127 /\ (flag + 127 >= 128 <=> flag = 128)
      OBVIOUS
    <3> QED
      BY <2>4, <3>1
  <2>6. Length(buf) = 127
    BY <2>5 DEF Length
  <2>7. MaskAt(buf) = 10
    BY <2>6 DEF MaskAt
  <2>8. DataAt(buf) = 10 + (IF flag = 128 THEN 4 ELSE 0)
    BY <2>5, <2>7 DEF DataAt
  <2>9. ASSUME Len(buf) >= 10
        PROVE  FrameEnd(buf) = DataAt(buf) + len
    <3>1. /\ buf[3] = 0 /\ buf[4] = 0 /\ buf[5] = 0 /\ buf[6] = 0
          /\ buf[7] = b /\ buf[8] = c /\ buf[9] = d /\ buf[10] = e
      BY <1>1, <2>2, <2>9 DEF Begins
    <3>2. NumberAt(buf, 3) = 0 /\ NumberAt(buf, 5) = 0 /\ NumberAt(buf, 7) = high /\ NumberAt(buf, 9) = low
      <4>1. 3 + 1 = 4 /\ 5 + 1 = 6 /\ 7 + 1 = 8 /\ 9 + 1 = 10 /\ 0 * 256 + 0 = 0
        OBVIOUS
      <4>2. NumberAt(buf, 3) = 0 * 256 + 0 /\ NumberAt(buf, 5) = 0 * 256 + 0
        BY <3>1, <4>1, Zenon DEF NumberAt
      <4>3. NumberAt(buf, 7) = b * 256 + c /\ NumberAt(buf, 9) = d * 256 + e
        BY <3>1, <4>1, Zenon DEF NumberAt
      <4> QED
        BY <2>3, <4>1, <4>2, <4>3, Zenon
    <3>3. FrameEnd(buf) = DataAt(buf) + (((NumberAt(buf, 3) * 65536 + NumberAt(buf, 5)) * 65536
                                          + NumberAt(buf, 7)) * 65536 + NumberAt(buf, 9))
      BY <2>6 DEF FrameEnd
    <3> QED
      <4>1. high * 65536 + low = len
        BY <2>1 DEF LongForm
      <4>2. ((0 * 65536 + 0) * 65536 + high) * 65536 + low = len
        BY <4>1
      <4> QED
        BY <3>2, <3>3, <4>2
  <2> QED
    BY <2>2, <2>7, <2>8, <2>9
<1> QED
  BY <1>2, <1>3, <1>4

Joins(u, s, t) ==
    /\ Len(u) = Len(s) + Len(t)
    /\ \A i \in 1..Len(s) : u[i] = s[i]
    /\ \A i \in 1..Len(t) : u[Len(s) + i] = t[i]

LEMMA ConcatAt ==
    ASSUME NEW S, NEW s \in Seq(S), NEW t \in Seq(S), NEW u, u = s \o t
    PROVE  u \in Seq(S) /\ Joins(u, s, t)
<1>1. Len(s) \in Nat /\ Len(t) \in Nat
  BY LenProperties
<1>2. /\ u \in Seq(S) /\ Len(u) = Len(s) + Len(t)
      /\ \A i \in 1..Len(s) + Len(t) : u[i] = IF i <= Len(s) THEN s[i] ELSE t[i - Len(s)]
  BY ConcatProperties
<1>3. ASSUME NEW i \in 1..Len(t)
      PROVE  u[Len(s) + i] = t[i]
  <2>1. Len(s) + i \in 1..Len(s) + Len(t) /\ ~(Len(s) + i <= Len(s)) /\ Len(s) + i - Len(s) = i
    BY <1>1
  <2> QED
    BY <1>2, <2>1
<1>4. \A i \in 1..Len(s) : u[i] = s[i]
  BY <1>1, <1>2
<1> QED
  BY <1>2, <1>3, <1>4 DEF Joins

(* s holds t behind its first k elements. *)
HoldsAt(s, k, t) == \A i \in 1..Len(t) : s[k + i] = t[i]

LEMMA CutIs ==
    ASSUME NEW S, NEW s \in Seq(S), NEW t \in Seq(S), NEW k \in Nat, NEW l \in Nat, l = Len(t), k + l <= Len(s),
           HoldsAt(s, k, t)
    PROVE  SubSeq(s, k + 1, k + l) = t
<1> DEFINE u == SubSeq(s, k + 1, k + l)
<1>1. Len(s) \in Nat
  BY LenProperties
<1>2. /\ u \in Seq(S) /\ Len(u) = (IF k + 1 <= k + l THEN k + l - (k + 1) + 1 ELSE 0)
      /\ \A i \in 1..(k + l - (k + 1) + 1) : u[i] = s[k + 1 + i - 1]
  BY <1>1, Cut
<1> HIDE DEF u
<1>3. Len(u) = l
  BY <1>2
<1>4. ASSUME NEW i \in 1..Len(u)
      PROVE  u[i] = t[i]
  <2>1. i \in 1..(k + l - (k + 1) + 1) /\ k + 1 + i - 1 = k + i /\ i \in 1..Len(t)
    BY <1>3
  <2> QED
    BY <1>2, <2>1 DEF HoldsAt
<1>5. u = t
  BY <1>2, <1>3, <1>4, SeqEqual
<1> QED
  BY <1>5 DEF u

Written(F, first, length, mask, data) ==
    /\ F \in Seq(Byte) /\ Len(F) = 1 + Len(length) + Len(mask) + Len(data) /\ F[1] = first
    /\ HoldsAt(F, 1, length) /\ HoldsAt(F, 1 + Len(length), mask) /\ HoldsAt(F, 1 + Len(length) + Len(mask), data)

LEMMA WrittenAs ==
    ASSUME NEW first \in Byte, NEW length \in Seq(Byte), NEW mask \in Seq(Byte), NEW data \in Seq(Byte)
    PROVE  Written(<<first>> \o length \o mask \o data, first, length, mask, data)
<1> DEFINE a == <<first>>
           b == a \o length
           c == b \o mask
           d == c \o data
<1>1. a \in Seq(Byte) /\ Len(a) = 1 /\ a[1] = first
  OBVIOUS
<1>2. Len(length) \in Nat /\ Len(mask) \in Nat /\ Len(data) \in Nat
  BY LenProperties
<1>31. b = a \o length /\ c = b \o mask /\ d = c \o data
  OBVIOUS
<1> HIDE DEF a, b, c, d
<1>3. /\ b \in Seq(Byte) /\ Len(b) = 1 + Len(length) /\ b[1] = first
      /\ \A i \in 1..Len(length) : b[1 + i] = length[i]
  <2>1. b \in Seq(Byte) /\ Joins(b, a, length)
    BY <1>1, <1>31, ConcatAt
  <2> QED
    BY <1>1, <2>1 DEF Joins
<1>4. /\ c \in Seq(Byte) /\ Len(c) = Len(b) + Len(mask) /\ \A i \in 1..Len(b) : c[i] = b[i]
      /\ \A i \in 1..Len(mask) : c[Len(b) + i] = mask[i]
  <2>1. c \in Seq(Byte) /\ Joins(c, b, mask)
    BY <1>3, <1>31, ConcatAt
  <2> QED
    BY <2>1 DEF Joins
<1>5. /\ d \in Seq(Byte) /\ Len(d) = Len(c) + Len(data) /\ \A i \in 1..Len(c) : d[i] = c[i]
      /\ \A i \in 1..Len(data) : d[Len(c) + i] = data[i]
  <2>1. d \in Seq(Byte) /\ Joins(d, c, data)
    BY <1>31, <1>4, ConcatAt
  <2> QED
    BY <2>1 DEF Joins
<1>6. Len(c) = 1 + Len(length) + Len(mask) /\ Len(d) = 1 + Len(length) + Len(mask) + Len(data)
  BY <1>2, <1>3, <1>4, <1>5
<1>7. d[1] = first
  <2>1. 1 \in 1..Len(b) /\ 1 \in 1..Len(c)
    BY <1>2, <1>3, <1>6
  <2> QED
    BY <1>3, <1>4, <1>5, <2>1
<1>8. HoldsAt(d, 1, length)
  <2> SUFFICES ASSUME NEW i \in 1..Len(length)
               PROVE  d[1 + i] = length[i]
    BY DEF HoldsAt
  <2>1. 1 + i \in 1..Len(b) /\ 1 + i \in 1..Len(c)
    BY <1>2, <1>3, <1>6
  <2> QED
    BY <1>3, <1>4, <1>5, <2>1
<1>9. HoldsAt(d, 1 + Len(length), mask)
  <2> SUFFICES ASSUME NEW i \in 1..Len(mask)
               PROVE  d[1 + Len(length) + i] = mask[i]
    BY DEF HoldsAt
  <2>1. 1 + Len(length) + i \in 1..Len(c) /\ 1 + Len(length) + i = Len(b) + i
    BY <1>2, <1>3, <1>6
  <2> QED
    BY <1>4, <1>5, <2>1
<1>10. HoldsAt(d, 1 + Len(length) + Len(mask), data)
  BY <1>5, <1>6 DEF HoldsAt
<1>11. Written(d, first, length, mask, data)
  BY <1>5, <1>6, <1>7, <1>8, <1>9, <1>10 DEF Written
<1> QED
  BY <1>11 DEF a, b, c, d

(* Masking keeps bytes and length, and undoes itself. *)
MaskKey(mask) == mask \in Seq(Byte) /\ (mask = <<>> \/ Len(mask) = 4)

LEMMA MasksAreKeys ==
    ASSUME StreamAssumption, NEW mask \in Masks
    PROVE  MaskKey(mask)
<1>1. CASE mask = <<>>
  BY <1>1, EmptySeq DEF MaskKey
<1>2. CASE mask \in [1..4 -> Byte]
  <2>1. mask \in Seq(Byte)
    <3>1. \E n \in Nat : mask \in [1..n -> Byte]
      BY <1>2
    <3> QED
      BY <3>1, SeqDef
  <2>2. Len(mask) = 4
    BY <1>2, <2>1, LenProperties
  <2> QED
    BY <2>1, <2>2 DEF MaskKey
<1> QED
  BY <1>1, <1>2 DEF StreamAssumption

LEMMA MaskTyped ==
    ASSUME StreamAssumption, NEW data \in Seq(Byte), NEW mask, MaskKey(mask)
    PROVE  /\ MaskBytes(data, mask) \in Seq(Byte) /\ Len(MaskBytes(data, mask)) = Len(data)
           /\ \A i \in 1..Len(data) : MaskBytes(data, mask)[i] =
                 IF mask = <<>> THEN data[i] ELSE MaskXor(data[i], mask[1 + ((i - 1) % 4)])
<1>1. Len(data) \in Nat /\ DOMAIN data = 1..Len(data) /\ \A i \in 1..Len(data) : data[i] \in Byte
  BY LenProperties
<1> DEFINE x(i) == IF mask = <<>> THEN data[i] ELSE MaskXor(data[i], mask[1 + ((i - 1) % 4)])
           f == [i \in 1..Len(data) |-> x(i)]
<1>2. MaskBytes(data, mask) = f
  BY <1>1 DEF MaskBytes
<1>3. ASSUME NEW i \in 1..Len(data)
      PROVE  x(i) \in Byte
  <2>1. CASE mask = <<>>
    BY <1>1, <2>1
  <2>2. CASE mask # <<>>
    <3>1. 1 + ((i - 1) % 4) \in 1..4 /\ Len(mask) = 4
      BY <1>1, <2>2 DEF MaskKey
    <3>2. mask[1 + ((i - 1) % 4)] \in Byte
      <4> DEFINE j == 1 + ((i - 1) % 4)
      <4>1. j \in 1..Len(mask) /\ mask \in Seq(Byte)
        BY <3>1 DEF MaskKey
      <4> HIDE DEF j
      <4>2. mask[j] \in Byte
        BY <4>1, ElementOfSeq
      <4> QED
        BY <4>2 DEF j
    <3>3. data[i] \in Byte
      BY <1>1
    <3>4. MaskXor(data[i], mask[1 + ((i - 1) % 4)]) \in Byte
      BY <3>2, <3>3 DEF StreamAssumption
    <3> QED
      BY <2>2, <3>4
  <2> QED
    BY <2>1, <2>2
<1> HIDE DEF x
<1>4. f \in [1..Len(data) -> Byte]
  BY <1>3
<1>5. f \in Seq(Byte)
  BY <1>1, <1>4, SeqDef
<1>6. Len(f) = Len(data)
  BY <1>1, <1>4, <1>5, LenProperties
<1>7. \A i \in 1..Len(data) : f[i] = x(i)
  OBVIOUS
<1> HIDE DEF f
<1> QED
  BY <1>2, <1>5, <1>6, <1>7 DEF x

LEMMA MaskUndone ==
    ASSUME StreamAssumption, NEW data \in Seq(Byte), NEW mask, MaskKey(mask)
    PROVE  MaskBytes(MaskBytes(data, mask), mask) = data
<1> DEFINE m == MaskBytes(data, mask)
           u == MaskBytes(m, mask)
<1>1. /\ m \in Seq(Byte) /\ Len(m) = Len(data)
      /\ \A i \in 1..Len(data) : m[i] = IF mask = <<>> THEN data[i] ELSE MaskXor(data[i], mask[1 + ((i - 1) % 4)])
  BY MaskTyped
<1> HIDE DEF m
<1>2. /\ u \in Seq(Byte) /\ Len(u) = Len(m)
      /\ \A i \in 1..Len(m) : u[i] = IF mask = <<>> THEN m[i] ELSE MaskXor(m[i], mask[1 + ((i - 1) % 4)])
  BY <1>1, MaskTyped
<1> HIDE DEF u
<1>3. ASSUME NEW i \in 1..Len(u)
      PROVE  u[i] = data[i]
  <2> DEFINE k == mask[1 + ((i - 1) % 4)]
  <2>1. i \in 1..Len(data) /\ i \in 1..Len(m) /\ Len(data) \in Nat
    BY <1>1, <1>2, LenProperties
  <2>2. CASE mask = <<>>
    BY <1>1, <1>2, <2>1, <2>2
  <2>3. CASE mask # <<>>
    <3>1. u[i] = MaskXor(m[i], k) /\ m[i] = MaskXor(data[i], k)
      BY <1>1, <1>2, <2>1, <2>3
    <3>2. k \in Byte
      <4> DEFINE j == 1 + ((i - 1) % 4)
      <4>0. j \in 1..4 /\ Len(mask) = 4
        BY <2>1, <2>3 DEF MaskKey
      <4>1. j \in 1..Len(mask) /\ mask \in Seq(Byte)
        BY <4>0 DEF MaskKey
      <4> HIDE DEF j
      <4>2. mask[j] \in Byte
        BY <4>1, ElementOfSeq
      <4> QED
        BY <4>2 DEF j
    <3>3. data[i] \in Byte
      BY <2>1, ElementOfSeq
    <3> HIDE DEF k
    <3>4. MaskXor(MaskXor(data[i], k), k) = data[i]
      BY <3>2, <3>3 DEF StreamAssumption
    <3> QED
      BY <3>1, <3>4
  <2> QED
    BY <2>2, <2>3
<1>4. u = data
  BY <1>1, <1>2, <1>3, SeqEqual
<1> QED
  BY <1>4 DEF u, m

FrameTyped(f) ==
    /\ f.first \in Byte /\ f.payload \in Seq(Byte) /\ Len(f.payload) <= LongestFrame /\ MaskKey(f.mask)

FlagOf(f) == IF f.mask = <<>> THEN 0 ELSE 128

LEMMA FrameWritten ==
    ASSUME StreamAssumption, NEW f, FrameTyped(f)
    PROVE  /\ Written(ClientFrame(f), f.first, Lengths(Len(f.payload), FlagOf(f)), f.mask, MaskBytes(f.payload, f.mask))
           /\ Len(ClientFrame(f)) = 1 + LengthSize(Len(f.payload)) + Len(f.mask) + Len(f.payload)
           /\ Len(f.mask) = IF FlagOf(f) = 128 THEN 4 ELSE 0
<1>1. /\ f.first \in Byte /\ f.payload \in Seq(Byte) /\ Len(f.payload) <= LongestFrame /\ f.mask \in Seq(Byte)
      /\ MaskKey(f.mask) /\ Len(f.payload) \in Nat /\ FlagOf(f) \in {0, 128}
  BY LenProperties DEF FrameTyped, MaskKey, FlagOf
<1> DEFINE L == Lengths(Len(f.payload), FlagOf(f))
           D == MaskBytes(f.payload, f.mask)
           F == ClientFrame(f)
<1>2. L \in Seq(Byte) /\ Len(L) = LengthSize(Len(f.payload))
  BY <1>1, LengthsAre
<1>3. D \in Seq(Byte) /\ Len(D) = Len(f.payload)
  BY <1>1, MaskTyped
<1>4. F = <<f.first>> \o L \o f.mask \o D
  BY DEF ClientFrame, FlagOf
<1> HIDE DEF L, D, F
<1>5. Written(<<f.first>> \o L \o f.mask \o D, f.first, L, f.mask, D)
  BY <1>1, <1>2, <1>3, WrittenAs
<1>6. Written(F, f.first, L, f.mask, D)
  BY <1>4, <1>5
<1>7. Len(F) = 1 + Len(L) + Len(f.mask) + Len(D)
  BY <1>6 DEF Written
<1>8. Len(f.mask) = IF FlagOf(f) = 128 THEN 4 ELSE 0
  <2>1. Len(<<>>) = 0
    BY EmptySeq
  <2>2. CASE f.mask = <<>>
    <3>1. Len(f.mask) = 0 /\ FlagOf(f) = 0
      BY <2>1, <2>2 DEF FlagOf
    <3> QED
      BY <3>1
  <2>3. CASE f.mask # <<>>
    <3>1. Len(f.mask) = 4 /\ FlagOf(f) = 128
      BY <1>1, <2>3 DEF FlagOf, MaskKey
    <3> QED
      BY <3>1
  <2> QED
    BY <2>2, <2>3
<1> QED
  BY <1>2, <1>3, <1>6, <1>7, <1>8 DEF L, D, F

(* buf holds F, or so much of it as there is. *)
Agrees(buf, F) == \A i \in 1..Len(F) : i <= Len(buf) => buf[i] = F[i]

LEMMA AgreesAt ==
    ASSUME NEW buf, NEW F, Agrees(buf, F), NEW k \in Nat, NEW t, HoldsAt(F, k, t), Len(t) \in Nat,
           Len(F) \in Nat, k + Len(t) <= Len(F), Len(buf) \in Nat
    PROVE  /\ \A i \in 1..Len(t) : k + i <= Len(buf) => buf[k + i] = t[i]
           /\ k + Len(t) <= Len(buf) => HoldsAt(buf, k, t)
<1>1. ASSUME NEW i \in 1..Len(t), k + i <= Len(buf)
      PROVE  buf[k + i] = t[i]
  <2>1. k + i \in 1..Len(F)
    OBVIOUS
  <2>2. buf[k + i] = F[k + i]
    BY <1>1, <2>1 DEF Agrees
  <2> QED
    BY <2>2 DEF HoldsAt
<1>2. ASSUME k + Len(t) <= Len(buf), NEW i \in 1..Len(t)
      PROVE  k + i <= Len(buf)
  BY <1>2
<1> QED
  BY <1>1, <1>2 DEF HoldsAt

(* decodeWsFrames() takes a frame when, and only when, all of it is there. *)
LEMMA FrameRead ==
    ASSUME StreamAssumption, NEW f, FrameTyped(f), NEW buf \in Seq(Byte), Agrees(buf, ClientFrame(f))
    PROVE  /\ Complete(buf) <=> Len(buf) >= Len(ClientFrame(f))
           /\ Complete(buf) => /\ FrameEnd(buf) = Len(ClientFrame(f)) /\ buf[1] = f.first
                               /\ FirstData(buf) = f.payload
<1> DEFINE F == ClientFrame(f)
           len == Len(f.payload)
           flag == FlagOf(f)
           L == Lengths(len, flag)
           N == LengthSize(len)
           mask == f.mask
           M == Len(mask)
           D == MaskBytes(f.payload, mask)
<1>1. /\ f.payload \in Seq(Byte) /\ len <= LongestFrame /\ mask \in Seq(Byte) /\ MaskKey(mask)
      /\ len \in Nat /\ flag \in {0, 128} /\ Len(buf) \in Nat /\ M \in Nat
  BY LenProperties DEF FrameTyped, MaskKey, FlagOf
<1>2. /\ Written(F, f.first, L, mask, D) /\ Len(F) = 1 + N + M + len /\ M = IF flag = 128 THEN 4 ELSE 0
  BY FrameWritten
<1>3. L \in Seq(Byte) /\ Len(L) = N /\ N \in {1, 3, 9}
  BY <1>1, LengthsAre
<1>4. D \in Seq(Byte) /\ Len(D) = len /\ MaskBytes(D, mask) = f.payload
  BY <1>1, MaskTyped, MaskUndone
<1> HIDE DEF F, len, flag, L, N, mask, M, D
<1>5. Agrees(buf, F)
  BY DEF F
<1>6. /\ F[1] = f.first /\ HoldsAt(F, 1, L) /\ HoldsAt(F, 1 + N, mask) /\ HoldsAt(F, 1 + N + M, D)
  BY <1>2, <1>3 DEF Written, M
<1>7. Len(F) \in Nat /\ Len(F) >= 2 /\ Len(mask) = M /\ M \in {0, 4} /\ N \in Nat
  BY <1>1, <1>2, <1>3 DEF M
<1>8. CASE Len(buf) < 2
  <2>1. ~Complete(buf)
    BY <1>1, <1>8 DEF Complete
  <2> QED
    BY <1>1, <1>7, <1>8, <2>1 DEF F
<1>9. CASE Len(buf) >= 2
  <2>1. Begins(buf, len, flag)
    <3>1. \A i \in 1..Len(L) : 1 + i <= Len(buf) => buf[1 + i] = L[i]
      <4>1. 1 + Len(L) <= Len(F) /\ Len(L) \in Nat
        BY <1>1, <1>2, <1>3, <1>7
      <4> QED
        BY <1>1, <1>5, <1>6, <1>7, <4>1, AgreesAt
    <3> QED
      BY <1>3, <3>1 DEF Begins, L, N
  <2>2. /\ MaskAt(buf) = 1 + N /\ DataAt(buf) = 1 + N + M
        /\ Len(buf) >= MaskAt(buf) => FrameEnd(buf) = 1 + N + M + len
    <3>1. /\ MaskAt(buf) = 1 + LengthSize(len)
          /\ DataAt(buf) = 1 + LengthSize(len) + (IF flag = 128 THEN 4 ELSE 0)
          /\ Len(buf) >= MaskAt(buf) => FrameEnd(buf) = DataAt(buf) + len
      BY <1>1, <1>9, <2>1, LengthRead
    <3> QED
      BY <1>2, <3>1 DEF N
  <2>3. Complete(buf) <=> Len(buf) >= Len(F)
    BY <1>1, <1>2, <1>7, <1>9, <2>2 DEF Complete
  <2>4. ASSUME Len(buf) >= Len(F)
        PROVE  FrameEnd(buf) = Len(F) /\ buf[1] = f.first /\ FirstData(buf) = f.payload
    <3>1. FrameEnd(buf) = Len(F)
      BY <1>1, <1>2, <1>7, <2>2, <2>4
    <3>2. buf[1] = f.first
      <4>1. 1 \in 1..Len(F) /\ 1 <= Len(buf)
        BY <1>7, <1>9
      <4> QED
        BY <1>5, <1>6, <4>1 DEF Agrees
    <3>3. SubSeq(buf, 1 + N + M + 1, 1 + N + M + len) = D
      <4>1. 1 + N + M + Len(D) <= Len(buf) /\ 1 + N + M + Len(D) <= Len(F) /\ 1 + N + M \in Nat /\ Len(D) \in Nat
        BY <1>1, <1>2, <1>4, <1>7, <2>4
      <4>2. HoldsAt(buf, 1 + N + M, D)
        BY <1>1, <1>5, <1>6, <1>7, <4>1, AgreesAt
      <4> QED
        BY <1>1, <1>4, <4>1, <4>2, CutIs
    <3>4. SubSeq(buf, 1 + N + 1, 1 + N + M) = mask
      <4>1. 1 + N + Len(mask) <= Len(buf) /\ 1 + N + Len(mask) <= Len(F) /\ 1 + N \in Nat /\ Len(mask) \in Nat
        BY <1>1, <1>2, <1>7, <2>4
      <4>2. HoldsAt(buf, 1 + N, mask)
        BY <1>1, <1>5, <1>6, <1>7, <4>1, AgreesAt
      <4> QED
        BY <1>1, <1>7, <4>1, <4>2, CutIs
    <3>5. FirstData(buf) = MaskBytes(SubSeq(buf, 1 + N + M + 1, 1 + N + M + len), SubSeq(buf, 1 + N + 1, 1 + N + M))
      BY <1>2, <2>2, <3>1 DEF FirstData
    <3>6. FirstData(buf) = MaskBytes(D, mask)
      BY <3>3, <3>4, <3>5, Zenon
    <3> QED
      BY <1>4, <3>1, <3>2, <3>6
  <2> QED
    BY <2>3, <2>4 DEF F
<1> QED
  BY <1>1, <1>8, <1>9

-----------------------------------------------------------------------------
(* The frames that were sent: where each begins, and how much of the stream  *)
(* they have carried up to each.                                             *)

PlaceIn(frs, bytes, j) == IF j = Len(frs) THEN Len(bytes) ELSE frs[j + 1].begins
CarriedIn(frs, j) == IF j = 0 THEN 0 ELSE frs[j].carried

IsFrame(f, bytes, s, place, next, had, has) ==
    /\ FrameTyped(f) /\ next = place + Len(ClientFrame(f)) /\ HoldsAt(bytes, place, ClientFrame(f))
    /\ IsData(f.first) => has = had + Len(f.payload) /\ f.payload = SubSeq(s, had + 1, has)
    /\ ~IsData(f.first) => has = had

FramesOf(frs, bytes, s) ==
    /\ Len(frs) \in Nat /\ PlaceIn(frs, bytes, 0) = 0
    /\ \A j \in 0..Len(frs) : PlaceIn(frs, bytes, j) \in 0..Len(bytes) /\ CarriedIn(frs, j) \in 0..Len(s)
    /\ \A j \in 0..(Len(frs) - 1) : IsFrame(frs[j + 1], bytes, s, PlaceIn(frs, bytes, j), PlaceIn(frs, bytes, j + 1),
                                            CarriedIn(frs, j), CarriedIn(frs, j + 1))

LEMMA IsFrameLonger ==
    ASSUME StreamAssumption, NEW bytes \in Seq(Byte), NEW bytes2 \in Seq(Byte), Longer(bytes, bytes2),
           NEW s \in Seq(Byte), NEW s2 \in Seq(Byte), Longer(s, s2), NEW f,
           NEW place, place \in 0..Len(bytes), NEW next, next \in 0..Len(bytes),
           NEW had, had \in 0..Len(s), NEW has, has \in 0..Len(s), IsFrame(f, bytes, s, place, next, had, has)
    PROVE  IsFrame(f, bytes2, s2, place, next, had, has)
<1>1. /\ FrameTyped(f) /\ next = place + Len(ClientFrame(f)) /\ HoldsAt(bytes, place, ClientFrame(f))
      /\ Len(bytes) \in Nat /\ Len(s) \in Nat
  BY LenProperties DEF IsFrame
<1>2. Len(ClientFrame(f)) \in Nat
  <2>1. ClientFrame(f) \in Seq(Byte)
    BY <1>1, FrameWritten DEF Written
  <2> QED
    BY <2>1, LenProperties
<1>3. HoldsAt(bytes2, place, ClientFrame(f))
  <2> SUFFICES ASSUME NEW i \in 1..Len(ClientFrame(f))
               PROVE  bytes2[place + i] = ClientFrame(f)[i]
    BY DEF HoldsAt
  <2>1. place + i \in 1..Len(bytes)
    BY <1>1, <1>2
  <2>2. bytes2[place + i] = bytes[place + i]
    BY <2>1 DEF Longer
  <2> QED
    BY <1>1, <2>2 DEF HoldsAt
<1>4. ASSUME IsData(f.first)
      PROVE  has = had + Len(f.payload) /\ f.payload = SubSeq(s2, had + 1, has)
  <2>1. has = had + Len(f.payload) /\ f.payload = SubSeq(s, had + 1, has)
    BY <1>4 DEF IsFrame
  <2>2. had + 1 \in Nat /\ had + 1 >= 1 /\ has \in Int /\ has <= Len(s)
    BY <1>1
  <2> DEFINE from == had + 1
  <2>3. from \in Nat /\ from >= 1
    BY <2>2
  <2> HIDE DEF from
  <2>4. SubSeq(s2, from, has) = SubSeq(s, from, has)
    BY <2>2, <2>3, LongerCut
  <2> QED
    BY <2>1, <2>4 DEF from
<1> QED
  BY <1>1, <1>3, <1>4 DEF IsFrame

LEMMA FramesLonger ==
    ASSUME StreamAssumption, NEW frs, NEW bytes \in Seq(Byte), NEW s \in Seq(Byte), NEW s2 \in Seq(Byte), Longer(s, s2),
           FramesOf(frs, bytes, s)
    PROVE  FramesOf(frs, bytes, s2)
<1>1. Len(s) \in Nat /\ Len(s2) \in Nat /\ Len(s) <= Len(s2) /\ Len(frs) \in Nat /\ PlaceIn(frs, bytes, 0) = 0
  BY LenProperties DEF Longer, FramesOf
<1>2. Longer(bytes, bytes)
  BY LongerSelf
<1>3. \A j \in 0..Len(frs) : PlaceIn(frs, bytes, j) \in 0..Len(bytes) /\ CarriedIn(frs, j) \in 0..Len(s)
  BY DEF FramesOf
<1>4. \A j \in 0..Len(frs) : CarriedIn(frs, j) \in 0..Len(s2)
  <2>1. 0..Len(s) \subseteq 0..Len(s2)
    BY <1>1
  <2> QED
    BY <1>3, <2>1
<1>5. ASSUME NEW j \in 0..(Len(frs) - 1)
      PROVE  IsFrame(frs[j + 1], bytes, s2, PlaceIn(frs, bytes, j), PlaceIn(frs, bytes, j + 1),
                     CarriedIn(frs, j), CarriedIn(frs, j + 1))
  <2>1. j \in 0..Len(frs) /\ j + 1 \in 0..Len(frs)
    BY <1>1
  <2> DEFINE f == frs[j + 1]
             place == PlaceIn(frs, bytes, j)
             next == PlaceIn(frs, bytes, j + 1)
             had == CarriedIn(frs, j)
             has == CarriedIn(frs, j + 1)
  <2>2. place \in 0..Len(bytes) /\ next \in 0..Len(bytes) /\ had \in 0..Len(s) /\ has \in 0..Len(s)
    BY <1>3, <2>1
  <2>3. IsFrame(f, bytes, s, place, next, had, has)
    BY DEF FramesOf
  <2> HIDE DEF f, place, next, had, has
  <2>4. IsFrame(f, bytes, s2, place, next, had, has)
    BY <1>2, <2>2, <2>3, IsFrameLonger
  <2> QED
    BY <2>4 DEF f, place, next, had, has
<1> QED
  BY <1>1, <1>3, <1>4, <1>5 DEF FramesOf

(* f carries what of s comes behind the first bytes, had of them. *)
Carries(f, s, had) ==
    /\ IsData(f.first) => f.carried = had + Len(f.payload) /\ f.payload = SubSeq(s, had + 1, f.carried)
    /\ ~IsData(f.first) => f.carried = had

OneFrameMore(frs, bytes, frs2, bytes2) ==
    /\ bytes2 \in Seq(Byte) /\ Longer(bytes, bytes2) /\ Len(frs2) = Len(frs) + 1
    /\ \A j \in 0..Len(frs) : PlaceIn(frs2, bytes2, j) = PlaceIn(frs, bytes, j) /\ CarriedIn(frs2, j) = CarriedIn(frs, j)

(* One more frame is sent. *)
LEMMA FrameAdded ==
    ASSUME StreamAssumption, NEW frs, NEW bytes \in Seq(Byte), NEW s \in Seq(Byte), FramesOf(frs, bytes, s),
           NEW S, frs \in Seq(S), NEW f \in S, FrameTyped(f), f.begins = Len(bytes), f.carried \in 0..Len(s),
           Carries(f, s, CarriedIn(frs, Len(frs))),
           NEW frs2, frs2 = Append(frs, f), NEW bytes2, bytes2 = bytes \o ClientFrame(f)
    PROVE  FramesOf(frs2, bytes2, s) /\ OneFrameMore(frs, bytes, frs2, bytes2)
<1> DEFINE F == ClientFrame(f)
           N == Len(frs)
<1>1. /\ Len(bytes) \in Nat /\ Len(s) \in Nat /\ N \in Nat
      /\ \A j \in 0..N : PlaceIn(frs, bytes, j) \in 0..Len(bytes) /\ CarriedIn(frs, j) \in 0..Len(s)
      /\ PlaceIn(frs, bytes, 0) = 0
  BY LenProperties DEF FramesOf
<1>2. F \in Seq(Byte) /\ Len(F) \in Nat
  <2>1. F \in Seq(Byte)
    BY FrameWritten DEF Written
  <2> QED
    BY <2>1, LenProperties
<1>3. bytes2 = bytes \o F
  OBVIOUS
<1> HIDE DEF F
<1>4. /\ bytes2 \in Seq(Byte) /\ Len(bytes2) = Len(bytes) + Len(F)
      /\ \A i \in 1..Len(bytes) : bytes2[i] = bytes[i]
      /\ \A i \in 1..Len(F) : bytes2[Len(bytes) + i] = F[i]
  <2>1. bytes2 \in Seq(Byte) /\ Joins(bytes2, bytes, F)
    BY <1>2, <1>3, ConcatAt
  <2> QED
    BY <2>1 DEF Joins
<1>5. Longer(bytes, bytes2)
  BY <1>1, <1>2, <1>4 DEF Longer
<1>6. Len(frs2) = N + 1 /\ frs2[N + 1] = f /\ \A j \in 1..N : frs2[j] = frs[j]
  BY <1>1, AppendProperties
<1> HIDE DEF N
<1>7. ASSUME NEW j \in 0..N
      PROVE  PlaceIn(frs2, bytes2, j) = PlaceIn(frs, bytes, j) /\ CarriedIn(frs2, j) = CarriedIn(frs, j)
  <2>1. j # Len(frs2) /\ j \in Nat
    BY <1>1, <1>6
  <2>2. CASE j = N
    <3>1. PlaceIn(frs2, bytes2, j) = frs2[N + 1].begins /\ PlaceIn(frs, bytes, j) = Len(bytes)
      BY <2>1, <2>2 DEF PlaceIn, N
    <3>2. CarriedIn(frs2, j) = CarriedIn(frs, j)
      BY <1>1, <1>6, <2>1, <2>2 DEF CarriedIn
    <3> QED
      BY <1>6, <3>1, <3>2
  <2>3. CASE j # N
    <3>1. j + 1 \in 1..N
      BY <1>1, <2>3
    <3>2. PlaceIn(frs2, bytes2, j) = frs2[j + 1].begins /\ PlaceIn(frs, bytes, j) = frs[j + 1].begins
      BY <2>1, <2>3 DEF PlaceIn, N
    <3>3. CarriedIn(frs2, j) = CarriedIn(frs, j)
      BY <1>1, <1>6, <2>1, <2>3 DEF CarriedIn
    <3> QED
      BY <1>6, <3>1, <3>2, <3>3
  <2> QED
    BY <2>2, <2>3
<1>8. PlaceIn(frs2, bytes2, N + 1) = Len(bytes2) /\ CarriedIn(frs2, N + 1) = f.carried
  BY <1>1, <1>6 DEF PlaceIn, CarriedIn
<1>9. ASSUME NEW j \in 0..N
      PROVE  IsFrame(frs2[j + 1], bytes2, s, PlaceIn(frs2, bytes2, j), PlaceIn(frs2, bytes2, j + 1),
                     CarriedIn(frs2, j), CarriedIn(frs2, j + 1))
  <2>1. CASE j = N
    <3>1. PlaceIn(frs2, bytes2, N) = Len(bytes) /\ CarriedIn(frs2, N) = CarriedIn(frs, N)
      <4>1. N \in 0..N
        BY <1>1
      <4>2. PlaceIn(frs, bytes, N) = Len(bytes)
        BY DEF PlaceIn, N
      <4> QED
        BY <1>7, <4>1, <4>2
    <3> DEFINE had == CarriedIn(frs, N)
               has == f.carried
    <3>2. /\ IsData(f.first) => has = had + Len(f.payload) /\ f.payload = SubSeq(s, had + 1, has)
          /\ ~IsData(f.first) => has = had
      BY DEF N, Carries
    <3>3. HoldsAt(bytes2, Len(bytes), F) /\ Len(bytes2) = Len(bytes) + Len(F)
      BY <1>4 DEF HoldsAt
    <3> HIDE DEF had, has
    <3>4. IsFrame(f, bytes2, s, Len(bytes), Len(bytes2), had, has)
      BY <3>2, <3>3 DEF IsFrame, F
    <3>5. IsFrame(frs2[N + 1], bytes2, s, PlaceIn(frs2, bytes2, N), PlaceIn(frs2, bytes2, N + 1),
                  CarriedIn(frs2, N), CarriedIn(frs2, N + 1))
      BY <1>6, <1>8, <3>1, <3>4, Zenon DEF had, has
    <3> QED
      BY <2>1, <3>5
  <2>2. CASE j \in 0..(N - 1)
    <3>1. j \in 0..N /\ j + 1 \in 0..N /\ j + 1 \in 1..N
      BY <1>1, <2>2
    <3> DEFINE g == frs[j + 1]
               place == PlaceIn(frs, bytes, j)
               next == PlaceIn(frs, bytes, j + 1)
               had == CarriedIn(frs, j)
               has == CarriedIn(frs, j + 1)
    <3>2. place \in 0..Len(bytes) /\ next \in 0..Len(bytes) /\ had \in 0..Len(s) /\ has \in 0..Len(s)
      BY <1>1, <3>1 DEF N
    <3>3. IsFrame(g, bytes, s, place, next, had, has)
      BY <2>2 DEF FramesOf, N
    <3>4. /\ frs2[j + 1] = g /\ PlaceIn(frs2, bytes2, j) = place /\ PlaceIn(frs2, bytes2, j + 1) = next
          /\ CarriedIn(frs2, j) = had /\ CarriedIn(frs2, j + 1) = has
      BY <1>6, <1>7, <3>1
    <3> HIDE DEF g, place, next, had, has
    <3>5. Longer(s, s)
      BY LongerSelf
    <3>6. IsFrame(g, bytes2, s, place, next, had, has)
      BY <1>4, <1>5, <3>2, <3>3, <3>5, IsFrameLonger
    <3> QED
      BY <3>4, <3>6, Zenon
  <2>3. j = N \/ j \in 0..(N - 1)
    BY <1>1
  <2> QED
    BY <2>1, <2>2, <2>3, Zenon
<1>10. ASSUME NEW j \in 0..(N + 1)
       PROVE  PlaceIn(frs2, bytes2, j) \in 0..Len(bytes2) /\ CarriedIn(frs2, j) \in 0..Len(s)
  <2>1. CASE j = N + 1
    <3>1. Len(bytes2) \in 0..Len(bytes2)
      BY <1>4, LenProperties
    <3> QED
      BY <1>8, <2>1, <3>1
  <2>2. CASE j \in 0..N
    <3>1. 0..Len(bytes) \subseteq 0..Len(bytes2)
      BY <1>1, <1>2, <1>4
    <3>2. PlaceIn(frs, bytes, j) \in 0..Len(bytes) /\ CarriedIn(frs, j) \in 0..Len(s)
      BY <1>1, <2>2 DEF N
    <3> QED
      BY <1>7, <2>2, <3>1, <3>2
  <2> QED
    BY <1>1, <2>1, <2>2
<1>11. FramesOf(frs2, bytes2, s)
  <2>1. PlaceIn(frs2, bytes2, 0) = 0
    <3>1. 0 \in 0..N
      BY <1>1
    <3> QED
      BY <1>1, <1>7, <3>1 DEF N
  <2>2. Len(frs2) \in Nat /\ Len(frs2) = N + 1 /\ Len(frs2) - 1 = N
    BY <1>1, <1>6
  <2> QED
    BY <1>9, <1>10, <2>1, <2>2 DEF FramesOf
<1> QED
  BY <1>4, <1>5, <1>6, <1>7, <1>11 DEF N, OneFrameMore

-----------------------------------------------------------------------------
(* What of the frames has been read.                                       *)

LEMMA PartLonger ==
    ASSUME NEW text \in Seq(Byte), NEW text2 \in Seq(Byte), Longer(text, text2), NEW e \in Nat, NEW c \in Nat, c <= Len(text),
           NEW buffer, PartOf(buffer, text, e, c)
    PROVE  PartOf(buffer, text2, e, c)
<1>1. SubSeq(text2, e + 1, c) = SubSeq(text, e + 1, c)
  BY LongerCut
<1> QED
  BY <1>1 DEF PartOf

LEMMA PartGrows ==
    ASSUME NEW text \in Seq(Byte), NEW e \in Nat, NEW c \in Nat, NEW d \in Nat, e <= c, c <= d, d <= Len(text),
           NEW buffer, PartOf(buffer, text, e, c)
    PROVE  PartOf(buffer \o SubSeq(text, c + 1, d), text, e, d)
<1>1. SubSeq(text, e + 1, c) \o SubSeq(text, c + 1, d) = SubSeq(text, e + 1, d)
  BY CutJoins
<1> QED
  BY <1>1 DEF PartOf

(* j frames were taken, with them the first bytes of the stream; buffer is  *)
(* what else of the a bytes that were read there is.                        *)
AtFrame(frs, bytes, buffer, a, j, taken) ==
    /\ j \in 0..Len(frs) /\ taken = CarriedIn(frs, j)
    /\ a \in PlaceIn(frs, bytes, j)..Len(bytes) /\ PartOf(buffer, bytes, PlaceIn(frs, bytes, j), a)

LEMMA AtFrameTyped ==
    ASSUME NEW frs, NEW bytes \in Seq(Byte), NEW s \in Seq(Byte), FramesOf(frs, bytes, s),
           NEW buffer, NEW a, NEW j, NEW taken, AtFrame(frs, bytes, buffer, a, j, taken)
    PROVE  /\ Len(frs) \in Nat /\ Len(bytes) \in Nat /\ Len(s) \in Nat /\ j \in 0..Len(frs)
           /\ PlaceIn(frs, bytes, j) \in 0..Len(bytes)
           /\ a \in Nat /\ PlaceIn(frs, bytes, j) <= a /\ a <= Len(bytes)
           /\ taken \in 0..Len(s)
           /\ buffer \in Seq(Byte) /\ Len(buffer) = a - PlaceIn(frs, bytes, j)
           /\ \A i \in 1..Len(buffer) : buffer[i] = bytes[PlaceIn(frs, bytes, j) + i]
<1>1. /\ Len(frs) \in Nat /\ Len(bytes) \in Nat /\ Len(s) \in Nat /\ j \in 0..Len(frs)
      /\ PlaceIn(frs, bytes, j) \in 0..Len(bytes) /\ CarriedIn(frs, j) \in 0..Len(s) /\ taken = CarriedIn(frs, j)
      /\ a \in PlaceIn(frs, bytes, j)..Len(bytes) /\ PartOf(buffer, bytes, PlaceIn(frs, bytes, j), a)
  BY LenProperties DEF FramesOf, AtFrame
<1> DEFINE place == PlaceIn(frs, bytes, j)
<1>2. place \in Nat /\ place <= a /\ a <= Len(bytes) /\ a \in Int /\ a \in Nat /\ PartOf(buffer, bytes, place, a)
  BY <1>1
<1> HIDE DEF place
<1>3. PICK c \in Nat : c = a
  BY <1>2
<1>4. place \in Nat /\ place <= c /\ c <= Len(bytes) /\ PartOf(buffer, bytes, place, c)
  BY <1>2, <1>3
<1>5. buffer \in Seq(Byte) /\ Len(buffer) = c - place /\ \A i \in 1..(c - place) : buffer[i] = bytes[place + i]
  BY <1>4, BufferIs
<1>7. buffer \in Seq(Byte) /\ Len(buffer) = a - place /\ \A i \in 1..(a - place) : buffer[i] = bytes[place + i]
  BY <1>3, <1>5
<1> QED
  BY <1>1, <1>2, <1>7 DEF place

(* More frames are sent: what was read is part of them as before. *)
LEMMA AtFrameLonger ==
    ASSUME NEW frs, NEW bytes \in Seq(Byte), NEW s \in Seq(Byte), FramesOf(frs, bytes, s),
           NEW buffer, NEW a, NEW j, NEW taken, AtFrame(frs, bytes, buffer, a, j, taken),
           NEW frs2, NEW bytes2 \in Seq(Byte), Longer(bytes, bytes2), Len(frs2) = Len(frs) + 1,
           PlaceIn(frs2, bytes2, j) = PlaceIn(frs, bytes, j), CarriedIn(frs2, j) = CarriedIn(frs, j)
    PROVE  AtFrame(frs2, bytes2, buffer, a, j, taken)
<1> DEFINE place == PlaceIn(frs, bytes, j)
<1>1. /\ Len(frs) \in Nat /\ Len(bytes) \in Nat /\ j \in 0..Len(frs)
      /\ place \in Nat /\ a \in Nat /\ place <= a /\ a <= Len(bytes)
  BY AtFrameTyped
<1>2. PartOf(buffer, bytes, place, a) /\ taken = CarriedIn(frs, j)
  BY DEF AtFrame
<1>3. PlaceIn(frs2, bytes2, j) = place
  OBVIOUS
<1> HIDE DEF place
<1>4. PartOf(buffer, bytes2, place, a)
  BY <1>1, <1>2, PartLonger
<1>5. Len(bytes2) \in Nat /\ Len(bytes) <= Len(bytes2)
  BY LenProperties DEF Longer
<1>6. a \in place..Len(bytes2)
  BY <1>1, <1>5
<1>7. j \in 0..Len(frs2)
  BY <1>1
<1> QED
  BY <1>2, <1>3, <1>4, <1>6, <1>7 DEF AtFrame

(* More of them is read. *)
LEMMA MoreIsRead ==
    ASSUME NEW frs, NEW bytes \in Seq(Byte), NEW s \in Seq(Byte), FramesOf(frs, bytes, s),
           NEW buffer, NEW a, NEW j, NEW taken, AtFrame(frs, bytes, buffer, a, j, taken),
           NEW b \in Nat, a <= b, b <= Len(bytes)
    PROVE  AtFrame(frs, bytes, buffer \o SubSeq(bytes, a + 1, b), b, j, taken)
<1> DEFINE place == PlaceIn(frs, bytes, j)
<1>1. /\ Len(bytes) \in Nat /\ j \in 0..Len(frs)
      /\ place \in Nat /\ a \in Nat /\ place <= a /\ a <= Len(bytes)
  <2>1. /\ Len(bytes) \in Nat /\ j \in 0..Len(frs) /\ place \in 0..Len(bytes)
        /\ a \in Nat /\ place <= a /\ a <= Len(bytes)
    BY AtFrameTyped
  <2> HIDE DEF place
  <2> QED
    BY <2>1
<1>2. PartOf(buffer, bytes, place, a) /\ taken = CarriedIn(frs, j)
  BY DEF AtFrame
<1>3. b \in place..Len(bytes)
  BY <1>1
<1> HIDE DEF place
<1>4. PartOf(buffer \o SubSeq(bytes, a + 1, b), bytes, place, b)
  BY <1>1, <1>2, PartGrows
<1> QED
  BY <1>1, <1>2, <1>3, <1>4 DEF AtFrame, place

(* While not all of the next frame is there, nothing is taken; when it is,  *)
(* decodeWsFrames() finds it.                                               *)
LEMMA NextFrame ==
    ASSUME StreamAssumption, NEW frs, NEW bytes \in Seq(Byte), NEW s \in Seq(Byte), FramesOf(frs, bytes, s),
           NEW buffer, NEW a, NEW j, NEW taken, AtFrame(frs, bytes, buffer, a, j, taken), j < Len(frs),
           NEW f, f = frs[j + 1]
    PROVE  /\ FrameTyped(f) /\ PlaceIn(frs, bytes, j + 1) = PlaceIn(frs, bytes, j) + Len(ClientFrame(f))
           /\ Len(ClientFrame(f)) \in Nat /\ PlaceIn(frs, bytes, j + 1) \in 0..Len(bytes)
           /\ Complete(buffer) <=> Len(buffer) >= Len(ClientFrame(f))
           /\ Complete(buffer) => /\ FrameEnd(buffer) = Len(ClientFrame(f)) /\ buffer[1] = f.first
                                  /\ FirstData(buffer) = f.payload
           /\ IsData(f.first) => f.payload = SubSeq(s, taken + 1, CarriedIn(frs, j + 1))
                                 /\ CarriedIn(frs, j + 1) = taken + Len(f.payload)
           /\ ~IsData(f.first) => CarriedIn(frs, j + 1) = taken
           /\ CarriedIn(frs, j + 1) \in 0..Len(s)
<1> DEFINE place == PlaceIn(frs, bytes, j)
           next == PlaceIn(frs, bytes, j + 1)
           has == CarriedIn(frs, j + 1)
<1>1. /\ Len(frs) \in Nat /\ Len(bytes) \in Nat /\ j \in 0..Len(frs) /\ place \in 0..Len(bytes)
      /\ buffer \in Seq(Byte) /\ Len(buffer) = a - place /\ a \in Nat /\ place <= a /\ a <= Len(bytes)
      /\ \A i \in 1..Len(buffer) : buffer[i] = bytes[place + i]
  BY AtFrameTyped
<1>2. taken = CarriedIn(frs, j)
  BY DEF AtFrame
<1>3. j \in 0..(Len(frs) - 1) /\ j + 1 \in 0..Len(frs)
  BY <1>1
<1>4. IsFrame(f, bytes, s, place, next, taken, has) /\ next \in 0..Len(bytes) /\ has \in 0..Len(s)
  BY <1>2, <1>3 DEF FramesOf
<1> HIDE DEF place, next, has
<1>5. FrameTyped(f) /\ next = place + Len(ClientFrame(f)) /\ HoldsAt(bytes, place, ClientFrame(f))
  BY <1>4 DEF IsFrame
<1> DEFINE F == ClientFrame(f)
<1>6. F \in Seq(Byte) /\ Len(F) \in Nat
  <2>1. F \in Seq(Byte)
    BY <1>5, FrameWritten DEF Written
  <2> QED
    BY <2>1, LenProperties
<1>7. Agrees(buffer, F)
  <2> SUFFICES ASSUME NEW i \in 1..Len(F), i <= Len(buffer)
               PROVE  buffer[i] = F[i]
    BY DEF Agrees
  <2>1. bytes[place + i] = F[i]
    BY <1>5 DEF HoldsAt
  <2>2. i \in 1..Len(buffer)
    BY <1>1, <1>6
  <2> QED
    BY <1>1, <2>1, <2>2
<1>8. /\ Complete(buffer) <=> Len(buffer) >= Len(F)
      /\ Complete(buffer) => FrameEnd(buffer) = Len(F) /\ buffer[1] = f.first /\ FirstData(buffer) = f.payload
  BY <1>1, <1>5, <1>7, FrameRead
<1>9. /\ IsData(f.first) => has = taken + Len(f.payload) /\ f.payload = SubSeq(s, taken + 1, has)
      /\ ~IsData(f.first) => has = taken
  BY <1>4 DEF IsFrame
<1> HIDE DEF F
<1>10. FrameTyped(f) /\ next = place + Len(F) /\ Len(F) \in Nat
  BY <1>5, <1>6 DEF F
<1> QED
  BY <1>4, <1>8, <1>9, <1>10 DEF F, place, next, has

(* decodeWsFrames() takes a frame, which is the j-th one. *)
FrameGone(frs, bytes, s, buffer, a, j, taken, has) ==
    /\ AtFrame(frs, bytes, Remaining(buffer), a, j + 1, has) /\ has \in 0..Len(s) /\ taken <= has
    /\ IsData(buffer[1]) => FirstData(buffer) = SubSeq(s, taken + 1, has)
    /\ ~IsData(buffer[1]) => has = taken

LEMMA FrameIsTaken ==
    ASSUME StreamAssumption, NEW frs, NEW bytes \in Seq(Byte), NEW s \in Seq(Byte), FramesOf(frs, bytes, s),
           NEW buffer, NEW a, NEW j, NEW taken, AtFrame(frs, bytes, buffer, a, j, taken), Complete(buffer)
    PROVE  \E has : FrameGone(frs, bytes, s, buffer, a, j, taken, has)
<1> DEFINE place == PlaceIn(frs, bytes, j)
           next == PlaceIn(frs, bytes, j + 1)
           has == CarriedIn(frs, j + 1)
<1>1. /\ Len(frs) \in Nat /\ Len(bytes) \in Nat /\ Len(s) \in Nat /\ j \in 0..Len(frs) /\ place \in 0..Len(bytes)
      /\ a \in Nat /\ place <= a /\ a <= Len(bytes) /\ taken \in 0..Len(s)
      /\ buffer \in Seq(Byte) /\ Len(buffer) = a - place
  <2>1. /\ Len(frs) \in Nat /\ Len(bytes) \in Nat /\ Len(s) \in Nat /\ j \in 0..Len(frs)
        /\ place \in 0..Len(bytes) /\ a \in Nat /\ place <= a /\ a <= Len(bytes)
    BY AtFrameTyped
  <2>2. taken \in 0..Len(s)
    BY AtFrameTyped
  <2>3. buffer \in Seq(Byte)
    BY AtFrameTyped
  <2>4. Len(buffer) = a - place
    BY <2>1, AtFrameTyped
  <2> QED
    BY <2>1, <2>2, <2>3, <2>4
<1>2. Len(buffer) >= 2
  BY DEF Complete
<1>3. j < Len(frs)
  <2> SUFFICES ASSUME j = Len(frs) PROVE FALSE
    BY <1>1
  <2>1. place = Len(bytes)
    BY DEF PlaceIn
  <2> HIDE DEF place
  <2> QED
    BY <1>1, <1>2, <2>1
<1> DEFINE f == frs[j + 1]
           l == Len(ClientFrame(f))
<1>4. /\ FrameTyped(f) /\ next = place + l /\ l \in Nat /\ next \in 0..Len(bytes)
      /\ Len(buffer) >= l /\ FrameEnd(buffer) = l /\ buffer[1] = f.first /\ FirstData(buffer) = f.payload
      /\ IsData(f.first) => f.payload = SubSeq(s, taken + 1, has) /\ has = taken + Len(f.payload)
      /\ ~IsData(f.first) => has = taken
      /\ has \in 0..Len(s)
  <2>1. /\ FrameTyped(f) /\ next = place + l /\ l \in Nat /\ next \in 0..Len(bytes)
        /\ Complete(buffer) => Len(buffer) >= l
    BY <1>3, NextFrame
  <2>2. Complete(buffer) => FrameEnd(buffer) = l /\ buffer[1] = f.first /\ FirstData(buffer) = f.payload
    BY <1>3, NextFrame
  <2>3. /\ IsData(f.first) => f.payload = SubSeq(s, taken + 1, has) /\ has = taken + Len(f.payload)
        /\ ~IsData(f.first) => has = taken
        /\ has \in 0..Len(s)
    BY <1>3, NextFrame
  <2> HIDE DEF f, l, place, next, has
  <2> QED
    BY <2>1, <2>2, <2>3
<1>5. Len(f.payload) \in Nat /\ f.first \in Byte
  BY <1>4, LenProperties DEF FrameTyped
<1>6. taken <= has
  <2> HIDE DEF f, has
  <2>1. taken \in Nat /\ has \in Nat
    BY <1>1, <1>4
  <2>2. CASE IsData(f.first)
    BY <1>4, <1>5, <2>1, <2>2
  <2>3. CASE ~IsData(f.first)
    BY <1>4, <2>1, <2>3
  <2> QED
    BY <2>2, <2>3
<1>7. l > 0
  <2>1. l = 1 + LengthSize(Len(f.payload)) + Len(f.mask) + Len(f.payload)
    BY <1>4, FrameWritten
  <2>2. Len(f.mask) \in Nat /\ LengthSize(Len(f.payload)) \in Nat
    BY <1>4, FrameWritten DEF LengthSize
  <2> QED
    BY <1>5, <2>1, <2>2
<1>8. PartOf(buffer, bytes, place, a)
  BY DEF AtFrame
<1> HIDE DEF place, next, has, l, f
<1>9. l \in 1..(a - place)
  BY <1>1, <1>4, <1>7
<1>10. PartOf(SubSeq(buffer, l + 1, Len(buffer)), bytes, place + l, a)
  <2>1. PICK c \in Nat : c = a
    BY <1>1
  <2>2. place \in Nat /\ place <= c /\ c <= Len(bytes) /\ PartOf(buffer, bytes, place, c) /\ l \in 1..(c - place)
    BY <1>1, <1>8, <1>9, <2>1
  <2>3. PartOf(SubSeq(buffer, l + 1, Len(buffer)), bytes, place + l, c)
    BY <2>2, BufferCut
  <2> QED
    BY <2>1, <2>3
<1>11. PartOf(Remaining(buffer), bytes, next, a)
  BY <1>4, <1>10 DEF Remaining
<1>12. a \in next..Len(bytes) /\ j + 1 \in 0..Len(frs)
  BY <1>1, <1>3, <1>4, <1>9
<1>13. AtFrame(frs, bytes, Remaining(buffer), a, j + 1, has)
  BY <1>11, <1>12 DEF AtFrame, next, has
<1>14. FrameGone(frs, bytes, s, buffer, a, j, taken, has)
  BY <1>4, <1>6, <1>13 DEF FrameGone
<1> QED
  BY <1>14

(* All was read, and no frame is left: all of them were taken. *)
LEMMA AllTaken ==
    ASSUME StreamAssumption, NEW frs, NEW bytes \in Seq(Byte), NEW s \in Seq(Byte), FramesOf(frs, bytes, s),
           NEW buffer, NEW a, NEW j, NEW taken, AtFrame(frs, bytes, buffer, a, j, taken), ~Complete(buffer),
           a = Len(bytes)
    PROVE  buffer = <<>> /\ taken = CarriedIn(frs, Len(frs))
<1> DEFINE place == PlaceIn(frs, bytes, j)
           next == PlaceIn(frs, bytes, j + 1)
<1>1. /\ Len(frs) \in Nat /\ Len(bytes) \in Nat /\ j \in 0..Len(frs) /\ place \in 0..Len(bytes)
      /\ buffer \in Seq(Byte) /\ Len(buffer) = a - place
  BY AtFrameTyped
<1>2. taken = CarriedIn(frs, j)
  BY DEF AtFrame
<1>3. j = Len(frs)
  <2> SUFFICES ASSUME j < Len(frs) PROVE FALSE
    BY <1>1
  <2> DEFINE l == Len(ClientFrame(frs[j + 1]))
  <2>1. /\ next = place + l /\ l \in Nat /\ next \in 0..Len(bytes)
        /\ Complete(buffer) <=> Len(buffer) >= l
    BY NextFrame
  <2> HIDE DEF l, place, next
  <2> QED
    BY <1>1, <2>1
<1>4. place = Len(bytes)
  BY <1>3 DEF PlaceIn
<1> HIDE DEF place
<1>5. Len(buffer) = 0
  BY <1>1, <1>4
<1> QED
  BY <1>1, <1>2, <1>3, <1>5, EmptySeq

(* Nothing was sent yet. *)
LEMMA NoFrames ==
    ASSUME NEW s \in Seq(Byte), NEW buffer, buffer = <<>>
    PROVE  FramesOf(<<>>, <<>>, s) /\ AtFrame(<<>>, <<>>, buffer, 0, 0, 0)
<1>1. Len(<<>>) = 0 /\ Len(s) \in Nat
  BY EmptySeq, LenProperties
<1>2. PlaceIn(<<>>, <<>>, 0) = 0 /\ CarriedIn(<<>>, 0) = 0
  BY <1>1 DEF PlaceIn, CarriedIn
<1>3. 0..Len(<<>>) = {0} /\ 0..(Len(<<>>) - 1) = {}
  BY <1>1
<1>4. \A j \in 0..Len(<<>>) : PlaceIn(<<>>, <<>>, j) \in 0..Len(<<>>) /\ CarriedIn(<<>>, j) \in 0..Len(s)
  BY <1>1, <1>2, <1>3
<1>5. FramesOf(<<>>, <<>>, s)
  BY <1>1, <1>2, <1>3, <1>4 DEF FramesOf
<1>6. PartOf(buffer, <<>>, 0, 0)
  <2>1. <<>> \in Seq(Byte)
    BY EmptySeq
  <2>2. Len(SubSeq(<<>>, 1, 0)) = 0 /\ SubSeq(<<>>, 1, 0) \in Seq(Byte)
    BY <1>1, <2>1, Cut
  <2>3. SubSeq(<<>>, 1, 0) = <<>>
    BY <2>2, EmptySeq
  <2> QED
    BY <2>3 DEF PartOf
<1>7. 0 \in 0..Len(<<>>) /\ 0 \in 0..0
  BY <1>3
<1>8. AtFrame(<<>>, <<>>, buffer, 0, 0, 0)
  BY <1>1, <1>2, <1>6, <1>7 DEF AtFrame
<1> QED
  BY <1>5, <1>8

-----------------------------------------------------------------------------
(* The inductive invariant.                                                *)

FrameRecords == [first : Byte, mask : Masks, payload : Seq(Byte), begins : Nat, carried : Nat]

StreamTypes ==
    /\ SenderTypes /\ ReceiverTypes
    /\ framed \in Seq(Byte) /\ frames \in Seq(FrameRecords)
    /\ useWebSocket \in BOOLEAN /\ wsHandshakeDone \in BOOLEAN /\ closed \in BOOLEAN
    /\ request \in Requests /\ arrived \in Nat /\ step \in {"idle", "leftover", "frames", "telnet"}

(* What the transport has given to the parser: the first bytes of the      *)
(* stream, taken of them.                                                  *)
Transport(taken) ==
    /\ ~useWebSocket => arrived = taken /\ wsFrameBuffer = <<>> /\ step \in {"telnet", "idle"}
    /\ useWebSocket /\ ~wsHandshakeDone =>
          /\ taken = 0 /\ framed = <<>> /\ frames = <<>> /\ wsFrameBuffer = <<>> /\ step = "idle"
          /\ ~closed => arrived <= Len(request) /\ wsHttpBuffer = SubSeq(request, 1, arrived)
    /\ useWebSocket /\ wsHandshakeDone =>
          \E a, j : a \in Nat /\ arrived = Len(request) + a /\ AtFrame(frames, framed, wsFrameBuffer, a, j, taken)
    /\ step = "leftover" => wsFrameBuffer = <<>> /\ rawChunk = <<>>
    /\ useWebSocket /\ ~closed /\ step \in {"telnet", "idle"} => ~Complete(wsFrameBuffer)

(* Between two polls nothing is under way. *)
BetweenPolls ==
    step = "idle" => /\ rawChunk = <<>> /\ incoming = Nothing
                     /\ \A i \in DOMAIN inputBuffer : inputBuffer[i] # LF

Parsing(text, ends, n, r, p, taken) ==
    /\ Linked(text, ends, n, r, p) /\ ReceiverLink(text, ends, r)
    /\ taken \in n..Len(sent) /\ PartOf(rawChunk, sent, n, taken)
    /\ Transport(taken)

StreamInv ==
    /\ StreamTypes /\ FramesOf(frames, framed, sent) /\ BetweenPolls
    /\ \E text, ends, n, r, p, taken : Parsing(text, ends, n, r, p, taken)

LEMMA ParsingTyped ==
    ASSUME StreamTypes, NEW text, NEW ends, NEW n, NEW r, NEW p, NEW taken, Parsing(text, ends, n, r, p, taken)
    PROVE  /\ n \in Nat /\ taken \in Nat /\ Len(sent) \in Nat /\ n <= taken /\ taken <= Len(sent)
           /\ sent \in Seq(Byte) /\ SenderTypes /\ ReceiverTypes
           /\ Linked(text, ends, n, r, p) /\ ReceiverLink(text, ends, r) /\ PartOf(rawChunk, sent, n, taken)
           /\ Transport(taken)
<1>1. Linked(text, ends, n, r, p) /\ ReceiverLink(text, ends, r) /\ PartOf(rawChunk, sent, n, taken) /\ Transport(taken)
  BY DEF Parsing
<1>2. SenderTypes /\ ReceiverTypes /\ sent \in Seq(Byte)
  BY DEF StreamTypes, SenderTypes
<1>3. Len(sent) \in Nat
  BY <1>2, LenProperties
<1>4. n \in 0..Len(sent)
  BY <1>1, <1>2, BehindTyped
<1>5. taken \in n..Len(sent)
  BY DEF Parsing
<1> QED
  BY <1>1, <1>2, <1>3, <1>4, <1>5

(* Nothing of the parser or of the sender changes. *)
LEMMA ParserStill ==
    ASSUME SenderTypes, ReceiverTypes, NEW text, NEW ends, NEW n, NEW r, NEW p, Linked(text, ends, n, r, p),
           ReceiverLink(text, ends, r),
           UNCHANGED <<sent, typed, saying, messages, telnetState, sbBuffer, inputBuffer, incoming, told>>
    PROVE  Linked(text, ends, n, r, p)' /\ ReceiverLink(text, ends, r)' /\ SenderTypes' /\ ReceiverTypes'
<1>1. Linked(text, ends, n, r, p)' /\ SenderTypes'
  BY DEF Linked, SenderTypes
<1>2. \A k : Heard(k)' = Heard(k)
  BY DEF Heard
<1>3. \A m : HeardLines(text, ends, r.chars, m) => HeardLines(text, ends, r.chars, m)'
  BY <1>2 DEF HeardLines
<1>4. ReceiverLink(text, ends, r)'
  BY <1>2, <1>3 DEF ReceiverLink
<1> QED
  BY <1>1, <1>4 DEF ReceiverTypes

(* What the driver writes touches none of it. *)
LEMMA WritingStep ==
    ASSUME StreamInv,
           UNCHANGED <<sender, parser, polling, useWebSocket, request, wsHandshakeDone, wsHttpBuffer, wsFrameBuffer>>
    PROVE  StreamInv'
<1>1. /\ UNCHANGED <<sent, typed, saying, messages, telnetState, sbBuffer, inputBuffer, incoming, told>>
      /\ UNCHANGED <<framed, frames, useWebSocket, request, wsHandshakeDone, wsHttpBuffer, wsFrameBuffer, step, rawChunk,
                     arrived, closed>>
  BY DEF sender, parser, polling
<1>2. PICK text, ends, n, r, p, taken : Parsing(text, ends, n, r, p, taken)
  BY DEF StreamInv
<1>3. StreamTypes /\ FramesOf(frames, framed, sent) /\ BetweenPolls
  BY DEF StreamInv
<1>4. Linked(text, ends, n, r, p)' /\ ReceiverLink(text, ends, r)' /\ SenderTypes' /\ ReceiverTypes'
  BY <1>1, <1>2, <1>3, ParsingTyped, ParserStill
<1>5. Transport(taken)'
  BY <1>1, <1>2 DEF Parsing, Transport
<1>6. Parsing(text, ends, n, r, p, taken)'
  BY <1>1, <1>2, <1>4, <1>5 DEF Parsing
<1>7. StreamTypes' /\ FramesOf(frames, framed, sent)' /\ BetweenPolls'
  BY <1>1, <1>3, <1>4 DEF StreamTypes, BetweenPolls
<1> QED
  BY <1>6, <1>7 DEF StreamInv

LEMMA NumbersAreBytes ==
    /\ 0 \in Byte /\ 2 \in Byte /\ 10 \in Byte /\ 13 \in Byte /\ 240 \in Byte /\ 250 \in Byte /\ 255 \in Byte
    /\ 251 \in Byte /\ 252 \in Byte /\ 253 \in Byte /\ 254 \in Byte
  BY DEF Byte

LEMMA SpeakWrites ==
    ASSUME StreamAssumption, sent \in Seq(Byte), Speak
    PROVE  \E bytes \in Seq(Byte) : sent' = sent \o bytes
<1>0. Contents \subseteq Byte /\ Options \subseteq Byte
  BY DEF StreamAssumption
<1> SUFFICES ASSUME TRUE PROVE \E bytes \in Seq(Byte) : Writes(bytes)
  BY DEF Writes
<1> USE DEF Iac, CR, LF, Se, Will, Wont, Do, Dont, Sb
<1>1. \A a \in Byte : <<a>> \in Seq(Byte)
  OBVIOUS
<1>2. \A a, b \in Byte : <<a, b>> \in Seq(Byte)
  OBVIOUS
<1>3. \A a, b, c \in Byte : <<a, b, c>> \in Seq(Byte)
  OBVIOUS
<1>b. /\ 0 \in Byte /\ 2 \in Byte /\ 10 \in Byte /\ 13 \in Byte /\ 240 \in Byte /\ 250 \in Byte /\ 255 \in Byte
      /\ Will \in Byte /\ Wont \in Byte /\ Do \in Byte /\ Dont \in Byte
  BY NumbersAreBytes
<1>4. ASSUME NEW b \in Contents, Type(b) \/ Put(b) PROVE \E bytes \in Seq(Byte) : Writes(bytes)
  <2>1. Writes(Escaped(b)) /\ b \in Byte
    BY <1>0, <1>4 DEF Type, Put
  <2>2. Escaped(b) \in Seq(Byte)
    BY <1>1, <1>2, <1>b, <2>1 DEF Escaped
  <2> QED
    BY <2>1, <2>2
<1>5. ASSUME NEW cr \in BOOLEAN, EndLine(cr) PROVE \E bytes \in Seq(Byte) : Writes(bytes)
  <2>1. Writes(IF cr THEN <<CR, LF>> ELSE <<LF>>)
    BY <1>5 DEF EndLine
  <2>2. <<CR, LF>> \in Seq(Byte) /\ <<LF>> \in Seq(Byte)
    BY <1>1, <1>2, <1>b
  <2> QED
    BY <2>1, <2>2
<1>6. ASSUME NEW verb \in {Will, Wont, Do, Dont}, NEW option \in Options, Negotiate(verb, option)
      PROVE  \E bytes \in Seq(Byte) : Writes(bytes)
  <2>1. Writes(<<Iac, verb, option>>)
    BY <1>6 DEF Negotiate
  <2>2. <<Iac, verb, option>> \in Seq(Byte)
    BY <1>0, <1>3, <1>b
  <2> QED
    BY <2>1, <2>2
<1>7. ASSUME NEW c \in Byte, Command(c) \/ Abandon(c) PROVE \E bytes \in Seq(Byte) : Writes(bytes)
  <2>1. Writes(<<Iac, c>>)
    BY <1>7 DEF Command, Abandon
  <2>2. <<Iac, c>> \in Seq(Byte)
    BY <1>2, <1>b
  <2> QED
    BY <2>1, <2>2
<1>8. ASSUME NEW kind, NEW opening \in Seq(Byte), Opens(kind, opening) PROVE \E bytes \in Seq(Byte) : Writes(bytes)
  <2>1. Writes(<<Iac, Sb>> \o opening)
    BY <1>8 DEF Opens
  <2>2. <<Iac, Sb>> \in Seq(Byte)
    BY <1>2, <1>b
  <2>3. <<Iac, Sb>> \o opening \in Seq(Byte)
    BY <2>2, ConcatProperties
  <2> QED
    BY <2>1, <2>3
<1>9. ASSUME NEW kind \in DOMAIN Opening, Opens(kind, Opening[kind]) PROVE \E bytes \in Seq(Byte) : Writes(bytes)
  <2>1. PICK a \in Byte \ {Iac}, b \in Byte \ {Iac} : Opening[kind] = <<a>> \/ Opening[kind] = <<a, b>>
    BY OpeningIs
  <2>2. <<a>> \in Seq(Byte) /\ <<a, b>> \in Seq(Byte)
    BY <1>1, <1>2
  <2>3. Opening[kind] \in Seq(Byte)
    <3>1. CASE Opening[kind] = <<a>>
      BY <2>2, <3>1
    <3>2. CASE Opening[kind] = <<a, b>>
      BY <2>2, <3>2
    <3> QED
      BY <2>1, <3>1, <3>2
  <2> QED
    BY <1>8, <1>9, <2>3
<1>10. ASSUME NEW option \in Meaningless, Opens("other", <<option>>) PROVE \E bytes \in Seq(Byte) : Writes(bytes)
  <2>1. <<option>> \in Seq(Byte)
    BY <1>1 DEF Meaningless
  <2> QED
    BY <1>8, <1>10, <2>1
<1>11. ASSUME NextPart PROVE \E bytes \in Seq(Byte) : Writes(bytes)
  <2>1. Writes(IF saying.kind = "msdp" THEN <<ValMark>> ELSE <<0>>)
    BY <1>11 DEF NextPart
  <2>2. <<ValMark>> \in Seq(Byte) /\ <<0>> \in Seq(Byte)
    BY <1>1, <1>b DEF ValMark
  <2> QED
    BY <2>1, <2>2
<1>12. ASSUME Finish PROVE \E bytes \in Seq(Byte) : Writes(bytes)
  <2>1. Writes(<<Iac, Se>>)
    BY <1>12 DEF Finish
  <2>2. <<Iac, Se>> \in Seq(Byte)
    BY <1>2, <1>b
  <2> QED
    BY <2>1, <2>2
<1> DEFINE Goal == \E bytes \in Seq(Byte) : Writes(bytes)
<1>13. (\E b \in Contents : Type(b) \/ Put(b)) => Goal
  BY <1>4
<1>14. (\E cr \in BOOLEAN : EndLine(cr)) => Goal
  BY <1>5
<1>15. (\E verb \in {Will, Wont, Do, Dont}, option \in Options : Negotiate(verb, option)) => Goal
  BY <1>6
<1>16. (\E c \in Byte : Command(c) \/ Abandon(c)) => Goal
  BY <1>7
<1>17. (\E kind \in DOMAIN Opening : Opens(kind, Opening[kind])) => Goal
  BY <1>9
<1>18. (\E option \in Meaningless : Opens("other", <<option>>)) => Goal
  BY <1>10
<1>19. Goal
  <2> HIDE DEF Goal
  <2> QED
    BY <1>11, <1>12, <1>13, <1>14, <1>15, <1>16, <1>17, <1>18 DEF Speak, Goal
<1> QED
  BY <1>19 DEF Writes

(* More is said. *)
LEMMA SpeakStep ==
    ASSUME StreamAssumption, StreamInv, Speak
    PROVE  StreamInv'
<1>1. /\ UNCHANGED <<telnetState, sbBuffer, inputBuffer, incoming, told>>
      /\ UNCHANGED <<framed, frames, useWebSocket, request, wsHandshakeDone, wsHttpBuffer, wsFrameBuffer, step, rawChunk,
                     arrived, closed>>
  BY DEF Speak, carrier, parser, polling
<1>2. PICK text, ends, n, r, p, taken : Parsing(text, ends, n, r, p, taken)
  BY DEF StreamInv
<1>3. StreamTypes /\ FramesOf(frames, framed, sent) /\ BetweenPolls
  BY DEF StreamInv
<1>4. /\ n \in Nat /\ taken \in Nat /\ Len(sent) \in Nat /\ n <= taken /\ taken <= Len(sent)
      /\ sent \in Seq(Byte) /\ SenderTypes /\ ReceiverTypes
      /\ Linked(text, ends, n, r, p) /\ ReceiverLink(text, ends, r) /\ PartOf(rawChunk, sent, n, taken)
      /\ Transport(taken)
  BY <1>2, <1>3, ParsingTyped
<1>5. StillLinked(text, ends, n, r)
  BY <1>4, SpeakLinked
<1>6. SenderTypes'
  BY <1>5 DEF StillLinked
<1>7. PICK text2, ends2, p2 : /\ Linked(text2, ends2, n, r, p2)'
                              /\ Extends(text, ends, messages, text2, ends2, messages')
  BY <1>5 DEF StillLinked
<1>8. text2 \in Seq(Byte) /\ messages' \in Histories /\ sent' \in Seq(Byte)
  BY <1>6, <1>7 DEF Linked, SenderTypes
<1>9. ReceiverLink(text2, ends2, r)' /\ ReceiverTypes'
  BY <1>1, <1>4, <1>7, <1>8, ReceiverKept
<1>10. Longer(sent, sent')
  <2>1. PICK bytes \in Seq(Byte) : sent' = sent \o bytes
    BY <1>4, SpeakWrites
  <2>2. Longer(sent, sent \o bytes)
    BY <1>4, <2>1, LongerConcat
  <2> QED
    BY <2>1, <2>2
<1>11. PartOf(rawChunk, sent', n, taken)
  <2> DEFINE s2 == sent'
  <2>1. s2 \in Seq(Byte) /\ Longer(sent, s2)
    BY <1>8, <1>10
  <2> HIDE DEF s2
  <2>2. PartOf(rawChunk, s2, n, taken)
    BY <1>4, <2>1, PartLonger
  <2> QED
    BY <2>2 DEF s2
<1>12. taken \in n..Len(sent')
  <2>1. Len(sent') \in Nat /\ Len(sent) <= Len(sent')
    BY <1>8, <1>10, LenProperties DEF Longer
  <2> QED
    BY <1>4, <2>1
<1>13. Transport(taken)'
  BY <1>1, <1>4 DEF Transport
<1>14. Parsing(text2, ends2, n, r, p2, taken)'
  BY <1>1, <1>7, <1>9, <1>11, <1>12, <1>13 DEF Parsing
<1>15. FramesOf(frames, framed, sent')
  <2> DEFINE s2 == sent'
  <2>1. s2 \in Seq(Byte) /\ Longer(sent, s2)
    BY <1>8, <1>10
  <2> HIDE DEF s2
  <2>2. framed \in Seq(Byte)
    BY <1>3 DEF StreamTypes
  <2>3. FramesOf(frames, framed, s2)
    BY <1>3, <1>4, <2>1, <2>2, FramesLonger
  <2> QED
    BY <2>3 DEF s2
<1>16. StreamTypes' /\ BetweenPolls'
  BY <1>1, <1>3, <1>6, <1>9 DEF StreamTypes, BetweenPolls
<1> QED
  BY <1>1, <1>14, <1>15, <1>16 DEF StreamInv

LEMMA CarriedIsLast ==
    ASSUME NEW S, frames \in Seq(S)
    PROVE  Carried = CarriedIn(frames, Len(frames))
<1>1. Len(frames) \in Nat /\ (frames = <<>> <=> Len(frames) = 0)
  BY EmptySeq, LenProperties
<1>2. CASE frames = <<>>
  BY <1>1, <1>2 DEF Carried, CarriedIn
<1>3. CASE frames # <<>>
  BY <1>1, <1>3 DEF Carried, CarriedIn, Last
<1> QED
  BY <1>2, <1>3

(* A frame is sent. *)
LEMMA FrameStep ==
    ASSUME StreamAssumption, StreamInv, NEW first \in Byte, NEW mask \in Masks, NEW payload \in Seq(Byte),
           Frame(first, mask, payload), Carried \in Nat,
           IsData(first) => /\ Carried + Len(payload) <= Len(sent)
                            /\ payload = SubSeq(sent, Carried + 1, Carried + Len(payload))
    PROVE  StreamInv'
<1> DEFINE f == [first |-> first, mask |-> mask, payload |-> payload, begins |-> Len(framed),
                 carried |-> Carried + (IF IsData(first) THEN Len(payload) ELSE 0)]
           N == Len(frames)
<1>1. /\ UNCHANGED <<sent, typed, saying, messages, telnetState, sbBuffer, inputBuffer, incoming, told>>
      /\ UNCHANGED <<useWebSocket, request, wsHandshakeDone, wsHttpBuffer, wsFrameBuffer, step, rawChunk, arrived, closed>>
      /\ useWebSocket /\ wsHandshakeDone /\ Len(payload) <= LongestFrame
  BY DEF Frame, carrier, parser, polling
<1>2. framed' = framed \o ClientFrame(f) /\ frames' = Append(frames, f)
  BY DEF Frame
<1>3. /\ f.first = first /\ f.mask = mask /\ f.payload = payload /\ f.begins = Len(framed)
      /\ f.carried = Carried + (IF IsData(first) THEN Len(payload) ELSE 0)
  OBVIOUS
<1>4. PICK text, ends, n, r, p, taken : Parsing(text, ends, n, r, p, taken)
  BY DEF StreamInv
<1>5. StreamTypes /\ FramesOf(frames, framed, sent) /\ BetweenPolls
  BY DEF StreamInv
<1>6. framed \in Seq(Byte) /\ frames \in Seq(FrameRecords) /\ sent \in Seq(Byte)
  BY <1>5 DEF StreamTypes, SenderTypes
<1>7. Len(framed) \in Nat /\ Len(sent) \in Nat /\ N \in Nat /\ Len(payload) \in Nat
  BY <1>6, LenProperties
<1>8. Carried = CarriedIn(frames, N) /\ Carried \in 0..Len(sent)
  <2>1. Carried = CarriedIn(frames, N)
    BY <1>6, CarriedIsLast
  <2>2. N \in 0..N
    BY <1>7
  <2> QED
    BY <1>5, <2>1, <2>2 DEF FramesOf
<1>9. f.carried \in 0..Len(sent)
  BY <1>3, <1>7, <1>8
<1>10. f \in FrameRecords
  <2>1. Len(framed) \in Nat /\ Carried + (IF IsData(first) THEN Len(payload) ELSE 0) \in Nat
    BY <1>7
  <2> QED
    BY <2>1 DEF FrameRecords
<1>11. FrameTyped(f)
  <2>1. MaskKey(mask)
    BY MasksAreKeys
  <2> QED
    BY <1>1, <1>3, <2>1 DEF FrameTyped
<1>12. /\ IsData(f.first) => /\ f.carried = CarriedIn(frames, N) + Len(f.payload)
                             /\ f.payload = SubSeq(sent, CarriedIn(frames, N) + 1, f.carried)
       /\ ~IsData(f.first) => f.carried = CarriedIn(frames, N)
  <2>1. CASE IsData(first)
    <3>1. f.carried = Carried + Len(payload) /\ payload = SubSeq(sent, Carried + 1, Carried + Len(payload))
      BY <1>3, <2>1
    <3> QED
      BY <1>3, <1>8, <2>1, <3>1
  <2>2. CASE ~IsData(first)
    <3>1. f.carried = Carried + 0
      BY <1>3, <2>2
    <3> QED
      BY <1>3, <1>8, <2>2, <3>1
  <2> QED
    BY <2>1, <2>2
<1>c. Carries(f, sent, CarriedIn(frames, N))
  BY <1>12 DEF Carries
<1> HIDE DEF f
<1> DEFINE frs2 == frames'
           bytes2 == framed'
<1>13. /\ FramesOf(frs2, bytes2, sent) /\ bytes2 \in Seq(Byte) /\ Longer(framed, bytes2) /\ Len(frs2) = N + 1
       /\ \A j \in 0..N : PlaceIn(frs2, bytes2, j) = PlaceIn(frames, framed, j)
                          /\ CarriedIn(frs2, j) = CarriedIn(frames, j)
  <2>1. frs2 = Append(frames, f) /\ bytes2 = framed \o ClientFrame(f)
    BY <1>2
  <2> HIDE DEF frs2, bytes2
  <2>2. f.begins = Len(framed) /\ FramesOf(frames, framed, sent) /\ Carries(f, sent, CarriedIn(frames, Len(frames)))
    BY <1>3, <1>5, <1>c
  <2> HIDE DEF N
  <2>3. FramesOf(frs2, bytes2, sent) /\ OneFrameMore(frames, framed, frs2, bytes2)
    BY <1>6, <1>9, <1>10, <1>11, <2>1, <2>2, FrameAdded
  <2> QED
    BY <2>3 DEF N, OneFrameMore
<1>14. frs2 \in Seq(FrameRecords)
  BY <1>2, <1>6, <1>10, AppendProperties
<1> HIDE DEF frs2, bytes2
<1>15. Transport(taken)
  BY <1>4 DEF Parsing
<1>16. PICK a, j : a \in Nat /\ arrived = Len(request) + a /\ AtFrame(frames, framed, wsFrameBuffer, a, j, taken)
  BY <1>1, <1>15 DEF Transport
<1>17. AtFrame(frs2, bytes2, wsFrameBuffer, a, j, taken)
  <2>1. j \in 0..N
    BY <1>16 DEF AtFrame
  <2>2. PlaceIn(frs2, bytes2, j) = PlaceIn(frames, framed, j) /\ CarriedIn(frs2, j) = CarriedIn(frames, j)
    BY <1>13, <2>1
  <2> QED
    BY <1>5, <1>6, <1>13, <1>16, <2>2, AtFrameLonger
<1>18. Transport(taken)'
  <2>1. \E b, i : b \in Nat /\ arrived' = Len(request') + b /\ AtFrame(frames', framed', wsFrameBuffer', b, i, taken)
    BY <1>1, <1>16, <1>17 DEF frs2, bytes2
  <2> QED
    BY <1>1, <1>15, <2>1 DEF Transport
<1>19. Linked(text, ends, n, r, p)' /\ ReceiverLink(text, ends, r)' /\ SenderTypes' /\ ReceiverTypes'
  BY <1>1, <1>4, <1>5, ParsingTyped, ParserStill
<1>20. Parsing(text, ends, n, r, p, taken)'
  BY <1>1, <1>4, <1>18, <1>19 DEF Parsing
<1>21. StreamTypes' /\ BetweenPolls'
  BY <1>1, <1>5, <1>13, <1>14, <1>19 DEF StreamTypes, BetweenPolls, frs2, bytes2
<1>22. FramesOf(frames, framed, sent)'
  BY <1>1, <1>13 DEF frs2, bytes2
<1> QED
  BY <1>20, <1>21, <1>22 DEF StreamInv

LEMMA TransmitStep ==
    ASSUME StreamAssumption, StreamInv, Transmit
    PROVE  StreamInv'
<1>1. sent \in Seq(Byte) /\ frames \in Seq(FrameRecords) /\ FramesOf(frames, framed, sent)
  BY DEF StreamInv, StreamTypes, SenderTypes
<1>2. Len(sent) \in Nat /\ Len(frames) \in 0..Len(frames)
  BY <1>1, LenProperties
<1>3. Carried \in 0..Len(sent)
  <2>1. Carried = CarriedIn(frames, Len(frames))
    BY <1>1, CarriedIsLast
  <2> QED
    BY <1>1, <1>2, <2>1 DEF FramesOf
<1> DEFINE from == Carried
<1>4. from \in Nat /\ from <= Len(sent) /\ from = Carried
  BY <1>2, <1>3
<1> HIDE DEF from
<1>5. ASSUME NEW first \in Byte, NEW mask \in Masks, NEW n \in 0..(Len(sent) - Carried), FrameStream(first, mask, n)
      PROVE  StreamInv'
  <2>1. from + n \in Nat /\ from + n <= Len(sent) /\ n \in Nat
    BY <1>2, <1>4, <1>5
  <2> DEFINE payload == SubSeq(sent, from + 1, from + n)
  <2>2. payload \in Seq(Byte) /\ Len(payload) = n
    BY <1>1, <1>4, <2>1, Cut
  <2>3. Frame(first, mask, payload) /\ payload = SubSeq(sent, Carried + 1, Carried + n)
    BY <1>4, <1>5 DEF FrameStream
  <2> HIDE DEF payload
  <2>4. Carried \in Nat /\ Carried + Len(payload) <= Len(sent) /\ payload = SubSeq(sent, Carried + 1, Carried + Len(payload))
    BY <1>4, <2>1, <2>2, <2>3
  <2> QED
    BY <2>2, <2>3, <2>4, FrameStep
<1>6. ASSUME NEW first \in Byte, NEW mask \in Masks, NEW n \in 0..Len(sent), FrameOther(first, mask, n)
      PROVE  StreamInv'
  <2> DEFINE payload == SubSeq(sent, 1, n)
  <2>1. payload \in Seq(Byte)
    BY <1>1, <1>2, Cut
  <2>2. Frame(first, mask, payload) /\ ~IsData(first)
    BY <1>6 DEF FrameOther
  <2> HIDE DEF payload
  <2>3. Carried \in Nat
    BY <1>4
  <2> QED
    BY <2>1, <2>2, <2>3, FrameStep
<1> QED
  BY <1>5, <1>6 DEF Transmit

LEMMA CutBehind ==
    ASSUME NEW S, NEW s \in Seq(S), NEW t \in Seq(S), NEW m \in Nat, m >= 1, NEW n \in Nat, n <= Len(t)
    PROVE  SubSeq(s \o t, Len(s) + m, Len(s) + n) = SubSeq(t, m, n)
<1> DEFINE l == Len(s)
           u == s \o t
<1>1. l \in Nat /\ Len(t) \in Nat
  BY LenProperties
<1>2. u \in Seq(S) /\ Joins(u, s, t)
  BY ConcatAt
<1>3. Len(u) = l + Len(t) /\ \A i \in 1..Len(t) : u[l + i] = t[i]
  BY <1>2 DEF Joins
<1> HIDE DEF l, u
<1> DEFINE lo == l + m
           hi == l + n
<1>4. lo \in Nat /\ lo >= 1 /\ hi \in Int /\ hi <= Len(u) /\ lo = l + m /\ hi = l + n
  BY <1>1, <1>3
<1> HIDE DEF lo, hi
<1> DEFINE a == SubSeq(u, lo, hi)
           b == SubSeq(t, m, n)
<1>5. /\ a \in Seq(S) /\ Len(a) = (IF lo <= hi THEN hi - lo + 1 ELSE 0)
      /\ \A i \in 1..(hi - lo + 1) : a[i] = u[lo + i - 1]
  BY <1>2, <1>4, Cut
<1>6. /\ b \in Seq(S) /\ Len(b) = (IF m <= n THEN n - m + 1 ELSE 0)
      /\ \A i \in 1..(n - m + 1) : b[i] = t[m + i - 1]
  BY <1>1, Cut
<1> HIDE DEF a, b
<1>7. Len(a) = Len(b)
  BY <1>1, <1>4, <1>5, <1>6
<1>8. ASSUME NEW i \in 1..Len(a)
      PROVE  a[i] = b[i]
  <2>1. i \in 1..(n - m + 1) /\ i \in 1..(hi - lo + 1)
    BY <1>1, <1>4, <1>5
  <2>2. m + i - 1 \in 1..Len(t) /\ l + (m + i - 1) = lo + i - 1
    BY <1>1, <1>4, <2>1
  <2>3. u[lo + i - 1] = t[m + i - 1]
    BY <1>3, <2>2
  <2> QED
    BY <1>5, <1>6, <2>1, <2>3
<1>9. a = b
  BY <1>5, <1>6, <1>7, <1>8, SeqEqual
<1> QED
  BY <1>9 DEF a, b, l, u, lo, hi

LEMMA NothingCut ==
    ASSUME NEW S, NEW s \in Seq(S), NEW m \in Nat, NEW n \in Int, m >= 1, n < m, n <= Len(s)
    PROVE  SubSeq(s, m, n) = <<>>
<1>1. SubSeq(s, m, n) \in Seq(S) /\ Len(SubSeq(s, m, n)) = 0
  BY Cut
<1> QED
  BY <1>1, EmptySeq

(* The first empty line of a request is at its end. *)
LEMMA RequestEnds ==
    ASSUME NEW r \in Seq(Byte), Find(EndOfRequest, r) = {Len(r) - 3}, NEW c \in Nat, c <= Len(r),
           NEW http, http = SubSeq(r, 1, c), Find(EndOfRequest, http) # {}
    PROVE  c = Len(r) /\ SubSeq(http, RequestEnd(http) + 4, Len(http)) = <<>>
<1>1. Len(r) \in Nat /\ http \in Seq(Byte) /\ Len(http) = c
  BY Cut, LenProperties
<1>2. Len(EndOfRequest) = 4
  BY DEF EndOfRequest
<1>3. PICK i \in 1..(Len(http) - 4 + 1) : SubSeq(http, i, i + 4 - 1) = EndOfRequest
  BY <1>2 DEF Find
<1>4. i \in Nat /\ i >= 1 /\ i + 3 <= c /\ i + 3 \in Int /\ i + 4 - 1 = i + 3
  BY <1>1, <1>3
<1>5. SubSeq(r, i, i + 3) = EndOfRequest
  <2>1. SubSeq(SubSeq(r, 1, c), i, i + 3) = SubSeq(r, 1 + i - 1, 1 + (i + 3) - 1)
    BY <1>1, <1>4, CutTwice
  <2>2. 1 + i - 1 = i /\ 1 + (i + 3) - 1 = i + 3
    BY <1>4
  <2> QED
    BY <1>3, <1>4, <2>1, <2>2
<1>6. i \in Find(EndOfRequest, r)
  <2>1. i \in 1..(Len(r) - 4 + 1)
    BY <1>1, <1>4
  <2> QED
    BY <1>2, <1>4, <1>5, <2>1 DEF Find
<1>7. i = Len(r) - 3 /\ c = Len(r)
  BY <1>1, <1>4, <1>6
<1>8. http = r
  <2>1. \A l \in 1..Len(http) : http[l] = r[l]
    <3>1. \A l \in 1..(c - 1 + 1) : http[l] = r[1 + l - 1]
      BY <1>1, Cut
    <3>2. \A l \in 1..c : 1 + l - 1 = l /\ l \in 1..(c - 1 + 1)
      OBVIOUS
    <3> QED
      BY <1>1, <3>1, <3>2
  <2> QED
    BY <1>1, <1>7, <2>1, SeqEqual
<1>9. RequestEnd(http) = Len(r) - 3
  <2> DEFINE S == {Len(r) - 3}
  <2>1. Find(EndOfRequest, http) = S
    BY <1>8
  <2>2. Len(r) - 3 \in S /\ S \subseteq Nat /\ \A x \in S : Len(r) - 3 <= x
    BY <1>4, <1>7
  <2> HIDE DEF S
  <2>3. Min(S) = Len(r) - 3
    BY <2>2, MinIs
  <2> QED
    BY <2>1, <2>3 DEF RequestEnd
<1>10. SubSeq(r, Len(r) + 1, Len(r)) = <<>>
  BY <1>1, NothingCut
<1>11. RequestEnd(http) + 4 = Len(r) + 1
  BY <1>1, <1>9
<1> QED
  BY <1>7, <1>8, <1>10, <1>11

(* What is not told of the step of a poll, and the transport. *)
Quietly == UNCHANGED <<sent, typed, saying, messages, framed, frames, useWebSocket, request,
                       telnetState, sbBuffer, inputBuffer, incoming, told>>

LEMMA QuietStep ==
    ASSUME StreamInv, Quietly, NEW text, NEW ends, NEW n, NEW r, NEW p, NEW taken, Parsing(text, ends, n, r, p, taken),
           arrived' \in Nat, closed' \in BOOLEAN, wsHandshakeDone' \in BOOLEAN,
           step' \in {"idle", "leftover", "frames", "telnet"}, BetweenPolls',
           NEW taken2, taken2 \in n..Len(sent), PartOf(rawChunk', sent, n, taken2), Transport(taken2)'
    PROVE  StreamInv'
<1>1. StreamTypes /\ FramesOf(frames, framed, sent)
  BY DEF StreamInv
<1>2. UNCHANGED <<sent, typed, saying, messages, telnetState, sbBuffer, inputBuffer, incoming, told>>
  BY DEF Quietly
<1>3. Linked(text, ends, n, r, p)' /\ ReceiverLink(text, ends, r)' /\ SenderTypes' /\ ReceiverTypes'
  BY <1>1, <1>2, ParsingTyped, ParserStill
<1>4. StreamTypes'
  BY <1>1, <1>3 DEF StreamTypes, Quietly
<1>5. FramesOf(frames, framed, sent)'
  BY <1>1 DEF Quietly
<1>6. Parsing(text, ends, n, r, p, taken2)'
  BY <1>2, <1>3 DEF Parsing
<1> QED
  BY <1>4, <1>5, <1>6 DEF StreamInv

LEMMA ReadingTyped ==
    ASSUME StreamAssumption, StreamInv
    PROVE  /\ request \in Seq(Byte) /\ Find(EndOfRequest, request) = {Len(request) - 3}
           /\ framed \in Seq(Byte) /\ sent \in Seq(Byte) /\ arrived \in Nat
           /\ Len(request) \in Nat /\ Len(framed) \in Nat /\ Len(sent) \in Nat
           /\ useWebSocket \in BOOLEAN /\ wsHandshakeDone \in BOOLEAN /\ closed \in BOOLEAN
<1>1. StreamTypes
  BY DEF StreamInv
<1>2. request \in Seq(Byte) /\ Find(EndOfRequest, request) = {Len(request) - 3}
  BY <1>1 DEF StreamTypes, StreamAssumption
<1>3. framed \in Seq(Byte) /\ sent \in Seq(Byte) /\ arrived \in Nat
  BY <1>1 DEF StreamTypes, SenderTypes
<1> QED
  BY <1>1, <1>2, <1>3, LenProperties DEF StreamTypes

(* Before the handshake the request is read. *)
LEMMA AskedIs ==
    ASSUME StreamAssumption, StreamInv, NEW taken, Transport(taken), useWebSocket, ~wsHandshakeDone, ~closed,
           NEW b, b \in 0..(Len(Wire) - arrived)
    PROVE  /\ arrived + b \in Nat /\ arrived + b <= Len(request) /\ Asked(b) = SubSeq(request, 1, arrived + b)
           /\ taken = 0 /\ framed = <<>> /\ frames = <<>> /\ wsFrameBuffer = <<>>
<1>1. /\ request \in Seq(Byte) /\ Len(request) \in Nat /\ arrived \in Nat
  BY ReadingTyped
<1>2. /\ taken = 0 /\ framed = <<>> /\ frames = <<>> /\ wsFrameBuffer = <<>>
      /\ arrived <= Len(request) /\ wsHttpBuffer = SubSeq(request, 1, arrived)
  BY DEF Transport
<1>3. Wire = request
  BY <1>1, <1>2, ConcatEmptySeq DEF Wire
<1>4. b \in Nat /\ arrived + b <= Len(request) /\ arrived + b \in Nat
  BY <1>1, <1>3
<1> DEFINE c == arrived + b
<1>5. c \in Nat /\ arrived <= c /\ c <= Len(request)
  BY <1>1, <1>4
<1>6. Asked(b) = SubSeq(request, 1, arrived) \o SubSeq(request, arrived + 1, c)
  BY <1>2, <1>3 DEF Asked, Unread
<1> HIDE DEF c
<1>7. SubSeq(request, 1, arrived) \o SubSeq(request, arrived + 1, c) = SubSeq(request, 1, c)
  BY <1>1, <1>5, CutJoins
<1> QED
  BY <1>2, <1>4, <1>6, <1>7 DEF c

LEMMA ReadRequestStep ==
    ASSUME StreamAssumption, StreamInv, NEW b, b \in 0..(Len(Wire) - arrived), NEW hangup \in BOOLEAN,
           ReadRequest(b, hangup) \/ RefuseRequest(b, hangup)
    PROVE  StreamInv'
<1>1. /\ useWebSocket /\ ~wsHandshakeDone /\ Reads(b, hangup) /\ closed' \in BOOLEAN
      /\ closed' \/ wsHttpBuffer' = Asked(b)
      /\ UNCHANGED <<wsHandshakeDone, wsFrameBuffer, step, rawChunk>>
  BY DEF ReadRequest, RefuseRequest
<1>2. /\ step = "idle" /\ ~closed /\ arrived' = arrived + b /\ Quietly
  BY <1>1 DEF Reads, Quietly, sender, parser
<1>3. PICK text, ends, n, r, p, taken : Parsing(text, ends, n, r, p, taken)
  BY DEF StreamInv
<1>4. taken \in n..Len(sent) /\ PartOf(rawChunk, sent, n, taken) /\ Transport(taken)
  BY <1>3 DEF Parsing
<1>5. /\ arrived + b \in Nat /\ arrived + b <= Len(request) /\ Asked(b) = SubSeq(request, 1, arrived + b)
      /\ taken = 0 /\ framed = <<>> /\ frames = <<>> /\ wsFrameBuffer = <<>>
  BY <1>1, <1>2, <1>4, AskedIs
<1>6. Transport(taken)'
  <2>1. ~Complete(wsFrameBuffer)
    BY <1>1, <1>2, <1>4 DEF Transport
  <2> QED
    BY <1>1, <1>2, <1>4, <1>5, <2>1 DEF Transport, Quietly
<1>7. BetweenPolls'
  BY <1>1, <1>2 DEF StreamInv, BetweenPolls, Quietly
<1>8. step \in {"idle", "leftover", "frames", "telnet"} /\ wsHandshakeDone \in BOOLEAN
  BY DEF StreamInv, StreamTypes
<1> QED
  BY <1>1, <1>2, <1>3, <1>4, <1>5, <1>6, <1>7, <1>8, QuietStep

LEMMA HandshakeStep ==
    ASSUME StreamAssumption, StreamInv, NEW b, b \in 0..(Len(Wire) - arrived), NEW hangup \in BOOLEAN,
           CompleteWebSocketHandshake(b, hangup)
    PROVE  StreamInv'
<1>1. /\ useWebSocket /\ ~wsHandshakeDone /\ Reads(b, hangup) /\ closed' = hangup
      /\ Find(EndOfRequest, Asked(b)) # {} /\ wsHandshakeDone' = TRUE
      /\ wsFrameBuffer' = wsFrameBuffer \o SubSeq(Asked(b), RequestEnd(Asked(b)) + 4, Len(Asked(b)))
      /\ step' = "leftover" /\ UNCHANGED rawChunk
  BY DEF CompleteWebSocketHandshake
<1>2. /\ step = "idle" /\ ~closed /\ arrived' = arrived + b /\ Quietly
  BY <1>1 DEF Reads, Quietly, sender, parser
<1>3. PICK text, ends, n, r, p, taken : Parsing(text, ends, n, r, p, taken)
  BY DEF StreamInv
<1>4. taken \in n..Len(sent) /\ PartOf(rawChunk, sent, n, taken) /\ Transport(taken)
  BY <1>3 DEF Parsing
<1>5. /\ arrived + b \in Nat /\ arrived + b <= Len(request) /\ Asked(b) = SubSeq(request, 1, arrived + b)
      /\ taken = 0 /\ framed = <<>> /\ frames = <<>> /\ wsFrameBuffer = <<>>
  BY <1>1, <1>2, <1>4, AskedIs
<1>6. request \in Seq(Byte) /\ Find(EndOfRequest, request) = {Len(request) - 3} /\ Len(request) \in Nat /\ sent \in Seq(Byte)
  BY ReadingTyped
<1> DEFINE c == arrived + b
           http == Asked(b)
<1>7. c \in Nat /\ c <= Len(request) /\ http = SubSeq(request, 1, c) /\ Find(EndOfRequest, http) # {}
  BY <1>1, <1>5
<1>8. arrived' = c /\ wsFrameBuffer' = wsFrameBuffer \o SubSeq(http, RequestEnd(http) + 4, Len(http))
  BY <1>1, <1>2
<1> HIDE DEF c, http
<1>9. c = Len(request) /\ SubSeq(http, RequestEnd(http) + 4, Len(http)) = <<>>
  BY <1>6, <1>7, RequestEnds
<1>10. wsFrameBuffer' = <<>>
  <2>1. <<>> \o <<>> = <<>>
    BY EmptySeq, ConcatEmptySeq
  <2> QED
    BY <1>5, <1>8, <1>9, <2>1
<1>11. AtFrame(<<>>, <<>>, wsFrameBuffer', 0, 0, 0)
  <2> DEFINE buffer == wsFrameBuffer'
  <2>1. buffer = <<>>
    BY <1>10
  <2> HIDE DEF buffer
  <2>2. AtFrame(<<>>, <<>>, buffer, 0, 0, 0)
    BY <1>6, <2>1, NoFrames
  <2> QED
    BY <2>2 DEF buffer
<1>12. \E a, j : a \in Nat /\ arrived' = Len(request') + a /\ AtFrame(frames', framed', wsFrameBuffer', a, j, taken)
  <2>1. request' = request /\ frames' = <<>> /\ framed' = <<>>
    BY <1>2, <1>5 DEF Quietly
  <2>2. arrived' = Len(request) + 0 /\ 0 \in Nat
    BY <1>6, <1>8, <1>9
  <2> QED
    BY <1>5, <1>11, <2>1, <2>2
<1>13. rawChunk = <<>>
  BY <1>2 DEF StreamInv, BetweenPolls
<1>14. Transport(taken)'
  BY <1>1, <1>2, <1>10, <1>12, <1>13 DEF Transport, Quietly
<1>15. BetweenPolls'
  BY <1>1 DEF BetweenPolls
<1> QED
  BY <1>1, <1>2, <1>3, <1>4, <1>5, <1>14, <1>15, QuietStep

LEMMA ReadFramesStep ==
    ASSUME StreamAssumption, StreamInv, NEW b, b \in 0..(Len(Wire) - arrived), NEW hangup \in BOOLEAN,
           ReadFrames(b, hangup)
    PROVE  StreamInv'
<1>1. /\ useWebSocket /\ wsHandshakeDone /\ Reads(b, hangup) /\ closed' = hangup
      /\ wsFrameBuffer' = wsFrameBuffer \o Unread(b)
      /\ step' = "frames" /\ UNCHANGED <<wsHandshakeDone, rawChunk>>
  BY DEF ReadFrames
<1>2. /\ step = "idle" /\ ~closed /\ arrived' = arrived + b /\ Quietly
  BY <1>1 DEF Reads, Quietly, sender, parser
<1>3. PICK text, ends, n, r, p, taken : Parsing(text, ends, n, r, p, taken)
  BY DEF StreamInv
<1>4. taken \in n..Len(sent) /\ PartOf(rawChunk, sent, n, taken) /\ Transport(taken)
  BY <1>3 DEF Parsing
<1>5. PICK a, j : a \in Nat /\ arrived = Len(request) + a /\ AtFrame(frames, framed, wsFrameBuffer, a, j, taken)
  BY <1>1, <1>4 DEF Transport
<1>6. /\ request \in Seq(Byte) /\ framed \in Seq(Byte) /\ sent \in Seq(Byte) /\ Len(request) \in Nat /\ Len(framed) \in Nat
      /\ FramesOf(frames, framed, sent)
  BY ReadingTyped DEF StreamInv
<1>7. Wire = request \o framed /\ Len(Wire) = Len(request) + Len(framed)
  BY <1>1, <1>6, ConcatProperties DEF Wire
<1> DEFINE d == a + b
<1>8. b \in Nat /\ d \in Nat /\ a <= d /\ d <= Len(framed) /\ arrived + b = Len(request) + d
  BY <1>5, <1>6, <1>7
<1> HIDE DEF d
<1>9. Unread(b) = SubSeq(framed, a + 1, d)
  <2> DEFINE from == a + 1
  <2>1. from \in Nat /\ from >= 1 /\ arrived + 1 = Len(request) + from
    BY <1>5, <1>6
  <2>2. Unread(b) = SubSeq(request \o framed, Len(request) + from, Len(request) + d)
    BY <1>7, <1>8, <2>1 DEF Unread
  <2> HIDE DEF from
  <2>3. SubSeq(request \o framed, Len(request) + from, Len(request) + d) = SubSeq(framed, from, d)
    BY <1>6, <1>8, <2>1, CutBehind
  <2> QED
    BY <2>2, <2>3 DEF from
<1>10. AtFrame(frames, framed, wsFrameBuffer \o SubSeq(framed, a + 1, d), d, j, taken)
  BY <1>5, <1>6, <1>8, MoreIsRead
<1>11. AtFrame(frames, framed, wsFrameBuffer', d, j, taken)
  BY <1>1, <1>9, <1>10
<1>12. \E e, i : e \in Nat /\ arrived' = Len(request') + e /\ AtFrame(frames', framed', wsFrameBuffer', e, i, taken)
  BY <1>2, <1>8, <1>11 DEF Quietly
<1>13. Transport(taken)'
  BY <1>1, <1>2, <1>12 DEF Transport, Quietly
<1>14. BetweenPolls'
  BY <1>1 DEF BetweenPolls
<1>15. arrived' \in Nat /\ wsHandshakeDone' \in BOOLEAN
  BY <1>1, <1>2, <1>6, <1>8
<1> QED
  BY <1>1, <1>2, <1>3, <1>4, <1>13, <1>14, <1>15, QuietStep

(* Without a websocket the bytes are those of the stream. *)
LEMMA ReadTelnetStep ==
    ASSUME StreamAssumption, StreamInv, NEW b, b \in 0..(Len(Wire) - arrived), NEW hangup \in BOOLEAN,
           ReadTelnet(b, hangup)
    PROVE  StreamInv'
<1>1. /\ ~useWebSocket /\ Reads(b, hangup) /\ closed' = hangup
      /\ rawChunk' = Unread(b) /\ step' = "telnet" /\ UNCHANGED <<wsHandshakeDone, wsFrameBuffer>>
  BY DEF ReadTelnet
<1>2. /\ step = "idle" /\ ~closed /\ arrived' = arrived + b /\ Quietly
  BY <1>1 DEF Reads, Quietly, sender, parser
<1>3. PICK text, ends, n, r, p, taken : Parsing(text, ends, n, r, p, taken)
  BY DEF StreamInv
<1>4. StreamTypes
  BY DEF StreamInv
<1>5. /\ n \in Nat /\ taken \in Nat /\ Len(sent) \in Nat /\ n <= taken /\ taken <= Len(sent)
      /\ sent \in Seq(Byte) /\ PartOf(rawChunk, sent, n, taken) /\ Transport(taken)
  BY <1>3, <1>4, ParsingTyped
<1>6. arrived = taken
  BY <1>1, <1>5 DEF Transport
<1>7. n = taken
  <2>1. rawChunk = <<>>
    BY <1>2 DEF StreamInv, BetweenPolls
  <2>2. Len(rawChunk) = taken - n
    BY <1>5, BufferIs
  <2>3. Len(rawChunk) = 0
    BY <2>1, EmptySeq
  <2> QED
    BY <1>5, <2>2, <2>3
<1>d. b \in Nat /\ arrived + b \in Nat
  BY <1>1, <1>5, <1>6 DEF Wire
<1> PICK d \in Nat : d = arrived + b
  BY <1>d
<1>8. b \in Nat /\ d \in Nat /\ n <= d /\ d <= Len(sent)
  BY <1>1, <1>5, <1>6, <1>7, <1>d DEF Wire
<1>9. PartOf(rawChunk', sent, n, d)
  BY <1>1, <1>6, <1>7 DEF PartOf, Unread, Wire
<1>10. arrived' = d
  BY <1>2
<1>11. d \in n..Len(sent)
  BY <1>5, <1>8
<1>12. Transport(d)'
  <2>1. wsFrameBuffer = <<>>
    BY <1>1, <1>5 DEF Transport
  <2> QED
    BY <1>1, <1>2, <1>10, <2>1 DEF Transport, Quietly
<1>13. BetweenPolls'
  BY <1>1 DEF BetweenPolls
<1>14. arrived' \in Nat /\ wsHandshakeDone' \in BOOLEAN
  BY <1>1, <1>4, <1>8, <1>10 DEF StreamTypes
<1> QED
  BY <1>1, <1>2, <1>3, <1>9, <1>11, <1>12, <1>13, <1>14, QuietStep

LEMMA ArriveStep ==
    ASSUME StreamAssumption, StreamInv, Arrive
    PROVE  StreamInv'
  BY ReadRequestStep, HandshakeStep, ReadFramesStep, ReadTelnetStep DEF Arrive

(* decodeWsFrames() takes a frame: the parser may go up to taken2. *)
FrameTaken(taken, taken2) ==
    /\ taken2 \in taken..Len(sent)
    /\ \E a, j : a \in Nat /\ arrived = Len(request) + a /\ AtFrame(frames, framed, Remaining(wsFrameBuffer), a, j, taken2)
    /\ IsData(wsFrameBuffer[1]) => FirstData(wsFrameBuffer) = SubSeq(sent, taken + 1, taken2)
    /\ ~IsData(wsFrameBuffer[1]) => taken2 = taken

LEMMA TakesFrameAt ==
    ASSUME StreamAssumption, StreamInv, NEW text, NEW ends, NEW n, NEW r, NEW p, NEW taken,
           Parsing(text, ends, n, r, p, taken), step \in {"frames", "leftover"}
    PROVE  /\ useWebSocket /\ wsHandshakeDone
           /\ Complete(wsFrameBuffer) => step = "frames" /\ \E taken2 : FrameTaken(taken, taken2)
<1>1. StreamTypes /\ FramesOf(frames, framed, sent)
  BY DEF StreamInv
<1>2. /\ taken \in Nat /\ Len(sent) \in Nat /\ taken <= Len(sent) /\ sent \in Seq(Byte) /\ Transport(taken)
  BY <1>1, ParsingTyped
<1>3. useWebSocket /\ wsHandshakeDone
  BY <1>2 DEF Transport
<1>4. ASSUME Complete(wsFrameBuffer)
      PROVE  step = "frames" /\ \E taken2 : FrameTaken(taken, taken2)
  <2>1. step = "frames"
    <3> SUFFICES ASSUME step = "leftover" PROVE FALSE
      OBVIOUS
    <3>1. wsFrameBuffer = <<>>
      BY <1>2 DEF Transport
    <3>2. Len(wsFrameBuffer) = 0
      BY <3>1, EmptySeq
    <3>3. Len(wsFrameBuffer) >= 2
      BY <1>4 DEF Complete
    <3> QED
      BY <3>2, <3>3
  <2>2. PICK a, j : a \in Nat /\ arrived = Len(request) + a /\ AtFrame(frames, framed, wsFrameBuffer, a, j, taken)
    BY <1>2, <1>3 DEF Transport
  <2>3. framed \in Seq(Byte)
    BY <1>1 DEF StreamTypes
  <2> PICK taken2 : FrameGone(frames, framed, sent, wsFrameBuffer, a, j, taken, taken2)
    BY <1>1, <1>2, <1>4, <2>2, <2>3, FrameIsTaken
  <2>4. /\ AtFrame(frames, framed, Remaining(wsFrameBuffer), a, j + 1, taken2)
        /\ taken2 \in 0..Len(sent) /\ taken <= taken2
        /\ IsData(wsFrameBuffer[1]) => FirstData(wsFrameBuffer) = SubSeq(sent, taken + 1, taken2)
        /\ ~IsData(wsFrameBuffer[1]) => taken2 = taken
    BY DEF FrameGone
  <2>5. taken2 \in taken..Len(sent)
    BY <1>2, <2>4
  <2>6. FrameTaken(taken, taken2)
    BY <2>2, <2>4, <2>5 DEF FrameTaken
  <2> QED
    BY <2>1, <2>6
<1> QED
  BY <1>3, <1>4

LEMMA TakesFrameStep ==
    ASSUME StreamAssumption, StreamInv, TakeData \/ TakePing \/ TakeClose \/ TakeIgnored
    PROVE  StreamInv'
<1>1. PICK text, ends, n, r, p, taken : Parsing(text, ends, n, r, p, taken)
  BY DEF StreamInv
<1>2. StreamTypes
  BY DEF StreamInv
<1>3. TakesFrame
  BY DEF TakeData, TakePing, TakeClose, TakeIgnored
<1>4. /\ step \in {"frames", "leftover"} /\ Complete(wsFrameBuffer)
      /\ wsFrameBuffer' = Remaining(wsFrameBuffer)
      /\ UNCHANGED <<sender, useWebSocket, request, wsHandshakeDone, telnetState, sbBuffer, incoming, arrived, told>>
  BY <1>3 DEF TakesFrame
<1>5. useWebSocket /\ wsHandshakeDone /\ step = "frames"
  BY <1>1, <1>4, TakesFrameAt
<1> PICK taken2 : FrameTaken(taken, taken2)
  BY <1>1, <1>4, TakesFrameAt
<1>6. /\ n \in Nat /\ taken \in Nat /\ Len(sent) \in Nat /\ n <= taken /\ taken <= Len(sent)
      /\ sent \in Seq(Byte) /\ PartOf(rawChunk, sent, n, taken)
  BY <1>1, <1>2, ParsingTyped
<1>7. taken2 \in Nat /\ taken <= taken2 /\ taken2 <= Len(sent) /\ taken2 \in n..Len(sent)
  BY <1>6 DEF FrameTaken
<1>8. /\ UNCHANGED inputBuffer /\ closed' \in BOOLEAN
      /\ step' = "frames" \/ (step' = "telnet" /\ closed')
      /\ (IsData(wsFrameBuffer[1]) /\ rawChunk' = rawChunk \o FirstData(wsFrameBuffer))
         \/ (~IsData(wsFrameBuffer[1]) /\ rawChunk' = rawChunk)
  <2>1. closed \in BOOLEAN
    BY <1>2 DEF StreamTypes
  <2>2. CASE TakeData
    BY <1>5, <2>1, <2>2 DEF TakeData
  <2>3. CASE TakePing
    BY <1>5, <2>1, <2>3 DEF TakePing, IsData
  <2>4. CASE TakeClose
    BY <1>5, <2>4 DEF TakeClose, FramesEnd, IsData
  <2>5. CASE TakeIgnored
    <3>1. wsFrameBuffer[1] % 16 \notin 0..2
      BY <2>5 DEF TakeIgnored
    <3> QED
      BY <1>5, <2>1, <2>5, <3>1 DEF TakeIgnored, IsData
  <2> QED
    BY <2>2, <2>3, <2>4, <2>5
<1>9. PartOf(rawChunk', sent, n, taken2)
  <2>1. CASE IsData(wsFrameBuffer[1])
    <3>1. rawChunk' = rawChunk \o SubSeq(sent, taken + 1, taken2)
      BY <1>8, <2>1 DEF FrameTaken
    <3>2. PartOf(rawChunk \o SubSeq(sent, taken + 1, taken2), sent, n, taken2)
      BY <1>6, <1>7, PartGrows
    <3> QED
      BY <3>1, <3>2
  <2>2. CASE ~IsData(wsFrameBuffer[1])
    BY <1>6, <1>8, <2>2 DEF FrameTaken
  <2> QED
    BY <2>1, <2>2
<1>10. Quietly
  BY <1>4, <1>8 DEF Quietly, sender
<1>11. \E a, j : a \in Nat /\ arrived' = Len(request') + a /\ AtFrame(frames', framed', wsFrameBuffer', a, j, taken2)
  BY <1>4, <1>10 DEF FrameTaken, Quietly
<1>12. Transport(taken2)'
  BY <1>4, <1>5, <1>8, <1>11 DEF Transport
<1>13. BetweenPolls'
  BY <1>8 DEF BetweenPolls
<1>14. arrived' \in Nat /\ wsHandshakeDone' \in BOOLEAN /\ step' \in {"idle", "leftover", "frames", "telnet"}
  BY <1>2, <1>4, <1>8 DEF StreamTypes
<1> QED
  BY <1>1, <1>7, <1>8, <1>9, <1>10, <1>12, <1>13, <1>14, QuietStep

LEMMA NoFrameStep ==
    ASSUME StreamAssumption, StreamInv, NoFrame
    PROVE  StreamInv'
<1>1. PICK text, ends, n, r, p, taken : Parsing(text, ends, n, r, p, taken)
  BY DEF StreamInv
<1>2. StreamTypes
  BY DEF StreamInv
<1>3. /\ step \in {"frames", "leftover"} /\ ~Complete(wsFrameBuffer) /\ FramesEnd
      /\ UNCHANGED <<sent, typed, saying, messages, framed, frames, telnetState, sbBuffer, incoming, told>>
      /\ UNCHANGED <<useWebSocket, request, wsHandshakeDone, wsHttpBuffer, wsFrameBuffer, arrived, closed>>
  BY DEF NoFrame, sender, carrier
<1>4. useWebSocket /\ wsHandshakeDone
  BY <1>1, <1>3, TakesFrameAt
<1>5. taken \in n..Len(sent) /\ PartOf(rawChunk, sent, n, taken) /\ Transport(taken)
  BY <1>1 DEF Parsing
<1>6. step' = "telnet" /\ rawChunk' = rawChunk /\ inputBuffer' = inputBuffer
  <2>1. CASE step = "leftover"
    <3>1. rawChunk = <<>>
      BY <1>5, <2>1 DEF Transport
    <3>2. inputBuffer \in Seq(Byte)
      BY <1>2 DEF StreamTypes, ReceiverTypes
    <3>3. inputBuffer \o <<>> = inputBuffer
      BY <3>2, ConcatEmptySeq
    <3> QED
      BY <1>3, <2>1, <3>1, <3>3 DEF FramesEnd
  <2>2. CASE step # "leftover"
    BY <1>3, <2>2 DEF FramesEnd
  <2> QED
    BY <2>1, <2>2
<1>7. Quietly
  BY <1>3, <1>6 DEF Quietly
<1>8. \E a, j : a \in Nat /\ arrived' = Len(request') + a /\ AtFrame(frames', framed', wsFrameBuffer', a, j, taken)
  BY <1>3, <1>4, <1>5 DEF Transport
<1>9. Transport(taken)'
  BY <1>3, <1>4, <1>6, <1>8 DEF Transport
<1>10. BetweenPolls'
  BY <1>6 DEF BetweenPolls
<1>11. arrived' \in Nat /\ closed' \in BOOLEAN /\ wsHandshakeDone' \in BOOLEAN
       /\ step' \in {"idle", "leftover", "frames", "telnet"}
  BY <1>2, <1>3, <1>6 DEF StreamTypes
<1> QED
  BY <1>1, <1>5, <1>6, <1>7, <1>9, <1>10, <1>11, QuietStep

(* One turn of the parser. *)
LEMMA ParseStep ==
    ASSUME StreamAssumption, StreamInv, ProcessTelnetBytes
    PROVE  StreamInv'
<1>1. PICK text, ends, n, r, p, taken : Parsing(text, ends, n, r, p, taken)
  BY DEF StreamInv
<1>2. StreamTypes /\ FramesOf(frames, framed, sent)
  BY DEF StreamInv
<1>3. /\ n \in Nat /\ taken \in Nat /\ Len(sent) \in Nat /\ n <= taken /\ taken <= Len(sent)
      /\ sent \in Seq(Byte) /\ SenderTypes /\ ReceiverTypes
      /\ Linked(text, ends, n, r, p) /\ ReceiverLink(text, ends, r) /\ PartOf(rawChunk, sent, n, taken)
      /\ Transport(taken)
  BY <1>1, <1>2, ParsingTyped
<1>4. Parsed(Head(rawChunk))
  BY <1>3, ProcessIsParsed
<1>5. rawChunk # <<>> /\ rawChunk' = Tail(rawChunk) /\ step = "telnet"
      /\ UNCHANGED <<sender, carrier, step, arrived, closed, told>>
  BY <1>4 DEF Parsed
<1>6. n < taken
  <2> SUFFICES ASSUME n = taken PROVE FALSE
    BY <1>3
  <2>1. rawChunk \in Seq(Byte) /\ Len(rawChunk) = taken - n
    BY <1>3, BufferIs
  <2>2. Len(rawChunk) = 0
    BY <1>3, <2>1
  <2> QED
    BY <1>5, <2>1, <2>2, EmptySeq
<1>7. Head(rawChunk) = sent[n + 1] /\ Tail(rawChunk) = SubSeq(sent, n + 1 + 1, taken)
  <2> DEFINE m == n + 1
  <2>1. m \in Nat /\ m >= 1 /\ m <= taken
    BY <1>3, <1>6
  <2>2. rawChunk = SubSeq(sent, m, taken)
    BY <1>3 DEF PartOf
  <2> HIDE DEF m
  <2>3. Head(SubSeq(sent, m, taken)) = sent[m] /\ Tail(SubSeq(sent, m, taken)) = SubSeq(sent, m + 1, taken)
    BY <1>3, <2>1, CutTail
  <2> QED
    BY <2>2, <2>3 DEF m
<1>8. PICK b : b = sent[n + 1]
  OBVIOUS
<1>9. Parsed(b) /\ n < Len(sent)
  BY <1>3, <1>4, <1>6, <1>7, <1>8
<1>10. /\ Linked(text, ends, n + 1, After(r, b), p)'
       /\ ReceiverLink(text, ends, After(r, b))' /\ ReceiverTypes' /\ SenderTypes'
  BY <1>3, <1>8, <1>9, ByteParsed
<1>11. UNCHANGED <<sent, framed, frames, useWebSocket, request, wsHandshakeDone, wsHttpBuffer, wsFrameBuffer,
                   step, arrived, closed>>
  BY <1>5 DEF sender, carrier
<1>12. PartOf(rawChunk', sent', n + 1, taken) /\ taken \in (n + 1)..Len(sent')
  BY <1>3, <1>5, <1>6, <1>7, <1>11 DEF PartOf
<1>13. Transport(taken)'
  BY <1>3, <1>5, <1>11 DEF Transport
<1>14. Parsing(text, ends, n + 1, After(r, b), p, taken)'
  BY <1>10, <1>12, <1>13 DEF Parsing
<1>15. StreamTypes' /\ FramesOf(frames, framed, sent)' /\ BetweenPolls'
  BY <1>2, <1>5, <1>10, <1>11 DEF StreamTypes, BetweenPolls
<1> QED
  BY <1>14, <1>15 DEF StreamInv

LEMMA SplitStep ==
    ASSUME StreamAssumption, StreamInv, NEW pos \in DOMAIN inputBuffer, SplitLine(pos)
    PROVE  StreamInv'
<1>1. PICK text, ends, n, r, p, taken : Parsing(text, ends, n, r, p, taken)
  BY DEF StreamInv
<1>2. StreamTypes /\ FramesOf(frames, framed, sent)
  BY DEF StreamInv
<1>3. /\ SenderTypes /\ ReceiverTypes /\ Linked(text, ends, n, r, p) /\ ReceiverLink(text, ends, r) /\ Transport(taken)
  BY <1>1, <1>2, ParsingTyped
<1>4. /\ step = "telnet" /\ UNCHANGED sender
      /\ UNCHANGED <<sent, framed, frames, useWebSocket, request, wsHandshakeDone, wsHttpBuffer, wsFrameBuffer,
                     step, rawChunk, arrived, closed>>
  BY DEF SplitLine, sender, carrier, polling
<1>5. Linked(text, ends, n, r, p)' /\ SenderTypes'
  BY <1>3, <1>4, SenderStill
<1>6. ReceiverLink(text, ends, r)' /\ ReceiverTypes'
  BY <1>3, SplitLineHeard
<1>7. Transport(taken)'
  BY <1>3, <1>4 DEF Transport
<1>8. Parsing(text, ends, n, r, p, taken)'
  BY <1>1, <1>4, <1>5, <1>6, <1>7 DEF Parsing
<1>9. StreamTypes' /\ FramesOf(frames, framed, sent)' /\ BetweenPolls'
  BY <1>2, <1>4, <1>5, <1>6 DEF StreamTypes, BetweenPolls
<1> QED
  BY <1>8, <1>9 DEF StreamInv

LEMMA HandleStep ==
    ASSUME StreamAssumption, StreamInv, HandleConnection
    PROVE  StreamInv'
<1>1. PICK text, ends, n, r, p, taken : Parsing(text, ends, n, r, p, taken)
  BY DEF StreamInv
<1>2. StreamTypes /\ FramesOf(frames, framed, sent)
  BY DEF StreamInv
<1>3. /\ SenderTypes /\ ReceiverTypes /\ Linked(text, ends, n, r, p) /\ ReceiverLink(text, ends, r) /\ Transport(taken)
  BY <1>1, <1>2, ParsingTyped
<1>4. /\ step = "telnet" /\ step' = "idle" /\ UNCHANGED sender
      /\ rawChunk = <<>> /\ incoming' = Nothing /\ UNCHANGED inputBuffer
      /\ \A i \in DOMAIN inputBuffer : inputBuffer[i] # LF
      /\ UNCHANGED <<sent, framed, frames, useWebSocket, request, wsHandshakeDone, wsHttpBuffer, wsFrameBuffer,
                     rawChunk, arrived, closed>>
  BY DEF HandleConnection, sender
<1>5. Linked(text, ends, n, r, p)' /\ SenderTypes'
  BY <1>3, <1>4, SenderStill
<1>6. ReceiverLink(text, ends, r)' /\ ReceiverTypes'
  BY <1>3, ConnectionHandled
<1>7. Transport(taken)'
  BY <1>3, <1>4 DEF Transport
<1>8. Parsing(text, ends, n, r, p, taken)'
  BY <1>1, <1>4, <1>5, <1>6, <1>7 DEF Parsing
<1>9. BetweenPolls'
  BY <1>4 DEF BetweenPolls
<1>10. StreamTypes' /\ FramesOf(frames, framed, sent)'
  BY <1>2, <1>4, <1>5, <1>6 DEF StreamTypes
<1> QED
  BY <1>8, <1>9, <1>10 DEF StreamInv

(* Every step keeps the invariant. *)
LEMMA StreamKept ==
    ASSUME StreamAssumption, StreamInv, [StreamNext]_streamVars
    PROVE  StreamInv'
<1>1. CASE Speak
  BY <1>1, SpeakStep
<1>2. CASE Transmit
  BY <1>2, TransmitStep
<1>3. CASE OnNewConnection \/ Efuns \/ UNCHANGED streamVars
  <2>1. UNCHANGED <<sender, parser, polling, useWebSocket, request, wsHandshakeDone, wsHttpBuffer, wsFrameBuffer>>
    <3>1. CASE OnNewConnection
      BY <3>1 DEF OnNewConnection
    <3>2. CASE Efuns
      BY <3>2 DEF Efuns, SuppressEcho, RequestWindowSize, StartRequestTerminalType, SendMspOob, Writing, carrier
    <3>3. CASE UNCHANGED streamVars
      BY <3>3 DEF streamVars, carrier
    <3> QED
      BY <1>3, <3>1, <3>2, <3>3
  <2> QED
    BY <2>1, WritingStep
<1>4. CASE Arrive
  BY <1>4, ArriveStep
<1>5. CASE DecodeWsFrames
  BY <1>5, TakesFrameStep, NoFrameStep DEF DecodeWsFrames
<1>6. CASE ProcessTelnetBytes
  BY <1>6, ParseStep
<1>7. CASE \E pos \in DOMAIN inputBuffer : SplitLine(pos)
  BY <1>7, SplitStep
<1>8. CASE HandleConnection
  BY <1>8, HandleStep
<1> QED
  BY <1>1, <1>2, <1>3, <1>4, <1>5, <1>6, <1>7, <1>8 DEF StreamNext, Polls

(* At the start nothing has been sent. *)
LEMMA StreamStarts ==
    ASSUME StreamAssumption, StreamInit
    PROVE  StreamInv
<1>1. /\ sent = <<>> /\ typed = <<>> /\ saying = Silence /\ messages = Nothing /\ framed = <<>> /\ frames = <<>>
      /\ useWebSocket \in BOOLEAN /\ request \in Requests /\ wsHandshakeDone = FALSE /\ wsHttpBuffer = <<>>
      /\ wsFrameBuffer = <<>> /\ telnetState = "Data" /\ sbBuffer = <<>> /\ inputBuffer = <<>>
      /\ incoming = Nothing /\ closed = FALSE /\ step = "idle" /\ rawChunk = <<>> /\ arrived = 0 /\ told = Nothing
  BY DEF StreamInit, Sender, NewConnection
<1>2. Len(<<>>) = 0 /\ <<>> \in Seq(Byte) /\ <<>> \in Seq(FrameRecords) /\ <<>> \in Seq(Message)
  BY EmptySeq
<1>3. Nothing \in Histories /\ \A k \in Kinds : Nothing[k] = <<>>
  BY <1>2 DEF Nothing, Histories
<1>4. "line" \in Kinds /\ Queued \subseteq Kinds /\ Flagged \subseteq Kinds
  BY KindsAre
<1>5. StreamTypes
  <2>1. SenderTypes
    BY <1>1, <1>2, <1>3, SilenceTyped DEF SenderTypes
  <2>2. ReceiverTypes
    BY <1>1, <1>2, <1>3 DEF ReceiverTypes
  <2> QED
    BY <1>1, <1>2, <2>1, <2>2 DEF StreamTypes
<1>6. FramesOf(frames, framed, sent)
  BY <1>1, <1>2, NoFrames
<1>7. BetweenPolls
  BY <1>1, <1>2 DEF BetweenPolls
<1> DEFINE ends == [j \in 0..0 |-> 0]
<1>8. ends[0] = 0 /\ ends \in [0..0 -> 0..0]
  OBVIOUS
<1> HIDE DEF ends
<1>9. SubSeq(<<>>, 0 + 1, 0) = <<>>
  BY <1>2, NothingCut
<1>10. Start.chars = 0 /\ Start.state = "Data" /\ Start.sb = <<>> /\ \A k \in Kinds : Start.said[k] = 0
  BY DEF Start
<1>11. Marks(<<>>, LF, ends, 0)
  BY <1>2, <1>8 DEF Marks
<1>12. Lines(<<>>, ends, <<>>, <<>>)
  <2>1. <<>> = SubSeq(<<>>, ends[Len(<<>>)] + 1, Len(<<>>))
    BY <1>2, <1>8, <1>9
  <2>2. \A j \in 1..Len(<<>>) : FALSE
    BY <1>2
  <2> QED
    BY <1>2, <1>11, <2>1, <2>2 DEF Lines
<1>13. PeerLink(<<>>, ends, Start, typed, saying, messages)
  BY <1>1, <1>2, <1>3, <1>4, <1>10, <1>12, SilenceTyped DEF PeerLink
<1>14. Linked(<<>>, ends, 0, Start, Start)
  <2>1. Reached(sent, <<>>, messages, 0, Start, Start)
    BY <1>1, NothingParsed
  <2> QED
    BY <1>2, <1>13, <2>1 DEF Linked
<1>15. \A k \in Kinds : Heard(k) = <<>> /\ incoming[k] = <<>>
  <2>1. <<>> \o <<>> = <<>>
    BY EmptySeq, ConcatEmptySeq
  <2> QED
    BY <1>1, <1>3, <2>1 DEF Heard
<1>16. HeardLines(<<>>, ends, 0, 0)
  <2>1. messages["line"] = <<>> /\ Heard("line") = <<>>
    BY <1>1, <1>3, <1>4, <1>15
  <2>2. SubSeq(<<>>, 1, 0) = <<>>
    BY <1>2, NothingCut
  <2>3. 0 \in 0..Len(messages["line"]) /\ ends[0] <= 0
    BY <1>2, <1>8, <2>1
  <2>4. inputBuffer = SubSeq(<<>>, ends[0] + 1, 0)
    BY <1>1, <1>8, <1>9
  <2>5. Heard("line") = SubSeq(messages["line"], 1, 0)
    BY <2>1, <2>2, Zenon
  <2> QED
    BY <2>3, <2>4, <2>5 DEF HeardLines
<1>17. ReceiverLink(<<>>, ends, Start)
  <2>1. \A k \in Queued \ {"line"} : Heard(k) = SubSeq(messages[k], 1, Start.said[k])
    <3>1. SubSeq(<<>>, 1, 0) = <<>>
      BY <1>2, NothingCut
    <3> QED
      BY <1>1, <1>3, <1>4, <1>10, <1>15, <3>1
  <2>2. ASSUME NEW k \in Flagged
        PROVE  (\E at : Selects(at, Heard(k), Start.said[k], messages[k])) /\ Len(incoming[k]) <= 1
    <3>1. Heard(k) = <<>> /\ Start.said[k] = 0 /\ Len(incoming[k]) = 0
      BY <1>2, <1>4, <1>10, <1>15
    <3> DEFINE at == [i \in 1..0 |-> 1]
    <3>2. at \in [1..0 -> 1..0]
      OBVIOUS
    <3>3. Selects(at, <<>>, 0, messages[k])
      <4> HIDE DEF at
      <4> QED
        BY <1>2, <3>2 DEF Selects
    <3> QED
      BY <3>1, <3>3
  <2> QED
    BY <1>1, <1>10, <1>16, <2>1, <2>2 DEF ReceiverLink
<1>18. Transport(0)
  <2>1. ~Complete(<<>>)
    BY <1>2 DEF Complete
  <2>2. request \in Seq(Byte) /\ Len(request) \in Nat
    BY <1>1, LenProperties DEF StreamAssumption
  <2>3. SubSeq(request, 1, 0) = <<>>
    BY <2>2, NothingCut
  <2> QED
    BY <1>1, <2>1, <2>2, <2>3 DEF Transport
<1>19. Parsing(<<>>, ends, 0, Start, Start, 0)
  <2>1. PartOf(rawChunk, sent, 0, 0) /\ 0 \in 0..Len(sent)
    BY <1>1, <1>2, <1>9 DEF PartOf
  <2> QED
    BY <1>14, <1>17, <1>18, <2>1 DEF Parsing
<1> QED
  BY <1>5, <1>6, <1>7, <1>19 DEF StreamInv

(* The mudlib was told the first of what was heard. *)
LEMMA ToldIsFirst ==
    ASSUME NEW S, NEW t \in Seq(S), NEW u \in Seq(S), NEW msgs \in Seq(S), NEW n \in Nat, n <= Len(msgs),
           NEW h, Joins(h, t, u), h \in Seq(S), FirstOf(h, msgs, n)
    PROVE  IsPrefix(t, msgs)
<1>1. Len(t) \in Nat /\ Len(u) \in Nat /\ Len(msgs) \in Nat
  BY LenProperties
<1>2. Len(h) = Len(t) + Len(u) /\ \A i \in 1..Len(t) : h[i] = t[i]
  BY DEF Joins
<1>3. Len(h) = n /\ \A i \in 1..n : h[i] = msgs[i]
  <2>1. /\ Len(SubSeq(msgs, 1, n)) = (IF 1 <= n THEN n - 1 + 1 ELSE 0)
        /\ \A i \in 1..(n - 1 + 1) : SubSeq(msgs, 1, n)[i] = msgs[1 + i - 1]
    BY Cut
  <2>2. n - 1 + 1 = n /\ \A i \in 1..n : 1 + i - 1 = i
    OBVIOUS
  <2> QED
    BY <2>1, <2>2 DEF FirstOf
<1>4. \A i \in 1..Len(t) : t[i] = msgs[i]
  BY <1>1, <1>2, <1>3
<1>5. Len(t) <= Len(msgs)
  BY <1>1, <1>2, <1>3
<1> DEFINE a == SubSeq(t, 1, Len(t))
           b == SubSeq(msgs, 1, Len(t))
<1>6. a = b
  <2>1. /\ a \in Seq(S) /\ Len(a) = (IF 1 <= Len(t) THEN Len(t) - 1 + 1 ELSE 0)
        /\ \A i \in 1..(Len(t) - 1 + 1) : a[i] = t[1 + i - 1]
    BY <1>1, Cut
  <2>2. /\ b \in Seq(S) /\ Len(b) = (IF 1 <= Len(t) THEN Len(t) - 1 + 1 ELSE 0)
        /\ \A i \in 1..(Len(t) - 1 + 1) : b[i] = msgs[1 + i - 1]
    BY <1>1, <1>5, Cut
  <2> HIDE DEF a, b
  <2>3. Len(a) = Len(t) /\ Len(b) = Len(t)
    BY <1>1, <2>1, <2>2
  <2>4. \A i \in 1..Len(t) : i \in 1..(Len(t) - 1 + 1) /\ 1 + i - 1 = i
    BY <1>1
  <2>5. \A i \in 1..Len(a) : a[i] = b[i]
    BY <1>4, <2>1, <2>2, <2>3, <2>4
  <2> QED
    BY <2>1, <2>2, <2>3, <2>5, SeqEqual
<1> QED
  BY <1>5, <1>6 DEF IsPrefix

LEMMA PrefixWhole ==
    ASSUME NEW S, NEW msgs \in Seq(S)
    PROVE  SubSeq(msgs, 1, Len(msgs)) = msgs
<1>1. Len(msgs) \in Nat
  BY LenProperties
<1> DEFINE a == SubSeq(msgs, 1, Len(msgs))
<1>2. /\ a \in Seq(S) /\ Len(a) = (IF 1 <= Len(msgs) THEN Len(msgs) - 1 + 1 ELSE 0)
      /\ \A i \in 1..(Len(msgs) - 1 + 1) : a[i] = msgs[1 + i - 1]
  BY <1>1, Cut
<1> HIDE DEF a
<1>3. Len(a) = Len(msgs)
  BY <1>1, <1>2
<1>4. \A i \in 1..Len(msgs) : i \in 1..(Len(msgs) - 1 + 1) /\ 1 + i - 1 = i
  BY <1>1
<1>5. \A i \in 1..Len(a) : a[i] = msgs[i]
  BY <1>2, <1>3, <1>4
<1>6. a = msgs
  BY <1>2, <1>3, <1>5, SeqEqual
<1> QED
  BY <1>6 DEF a

(* What the mudlib is told is what was sent, however far it is. *)
LEMMA ToldAsSent ==
    ASSUME SenderTypes, ReceiverTypes, NEW text, NEW ends, NEW n, NEW r, NEW p, Linked(text, ends, n, r, p),
           ReceiverLink(text, ends, r)
    PROVE  (\A k \in Queued : IsPrefix(told[k], messages[k])) /\ (\A k \in Flagged : Selected(k))
<1>1. /\ \A k \in Kinds : r.said[k] \in Nat /\ Len(messages[k]) \in Nat /\ messages[k] \in Seq(Message)
      /\ \A k \in Kinds \ {"line"} : r.said[k] <= Len(messages[k])
  BY BehindTyped
<1>2. ASSUME NEW k \in Queued
      PROVE  IsPrefix(told[k], messages[k])
  <2>1. k \in Kinds
    BY KindsAre
  <2>2. told[k] \in Seq(Message) /\ incoming[k] \in Seq(Message) /\ Heard(k) \in Seq(Message)
    BY <2>1, HeardTyped
  <2>3. \E m \in Nat : m <= Len(messages[k]) /\ FirstOf(Heard(k), messages[k], m)
    <3>1. CASE k = "line"
      <4> PICK m : HeardLines(text, ends, r.chars, m)
        BY DEF ReceiverLink
      <4>1. m \in 0..Len(messages[k]) /\ FirstOf(Heard(k), messages[k], m)
        BY <3>1 DEF HeardLines, FirstOf
      <4>2. m \in Nat /\ m <= Len(messages[k])
        BY <1>1, <2>1, <4>1
      <4> QED
        BY <4>1, <4>2
    <3>2. CASE k # "line"
      <4>1. FirstOf(Heard(k), messages[k], r.said[k])
        BY <3>2 DEF ReceiverLink, FirstOf
      <4>2. r.said[k] \in Nat /\ r.said[k] <= Len(messages[k])
        BY <1>1, <2>1, <3>2
      <4> QED
        BY <4>1, <4>2
    <3> QED
      BY <3>1, <3>2
  <2> PICK m \in Nat : m <= Len(messages[k]) /\ FirstOf(Heard(k), messages[k], m)
    BY <2>3
  <2> DEFINE t == told[k]
             u == incoming[k]
             h == Heard(k)
             msgs == messages[k]
  <2>4. h = t \o u
    BY DEF Heard
  <2>5. /\ t \in Seq(Message) /\ u \in Seq(Message) /\ msgs \in Seq(Message)
        /\ m <= Len(msgs) /\ FirstOf(h, msgs, m)
    BY <1>1, <2>1, <2>2
  <2> HIDE DEF t, u, h, msgs
  <2>6. h \in Seq(Message) /\ Joins(h, t, u)
    BY <2>4, <2>5, ConcatAt
  <2>7. IsPrefix(t, msgs)
    BY <2>5, <2>6, ToldIsFirst
  <2> QED
    BY <2>7 DEF t, msgs
<1>3. ASSUME NEW k \in Flagged
      PROVE  Selected(k)
  <2>1. k \in Kinds /\ k # "line"
    BY KindsAre
  <2>2. PICK at : Selects(at, Heard(k), r.said[k], messages[k])
    BY DEF ReceiverLink
  <2>3. /\ told[k] \in Seq(Message) /\ incoming[k] \in Seq(Message)
        /\ Len(Heard(k)) = Len(told[k]) + Len(incoming[k]) /\ Len(told[k]) \in Nat /\ Len(incoming[k]) \in Nat
    BY <2>1, HeardTyped
  <2> DEFINE T == Len(told[k])
             N == Len(Heard(k))
             l == r.said[k]
             M == Len(messages[k])
  <2>4. /\ at \in [1..N -> 1..l] /\ \A i, j \in 1..N : i < j => at[i] < at[j]
        /\ \A i \in 1..N : Heard(k)[i] = messages[k][at[i]]
    BY <2>2 DEF Selects
  <2>5. T \in Nat /\ N \in Nat /\ T <= N /\ l \in Nat /\ M \in Nat /\ l <= M
    <3>1. l \in Nat /\ M \in Nat
      BY <1>1, <2>1
    <3>2. l <= M
      BY <1>1, <2>1
    <3> DEFINE u == Len(incoming[k])
    <3>3. N = T + u /\ T \in Nat /\ u \in Nat
      BY <2>3
    <3> HIDE DEF T, N, l, M, u
    <3> QED
      BY <3>1, <3>2, <3>3
  <2>6. DOMAIN told[k] = 1..T /\ DOMAIN messages[k] = 1..M
    BY <1>1, <2>1, <2>3, LenProperties
  <2>7. \A i \in 1..T : Heard(k)[i] = told[k][i]
    <3> DEFINE t == told[k]
               u == incoming[k]
               h == Heard(k)
    <3>1. t \in Seq(Message) /\ u \in Seq(Message) /\ h = t \o u
      BY <2>3 DEF Heard
    <3> HIDE DEF t, u, h
    <3>2. Joins(h, t, u)
      BY <3>1, ConcatAt
    <3>3. \A i \in 1..Len(t) : h[i] = t[i]
      BY <3>2 DEF Joins
    <3> QED
      BY <3>3 DEF t, h
  <2> HIDE DEF T, N, l, M
  <2> DEFINE some == [i \in 1..T |-> at[i]]
  <2>8. some \in [1..T -> 1..M]
    <3>1. ASSUME NEW i \in 1..T
          PROVE  at[i] \in 1..M
      <4>1. i \in 1..N
        BY <2>5
      <4>2. at[i] \in 1..l
        BY <2>4, <4>1
      <4> QED
        BY <2>5, <4>2
    <3> QED
      BY <3>1
  <2>9. \A i \in 1..T : some[i] = at[i] /\ i \in 1..N
    BY <2>5
  <2> HIDE DEF some
  <2>10. \A i, j \in 1..T : i < j => some[i] < some[j]
    BY <2>4, <2>9
  <2>11. \A i \in 1..T : told[k][i] = messages[k][some[i]]
    BY <2>4, <2>7, <2>9
  <2>12. DOMAIN some = 1..T
    BY <2>8
  <2> QED
    BY <2>6, <2>8, <2>10, <2>11, <2>12 DEF Selected
<1> QED
  BY <1>2, <1>3

-----------------------------------------------------------------------------
(* Nothing is left over when everything has arrived.                       *)

(* The transport has given all of the stream to the parser. *)
LEMMA SettledTakes ==
    ASSUME StreamAssumption, StreamInv, Settled, NEW taken, Transport(taken)
    PROVE  taken = Len(sent) /\ wsFrameBuffer = <<>>
<1>1. /\ StreamTypes /\ FramesOf(frames, framed, sent)
      /\ step = "idle" /\ ~closed /\ arrived = Len(Wire) /\ (useWebSocket => wsHandshakeDone /\ Carried = Len(sent))
  BY DEF StreamInv, Settled
<1>2. /\ request \in Seq(Byte) /\ framed \in Seq(Byte) /\ sent \in Seq(Byte)
      /\ Len(request) \in Nat /\ Len(framed) \in Nat /\ Len(sent) \in Nat
  BY ReadingTyped
<1>3. CASE ~useWebSocket
  BY <1>1, <1>3 DEF Transport, Wire
<1>4. CASE useWebSocket
  <2>1. PICK a, j : a \in Nat /\ arrived = Len(request) + a /\ AtFrame(frames, framed, wsFrameBuffer, a, j, taken)
    BY <1>1, <1>4 DEF Transport
  <2>2. Len(Wire) = Len(request) + Len(framed)
    BY <1>2, <1>4, ConcatProperties DEF Wire
  <2>3. a = Len(framed)
    <3>1. Len(request) + a = Len(request) + Len(framed)
      BY <1>1, <2>1, <2>2
    <3>2. a \in Nat
      BY <2>1
    <3> QED
      BY <1>2, <3>1, <3>2, SMT
  <2>4. ~Complete(wsFrameBuffer)
    BY <1>1, <1>4 DEF Transport
  <2>5. wsFrameBuffer = <<>> /\ taken = CarriedIn(frames, Len(frames))
    BY <1>1, <1>2, <2>1, <2>3, <2>4, AllTaken
  <2>6. Carried = CarriedIn(frames, Len(frames))
    BY <1>1, CarriedIsLast DEF StreamTypes
  <2> QED
    BY <1>1, <1>4, <2>5, <2>6
<1> QED
  BY <1>3, <1>4

(* The parser is where the sender is. *)
LEMMA SettledParsed ==
    ASSUME StreamAssumption, StreamInv, Settled,
           NEW text, NEW ends, NEW n, NEW r, NEW p, NEW taken, Parsing(text, ends, n, r, p, taken)
    PROVE  r = p
<1>1. /\ StreamTypes /\ rawChunk = <<>>
  BY DEF StreamInv, Settled, BetweenPolls
<1>2. /\ n \in Nat /\ taken \in Nat /\ Len(sent) \in Nat /\ n <= taken /\ taken <= Len(sent)
      /\ sent \in Seq(Byte) /\ SenderTypes
      /\ Linked(text, ends, n, r, p) /\ PartOf(rawChunk, sent, n, taken) /\ Transport(taken)
  BY <1>1, ParsingTyped
<1>3. taken = Len(sent)
  BY <1>2, SettledTakes
<1>4. Len(rawChunk) = taken - n
  BY <1>2, BufferIs
<1>5. Len(rawChunk) = 0
  BY <1>1, EmptySeq
<1>6. n = Len(sent)
  BY <1>2, <1>3, <1>4, <1>5
<1> QED
  BY <1>2, <1>6, BehindTyped

(* Between two polls everything heard was told. *)
LEMMA AllIsTold ==
    ASSUME ReceiverTypes, incoming = Nothing, NEW k \in Kinds
    PROVE  Heard(k) = told[k]
<1>1. told[k] \in Seq(Message)
  BY HeardTyped
<1>2. incoming[k] = <<>>
  BY DEF Nothing
<1> QED
  BY <1>1, <1>2, ConcatEmptySeq DEF Heard

(* No line is missing, and what is left in the buffer is the line that is  *)
(* being typed.                                                            *)
LEMMA SettledLines ==
    ASSUME SenderTypes, ReceiverTypes, NEW text, NEW ends, NEW n, NEW p, Linked(text, ends, n, p, p),
           ReceiverLink(text, ends, p), \A i \in DOMAIN inputBuffer : inputBuffer[i] # LF
    PROVE  Heard("line") = messages["line"] /\ inputBuffer = typed
<1>1. PICK m : HeardLines(text, ends, p.chars, m)
  BY DEF ReceiverLink
<1>2. text \in Seq(Byte) /\ p.chars = Len(text) /\ Lines(text, ends, messages["line"], typed)
  BY LinkedTyped
<1>3. "line" \in Kinds
  BY KindsAre
<1>4. /\ Len(text) \in Nat /\ Marks(text, LF, ends, Len(messages["line"]))
      /\ messages["line"] \in Seq(Message) /\ Len(messages["line"]) \in Nat
      /\ \A j \in 0..Len(messages["line"]) : ends[j] \in 0..Len(text)
  BY <1>3, BehindTyped
<1> DEFINE N == Len(messages["line"])
           L == Len(text)
           e == ends[m]
<1>5. /\ m \in 0..N /\ Heard("line") = SubSeq(messages["line"], 1, m)
      /\ e <= L /\ PartOf(inputBuffer, text, e, L)
  BY <1>1, <1>2 DEF HeardLines, PartOf
<1>6. e \in 0..L
  BY <1>4, <1>5
<1>7. e \in Nat
  BY <1>4, <1>6
<1>8. DOMAIN inputBuffer = 1..(L - e) /\ \A i \in 1..(L - e) : inputBuffer[i] = text[e + i]
  BY <1>2, <1>4, <1>5, <1>7, BufferIs
<1>9. ASSUME NEW i \in 1..L, e < i
      PROVE  text[i] # LF
  <2>1. i \in Nat /\ L \in Nat
    BY <1>4
  <2> HIDE DEF e, L
  <2>2. i - e \in 1..(L - e) /\ e + (i - e) = i
    BY <1>7, <1>9, <2>1
  <2>3. inputBuffer[i - e] # LF
    BY <1>8, <2>2
  <2>4. inputBuffer[i - e] = text[e + (i - e)]
    BY <1>8, <2>2
  <2> QED
    BY <2>2, <2>3, <2>4
<1>10. m = N
  <2>1. \A i \in 1..Len(text) : ends[m] < i => text[i] # LF
    BY <1>9
  <2> QED
    BY <1>2, <1>4, <1>5, <2>1, NoMarkBehind
<1>11. SubSeq(messages["line"], 1, N) = messages["line"]
  BY <1>4, PrefixWhole
<1>12. typed = SubSeq(text, ends[N] + 1, L)
  BY <1>2 DEF Lines
<1>13. inputBuffer = SubSeq(text, e + 1, L)
  BY <1>5 DEF PartOf
<1> QED
  BY <1>5, <1>10, <1>11, <1>12, <1>13

(* No message is missing, and of the flags the newest value was told. *)
LEMMA SettledMessages ==
    ASSUME SenderTypes, ReceiverTypes, NEW text, NEW ends, NEW n, NEW p, Linked(text, ends, n, p, p),
           ReceiverLink(text, ends, p), NEW k \in Kinds \ {"line"}
    PROVE  /\ k \in Queued => Heard(k) = messages[k]
           /\ k \in Flagged /\ messages[k] # <<>> => Heard(k) # <<>> /\ Last(Heard(k)) = Last(messages[k])
<1>1. p.said[k] = Len(messages[k])
  BY LinkedTyped
<1>2. messages[k] \in Seq(Message) /\ Len(messages[k]) \in Nat
  BY BehindTyped
<1>3. ASSUME k \in Queued
      PROVE  Heard(k) = messages[k]
  <2>1. Heard(k) = SubSeq(messages[k], 1, p.said[k])
    BY <1>3 DEF ReceiverLink
  <2>2. SubSeq(messages[k], 1, Len(messages[k])) = messages[k]
    BY <1>2, PrefixWhole
  <2> QED
    BY <1>1, <2>1, <2>2
<1>4. ASSUME k \in Flagged, messages[k] # <<>>
      PROVE  Heard(k) # <<>> /\ Last(Heard(k)) = Last(messages[k])
  <2> DEFINE h == Heard(k)
             msgs == messages[k]
  <2>1. PICK at : Selects(at, h, p.said[k], msgs)
    BY <1>4 DEF ReceiverLink
  <2>2. h \in Seq(Message) /\ Len(h) \in Nat /\ msgs \in Seq(Message) /\ Len(msgs) \in Nat
    BY <1>2, HeardTyped
  <2>3. Len(msgs) > 0
    BY <1>4, <2>2, EmptySeq
  <2> HIDE DEF h, msgs
  <2>4. Selects(at, h, Len(msgs), msgs)
    BY <1>1, <2>1 DEF msgs
  <2>5. Len(h) > 0 /\ at[Len(h)] = Len(msgs)
    BY <2>3, <2>4 DEF Selects
  <2>6. Len(h) \in 1..Len(h)
    BY <2>2, <2>5
  <2>7. h[Len(h)] = msgs[at[Len(h)]]
    BY <2>4, <2>6 DEF Selects
  <2>8. h # <<>>
    BY <2>2, <2>5, EmptySeq
  <2>9. Last(h) = h[Len(h)] /\ Last(msgs) = msgs[Len(msgs)]
    BY DEF Last
  <2>10. Last(h) = Last(msgs)
    BY <2>5, <2>7, <2>9
  <2> QED
    BY <2>8, <2>10 DEF h, msgs
<1> QED
  BY <1>3, <1>4

(* The invariant says that the mudlib was told what was sent. *)
LEMMA InvReceivedAsSent ==
    ASSUME StreamAssumption, StreamInv
    PROVE  ReceivedAsSent
<1>1. PICK text, ends, n, r, p, taken : Parsing(text, ends, n, r, p, taken)
  BY DEF StreamInv
<1>2. StreamTypes
  BY DEF StreamInv
<1>3. /\ SenderTypes /\ ReceiverTypes /\ Linked(text, ends, n, r, p) /\ ReceiverLink(text, ends, r) /\ Transport(taken)
  BY <1>1, <1>2, ParsingTyped
<1>4. (\A k \in Queued : IsPrefix(told[k], messages[k])) /\ (\A k \in Flagged : Selected(k))
  BY <1>3, ToldAsSent
<1>5. ASSUME Settled
      PROVE  /\ \A k \in Queued : told[k] = messages[k]
             /\ \A k \in Flagged : messages[k] # <<>> => told[k] # <<>> /\ Last(told[k]) = Last(messages[k])
             /\ inputBuffer = typed /\ wsFrameBuffer = <<>>
             /\ telnetState = IF saying.kind = "none" THEN "Data" ELSE "Sb"
  <2>1. r = p
    BY <1>1, <1>5, SettledParsed
  <2>2. Linked(text, ends, n, p, p) /\ ReceiverLink(text, ends, p)
    BY <1>3, <2>1
  <2>3. incoming = Nothing /\ \A i \in DOMAIN inputBuffer : inputBuffer[i] # LF
    BY <1>5 DEF Settled, StreamInv, BetweenPolls
  <2>4. \A k \in Kinds : Heard(k) = told[k]
    BY <1>3, <2>3, AllIsTold
  <2>5. Heard("line") = messages["line"] /\ inputBuffer = typed
    BY <1>3, <2>2, <2>3, SettledLines
  <2>6. \A k \in Kinds \ {"line"} :
            /\ k \in Queued => Heard(k) = messages[k]
            /\ k \in Flagged /\ messages[k] # <<>> => Heard(k) # <<>> /\ Last(Heard(k)) = Last(messages[k])
    BY <1>3, <2>2, SettledMessages
  <2>7. ASSUME NEW k \in Queued
        PROVE  told[k] = messages[k]
    BY <2>4, <2>5, <2>6, KindsAre
  <2>8. ASSUME NEW k \in Flagged, messages[k] # <<>>
        PROVE  told[k] # <<>> /\ Last(told[k]) = Last(messages[k])
    <3>1. k \in Kinds /\ k # "line"
      BY KindsAre
    <3>2. Heard(k) = told[k]
      BY <2>4, <3>1
    <3> QED
      BY <2>6, <2>8, <3>1, <3>2
  <2>9. wsFrameBuffer = <<>>
    BY <1>3, <1>5, SettledTakes
  <2>10. telnetState = p.state
    BY <2>2 DEF ReceiverLink
  <2>11. (saying.kind = "none" => p.state = "Data") /\ (saying.kind # "none" => p.state = "Sb")
    BY <1>3, LinkedTyped
  <2> QED
    BY <2>5, <2>7, <2>8, <2>9, <2>10, <2>11
<1> QED
  BY <1>4, <1>5 DEF ReceivedAsSent

(* Every reachable state satisfies the invariant: the stream is parsed as   *)
(* it was written, whatever the reads and the frames cut it into.           *)
THEOREM StreamInvariant == StreamSpec => []StreamInv
<1>1. StreamInit => StreamInv
  BY StreamAssumption, StreamStarts
<1>2. StreamInv /\ [StreamNext]_streamVars => StreamInv'
  BY StreamAssumption, StreamKept
<1> QED
  BY <1>1, <1>2, PTL DEF StreamSpec

(* What the driver keeps of one connection has its type.  The parser's     *)
(* buffers never hold anything but bytes.                                  *)
THEOREM StreamTyped == StreamSpec => []StreamTypes
<1>1. StreamInv => StreamTypes
  BY DEF StreamInv
<1> QED
  BY <1>1, StreamInvariant, PTL

(* However the bytes are cut into reads and frames, the mudlib is told of  *)
(* what was sent, whole and in order, and when everything has arrived      *)
(* nothing of it is missing.                                               *)
THEOREM MudlibToldAsSent == StreamSpec => []ReceivedAsSent
<1>1. StreamInv => ReceivedAsSent
  BY StreamAssumption, InvReceivedAsSent
<1> QED
  BY <1>1, StreamInvariant, PTL
=============================================================================
