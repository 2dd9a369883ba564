--------------------------- MODULE TcpServerProofs ---------------------------
(***************************************************************************)
(* For any descriptors, clients, servers and files of other threads, on    *)
(* both pollers: what the poller reports on behalf of the kernel is alive, *)
(* and, if handlers do not destroy servers, who owns a descriptor and      *)
(* whether it is watched.                                                  *)
(***************************************************************************)
EXTENDS TcpServer, SequenceTheorems, TLAPS

-----------------------------------------------------------------------------
(* The inductive invariant, whatever handlers do. *)

\* A client waits once, and before it has a connection.
QueueInv ==
  /\ \A i \in 1 .. Len(waiting) : waiting[i] <= arrived /\ conn[waiting[i]] = "none"
  /\ \A i, j \in 1 .. Len(waiting) : waiting[i] = waiting[j] => i = j
  /\ \A c \in Clients : c > arrived => conn[c] = "none"
  /\ \A c \in Clients : conn[c] # "none" => sock[c] \in Fds

\* A descriptor that is a connection's or the acceptor's belongs to one that exists and
\* has that number.
OwnerInv ==
  \A fd \in Fds :
    /\ \A c \in Clients : owner[fd] = Conn(c) => c \in Live /\ sock[c] = fd
    /\ \A s \in Servers : owner[fd] = Listen(s) => s = made /\ Running /\ fd = listenFd

\* The kernel reports to the owner of a descriptor, and to a connection while the
\* server has it.
PollInv ==
  \A fd \in poller.interest :
    /\ poller.channels[fd] = owner[fd] /\ owner[fd] \in Channels
    /\ \A c \in Clients : owner[fd] = Conn(c) => c \in map

\* Nobody is in the batch before it has a descriptor, nor again once it is handled.
BatchInv ==
  /\ \A s \in Servers : Listen(s) \in batch => s <= made
  /\ \A c \in Clients : Conn(c) \in batch => conn[c] # "none"
  /\ accepting => made \in Servers /\ Listen(made) \notin batch

\* Past MaxFails, accept() fails only for a file that another thread opened meanwhile.
FailsInv ==
  /\ fails <= MaxFails + opened
  /\ Listen(made) \in batch \/ accepting =>
       fails < MaxFails + opened \/ (~Full /\ phase # "made")

IInv == TypeOK /\ QueueInv /\ OwnerInv /\ PollInv /\ BatchInv /\ FailsInv

-----------------------------------------------------------------------------
(* What holds in addition if handlers leave servers alone. *)

\* What poll() returned stays until it is handled.
AliveInv ==
  /\ \A c \in Clients : Conn(c) \in batch => c \in map
  /\ \A s \in Servers : Listen(s) \in batch => s = made /\ Running
  /\ accepting => Running

\* Epoller's tables agree, except for descriptors a server was destroyed with.
AgreeInv ==
  platform = "linux" /\ ~robbed =>
    \A fd \in Fds \ dropped : poller.channels[fd] # Free <=> fd \in poller.interest

QuietInv == AliveInv /\ OwnDescriptor /\ AgreeInv /\ OpenIsWatched

-----------------------------------------------------------------------------
(* Channels and the two tables. *)

LEMMA ChannelFacts ==
  /\ \A s \in Servers : Listen(s) \in Channels /\ Listen(s) # Other /\ Listen(s) # Free
  /\ \A c \in Clients : Conn(c) \in Channels /\ Conn(c) # Other /\ Conn(c) # Free
  /\ \A s, t \in Servers : Listen(s) = Listen(t) => s = t
  /\ \A c, d \in Clients : Conn(c) = Conn(d) => c = d
  /\ \A s \in Servers, c \in Clients : Listen(s) # Conn(c)
  /\ Other \notin Channels /\ Free \notin Channels /\ Other # Free
  /\ \A channel \in Channels : \/ \E s \in Servers : channel = Listen(s)
                               \/ \E c \in Clients : channel = Conn(c)
  BY DEF Channels, Listen, Conn, Other, Free

\* What a table has become may differ from what it was at one descriptor only.
SameElsewhere(p, q, fd) ==
  \A other \in Fds \ {fd} :
    /\ q.channels[other] = p.channels[other]
    /\ other \in q.interest <=> other \in p.interest

LEMMA UpdatedTables ==
  ASSUME platform \in {"linux", "mac"}, NEW p \in Epoll!Pollers, NEW fd \in Fds,
         NEW channel \in Channels, fd \notin p.interest, NEW q, q = Updated(p, fd, channel)
  PROVE  /\ q \in Epoll!Pollers /\ SameElsewhere(p, q, fd)
         /\ fd \in q.interest => q.channels[fd] = channel
         /\ platform = "mac" \/ p.channels[fd] = Free => fd \in q.interest
<1>1. /\ p = [channels |-> p.channels, interest |-> p.interest]
      /\ p.channels \in [Fds -> Channels \union {Free}] /\ p.interest \subseteq Fds
  BY DEF Epoll!Pollers
<1> DEFINE entered == [p.channels EXCEPT ![fd] = channel]
           added == p.interest \union {fd}
<1>2. /\ entered \in [Fds -> Channels \union {Free}] /\ added \subseteq Fds
      /\ entered[fd] = channel /\ fd \in added
      /\ \A other \in Fds \ {fd} : /\ entered[other] = p.channels[other]
                                   /\ other \in added <=> other \in p.interest
  BY <1>1
<1>3. q = p \/ q = [channels |-> entered, interest |-> added]
  BY DEF Updated, Epoll!Updated, Kqueue!Updated
<1>4. platform = "mac" \/ p.channels[fd] = Free => q = [channels |-> entered, interest |-> added]
  BY DEF Updated, Epoll!Updated, Epoll!Known, Kqueue!Updated
<1> HIDE DEF entered, added
<1>5. ASSUME q = [channels |-> entered, interest |-> added]
      PROVE  /\ q \in Epoll!Pollers /\ q.channels = entered /\ q.interest = added
  BY <1>2, <1>5 DEF Epoll!Pollers
<1>6. CASE q = p
  BY <1>4, <1>5, <1>6, <1>2 DEF SameElsewhere
<1>7. CASE q = [channels |-> entered, interest |-> added]
  BY <1>2, <1>5, <1>7 DEF SameElsewhere
<1> QED
  BY <1>3, <1>6, <1>7

LEMMA RemovedTables ==
  ASSUME platform \in {"linux", "mac"}, NEW p \in Epoll!Pollers, NEW fd \in Fds,
         NEW q, q = Removed(p, fd) \/ q = RemovedListening(p, fd)
  PROVE  /\ q \in Epoll!Pollers /\ SameElsewhere(p, q, fd)
         /\ q.interest \subseteq p.interest
         /\ q = Removed(p, fd) /\ fd \in q.interest => p.channels[fd] = Free
         /\ platform = "linux" /\ (p.channels[fd] # Free <=> fd \in p.interest) =>
              q.channels[fd] = Free /\ fd \notin q.interest
<1>1. /\ p = [channels |-> p.channels, interest |-> p.interest]
      /\ p.channels \in [Fds -> Channels \union {Free}] /\ p.interest \subseteq Fds
  BY DEF Epoll!Pollers
<1> DEFINE erased == [p.channels EXCEPT ![fd] = Free]
<1>2. /\ erased \in [Fds -> Channels \union {Free}] /\ erased[fd] = Free
      /\ \A other \in Fds \ {fd} : erased[other] = p.channels[other]
  BY <1>1
<1>3. \/ /\ q = p
         /\ p.channels[fd] = Free \/ (platform = "linux" /\ fd \notin p.interest)
      \/ q = [channels |-> erased, interest |-> p.interest \ {fd}]
      \/ /\ q = [channels |-> erased, interest |-> p.interest]
         /\ platform = "mac" /\ p.channels[fd] # Free /\ q # Removed(p, fd)
  BY <1>1 DEF Removed, RemovedListening, Epoll!Removed, Epoll!Known, Kqueue!Removed, Kqueue!Known
<1> HIDE DEF erased
<1>4. CASE q = p /\ (p.channels[fd] = Free \/ (platform = "linux" /\ fd \notin p.interest))
  BY <1>1, <1>4 DEF SameElsewhere
<1>5. CASE q = [channels |-> erased, interest |-> p.interest \ {fd}]
  <2>1. q \in Epoll!Pollers /\ q.channels = erased /\ q.interest = p.interest \ {fd}
    BY <1>1, <1>2, <1>5 DEF Epoll!Pollers
  <2> QED
    BY <1>2, <2>1 DEF SameElsewhere
<1>6. CASE /\ q = [channels |-> erased, interest |-> p.interest]
           /\ platform = "mac" /\ p.channels[fd] # Free /\ q # Removed(p, fd)
  <2>1. q \in Epoll!Pollers /\ q.channels = erased /\ q.interest = p.interest
    BY <1>1, <1>2, <1>6 DEF Epoll!Pollers
  <2> QED
    BY <1>2, <1>6, <2>1 DEF SameElsewhere
<1> QED
  BY <1>3, <1>4, <1>5, <1>6

LEMMA ClosedTables ==
  ASSUME NEW p \in Epoll!Pollers, NEW fds, NEW q, q = Epoll!Closed(p, fds)
  PROVE  /\ q \in Epoll!Pollers /\ q.channels = p.channels /\ q.interest = p.interest \ fds
<1>1. q = [channels |-> p.channels, interest |-> p.interest \ fds]
  BY DEF Epoll!Closed, Epoll!Pollers
<1> QED
  BY <1>1 DEF Epoll!Pollers

-----------------------------------------------------------------------------
(* What the operations leave of descriptors and tables. *)

LEMMA OwnedByNobody ==
  ASSUME PollInv, NEW fd \in Fds, owner[fd] = Free \/ owner[fd] = Other
  PROVE  fd \notin poller.interest
  BY ChannelFacts DEF PollInv

LEMMA PollerTyped ==
  ASSUME TypeOK
  PROVE  /\ platform \in {"linux", "mac"} /\ poller \in Epoll!Pollers
         /\ poller.interest \subseteq Fds /\ owner \in [Fds -> Channels \union {Other, Free}]
  BY ConstantsAssumption DEF TypeOK, Epoll!Pollers

\* A new descriptor and its channel.
Entered(fd, channel) ==
  /\ owner[fd] = Free /\ fd \notin poller.interest
  /\ owner' = [owner EXCEPT ![fd] = channel]
  /\ poller' \in Epoll!Pollers /\ SameElsewhere(poller, poller', fd)
  /\ fd \in poller'.interest => poller'.channels[fd] = channel
  /\ platform = "mac" \/ poller.channels[fd] = Free => fd \in poller'.interest

LEMMA NewDescriptor ==
  ASSUME TypeOK, PollInv, NEW fd \in Fds, Lowest(fd), NEW channel \in Channels,
         owner' = [owner EXCEPT ![fd] = channel], poller' = Updated(poller, fd, channel)
  PROVE  Entered(fd, channel)
<1>1. /\ owner[fd] = Free /\ fd \notin poller.interest
      /\ platform \in {"linux", "mac"} /\ poller \in Epoll!Pollers
  BY OwnedByNobody, PollerTyped DEF Lowest
<1> QED
  BY <1>1, UpdatedTables DEF Entered

LEMMA MadeServer ==
  ASSUME TypeOK, PollInv, MakeServer
  PROVE  /\ made + 1 \in Servers
         /\ \E fd \in Fds : listenFd' = fd /\ Entered(fd, Listen(made + 1))
<1>1. made + 1 \in Servers
  BY ConstantsAssumption DEF MakeServer, TypeOK, Servers
<1>2. Listen(made + 1) \in Channels
  BY <1>1, ChannelFacts
<1>3. PICK fd \in Fds : /\ Lowest(fd) /\ listenFd' = fd
                        /\ owner' = [owner EXCEPT ![fd] = Listen(made + 1)]
                        /\ poller' = Updated(poller, fd, Listen(made + 1))
  BY DEF MakeServer
<1>4. Entered(fd, Listen(made + 1))
  BY <1>2, <1>3, NewDescriptor
<1> QED
  BY <1>1, <1>3, <1>4

\* The client whose turn it is, and its connection.
LEMMA Accepted ==
  ASSUME TypeOK, PollInv, QueueInv, Accept
  PROVE  \E c \in Clients, fd \in Fds :
           /\ c = waiting[1] /\ Len(waiting) > 0 /\ conn[c] = "none" /\ c \notin Live
           /\ Entered(fd, Conn(c))
           /\ conn' = [conn EXCEPT ![c] = "open"] /\ sock' = [sock EXCEPT ![c] = fd]
           /\ map' = map \union {c} /\ held' \in {held, held \union {c}}
<1> DEFINE c == Head(waiting)
<1>1. waiting \in Seq(Clients) /\ waiting # <<>> /\ Len(waiting) \in Nat /\ Len(waiting) > 0
  BY LenProperties, EmptySeq DEF Accept, TypeOK
<1>2. c \in Clients /\ c = waiting[1] /\ 1 \in 1 .. Len(waiting)
  BY <1>1, HeadTailProperties
<1>3. conn[c] = "none"
  BY <1>2 DEF QueueInv
<1>4. c \notin Live
  BY <1>3 DEF Live
<1>5. PICK fd \in Fds : /\ Lowest(fd) /\ owner' = [owner EXCEPT ![fd] = Conn(c)]
                        /\ NewConnection(c, fd)
  BY DEF Accept
<1>6. Conn(c) \in Channels
  BY <1>2, ChannelFacts
<1>7. Entered(fd, Conn(c))
  BY <1>5, <1>6, NewDescriptor DEF NewConnection
<1> QED
  BY <1>1, <1>2, <1>3, <1>4, <1>5, <1>7 DEF NewConnection

\* handleClose() leaves no channel that the kernel knows.
LEMMA ConnectionClosed ==
  ASSUME TypeOK, PollInv, QueueInv, NEW c \in Clients, conn[c] # "none", HandleClose(c)
  PROVE  /\ sock[c] \in Fds
         /\ map' = map \ {c}
         /\ conn' = [conn EXCEPT ![c] = IF c \in held THEN "closed" ELSE "dead"]
         /\ owner' = IF c \in held THEN owner ELSE [owner EXCEPT ![sock[c]] = Free]
         /\ poller' \in Epoll!Pollers /\ SameElsewhere(poller, poller', sock[c])
         /\ sock[c] \notin poller'.interest
         /\ platform = "linux" /\ (poller.channels[sock[c]] # Free <=> sock[c] \in poller.interest)
              => poller'.channels[sock[c]] = Free
<1> DEFINE fd == sock[c]
           q == Removed(poller, fd)
<1>1. /\ fd \in Fds
      /\ platform \in {"linux", "mac"} /\ poller \in Epoll!Pollers
  BY PollerTyped DEF QueueInv
<1> HIDE DEF fd
<1>2. /\ q \in Epoll!Pollers /\ SameElsewhere(poller, q, fd) /\ q.interest \subseteq poller.interest
      /\ fd \in q.interest => poller.channels[fd] = Free
      /\ platform = "linux" /\ (poller.channels[fd] # Free <=> fd \in poller.interest) =>
           q.channels[fd] = Free
  BY <1>1, RemovedTables
<1> HIDE DEF q
<1>3. fd \notin q.interest
  BY <1>2, ChannelFacts DEF PollInv
<1>4. /\ map' = map \ {c}
      /\ conn' = [conn EXCEPT ![c] = IF c \in held THEN "closed" ELSE "dead"]
      /\ owner' = IF c \in held THEN owner ELSE [owner EXCEPT ![fd] = Free]
      /\ poller' = q \/ poller' = Epoll!Closed(q, {fd})
  BY DEF HandleClose, Destroyed, fd, q
<1>5. /\ poller' \in Epoll!Pollers /\ poller'.channels = q.channels
      /\ poller'.interest = q.interest
  <2>1. CASE poller' = q
    BY <1>2, <2>1
  <2>2. CASE poller' = Epoll!Closed(q, {fd})
    <3>1. /\ poller' \in Epoll!Pollers /\ poller'.channels = q.channels
          /\ poller'.interest = q.interest \ {fd}
      BY <1>2, <2>2, ClosedTables
    <3>2. q.interest \ {fd} = q.interest
      BY <1>3
    <3> QED
      BY <3>1, <3>2
  <2> QED
    BY <1>4, <2>1, <2>2
<1>6. SameElsewhere(poller, poller', fd) /\ fd \notin poller'.interest
  BY <1>2, <1>3, <1>5 DEF SameElsewhere
<1> QED
  BY <1>1, <1>2, <1>4, <1>5, <1>6 DEF fd

\* The last reference to a connection that is closed.
LEMMA Released ==
  ASSUME TypeOK, QueueInv, NEW c \in Clients, Release(c), c \notin map
  PROVE  /\ sock[c] \in Fds /\ c \in Live
         /\ held' = held \ {c} /\ conn' = [conn EXCEPT ![c] = "dead"]
         /\ owner' = [owner EXCEPT ![sock[c]] = Free]
         /\ poller' \in Epoll!Pollers /\ poller'.channels = poller.channels
         /\ poller'.interest = poller.interest \ {sock[c]}
<1>1. c \in Live
  BY DEF Release, TypeOK
<1>2. sock[c] \in Fds
  BY <1>1 DEF QueueInv, Live
<1>3. /\ held' = held \ {c} /\ conn' = [conn EXCEPT ![c] = "dead"]
      /\ owner' = [owner EXCEPT ![sock[c]] = Free]
      /\ poller' = Epoll!Closed(poller, {sock[c]})
  BY DEF Release, Destroyed
<1> QED
  BY <1>1, <1>2, <1>3, PollerTyped, ClosedTables

\* A server that is destroyed takes its descriptor and its connections' along.
Ended == {sock[c] : c \in map}

LEMMA ServerDestroyed ==
  ASSUME TypeOK, DestroyServer
  PROVE  /\ listenFd \in Fds /\ phase' = "closing"
         /\ owner' = [fd \in Fds |-> IF fd \in Ended \union {listenFd} THEN Free ELSE owner[fd]]
         /\ conn' = [c \in Clients |-> IF c \in map THEN "dead" ELSE conn[c]]
         /\ map' = {} /\ dropped' = dropped \union Ended
         /\ poller' \in Epoll!Pollers
         /\ listenFd \notin poller'.interest
         /\ \A fd \in Fds \ {listenFd} :
              /\ poller'.channels[fd] = poller.channels[fd]
              /\ fd \in poller'.interest <=> fd \in poller.interest \ Ended
         /\ /\ platform = "linux" /\ listenFd \notin Ended
            /\ poller.channels[listenFd] # Free <=> listenFd \in poller.interest
            => poller'.channels[listenFd] = Free
<1> DEFINE p == Epoll!Closed(poller, Ended)
           q == RemovedListening(p, listenFd)
<1>1. /\ phase # "none" /\ listenFd \in Fds
      /\ platform \in {"linux", "mac"} /\ poller \in Epoll!Pollers
  BY PollerTyped DEF DestroyServer, TypeOK
<1>2. p \in Epoll!Pollers /\ p.channels = poller.channels /\ p.interest = poller.interest \ Ended
  BY <1>1, ClosedTables
<1> HIDE DEF p
<1>3. /\ q \in Epoll!Pollers /\ SameElsewhere(p, q, listenFd)
      /\ platform = "linux" /\ (p.channels[listenFd] # Free <=> listenFd \in p.interest) =>
           q.channels[listenFd] = Free
  BY <1>1, <1>2, RemovedTables
<1> HIDE DEF q
<1>4. poller' = Epoll!Closed(q, {listenFd})
  BY DEF DestroyServer, Ended, p, q
<1>5. /\ poller' \in Epoll!Pollers /\ poller'.channels = q.channels
      /\ poller'.interest = q.interest \ {listenFd}
  BY <1>3, <1>4, ClosedTables
<1>6. \A fd \in Fds \ {listenFd} :
        /\ poller'.channels[fd] = poller.channels[fd]
        /\ fd \in poller'.interest <=> fd \in poller.interest \ Ended
  BY <1>2, <1>3, <1>5 DEF SameElsewhere
<1>7. /\ platform = "linux" /\ listenFd \notin Ended
      /\ poller.channels[listenFd] # Free <=> listenFd \in poller.interest
      => poller'.channels[listenFd] = Free
  BY <1>2, <1>3, <1>5
<1>8. /\ owner' = [fd \in Fds |-> IF fd \in Ended \union {listenFd} THEN Free ELSE owner[fd]]
      /\ conn' = [c \in Clients |-> IF c \in map THEN "dead" ELSE conn[c]]
      /\ map' = {} /\ dropped' = dropped \union Ended /\ phase' = "closing"
  BY DEF DestroyServer, Ended
<1> QED
  BY <1>1, <1>5, <1>6, <1>7, <1>8

\* close() of a descriptor, whoever has it.
LEMMA DescriptorClosed ==
  ASSUME TypeOK, NEW fd, owner' = [owner EXCEPT ![fd] = Free],
         poller' = Epoll!Closed(poller, {fd})
  PROVE  /\ owner' \in [Fds -> Channels \union {Other, Free}]
         /\ poller' \in Epoll!Pollers /\ poller'.channels = poller.channels
         /\ poller'.interest = poller.interest \ {fd}
         /\ \A other \in Fds \ {fd} : owner'[other] = owner[other]
         /\ fd \in Fds => owner'[fd] = Free
  BY PollerTyped, ClosedTables

\* What poll() returns is the channel of a descriptor the kernel knows.
LEMMA Polled ==
  ASSUME TypeOK, PollInv, Poll
  PROVE  \A channel \in batch' :
           channel \in Channels /\ \E fd \in poller.interest \intersect Ready : channel = owner[fd]
<1>1. batch' = {poller.channels[fd] : fd \in {f \in poller.interest : Epoll!Known(poller, f)}
                                             \intersect Ready}
  BY DEF Poll, Epoll!Active
<1> QED
  BY <1>1 DEF PollInv

-----------------------------------------------------------------------------
(* accept() that fails. *)

LEMMA FailsStep == IInv /\ [Next]_vars => FailsInv'
<1> SUFFICES ASSUME IInv, [Next]_vars PROVE FailsInv'
  OBVIOUS
<1>0. /\ TypeOK /\ PollInv /\ BatchInv /\ FailsInv /\ QueueInv
      /\ fails \in Nat /\ MaxFails \in Nat /\ opened \in Nat /\ MaxOpened \in Nat
  BY ConstantsAssumption DEF IInv, TypeOK
<1> DEFINE Pending == Listen(made) \in batch \/ accepting
<1>1. CASE ~Pending' /\ UNCHANGED <<fails, opened>>
  BY <1>0, <1>1 DEF FailsInv
<1>2. CASE /\ Pending' => Pending
           /\ UNCHANGED <<fails, opened>>
           /\ Full' => Full
           /\ phase' = "made" => phase = "made"
  <2>1. fails' = fails /\ opened' = opened
    BY <1>2
  <2>2. Pending => fails < MaxFails + opened \/ (~Full /\ phase # "made")
    BY <1>0 DEF FailsInv
  <2>3. Pending' => fails < MaxFails + opened \/ (~Full' /\ phase' # "made")
    BY <1>2, <2>2
  <2>4. fails' <= MaxFails + opened'
    BY <1>0, <2>1 DEF FailsInv
  <2> QED
    BY <2>1, <2>3, <2>4 DEF FailsInv
<1>3. CASE MakeServer
  <2>1. made' = made + 1 /\ made + 1 \in Servers /\ ~accepting' /\ batch' = batch
        /\ UNCHANGED <<fails, opened>>
    BY <1>0, <1>3, MadeServer DEF MakeServer, UserCode, LoopFree, loopVars, otherVars
  <2>2. made \in Nat
    BY <1>0, ConstantsAssumption DEF TypeOK
  <2>3. Listen(made + 1) \notin batch
    BY <1>0, <2>1, <2>2 DEF BatchInv
  <2> QED
    BY <1>1, <2>1, <2>3
<1>4. CASE Start
  BY <1>0, <1>2, <1>4 DEF Start, loopVars, otherVars, Full
<1>5. CASE DestroyServer
  <2>1. owner' = [fd \in Fds |-> IF fd \in Ended \union {listenFd} THEN Free ELSE owner[fd]]
    BY <1>0, <1>5, ServerDestroyed
  <2>2. Full' => Full
    BY <2>1 DEF Full
  <2> QED
    BY <1>2, <1>5, <2>2 DEF DestroyServer, loopVars, otherVars
<1>6. CASE CloseAgain
  <2>1. Full' => Full
    BY <1>0, <1>6, PollerTyped DEF CloseAgain, Full
  <2> QED
    BY <1>2, <1>6, <2>1 DEF CloseAgain, loopVars, otherVars
<1>7. CASE Poll
  <2>1. ~accepting' /\ UNCHANGED <<fails, opened, phase, owner, made>>
    BY <1>7 DEF Poll, LoopFree, serverVars, otherVars
  <2>2. ASSUME Listen(made) \in batch'
        PROVE  fails < MaxFails \/ (phase = "listening" /\ ~Full)
    <3>1. PICK fd \in Ready : Listen(made) = owner[fd]
      BY <1>0, <1>7, <2>2, Polled
    <3>2. Listen(made) \in Channels
      BY <1>0, <1>7, <2>2, Polled
    <3>3. made \in Servers
      BY <3>2 DEF Channels, Listen, Conn, Servers
    <3>4. \A c \in fin : owner[fd] # Conn(c)
      BY <1>0, <3>1, <3>3, ChannelFacts, ConstantsAssumption DEF TypeOK, Clients
    <3> QED
      BY <3>1, <3>4 DEF Ready
  <2>3. Full' = Full
    BY <2>1 DEF Full
  <2>4. CASE Listen(made) \in batch'
    BY <1>0, <2>1, <2>2, <2>3, <2>4 DEF FailsInv
  <2>5. CASE Listen(made) \notin batch'
    BY <1>1, <2>1, <2>5
  <2> QED
    BY <2>4, <2>5
<1>8. CASE HandleConn
  BY <1>0, <1>2, <1>8 DEF HandleConn, serverVars, otherVars, Full
<1>9. CASE Accept
  BY <1>0, <1>1, <1>9 DEF Accept, BatchInv, serverVars, otherVars
<1>10. CASE AcceptFails
  <2>1. ~Pending' /\ fails' = fails + 1 /\ opened' = opened
    BY <1>0, <1>10 DEF AcceptFails, BatchInv, serverVars, otherVars
  <2>2. fails < MaxFails + opened
    BY <1>0, <1>10 DEF AcceptFails, FailsInv
  <2> QED
    BY <1>0, <2>1, <2>2 DEF FailsInv
<1>11. ASSUME NEW c \in Clients, HandleRead(c) PROVE FailsInv'
  <2>1. conn[c] # "none" /\ HandleClose(c)
    BY <1>0, <1>11 DEF HandleRead, BatchInv
  <2>2. owner' = IF c \in held THEN owner ELSE [owner EXCEPT ![sock[c]] = Free]
    BY <1>0, <2>1, ConnectionClosed
  <2>3. Full' => Full
    BY <1>0, <2>2, PollerTyped DEF Full
  <2> QED
    BY <1>2, <1>11, <2>3 DEF HandleRead, serverVars, otherVars
<1>12. CASE Connect \/ \E c \in Clients : Close(c)
  BY <1>0, <1>2, <1>12 DEF Connect, Close, serverVars, loopVars, otherVars, Full
<1>13. ASSUME NEW fd \in Fds, OtherOpens(fd) PROVE FailsInv'
  BY <1>0, <1>13 DEF OtherOpens, FailsInv, serverVars, loopVars
<1>14. ASSUME NEW fd \in Fds, OtherCloses(fd) PROVE FailsInv'
  <2>1. Full' => Full
    BY <1>0, <1>14, PollerTyped DEF OtherCloses, Full
  <2> QED
    BY <1>2, <1>14, <2>1 DEF OtherCloses, serverVars, loopVars
<1>15. ASSUME NEW c \in Clients, Release(c) PROVE FailsInv'
  <2>1. owner' = owner \/ owner' = [owner EXCEPT ![sock[c]] = Free]
    BY <1>15 DEF Release, Destroyed
  <2>2. Full' => Full
    BY <1>0, <2>1, PollerTyped DEF Full
  <2> QED
    BY <1>2, <1>15, <2>2 DEF Release, serverVars, loopVars, otherVars
<1>16. CASE UNCHANGED vars
  BY <1>2, <1>16 DEF vars, serverVars, loopVars, otherVars, Full
<1> QED
  BY <1>3, <1>4, <1>5, <1>6, <1>7, <1>8, <1>9, <1>10, <1>11, <1>12, <1>13, <1>14, <1>15, <1>16
  DEF Next, ServerStep, LoopStep, ClientStep, OtherStep

-----------------------------------------------------------------------------
(* Types. *)

LEMMA TypeStep == IInv /\ [Next]_vars => TypeOK'
<1> SUFFICES ASSUME IInv, [Next]_vars PROVE TypeOK'
  OBVIOUS
<1>0. TypeOK /\ PollInv /\ BatchInv /\ FailsInv /\ QueueInv
  BY DEF IInv
<1>16. MaxServers \in Nat /\ MaxClients \in Nat /\ MaxOpened \in Nat /\ MaxFails \in Nat
      /\ NoFd \notin Fds
  BY ConstantsAssumption DEF NoFd
<1>1. CASE MakeServer
  <2>1. /\ made + 1 \in Servers
        /\ \E fd \in Fds : listenFd' = fd /\ Entered(fd, Listen(made + 1))
    BY <1>0, <1>1, MadeServer
  <2>2. PICK fd \in Fds : listenFd' = fd /\ Entered(fd, Listen(made + 1))
    BY <2>1
  <2>3. owner' \in [Fds -> Channels \union {Other, Free}] /\ poller' \in Epoll!Pollers
    BY <1>0, <2>1, <2>2, ChannelFacts DEF Entered, TypeOK
  <2>4. made' \in 0 .. MaxServers /\ phase' = "made" /\ listenFd' \in Fds
    BY <1>16, <1>1, <2>1, <2>2 DEF MakeServer, Servers
  <2> QED
    BY <1>0, <1>16, <1>1, <2>3, <2>4
    DEF MakeServer, TypeOK, Live, clientVars, connVars, mapVars, loopVars, otherVars, historyVars
<1>2. CASE Start
  BY <1>0, <1>2 DEF Start, TypeOK, Live, clientVars, connVars, mapVars, loopVars, otherVars,
                    historyVars
<1>3. CASE DestroyServer
  <2>1. /\ owner' = [fd \in Fds |-> IF fd \in Ended \union {listenFd} THEN Free ELSE owner[fd]]
        /\ conn' = [c \in Clients |-> IF c \in map THEN "dead" ELSE conn[c]]
        /\ map' = {} /\ dropped' = dropped \union Ended /\ poller' \in Epoll!Pollers
        /\ phase' = "closing"
    BY <1>0, <1>3, ServerDestroyed
  <2>2. owner' \in [Fds -> Channels \union {Other, Free}]
    BY <1>0, <2>1 DEF TypeOK
  <2>3. conn' \in [Clients -> {"none", "open", "closed", "dead"}]
    BY <1>0, <2>1 DEF TypeOK
  <2>4. held' = held /\ map \intersect held = {} /\ ghosts' = 0 /\ waiting' = <<>>
    BY <1>3 DEF DestroyServer
  <2>5. held' \subseteq Live'
    BY <1>0, <2>1, <2>4 DEF TypeOK, Live
  <2>6. Ended \subseteq Fds
    BY <1>0 DEF TypeOK, Ended, Live, QueueInv
  <2>7. dropped' \subseteq Fds
    BY <1>0, <2>1, <2>6 DEF TypeOK
  <2>8. listenFd' = listenFd /\ phase # "none" /\ 0 \in Nat /\ <<>> \in Seq(Clients)
    BY <1>3, EmptySeq DEF DestroyServer
  <2> QED
    BY <1>0, <1>3, <2>1, <2>2, <2>3, <2>4, <2>5, <2>7, <2>8
    DEF DestroyServer, TypeOK, clientVars, loopVars, otherVars
<1>4. CASE CloseAgain
  <2>1. owner' \in [Fds -> Channels \union {Other, Free}] /\ poller' \in Epoll!Pollers
    BY <1>0, <1>4, DescriptorClosed DEF CloseAgain
  <2>2. robbed' \in BOOLEAN
    BY <1>0, <1>4 DEF CloseAgain, TypeOK
  <2> QED
    BY <1>0, <1>4, <2>1, <2>2
    DEF CloseAgain, TypeOK, Live, clientVars, connVars, mapVars, loopVars, otherVars
<1>5. CASE Poll
  <2>1. batch' \subseteq Channels
    BY <1>0, <1>5, Polled
  <2> QED
    BY <1>0, <1>5, <2>1
    DEF Poll, TypeOK, Live, serverVars, clientVars, connVars, mapVars, otherVars, historyVars
<1>6. CASE HandleConn
  BY <1>0, <1>6
  DEF HandleConn, TypeOK, Live, serverVars, clientVars, connVars, mapVars, otherVars, historyVars
<1>7. CASE Accept
  <2>1. PICK c \in Clients, fd \in Fds :
           /\ Entered(fd, Conn(c))
           /\ conn' = [conn EXCEPT ![c] = "open"] /\ sock' = [sock EXCEPT ![c] = fd]
           /\ map' = map \union {c} /\ held' \in {held, held \union {c}}
    BY <1>0, <1>7, Accepted
  <2>2. owner' \in [Fds -> Channels \union {Other, Free}] /\ poller' \in Epoll!Pollers
    BY <1>0, <2>1, ChannelFacts DEF Entered, TypeOK
  <2>3. /\ conn' \in [Clients -> {"none", "open", "closed", "dead"}]
        /\ sock' \in [Clients -> Fds \union {NoFd}]
    BY <1>0, <2>1 DEF TypeOK
  <2>4. map' \subseteq Live' /\ held' \subseteq Live'
    BY <1>0, <2>1, <2>3 DEF TypeOK, Live
  <2>5. waiting' \in Seq(Clients)
    BY <1>0, <1>7, HeadTailProperties DEF Accept, TypeOK
  <2>6. ghosts' = ghosts
    BY <1>7 DEF Accept, NewConnection
  <2> QED
    BY <1>0, <1>7, <2>2, <2>3, <2>4, <2>5, <2>6
    DEF Accept, TypeOK, serverVars, clientVars, otherVars, historyVars
<1>8. CASE AcceptFails
  <2>1. fails < MaxFails + opened /\ fails' = fails + 1 /\ ghosts' = ghosts + 1
    BY <1>0, <1>8 DEF AcceptFails, FailsInv
  <2>2. fails' \in 0 .. MaxFails + MaxOpened /\ ghosts' \in Nat
    BY <1>0, <1>16, <2>1 DEF TypeOK
  <2> QED
    BY <1>0, <1>8, <2>2
    DEF AcceptFails, TypeOK, Live, serverVars, clientVars, connVars, otherVars, historyVars
<1>9. ASSUME NEW c \in Clients, HandleRead(c) PROVE TypeOK'
  <2>1. conn[c] # "none" /\ HandleClose(c)
    BY <1>0, <1>9 DEF HandleRead, BatchInv
  <2>2. /\ sock[c] \in Fds /\ map' = map \ {c}
        /\ conn' = [conn EXCEPT ![c] = IF c \in held THEN "closed" ELSE "dead"]
        /\ owner' = IF c \in held THEN owner ELSE [owner EXCEPT ![sock[c]] = Free]
        /\ poller' \in Epoll!Pollers
    BY <1>0, <2>1, ConnectionClosed
  <2>3. owner' \in [Fds -> Channels \union {Other, Free}]
    BY <1>0, <2>2 DEF TypeOK
  <2>4. conn' \in [Clients -> {"none", "open", "closed", "dead"}]
    BY <1>0, <2>2 DEF TypeOK
  <2>5. map' \subseteq Live' /\ held \subseteq Live'
    BY <1>0, <2>2, <2>4 DEF TypeOK, Live
  <2> QED
    BY <1>0, <1>9, <2>2, <2>3, <2>4, <2>5
    DEF HandleRead, TypeOK, serverVars, clientVars, otherVars, historyVars
<1>10. CASE Connect
  <2>1. arrived + 1 \in Clients /\ arrived' = arrived + 1 /\ fin' = fin
    BY <1>0, <1>16, <1>10 DEF Connect, TypeOK, Clients
  <2>2. waiting' \in Seq(Clients)
    BY <1>0, <1>10, <2>1, AppendProperties DEF Connect, TypeOK
  <2>3. arrived' \in 0 .. MaxClients /\ fin' \subseteq 1 .. arrived'
    BY <1>0, <1>16, <2>1 DEF Clients, TypeOK
  <2> QED
    BY <1>0, <1>10, <2>2, <2>3
    DEF Connect, TypeOK, Live, serverVars, connVars, mapVars, loopVars, otherVars, historyVars
<1>11. ASSUME NEW c \in Clients, Close(c) PROVE TypeOK'
  <2>1. c \in 1 .. arrived
    BY <1>0, <1>16, <1>11 DEF Close, TypeOK, Clients
  <2> QED
    BY <1>0, <1>11, <2>1
    DEF Close, TypeOK, Live, serverVars, connVars, mapVars, loopVars, otherVars, historyVars
<1>12. ASSUME NEW fd \in Fds, OtherOpens(fd) PROVE TypeOK'
  <2>1. owner' \in [Fds -> Channels \union {Other, Free}] /\ opened' \in 0 .. MaxOpened
        /\ others' \subseteq Fds
    BY <1>0, <1>16, <1>12 DEF OtherOpens, TypeOK
  <2> QED
    BY <1>0, <1>12, <2>1
    DEF OtherOpens, TypeOK, Live, serverVars, clientVars, connVars, mapVars, loopVars, historyVars
<1>13. ASSUME NEW fd \in Fds, OtherCloses(fd) PROVE TypeOK'
  <2>1. owner' \in [Fds -> Channels \union {Other, Free}] /\ poller' \in Epoll!Pollers
    BY <1>0, <1>13, DescriptorClosed DEF OtherCloses
  <2> QED
    BY <1>0, <1>13, <2>1
    DEF OtherCloses, TypeOK, Live, serverVars, clientVars, connVars, mapVars, loopVars, historyVars
<1>14. ASSUME NEW c \in Clients, Release(c) PROVE TypeOK'
  <2>1. CASE c \in map
    BY <1>0, <1>14, <2>1
    DEF Release, TypeOK, Live, serverVars, clientVars, mapVars, loopVars, otherVars, historyVars
  <2>2. CASE c \notin map
    <3>1. /\ held' = held \ {c} /\ conn' = [conn EXCEPT ![c] = "dead"]
          /\ owner' = [owner EXCEPT ![sock[c]] = Free]
          /\ poller' \in Epoll!Pollers /\ sock[c] \in Fds
      BY <1>0, <1>14, <2>2, Released
    <3>2. /\ owner' \in [Fds -> Channels \union {Other, Free}]
          /\ conn' \in [Clients -> {"none", "open", "closed", "dead"}]
      BY <1>0, <3>1 DEF TypeOK
    <3>3. map \subseteq Live' /\ held' \subseteq Live'
      BY <1>0, <2>2, <3>1, <3>2 DEF TypeOK, Live
    <3> QED
      BY <1>0, <1>14, <3>1, <3>2, <3>3
      DEF Release, TypeOK, serverVars, clientVars, mapVars, loopVars, otherVars, historyVars
  <2> QED
    BY <2>1, <2>2
<1>15. CASE UNCHANGED vars
  BY <1>0, <1>15 DEF vars, TypeOK, Live, serverVars, clientVars, connVars, mapVars, loopVars,
                     otherVars, historyVars
<1> QED
  BY <1>1, <1>2, <1>3, <1>4, <1>5, <1>6, <1>7, <1>8, <1>9, <1>10, <1>11, <1>12, <1>13, <1>14, <1>15
  DEF Next, ServerStep, LoopStep, ClientStep, OtherStep

-----------------------------------------------------------------------------
(* Clients that wait, owners, and what the kernel knows. *)

LEMMA QueueStep == IInv /\ [Next]_vars => QueueInv'
<1> SUFFICES ASSUME IInv, [Next]_vars PROVE QueueInv'
  OBVIOUS
<1>0. TypeOK /\ PollInv /\ BatchInv /\ QueueInv /\ waiting \in Seq(Clients) /\ Len(waiting) \in Nat
  BY LenProperties DEF IInv, TypeOK
<1>1. CASE UNCHANGED <<waiting, arrived, conn, sock>>
  BY <1>0, <1>1 DEF QueueInv
<1>2. ASSUME NEW c \in Clients, conn[c] # "none", UNCHANGED <<waiting, arrived, sock>>,
             conn' = [conn EXCEPT ![c] = "closed"] \/ conn' = [conn EXCEPT ![c] = "dead"]
      PROVE  QueueInv'
  <2>1. \A d \in Clients : conn'[d] = "none" <=> conn[d] = "none"
    BY <1>0, <1>2 DEF TypeOK
  <2>2. \A i \in 1 .. Len(waiting) : waiting[i] \in Clients
    BY <1>0, ElementOfSeq
  <2> QED
    BY <1>0, <1>2, <2>1, <2>2 DEF QueueInv
<1>3. CASE MakeServer \/ Start \/ CloseAgain \/ Poll \/ HandleConn \/ AcceptFails
  BY <1>1, <1>3 DEF MakeServer, Start, CloseAgain, Poll, HandleConn, AcceptFails, clientVars,
                    connVars
<1>4. CASE DestroyServer
  <2>1. waiting' = <<>> /\ Len(<<>>) = 0 /\ arrived' = arrived /\ sock' = sock
        /\ conn' = [c \in Clients |-> IF c \in map THEN "dead" ELSE conn[c]]
    BY <1>4, EmptySeq DEF DestroyServer, clientVars
  <2>2. \A c \in Clients : conn'[c] = "none" <=> conn[c] = "none"
    BY <1>0, <2>1 DEF TypeOK, Live
  <2> QED
    BY <1>0, <2>1, <2>2 DEF QueueInv
<1>5. CASE Accept
  <2>1. PICK c \in Clients, fd \in Fds :
          /\ c = waiting[1] /\ Len(waiting) > 0
          /\ conn' = [conn EXCEPT ![c] = "open"] /\ sock' = [sock EXCEPT ![c] = fd]
    BY <1>0, <1>5, Accepted
  <2>2. waiting' = Tail(waiting) /\ arrived' = arrived /\ waiting # <<>>
    BY <1>5 DEF Accept, clientVars
  <2>3. /\ Len(waiting') = Len(waiting) - 1
        /\ \A i \in 1 .. Len(waiting') : /\ waiting'[i] = waiting[i + 1]
                                         /\ i + 1 \in 1 .. Len(waiting) /\ i + 1 # 1
    BY <1>0, <2>2, HeadTailProperties
  <2>4. \A i \in 1 .. Len(waiting) : waiting[i] \in Clients
    BY <1>0, ElementOfSeq
  <2>5. \A d \in Clients \ {c} : conn'[d] = conn[d] /\ sock'[d] = sock[d]
    BY <1>0, <2>1 DEF TypeOK
  <2>6. 1 \in 1 .. Len(waiting) /\ c <= arrived
    BY <1>0, <2>1 DEF QueueInv
  <2>7. \A i \in 1 .. Len(waiting') : waiting'[i] # c
    BY <1>0, <2>1, <2>3, <2>6 DEF QueueInv
  <2>8. \A i \in 1 .. Len(waiting') : waiting'[i] <= arrived' /\ conn'[waiting'[i]] = "none"
    BY <1>0, <2>2, <2>3, <2>4, <2>5, <2>7 DEF QueueInv
  <2>9. ASSUME NEW i \in 1 .. Len(waiting'), NEW j \in 1 .. Len(waiting'), waiting'[i] = waiting'[j]
        PROVE  i = j
    <3>1. i + 1 = j + 1
      BY <1>0, <2>3, <2>9 DEF QueueInv
    <3> QED
      BY <3>1
  <2>10. c \in Nat /\ arrived \in Nat /\ ~(c > arrived)
    BY <1>0, <2>6, ConstantsAssumption DEF TypeOK, Clients
  <2>11. \A d \in Clients : d > arrived' => conn'[d] = "none"
    BY <1>0, <2>2, <2>5, <2>10 DEF QueueInv
  <2>12. \A d \in Clients : conn'[d] # "none" => sock'[d] \in Fds
    BY <1>0, <2>1, <2>5 DEF QueueInv, TypeOK
  <2> QED
    BY <2>8, <2>9, <2>11, <2>12 DEF QueueInv
<1>6. ASSUME NEW c \in Clients, HandleRead(c) PROVE QueueInv'
  <2>1. conn[c] # "none" /\ HandleClose(c)
    BY <1>0, <1>6 DEF HandleRead, BatchInv
  <2>2. conn' = [conn EXCEPT ![c] = IF c \in held THEN "closed" ELSE "dead"]
    BY <1>0, <2>1, ConnectionClosed
  <2> QED
    BY <1>2, <1>6, <2>1, <2>2 DEF HandleRead, clientVars
<1>7. CASE Connect
  <2>1. /\ arrived < MaxClients /\ arrived' = arrived + 1
        /\ waiting' = Append(waiting, arrived + 1) /\ UNCHANGED <<conn, sock>>
    BY <1>7 DEF Connect, connVars
  <2>2. arrived \in Nat /\ arrived + 1 \in Clients
    BY <1>0, <2>1, ConstantsAssumption DEF TypeOK, Clients
  <2>3. /\ Len(waiting') = Len(waiting) + 1 /\ waiting'[Len(waiting) + 1] = arrived + 1
        /\ \A i \in 1 .. Len(waiting) : waiting'[i] = waiting[i]
    BY <1>0, <2>1, <2>2, AppendProperties
  <2>4. \A i \in 1 .. Len(waiting) : waiting[i] <= arrived /\ waiting[i] \in Nat
    <3>1. \A i \in 1 .. Len(waiting) : waiting[i] \in Clients
      BY <1>0, ElementOfSeq
    <3> QED
      BY <1>0, <3>1, ConstantsAssumption DEF QueueInv, Clients
  <2>5. conn[arrived + 1] = "none"
    BY <1>0, <2>2 DEF QueueInv
  <2>6. \A i \in 1 .. Len(waiting') : i \in 1 .. Len(waiting) \/ i = Len(waiting) + 1
    BY <1>0, <2>3
  <2>7. \A i \in 1 .. Len(waiting') : waiting'[i] <= arrived' /\ conn'[waiting'[i]] = "none"
    BY <1>0, <2>1, <2>2, <2>3, <2>4, <2>5, <2>6 DEF QueueInv
  <2>8. ASSUME NEW i \in 1 .. Len(waiting'), NEW j \in 1 .. Len(waiting'), waiting'[i] = waiting'[j]
        PROVE  i = j
    <3>1. CASE i = Len(waiting) + 1
      BY <2>2, <2>3, <2>4, <2>6, <2>8, <3>1
    <3>2. CASE j = Len(waiting) + 1
      BY <2>2, <2>3, <2>4, <2>6, <2>8, <3>2
    <3>3. CASE i \in 1 .. Len(waiting) /\ j \in 1 .. Len(waiting)
      BY <1>0, <2>3, <2>8, <3>3 DEF QueueInv
    <3> QED
      BY <2>6, <3>1, <3>2, <3>3
  <2>9. \A d \in Clients : d > arrived' => conn'[d] = "none"
    BY <1>0, <2>1, <2>2, ConstantsAssumption DEF QueueInv, Clients
  <2> QED
    BY <1>0, <2>1, <2>7, <2>8, <2>9 DEF QueueInv
<1>8. ASSUME NEW c \in Clients, Close(c) PROVE QueueInv'
  BY <1>1, <1>8 DEF Close, connVars
<1>9. ASSUME NEW fd \in Fds, OtherOpens(fd) \/ OtherCloses(fd) PROVE QueueInv'
  BY <1>1, <1>9 DEF OtherOpens, OtherCloses, clientVars, connVars
<1>10. ASSUME NEW c \in Clients, Release(c) PROVE QueueInv'
  <2>1. CASE c \in map
    BY <1>1, <1>10, <2>1 DEF Release, clientVars
  <2>2. CASE c \notin map
    <3>1. c \in Live /\ conn' = [conn EXCEPT ![c] = "dead"]
      BY <1>0, <1>10, <2>2, Released
    <3> QED
      BY <1>2, <1>10, <3>1 DEF Live, Release, clientVars
  <2> QED
    BY <2>1, <2>2
<1>11. CASE UNCHANGED vars
  BY <1>1, <1>11 DEF vars, clientVars, connVars
<1> QED
  BY <1>3, <1>4, <1>5, <1>6, <1>7, <1>8, <1>9, <1>10, <1>11
  DEF Next, ServerStep, LoopStep, ClientStep, OtherStep

LEMMA BatchStep == IInv /\ [Next]_vars => BatchInv'
<1> SUFFICES ASSUME IInv, [Next]_vars PROVE BatchInv'
  OBVIOUS
<1>0. TypeOK /\ PollInv /\ BatchInv /\ QueueInv /\ OwnerInv /\ made \in Nat /\ MaxServers \in Nat
      /\ MaxClients \in Nat
  BY ConstantsAssumption DEF IInv, TypeOK
<1>1. ASSUME batch' \subseteq batch, made' = made,
             accepting' => accepting \/ (made \in Servers /\ Listen(made) \notin batch'),
             \A c \in Clients : conn'[c] = "none" => conn[c] = "none"
      PROVE  BatchInv'
  BY <1>0, <1>1 DEF BatchInv
<1>2. CASE MakeServer
  <2>1. made' = made + 1 /\ ~accepting' /\ UNCHANGED <<batch, conn>>
    BY <1>2 DEF MakeServer, UserCode, LoopFree, loopVars, connVars
  <2> QED
    BY <1>0, <2>1 DEF BatchInv, Servers
<1>3. CASE Start \/ CloseAgain \/ AcceptFails
  BY <1>1, <1>3 DEF Start, CloseAgain, AcceptFails, loopVars, connVars, serverVars
<1>4. CASE DestroyServer
  <2>1. \A c \in Clients : conn'[c] = "none" => conn[c] = "none"
    BY <1>0, <1>4, ServerDestroyed
  <2> QED
    BY <1>1, <1>4, <2>1 DEF DestroyServer, loopVars
<1>5. CASE Poll
  <2>1. ~accepting' /\ UNCHANGED <<made, conn>>
    BY <1>5 DEF Poll, LoopFree, serverVars, connVars
  <2>2. \A s \in Servers : Listen(s) \in batch' => s <= made
    <3> SUFFICES ASSUME NEW s \in Servers, Listen(s) \in batch' PROVE s <= made
      OBVIOUS
    <3>1. PICK fd \in Fds : Listen(s) = owner[fd]
      BY <1>0, <1>5, Polled, PollerTyped
    <3> QED
      BY <1>0, <3>1 DEF OwnerInv
  <2>3. \A c \in Clients : Conn(c) \in batch' => conn[c] # "none"
    <3> SUFFICES ASSUME NEW c \in Clients, Conn(c) \in batch' PROVE conn[c] # "none"
      OBVIOUS
    <3>1. PICK fd \in Fds : Conn(c) = owner[fd]
      BY <1>0, <1>5, Polled, PollerTyped
    <3> QED
      BY <1>0, <3>1 DEF OwnerInv, Live
  <2> QED
    BY <2>1, <2>2, <2>3 DEF BatchInv
<1>6. CASE HandleConn
  <2>1. made \in Servers
    BY <1>0, <1>6, ChannelFacts DEF HandleConn, TypeOK, Channels, Listen, Conn, Servers
  <2> QED
    BY <1>1, <1>6, <2>1 DEF HandleConn, serverVars, connVars
<1>7. CASE Accept
  <2>1. PICK c \in Clients : conn' = [conn EXCEPT ![c] = "open"]
    BY <1>0, <1>7, Accepted
  <2>2. \A d \in Clients : conn'[d] = "none" => conn[d] = "none"
    BY <1>0, <2>1 DEF TypeOK
  <2> QED
    BY <1>1, <1>7, <2>2 DEF Accept, serverVars
<1>8. ASSUME NEW c \in Clients, HandleRead(c) PROVE BatchInv'
  <2>1. conn[c] # "none" /\ HandleClose(c)
    BY <1>0, <1>8 DEF HandleRead, BatchInv
  <2>2. conn' = [conn EXCEPT ![c] = IF c \in held THEN "closed" ELSE "dead"]
    BY <1>0, <2>1, ConnectionClosed
  <2>3. \A d \in Clients : conn'[d] = "none" => conn[d] = "none"
    BY <1>0, <2>2 DEF TypeOK
  <2> QED
    BY <1>1, <1>8, <2>3 DEF HandleRead, serverVars
<1>9. CASE Connect \/ \E c \in Clients : Close(c)
  BY <1>1, <1>9 DEF Connect, Close, serverVars, connVars, loopVars
<1>10. ASSUME NEW fd \in Fds, OtherOpens(fd) \/ OtherCloses(fd) PROVE BatchInv'
  BY <1>1, <1>10 DEF OtherOpens, OtherCloses, serverVars, connVars, loopVars
<1>11. ASSUME NEW c \in Clients, Release(c) PROVE BatchInv'
  <2>1. conn' = conn \/ conn' = [conn EXCEPT ![c] = "dead"]
    BY <1>11 DEF Release, Destroyed
  <2>2. \A d \in Clients : conn'[d] = "none" => conn[d] = "none"
    BY <1>0, <2>1 DEF TypeOK
  <2> QED
    BY <1>1, <1>11, <2>2 DEF Release, serverVars, loopVars
<1>12. CASE UNCHANGED vars
  BY <1>1, <1>12 DEF vars, serverVars, connVars, loopVars
<1> QED
  BY <1>2, <1>3, <1>4, <1>5, <1>6, <1>7, <1>8, <1>9, <1>10, <1>11, <1>12
  DEF Next, ServerStep, LoopStep, ClientStep, OtherStep

LEMMA OwnerStep == IInv /\ [Next]_vars => OwnerInv' /\ PollInv'
<1> SUFFICES ASSUME IInv, [Next]_vars PROVE OwnerInv' /\ PollInv'
  OBVIOUS
<1>0. /\ TypeOK /\ PollInv /\ BatchInv /\ QueueInv /\ OwnerInv
      /\ poller.interest \subseteq Fds /\ owner \in [Fds -> Channels \union {Other, Free}]
      /\ conn \in [Clients -> {"none", "open", "closed", "dead"}]
      /\ sock \in [Clients -> Fds \union {NoFd}]
  BY PollerTyped DEF IInv, TypeOK
<1>1. CASE /\ UNCHANGED <<owner, conn, sock, made, listenFd, poller, map>>
           /\ Running' = Running
  BY <1>0, <1>1 DEF OwnerInv, PollInv, Live
\* A descriptor is closed: nothing else changes but its connection, if it is one's.
<1>2. ASSUME NEW gone,
             \A fd \in Fds \ {gone} : owner'[fd] = owner[fd],
             gone \in Fds => owner'[gone] = Free,
             \A c \in Clients : c \in Live \ Live' => sock[c] = gone,
             UNCHANGED <<sock, made, listenFd>>, Running => Running',
             poller' \in Epoll!Pollers, gone \notin poller'.interest,
             \A fd \in Fds \ {gone} : fd \in poller'.interest =>
               fd \in poller.interest /\ poller'.channels[fd] = poller.channels[fd],
             \A c \in Clients : c \in map \ map' => sock[c] = gone
      PROVE  OwnerInv' /\ PollInv'
  <2>1. OwnerInv'
    <3> SUFFICES ASSUME NEW fd \in Fds
                 PROVE  /\ \A c \in Clients : owner'[fd] = Conn(c) => c \in Live' /\ sock'[c] = fd
                        /\ \A s \in Servers : owner'[fd] = Listen(s) =>
                             s = made' /\ Running' /\ fd = listenFd'
      BY DEF OwnerInv
    <3>1. CASE fd = gone
      BY <1>2, <3>1, ChannelFacts
    <3>2. CASE fd # gone
      <4>1. owner'[fd] = owner[fd]
        BY <1>2, <3>2
      <4>2. ASSUME NEW c \in Clients, owner[fd] = Conn(c) PROVE c \in Live' /\ sock'[c] = fd
        <5>1. c \in Live /\ sock[c] = fd
          BY <1>0, <4>2 DEF OwnerInv
        <5> QED
          BY <1>2, <3>2, <5>1
      <4>3. ASSUME NEW s \in Servers, owner[fd] = Listen(s)
            PROVE  s = made' /\ Running' /\ fd = listenFd'
        BY <1>0, <1>2, <4>3 DEF OwnerInv
      <4> QED
        BY <4>1, <4>2, <4>3
    <3> QED
      BY <3>1, <3>2
  <2>2. PollInv'
    <3> SUFFICES ASSUME NEW fd \in poller'.interest
                 PROVE  /\ poller'.channels[fd] = owner'[fd] /\ owner'[fd] \in Channels
                        /\ \A c \in Clients : owner'[fd] = Conn(c) => c \in map'
      BY DEF PollInv
    <3>1. fd \in Fds \ {gone}
      BY <1>2 DEF Epoll!Pollers
    <3>2. fd \in poller.interest /\ poller'.channels[fd] = owner[fd] /\ owner[fd] \in Channels
          /\ owner'[fd] = owner[fd]
      BY <1>0, <1>2, <3>1 DEF PollInv
    <3>3. ASSUME NEW c \in Clients, owner[fd] = Conn(c) PROVE c \in map'
      <4>1. c \in map /\ sock[c] = fd
        BY <1>0, <3>1, <3>2, <3>3 DEF PollInv, OwnerInv
      <4> QED
        BY <1>2, <3>1, <4>1
    <3> QED
      BY <3>2, <3>3
  <2> QED
    BY <2>1, <2>2
\* A descriptor is opened for a channel.
<1>3. ASSUME NEW new \in Fds, NEW channel \in Channels, Entered(new, channel),
             \A c \in Live : c \in Live' /\ sock'[c] = sock[c],
             \A s \in Servers : \A fd \in Fds \ {new} :
               owner[fd] = Listen(s) => made' = made /\ listenFd' = listenFd /\ Running',
             \A c \in Clients : channel = Conn(c) => c \in Live' /\ sock'[c] = new /\ c \in map',
             \A s \in Servers : channel = Listen(s) => s = made' /\ listenFd' = new /\ Running',
             map \subseteq map'
      PROVE  OwnerInv' /\ PollInv'
  <2>1. /\ owner[new] = Free /\ new \notin poller.interest
        /\ owner'[new] = channel /\ \A fd \in Fds \ {new} : owner'[fd] = owner[fd]
        /\ poller' \in Epoll!Pollers
        /\ new \in poller'.interest => poller'.channels[new] = channel
        /\ \A fd \in Fds \ {new} : /\ poller'.channels[fd] = poller.channels[fd]
                                   /\ fd \in poller'.interest <=> fd \in poller.interest
    BY <1>0, <1>3 DEF Entered, SameElsewhere
  <2>2. OwnerInv'
    <3> SUFFICES ASSUME NEW fd \in Fds
                 PROVE  /\ \A c \in Clients : owner'[fd] = Conn(c) => c \in Live' /\ sock'[c] = fd
                        /\ \A s \in Servers : owner'[fd] = Listen(s) =>
                             s = made' /\ Running' /\ fd = listenFd'
      BY DEF OwnerInv
    <3>1. CASE fd = new
      BY <1>3, <2>1, <3>1
    <3>2. CASE fd # new
      <4>1. owner'[fd] = owner[fd]
        BY <2>1, <3>2
      <4>2. ASSUME NEW c \in Clients, owner[fd] = Conn(c) PROVE c \in Live' /\ sock'[c] = fd
        <5>1. c \in Live /\ sock[c] = fd
          BY <1>0, <4>2 DEF OwnerInv
        <5> QED
          BY <1>3, <5>1
      <4>3. ASSUME NEW s \in Servers, owner[fd] = Listen(s)
            PROVE  s = made' /\ Running' /\ fd = listenFd'
        BY <1>0, <1>3, <3>2, <4>3 DEF OwnerInv
      <4> QED
        BY <4>1, <4>2, <4>3
    <3> QED
      BY <3>1, <3>2
  <2>3. PollInv'
    <3> SUFFICES ASSUME NEW fd \in poller'.interest
                 PROVE  /\ poller'.channels[fd] = owner'[fd] /\ owner'[fd] \in Channels
                        /\ \A c \in Clients : owner'[fd] = Conn(c) => c \in map'
      BY DEF PollInv
    <3>1. CASE fd = new
      BY <1>3, <2>1, <3>1
    <3>2. CASE fd # new
      <4>1. fd \in Fds
        BY <2>1 DEF Epoll!Pollers
      <4> QED
        BY <1>0, <1>3, <2>1, <3>2, <4>1 DEF PollInv
    <3> QED
      BY <3>1, <3>2
  <2> QED
    BY <2>2, <2>3
<1>4. CASE MakeServer
  <2>1. /\ made + 1 \in Servers
        /\ \E fd \in Fds : listenFd' = fd /\ Entered(fd, Listen(made + 1))
    BY <1>0, <1>4, MadeServer
  <2>2. PICK fd \in Fds : listenFd' = fd /\ Entered(fd, Listen(made + 1))
    BY <2>1
  <2>3. /\ UNCHANGED <<conn, sock, map>> /\ made' = made + 1 /\ ~Running /\ Running'
    BY <1>4 DEF MakeServer, Running, connVars, mapVars
  <2>4. Live' = Live
    BY <2>3 DEF Live
  <2>5. \A s \in Servers, other \in Fds : owner[other] # Listen(s)
    BY <1>0, <2>3 DEF OwnerInv
  <2>6. Listen(made + 1) \in Channels
    BY <2>1, ChannelFacts
  <2>7. \A c \in Clients : Listen(made + 1) # Conn(c)
    BY <2>1, ChannelFacts
  <2>8. \A s \in Servers : Listen(made + 1) = Listen(s) => s = made'
    BY <2>1, <2>3, ChannelFacts
  <2> QED
    BY <1>3, <2>2, <2>3, <2>4, <2>5, <2>6, <2>7, <2>8
<1>5. CASE Start \/ Poll \/ HandleConn \/ AcceptFails \/ Connect \/ \E c \in Clients : Close(c)
  BY <1>1, <1>5 DEF Start, Poll, HandleConn, AcceptFails, Connect, Close, Running, serverVars,
                    connVars, mapVars
<1>6. CASE DestroyServer
  <2>1. /\ listenFd \in Fds
        /\ owner' = [fd \in Fds |-> IF fd \in Ended \union {listenFd} THEN Free ELSE owner[fd]]
        /\ conn' = [c \in Clients |-> IF c \in map THEN "dead" ELSE conn[c]]
        /\ map' = {} /\ poller' \in Epoll!Pollers /\ listenFd \notin poller'.interest
        /\ \A fd \in Fds \ {listenFd} :
             /\ poller'.channels[fd] = poller.channels[fd]
             /\ fd \in poller'.interest <=> fd \in poller.interest \ Ended
    BY <1>0, <1>6, ServerDestroyed
  <2>2. sock' = sock
    BY <1>6 DEF DestroyServer
  <2>3. OwnerInv'
    <3> SUFFICES ASSUME NEW fd \in Fds
                 PROVE  /\ \A c \in Clients : owner'[fd] = Conn(c) => c \in Live' /\ sock'[c] = fd
                        /\ \A s \in Servers : owner'[fd] # Listen(s)
      BY DEF OwnerInv
    <3>1. CASE fd \in Ended \union {listenFd}
      BY <2>1, <3>1, ChannelFacts
    <3>2. CASE fd \notin Ended \union {listenFd}
      <4>1. owner'[fd] = owner[fd]
        BY <2>1, <3>2
      <4>2. ASSUME NEW c \in Clients, owner[fd] = Conn(c) PROVE c \in Live' /\ sock'[c] = fd
        <5>1. c \in Live /\ sock[c] = fd
          BY <1>0, <4>2 DEF OwnerInv
        <5>2. c \notin map
          BY <3>2, <5>1 DEF Ended
        <5> QED
          BY <2>1, <2>2, <5>1, <5>2 DEF Live
      <4> QED
        BY <1>0, <3>2, <4>1, <4>2 DEF OwnerInv
    <3> QED
      BY <3>1, <3>2
  <2>4. PollInv'
    <3> SUFFICES ASSUME NEW fd \in poller'.interest
                 PROVE  /\ poller'.channels[fd] = owner'[fd] /\ owner'[fd] \in Channels
                        /\ \A c \in Clients : owner'[fd] # Conn(c)
      BY DEF PollInv
    <3>1. fd \in Fds /\ fd # listenFd /\ fd \notin Ended /\ fd \in poller.interest
      BY <2>1 DEF Epoll!Pollers
    <3>2. owner'[fd] = owner[fd] /\ poller'.channels[fd] = owner[fd] /\ owner[fd] \in Channels
      BY <1>0, <2>1, <3>1 DEF PollInv
    <3>3. ASSUME NEW c \in Clients, owner[fd] = Conn(c) PROVE FALSE
      <4>1. c \in map /\ sock[c] = fd
        BY <1>0, <3>1, <3>3 DEF PollInv, OwnerInv
      <4> QED
        BY <3>1, <4>1 DEF Ended
    <3> QED
      BY <3>2, <3>3
  <2> QED
    BY <2>3, <2>4
<1>7. CASE CloseAgain
  <2>1. /\ UNCHANGED <<conn, sock, made, map>> /\ listenFd \in Fds
        /\ owner' = [owner EXCEPT ![listenFd] = Free]
        /\ poller' = Epoll!Closed(poller, {listenFd})
        /\ ~Running /\ ~Running'
    BY <1>0, <1>7 DEF CloseAgain, Running, TypeOK, connVars, mapVars
  <2>2. /\ poller' \in Epoll!Pollers /\ poller'.channels = poller.channels
        /\ poller'.interest = poller.interest \ {listenFd}
        /\ \A other \in Fds \ {listenFd} : owner'[other] = owner[other]
        /\ owner'[listenFd] = Free
    BY <1>0, <2>1, DescriptorClosed
  <2>3. \A s \in Servers, other \in Fds : owner[other] # Listen(s)
    BY <1>0, <2>1 DEF OwnerInv
  <2>4. OwnerInv'
    BY <1>0, <2>1, <2>2, <2>3, ChannelFacts DEF OwnerInv, Live
  <2>5. PollInv'
    BY <1>0, <2>1, <2>2 DEF PollInv
  <2> QED
    BY <2>4, <2>5
<1>8. CASE Accept
  <2>1. PICK c \in Clients, fd \in Fds :
          /\ c \notin Live /\ Entered(fd, Conn(c))
          /\ conn' = [conn EXCEPT ![c] = "open"] /\ sock' = [sock EXCEPT ![c] = fd]
          /\ map' = map \union {c}
    BY <1>0, <1>8, Accepted
  <2>2. /\ c \in Live' /\ sock'[c] = fd
        /\ \A d \in Live : d \in Live' /\ sock'[d] = sock[d]
    BY <1>0, <2>1 DEF Live
  <2>3. UNCHANGED <<made, listenFd>> /\ Running' = Running
    BY <1>8 DEF Accept, Running, serverVars
  <2>4. \A s \in Servers, other \in Fds : owner[other] = Listen(s) => Running
    BY <1>0 DEF OwnerInv
  <2>5. Conn(c) \in Channels /\ (\A d \in Clients : Conn(c) = Conn(d) => d = c)
        /\ \A s \in Servers : Conn(c) # Listen(s)
    BY ChannelFacts
  <2> QED
    BY <1>3, <2>1, <2>2, <2>3, <2>4, <2>5
<1>9. ASSUME NEW c \in Clients, HandleRead(c) PROVE OwnerInv' /\ PollInv'
  <2>1. conn[c] # "none" /\ HandleClose(c)
    BY <1>0, <1>9 DEF HandleRead, BatchInv
  <2>2. /\ sock[c] \in Fds /\ map' = map \ {c}
        /\ conn' = [conn EXCEPT ![c] = IF c \in held THEN "closed" ELSE "dead"]
        /\ owner' = IF c \in held THEN owner ELSE [owner EXCEPT ![sock[c]] = Free]
        /\ poller' \in Epoll!Pollers /\ SameElsewhere(poller, poller', sock[c])
        /\ sock[c] \notin poller'.interest
    BY <1>0, <2>1, ConnectionClosed
  <2>3. UNCHANGED <<sock, made, listenFd>> /\ Running' = Running
    BY <1>9 DEF HandleRead, Running, serverVars
  <2>4. CASE c \notin held
    <3>1. \A d \in Clients : d \in Live \ Live' => d = c
      BY <1>0, <2>2 DEF Live
    <3>2. /\ owner'[sock[c]] = Free
          /\ \A fd \in Fds \ {sock[c]} : owner'[fd] = owner[fd]
      BY <1>0, <2>2, <2>4
    <3> QED
      BY <1>2, <2>2, <2>3, <3>1, <3>2 DEF SameElsewhere
  <2>5. CASE c \in held
    <3>1. Live' = Live /\ owner' = owner
      BY <1>0, <2>2, <2>5 DEF Live, TypeOK
    <3>2. OwnerInv'
      BY <1>0, <2>3, <3>1 DEF OwnerInv
    <3>3. PollInv'
      <4> SUFFICES ASSUME NEW fd \in poller'.interest
                   PROVE  /\ poller'.channels[fd] = owner[fd] /\ owner[fd] \in Channels
                          /\ \A d \in Clients : owner[fd] = Conn(d) => d \in map'
        BY <3>1 DEF PollInv
      <4>1. fd \in Fds \ {sock[c]}
        BY <2>2 DEF Epoll!Pollers
      <4>2. fd \in poller.interest /\ poller'.channels[fd] = owner[fd] /\ owner[fd] \in Channels
        BY <1>0, <2>2, <4>1 DEF PollInv, SameElsewhere
      <4>3. ASSUME NEW d \in Clients, owner[fd] = Conn(d) PROVE d \in map'
        <5>1. d \in map /\ sock[d] = fd
          BY <1>0, <4>1, <4>2, <4>3 DEF PollInv, OwnerInv
        <5> QED
          BY <2>2, <4>1, <5>1
      <4> QED
        BY <4>2, <4>3
    <3> QED
      BY <3>2, <3>3
  <2> QED
    BY <2>4, <2>5
<1>10. ASSUME NEW fd \in Fds, OtherOpens(fd) PROVE OwnerInv' /\ PollInv'
  <2>1. /\ UNCHANGED <<conn, sock, made, listenFd, poller, map>> /\ Running' = Running
        /\ owner[fd] = Free /\ owner' = [owner EXCEPT ![fd] = Other]
    BY <1>10 DEF OtherOpens, Lowest, Running, serverVars, connVars, mapVars
  <2>2. fd \notin poller.interest
    BY <1>0, <2>1, OwnedByNobody
  <2>3. owner'[fd] = Other /\ \A other \in Fds \ {fd} : owner'[other] = owner[other]
    BY <1>0, <2>1
  <2>4. OwnerInv'
    BY <1>0, <2>1, <2>3, ChannelFacts DEF OwnerInv, Live
  <2>5. PollInv'
    BY <1>0, <2>1, <2>2, <2>3 DEF PollInv
  <2> QED
    BY <2>4, <2>5
<1>11. ASSUME NEW fd \in Fds, OtherCloses(fd) PROVE OwnerInv' /\ PollInv'
  <2>1. /\ UNCHANGED <<conn, sock, made, listenFd, map>> /\ Running' = Running
        /\ owner' = [owner EXCEPT ![fd] = Free] /\ poller' = Epoll!Closed(poller, {fd})
    BY <1>11 DEF OtherCloses, Running, serverVars, connVars, mapVars
  <2>2. /\ poller' \in Epoll!Pollers /\ poller'.channels = poller.channels
        /\ poller'.interest = poller.interest \ {fd}
        /\ \A other \in Fds \ {fd} : owner'[other] = owner[other]
        /\ owner'[fd] = Free
    BY <1>0, <2>1, DescriptorClosed
  <2>3. Live' = Live
    BY <2>1 DEF Live
  <2> QED
    BY <1>2, <2>1, <2>2, <2>3
<1>12. ASSUME NEW c \in Clients, Release(c) PROVE OwnerInv' /\ PollInv'
  <2>1. CASE c \in map
    BY <1>1, <1>12, <2>1 DEF Release, Running, serverVars, mapVars
  <2>2. CASE c \notin map
    <3>1. /\ sock[c] \in Fds /\ conn' = [conn EXCEPT ![c] = "dead"]
          /\ owner' = [owner EXCEPT ![sock[c]] = Free]
          /\ poller' \in Epoll!Pollers /\ poller'.channels = poller.channels
          /\ poller'.interest = poller.interest \ {sock[c]}
      BY <1>0, <1>12, <2>2, Released
    <3>2. UNCHANGED <<sock, made, listenFd, map>> /\ Running' = Running
      BY <1>12 DEF Release, Running, serverVars, mapVars
    <3>3. \A d \in Clients : d \in Live \ Live' => d = c
      BY <1>0, <3>1 DEF Live
    <3>4. /\ owner'[sock[c]] = Free
          /\ \A fd \in Fds \ {sock[c]} : owner'[fd] = owner[fd]
      BY <1>0, <3>1
    <3> QED
      BY <1>2, <3>1, <3>2, <3>3, <3>4
  <2> QED
    BY <2>1, <2>2
<1>13. CASE UNCHANGED vars
  BY <1>1, <1>13 DEF vars, Running, serverVars, connVars, mapVars
<1> QED
  BY <1>4, <1>5, <1>6, <1>7, <1>8, <1>9, <1>10, <1>11, <1>12, <1>13
  DEF Next, ServerStep, LoopStep, ClientStep, OtherStep

LEMMA InitIInv == Init => IInv
<1> SUFFICES ASSUME Init PROVE IInv
  OBVIOUS
<1>1. /\ MaxServers \in Nat /\ MaxClients \in Nat /\ MaxOpened \in Nat /\ MaxFails \in Nat
  BY ConstantsAssumption
<1>2. /\ poller = [channels |-> [fd \in Fds |-> Free], interest |-> {}]
      /\ poller \in Epoll!Pollers
  BY DEF Init, Epoll!NewPoller, Epoll!Pollers
<1>3. <<>> \in Seq(Clients) /\ Len(<<>>) = 0
  BY EmptySeq
<1>4. TypeOK
  <2>1. /\ platform \in Platforms /\ owner \in [Fds -> Channels \union {Other, Free}]
        /\ conn \in [Clients -> {"none", "open", "closed", "dead"}]
        /\ sock \in [Clients -> Fds \union {NoFd}]
    BY DEF Init
  <2>2. /\ made \in 0 .. MaxServers /\ phase = "none" /\ listenFd = NoFd
        /\ arrived \in 0 .. MaxClients /\ opened \in 0 .. MaxOpened
        /\ fails \in 0 .. MaxFails + MaxOpened /\ ghosts \in Nat
    BY <1>1 DEF Init
  <2>3. /\ fin = {} /\ held = {} /\ map = {} /\ batch = {} /\ others = {} /\ dropped = {}
        /\ waiting = <<>> /\ accepting = FALSE /\ robbed = FALSE
    BY DEF Init
  <2> QED
    BY <1>2, <1>3, <2>1, <2>2, <2>3 DEF TypeOK
<1>5. QueueInv /\ BatchInv
  BY <1>3 DEF Init, QueueInv, BatchInv
<1>6. OwnerInv /\ PollInv
  BY <1>2, ChannelFacts DEF Init, OwnerInv, PollInv
<1>7. FailsInv
  BY <1>1 DEF Init, FailsInv
<1> QED
  BY <1>4, <1>5, <1>6, <1>7 DEF IInv

LEMMA StepIInv == IInv /\ [Next]_vars => IInv'
  BY TypeStep, QueueStep, OwnerStep, BatchStep, FailsStep DEF IInv

THEOREM Invariance == Spec => []IInv
  BY InitIInv, StepIInv, PTL DEF Spec

\* tcp_server.h, acceptor.h: every variable keeps its type, whatever handlers do; in
\* particular accept() fails no more often than the descriptors of others account for.
THEOREM TypeCorrect == Spec => []TypeOK
  BY Invariance, PTL DEF IInv

-----------------------------------------------------------------------------
(* What the poller uses is alive. *)

\* A descriptor the kernel knows leads to a connection or an acceptor that exists.
LEMMA KnownIsAlive ==
  ASSUME IInv, NEW fd \in poller.interest
  PROVE  /\ poller.channels[fd] = owner[fd]
         /\ \A c \in Clients : owner[fd] = Conn(c) => c \in map /\ c \in Live
         /\ \A s \in Servers : owner[fd] = Listen(s) => s = made /\ Running
         /\ Alive(poller.channels[fd])
<1>1. fd \in Fds
  BY PollerTyped DEF IInv
<1>2. /\ poller.channels[fd] = owner[fd] /\ owner[fd] \in Channels
      /\ \A c \in Clients : owner[fd] = Conn(c) => c \in map
  BY DEF IInv, PollInv
<1>3. /\ \A c \in Clients : owner[fd] = Conn(c) => c \in Live
      /\ \A s \in Servers : owner[fd] = Listen(s) => s = made /\ Running
  BY <1>1 DEF IInv, OwnerInv
<1>4. Alive(owner[fd])
  <2>1. \/ \E s \in Servers : owner[fd] = Listen(s)
        \/ \E c \in Clients : owner[fd] = Conn(c)
    BY <1>2, ChannelFacts
  <2> QED
    BY <1>3, <2>1 DEF Alive
<1> QED
  BY <1>2, <1>3, <1>4

LEMMA AliveStep ==
  ASSUME ~HandlersAct, IInv, AliveInv, [Next]_vars
  PROVE  AliveInv'
<1>0. TypeOK /\ PollInv /\ BatchInv
  BY DEF IInv
<1>1. CASE batch' = {} /\ ~accepting'
  BY <1>1 DEF AliveInv
<1>2. ASSUME batch' \subseteq batch, made' = made, Running => Running',
             accepting' => accepting \/ \E s \in Servers : Listen(s) \in batch,
             \A c \in map \ map' : Conn(c) \notin batch'
      PROVE  AliveInv'
  BY <1>2 DEF AliveInv
<1>3. CASE MakeServer \/ Start \/ DestroyServer
  BY <1>1, <1>3 DEF MakeServer, Start, DestroyServer, UserCode, LoopFree, loopVars
<1>4. CASE Poll
  <2>1. ~accepting' /\ UNCHANGED <<made, phase, map>>
    BY <1>4 DEF Poll, LoopFree, serverVars, mapVars
  <2>2. \A channel \in batch' : \E fd \in poller.interest : channel = owner[fd]
    BY <1>0, <1>4, Polled
  <2>3. ASSUME NEW c \in Clients, Conn(c) \in batch' PROVE c \in map
    BY <2>2, <2>3, KnownIsAlive
  <2>4. ASSUME NEW s \in Servers, Listen(s) \in batch' PROVE s = made /\ Running
    BY <2>2, <2>4, KnownIsAlive
  <2> QED
    BY <2>1, <2>3, <2>4 DEF AliveInv, Running
<1>5. CASE HandleConn
  <2>1. Listen(made) \in batch /\ made \in Servers
    BY <1>0, <1>5, ChannelFacts DEF HandleConn, TypeOK, Channels, Listen, Conn, Servers
  <2> QED
    BY <1>2, <1>5, <2>1 DEF HandleConn, Running, serverVars, mapVars
<1>6. CASE Accept
  <2>1. map \subseteq map'
    BY <1>6 DEF Accept, NewConnection
  <2> QED
    BY <1>2, <1>6, <2>1 DEF Accept, Running, serverVars
<1>7. CASE CloseAgain
  BY <1>2, <1>7 DEF CloseAgain, Running, mapVars, loopVars
<1>8. CASE AcceptFails
  BY <1>2, <1>8 DEF AcceptFails, Running, serverVars
<1>9. ASSUME NEW c \in Clients, HandleRead(c) PROVE AliveInv'
  <2>1. map' = map \ {c} /\ Conn(c) \notin batch'
    BY <1>9 DEF HandleRead, HandleClose
  <2> QED
    BY <1>2, <1>9, <2>1 DEF HandleRead, Running, serverVars
<1>10. CASE Connect \/ \E c \in Clients : Close(c)
  BY <1>2, <1>10 DEF Connect, Close, Running, serverVars, mapVars, loopVars
<1>11. ASSUME NEW fd \in Fds, OtherOpens(fd) \/ OtherCloses(fd) PROVE AliveInv'
  BY <1>2, <1>11 DEF OtherOpens, OtherCloses, Running, serverVars, mapVars, loopVars
<1>12. ASSUME NEW c \in Clients, Release(c) PROVE AliveInv'
  BY <1>2, <1>12 DEF Release, Running, serverVars, mapVars, loopVars
<1>13. CASE UNCHANGED vars
  BY <1>2, <1>13 DEF vars, Running, serverVars, mapVars, loopVars
<1> QED
  BY <1>3, <1>4, <1>5, <1>6, <1>7, <1>8, <1>9, <1>10, <1>11, <1>12, <1>13
  DEF Next, ServerStep, LoopStep, ClientStep, OtherStep

-----------------------------------------------------------------------------
(* Who owns a descriptor. *)

\* Descriptors in use differ: the owner says whose each is.
LEMMA Owners ==
  ASSUME TypeOK, QueueInv, OwnDescriptor, ~robbed
  PROVE  /\ \A c \in Live : sock[c] \in Fds /\ owner[sock[c]] = Conn(c)
         /\ \A c, d \in Live : sock[c] = sock[d] => c = d
         /\ Running => /\ listenFd \in Fds /\ owner[listenFd] = Listen(made)
                       /\ \A c \in Live : sock[c] # listenFd
         /\ \A fd \in others : /\ fd \in Fds /\ owner[fd] = Other
                               /\ \A c \in Live : sock[c] # fd
                               /\ Running => listenFd # fd
  BY DEF TypeOK, QueueInv, OwnDescriptor, Live, Running, Listen, Conn, Other

LEMMA OwnStep ==
  ASSUME ~HandlersAct, IInv, AliveInv, OwnDescriptor, [Next]_vars
  PROVE  OwnDescriptor'
<1>0. /\ TypeOK /\ PollInv /\ BatchInv /\ QueueInv
      /\ owner \in [Fds -> Channels \union {Other, Free}]
      /\ conn \in [Clients -> {"none", "open", "closed", "dead"}]
      /\ sock \in [Clients -> Fds \union {NoFd}]
      /\ map \subseteq Live /\ held \subseteq Live
  BY DEF IInv, TypeOK
<1> SUFFICES ASSUME ~robbed' PROVE OwnDescriptor'
  BY DEF OwnDescriptor
<1>1. ~robbed
  <2>1. CASE CloseAgain
    BY <2>1 DEF CloseAgain
  <2>2. CASE robbed' = robbed
    BY <2>2
  <2> QED
    BY <2>1, <2>2
    DEF Next, ServerStep, LoopStep, ClientStep, OtherStep, MakeServer, Start, DestroyServer, Poll,
        HandleConn, Accept, AcceptFails, HandleRead, Connect, Close, OtherOpens, OtherCloses,
        Release, vars, historyVars
<1>2. /\ \A c \in Live : sock[c] \in Fds /\ owner[sock[c]] = Conn(c)
      /\ \A c, d \in Live : sock[c] = sock[d] => c = d
      /\ Running => /\ listenFd \in Fds /\ owner[listenFd] = Listen(made)
                    /\ \A c \in Live : sock[c] # listenFd
      /\ \A fd \in others : /\ fd \in Fds /\ owner[fd] = Other
                            /\ \A c \in Live : sock[c] # fd
                            /\ Running => listenFd # fd
  BY <1>0, <1>1, Owners
\* Descriptors are closed: whoever remains has another one.
<1>3. ASSUME NEW gone, \A fd \in Fds \ gone : owner'[fd] = owner[fd],
             Live' \subseteq Live, UNCHANGED <<sock, made, listenFd>>,
             \A c \in Live' : sock[c] \notin gone,
             Running' => Running /\ listenFd \notin gone,
             others' \subseteq others, \A fd \in others' : fd \notin gone
      PROVE  OwnDescriptor'
  <2>1. \A c \in Live' : owner'[sock'[c]] = Conn(c)
    BY <1>2, <1>3
  <2>2. Running' => owner'[listenFd'] = Listen(made')
    BY <1>2, <1>3
  <2>3. \A fd \in others' : owner'[fd] = Other
    BY <1>2, <1>3
  <2> QED
    BY <2>1, <2>2, <2>3 DEF OwnDescriptor
\* One is opened.
<1>4. ASSUME NEW new \in Fds, owner[new] = Free, NEW for,
             owner' = [owner EXCEPT ![new] = for],
             \A c \in Live' : \/ c \in Live /\ sock'[c] = sock[c]
                              \/ for = Conn(c) /\ sock'[c] = new,
             \/ Running' => Running /\ UNCHANGED <<made, listenFd>>
             \/ for = Listen(made') /\ listenFd' = new,
             \A fd \in others' : fd \in others \/ (for = Other /\ fd = new)
      PROVE  OwnDescriptor'
  <2>1. owner'[new] = for /\ \A fd \in Fds \ {new} : owner'[fd] = owner[fd]
    BY <1>0, <1>4
  <2>2. /\ \A c \in Live : sock[c] # new
        /\ Running => listenFd # new
        /\ \A fd \in others : fd # new
    BY <1>2, <1>4 DEF Listen, Conn, Other, Free
  <2>3. \A c \in Live' : owner'[sock'[c]] = Conn(c)
    BY <1>2, <1>4, <2>1, <2>2
  <2>4. Running' => owner'[listenFd'] = Listen(made')
    BY <1>2, <1>4, <2>1, <2>2
  <2>5. \A fd \in others' : owner'[fd] = Other
    BY <1>2, <1>4, <2>1, <2>2
  <2> QED
    BY <2>3, <2>4, <2>5 DEF OwnDescriptor
<1>15. ASSUME UNCHANGED <<owner, sock, made, listenFd, others>>, Live' = Live, Running' => Running
       PROVE  OwnDescriptor'
  BY <1>2, <1>15 DEF OwnDescriptor
<1>5. CASE MakeServer
  <2>1. PICK fd \in Fds : listenFd' = fd /\ Entered(fd, Listen(made + 1))
    BY <1>0, <1>5, MadeServer
  <2>2. UNCHANGED <<conn, sock, others>> /\ made' = made + 1
    BY <1>5 DEF MakeServer, connVars, otherVars
  <2>3. Live' = Live
    BY <2>2 DEF Live
  <2> QED
    BY <1>4, <2>1, <2>2, <2>3 DEF Entered
<1>6. CASE Start \/ Poll \/ HandleConn \/ AcceptFails \/ Connect \/ \E c \in Clients : Close(c)
  <2>1. /\ UNCHANGED <<owner, conn, sock, made, listenFd, others>> /\ Running' = Running
    BY <1>6 DEF Start, Poll, HandleConn, AcceptFails, Connect, Close, Running, serverVars,
                connVars, otherVars
  <2>2. Live' = Live
    BY <2>1 DEF Live
  <2> QED
    BY <2>1, <2>2, <1>15
<1>7. CASE DestroyServer
  <2>1. /\ owner' = [fd \in Fds |-> IF fd \in Ended \union {listenFd} THEN Free ELSE owner[fd]]
        /\ conn' = [c \in Clients |-> IF c \in map THEN "dead" ELSE conn[c]]
    BY <1>0, <1>7, ServerDestroyed
  <2>2. Running /\ ~Running' /\ UNCHANGED <<sock, made, listenFd, others>>
    BY <1>7 DEF DestroyServer, Running, otherVars
  <2>3. Live' = Live \ map
    BY <1>0, <2>1 DEF Live
  <2>4. \A c \in Live' : sock[c] \notin Ended \union {listenFd}
    BY <1>0, <1>2, <2>2, <2>3 DEF Ended
  <2>5. \A fd \in others : fd \notin Ended \union {listenFd}
    BY <1>0, <1>2, <2>2 DEF Ended
  <2>6. \A fd \in Fds \ (Ended \union {listenFd}) : owner'[fd] = owner[fd]
    BY <2>1
  <2> QED
    BY <1>3, <2>2, <2>3, <2>4, <2>5, <2>6
<1>8. CASE CloseAgain
  <2>1. /\ UNCHANGED <<conn, sock, made, others>> /\ ~Running'
        /\ owner[listenFd] = Free /\ owner' = [owner EXCEPT ![listenFd] = Free]
    BY <1>8 DEF CloseAgain, Running, connVars, otherVars
  <2>2. Live' = Live /\ \A fd \in Fds : owner'[fd] = owner[fd]
    BY <1>0, <2>1 DEF Live
  <2> QED
    BY <1>2, <2>1, <2>2 DEF OwnDescriptor
<1>9. CASE Accept
  <2>1. PICK c \in Clients, fd \in Fds :
          /\ c \notin Live /\ Entered(fd, Conn(c))
          /\ conn' = [conn EXCEPT ![c] = "open"] /\ sock' = [sock EXCEPT ![c] = fd]
    BY <1>0, <1>9, Accepted
  <2>2. UNCHANGED <<made, listenFd, others>> /\ Running' = Running
    BY <1>9 DEF Accept, Running, serverVars, otherVars
  <2>3. \A d \in Live' : \/ d \in Live /\ sock'[d] = sock[d]
                         \/ Conn(c) = Conn(d) /\ sock'[d] = fd
    BY <1>0, <2>1 DEF Live
  <2> QED
    BY <1>4, <2>1, <2>2, <2>3 DEF Entered
<1>10. ASSUME NEW c \in Clients, HandleRead(c) PROVE OwnDescriptor'
  <2>1. conn[c] # "none" /\ HandleClose(c) /\ c \in Live
    BY <1>0, <1>10 DEF HandleRead, BatchInv, AliveInv
  <2>2. /\ sock[c] \in Fds
        /\ conn' = [conn EXCEPT ![c] = IF c \in held THEN "closed" ELSE "dead"]
        /\ owner' = IF c \in held THEN owner ELSE [owner EXCEPT ![sock[c]] = Free]
    BY <1>0, <2>1, ConnectionClosed
  <2>3. UNCHANGED <<sock, made, listenFd, others>> /\ Running' = Running
    BY <1>10 DEF HandleRead, Running, serverVars, otherVars
  <2>4. CASE c \in held
    <3>1. Live' = Live /\ owner' = owner
      BY <1>0, <2>1, <2>2, <2>4 DEF Live
    <3> QED
      BY <2>3, <3>1, <1>15
  <2>5. CASE c \notin held
    <3>1. Live' = Live \ {c}
      BY <1>0, <2>2, <2>5 DEF Live
    <3>2. \A d \in Live' : sock[d] \notin {sock[c]}
      BY <1>2, <2>1, <3>1
    <3>3. \A fd \in Fds \ {sock[c]} : owner'[fd] = owner[fd]
      BY <1>0, <2>2, <2>5
    <3>4. /\ Running => listenFd \notin {sock[c]}
          /\ \A fd \in others : fd \notin {sock[c]}
      BY <1>2, <2>1
    <3> QED
      BY <1>3, <2>3, <3>1, <3>2, <3>3, <3>4
  <2> QED
    BY <2>4, <2>5
<1>11. ASSUME NEW fd \in Fds, OtherOpens(fd) PROVE OwnDescriptor'
  <2>1. /\ UNCHANGED <<conn, sock, made, listenFd>> /\ Running' = Running
        /\ owner[fd] = Free /\ owner' = [owner EXCEPT ![fd] = Other]
        /\ others' = others \union {fd}
    BY <1>11 DEF OtherOpens, Lowest, Running, serverVars, connVars
  <2>2. Live' = Live
    BY <2>1 DEF Live
  <2> QED
    BY <1>4, <2>1, <2>2
<1>12. ASSUME NEW fd \in Fds, OtherCloses(fd) PROVE OwnDescriptor'
  <2>1. /\ UNCHANGED <<conn, sock, made, listenFd>> /\ Running' = Running
        /\ fd \in others /\ others' = others \ {fd} /\ owner' = [owner EXCEPT ![fd] = Free]
    BY <1>12 DEF OtherCloses, Running, serverVars, connVars
  <2>2. Live' = Live /\ \A other \in Fds \ {fd} : owner'[other] = owner[other]
    BY <1>0, <2>1 DEF Live
  <2>3. /\ \A c \in Live : sock[c] \notin {fd}
        /\ Running => listenFd \notin {fd}
        /\ \A other \in others' : other \notin {fd}
    BY <1>2, <2>1
  <2> QED
    BY <1>3, <2>1, <2>2, <2>3
<1>13. ASSUME NEW c \in Clients, Release(c) PROVE OwnDescriptor'
  <2>1. UNCHANGED <<sock, made, listenFd, others>> /\ Running' = Running
    BY <1>13 DEF Release, Running, serverVars, otherVars
  <2>2. CASE c \in map
    <3>1. UNCHANGED <<conn, owner>> /\ Live' = Live
      BY <1>13, <2>2 DEF Release, Live
    <3> QED
      BY <2>1, <3>1, <1>15
  <2>3. CASE c \notin map
    <3>1. /\ c \in Live /\ conn' = [conn EXCEPT ![c] = "dead"]
          /\ owner' = [owner EXCEPT ![sock[c]] = Free]
      BY <1>0, <1>13, <2>3, Released
    <3>2. Live' = Live \ {c} /\ \A fd \in Fds \ {sock[c]} : owner'[fd] = owner[fd]
      BY <1>0, <3>1 DEF Live
    <3>3. /\ \A d \in Live' : sock[d] \notin {sock[c]}
          /\ Running => listenFd \notin {sock[c]}
          /\ \A fd \in others : fd \notin {sock[c]}
      BY <1>2, <3>1, <3>2
    <3> QED
      BY <1>3, <2>1, <3>2, <3>3
  <2> QED
    BY <2>2, <2>3
<1>14. CASE UNCHANGED vars
  <2>1. UNCHANGED <<owner, conn, sock, made, listenFd, others, phase>>
    BY <1>14 DEF vars, serverVars, connVars, otherVars
  <2> QED
    BY <1>2, <2>1 DEF OwnDescriptor, Live, Running
<1> QED
  BY <1>5, <1>6, <1>7, <1>8, <1>9, <1>10, <1>11, <1>12, <1>13, <1>14
  DEF Next, ServerStep, LoopStep, ClientStep, OtherStep

-----------------------------------------------------------------------------
(* Which descriptors are watched. *)

\* A descriptor that is closed late is one the poller does not know.
LEMMA UnwatchedClosed ==
  ASSUME IInv, OwnDescriptor, ~robbed',
         \/ CloseAgain
         \/ \E fd \in Fds : OtherCloses(fd)
         \/ \E c \in Clients \ map : Release(c)
  PROVE  poller'.channels = poller.channels /\ poller'.interest = poller.interest
<1>0. /\ TypeOK /\ PollInv /\ QueueInv /\ poller \in Epoll!Pollers
  BY PollerTyped DEF IInv
<1>1. ASSUME NEW fd, fd \notin poller.interest, poller' = Epoll!Closed(poller, {fd})
      PROVE  poller'.channels = poller.channels /\ poller'.interest = poller.interest
  <2>1. poller'.channels = poller.channels /\ poller'.interest = poller.interest \ {fd}
    BY <1>0, <1>1, ClosedTables
  <2>2. poller.interest \ {fd} = poller.interest
    BY <1>1
  <2> QED
    BY <2>1, <2>2
<1>2. CASE CloseAgain
  <2>1. listenFd \in Fds /\ owner[listenFd] = Free /\ poller' = Epoll!Closed(poller, {listenFd})
    BY <1>0, <1>2 DEF CloseAgain, TypeOK
  <2> QED
    BY <1>0, <1>1, <2>1, OwnedByNobody
<1>3. ASSUME NEW fd \in Fds, OtherCloses(fd)
      PROVE  poller'.channels = poller.channels /\ poller'.interest = poller.interest
  <2>1. ~robbed /\ fd \in others /\ poller' = Epoll!Closed(poller, {fd})
    BY <1>3 DEF OtherCloses, historyVars
  <2>2. owner[fd] = Other
    BY <2>1 DEF OwnDescriptor
  <2> QED
    BY <1>0, <1>1, <2>1, <2>2, OwnedByNobody
<1>4. ASSUME NEW c \in Clients \ map, Release(c)
      PROVE  poller'.channels = poller.channels /\ poller'.interest = poller.interest
  <2>1. ~robbed /\ c \in Live /\ poller' = Epoll!Closed(poller, {sock[c]})
    BY <1>0, <1>4 DEF Release, historyVars, TypeOK
  <2>2. owner[sock[c]] = Conn(c)
    BY <2>1 DEF OwnDescriptor
  <2>3. sock[c] \notin poller.interest
    BY <1>0, <2>2 DEF PollInv
  <2> QED
    BY <1>1, <2>1, <2>3
<1> QED
  BY <1>2, <1>3, <1>4

LEMMA AgreeStep ==
  ASSUME ~HandlersAct, IInv, AliveInv, OwnDescriptor, AgreeInv, [Next]_vars
  PROVE  AgreeInv'
<1>0. TypeOK /\ PollInv /\ BatchInv /\ QueueInv
  BY DEF IInv
<1> SUFFICES ASSUME platform' = "linux", ~robbed', NEW fd \in Fds \ dropped'
             PROVE  poller'.channels[fd] # Free <=> fd \in poller'.interest
  BY DEF AgreeInv
<1> DEFINE Goal == poller'.channels[fd] # Free <=> fd \in poller'.interest
<1>1. /\ platform = "linux" /\ ~robbed /\ dropped \subseteq dropped'
  <2>1. CASE CloseAgain
    BY <2>1 DEF CloseAgain
  <2>2. CASE DestroyServer
    BY <2>2 DEF DestroyServer
  <2>3. CASE UNCHANGED <<platform, robbed, dropped>>
    BY <2>3
  <2> QED
    BY <2>1, <2>2, <2>3
    DEF Next, ServerStep, LoopStep, ClientStep, OtherStep, MakeServer, Start, Poll, HandleConn,
        Accept, AcceptFails, HandleRead, Connect, Close, OtherOpens, OtherCloses, Release, vars,
        historyVars
<1>2. poller.channels[fd] # Free <=> fd \in poller.interest
  BY <1>1 DEF AgreeInv
<1>3. CASE poller'.channels = poller.channels /\ poller'.interest = poller.interest
  BY <1>2, <1>3
<1>4. ASSUME NEW new \in Fds, NEW channel \in Channels, Entered(new, channel) PROVE Goal
  BY <1>1, <1>2, <1>4, ChannelFacts DEF Entered, SameElsewhere
<1>5. CASE MakeServer
  <2>1. Listen(made + 1) \in Channels
    BY <1>0, <1>5, MadeServer, ChannelFacts
  <2> QED
    BY <1>0, <1>4, <1>5, <2>1, MadeServer
<1>6. CASE Accept
  <2>1. PICK c \in Clients, new \in Fds : Entered(new, Conn(c))
    BY <1>0, <1>6, Accepted
  <2>2. Conn(c) \in Channels
    BY ChannelFacts
  <2> QED
    BY <1>4, <2>1, <2>2
<1>7. CASE DestroyServer
  <2>1. /\ dropped' = dropped \union Ended /\ listenFd \notin poller'.interest
        /\ \A other \in Fds \ {listenFd} :
             /\ poller'.channels[other] = poller.channels[other]
             /\ other \in poller'.interest <=> other \in poller.interest \ Ended
        /\ /\ platform = "linux" /\ listenFd \notin Ended
           /\ poller.channels[listenFd] # Free <=> listenFd \in poller.interest
           => poller'.channels[listenFd] = Free
    BY <1>0, <1>7, ServerDestroyed
  <2>2. fd \notin Ended
    BY <2>1
  <2>3. CASE fd = listenFd
    BY <1>1, <1>2, <2>1, <2>2, <2>3
  <2>4. CASE fd # listenFd
    BY <1>2, <2>1, <2>2, <2>4
  <2> QED
    BY <2>3, <2>4
<1>8. ASSUME NEW c \in Clients, HandleRead(c) PROVE Goal
  <2>1. conn[c] # "none" /\ HandleClose(c)
    BY <1>0, <1>8 DEF HandleRead, BatchInv
  <2>2. /\ SameElsewhere(poller, poller', sock[c]) /\ sock[c] \notin poller'.interest
        /\ platform = "linux" /\ (poller.channels[sock[c]] # Free <=> sock[c] \in poller.interest)
             => poller'.channels[sock[c]] = Free
    BY <1>0, <2>1, ConnectionClosed
  <2>3. CASE fd = sock[c]
    BY <1>1, <1>2, <2>2, <2>3
  <2>4. CASE fd # sock[c]
    BY <1>2, <2>2, <2>4 DEF SameElsewhere
  <2> QED
    BY <2>3, <2>4
<1>9. CASE CloseAgain \/ \E other \in Fds : OtherCloses(other)
  BY <1>3, <1>9, UnwatchedClosed
<1>10. ASSUME NEW c \in Clients, Release(c) PROVE Goal
  <2>1. CASE c \in map
    BY <1>3, <1>10, <2>1 DEF Release
  <2>2. CASE c \notin map
    BY <1>3, <1>10, <2>2, UnwatchedClosed
  <2> QED
    BY <2>1, <2>2
<1>11. CASE \/ Start \/ Poll \/ HandleConn \/ AcceptFails \/ Connect
            \/ \E c \in Clients : Close(c)
            \/ \E other \in Fds : OtherOpens(other)
  BY <1>3, <1>11 DEF Start, Poll, HandleConn, AcceptFails, Connect, Close, OtherOpens
<1>12. CASE UNCHANGED vars
  BY <1>3, <1>12 DEF vars
<1> QED
  BY <1>5, <1>6, <1>7, <1>8, <1>9, <1>10, <1>11, <1>12
  DEF Next, ServerStep, LoopStep, ClientStep, OtherStep

LEMMA WatchedStep ==
  ASSUME ~HandlersAct, IInv, QuietInv, [Next]_vars
  PROVE  OpenIsWatched'
<1>0. /\ TypeOK /\ PollInv /\ BatchInv /\ QueueInv
      /\ AliveInv /\ OwnDescriptor /\ AgreeInv /\ OpenIsWatched
      /\ map \subseteq Live
  BY DEF IInv, QuietInv, TypeOK
<1> SUFFICES ASSUME ~robbed' PROVE OpenIsWatched'
  BY DEF OpenIsWatched, Spoilt
<1>1. platform' = platform /\ ~robbed /\ dropped \subseteq dropped'
  <2>1. CASE CloseAgain
    BY <2>1 DEF CloseAgain
  <2>2. CASE DestroyServer
    BY <2>2 DEF DestroyServer
  <2>3. CASE UNCHANGED <<platform, robbed, dropped>>
    BY <2>3
  <2> QED
    BY <2>1, <2>2, <2>3
    DEF Next, ServerStep, LoopStep, ClientStep, OtherStep, MakeServer, Start, Poll, HandleConn,
        Accept, AcceptFails, HandleRead, HandleClose, NewConnection, Connect, Close, OtherOpens,
        OtherCloses, Release, vars, historyVars
<1>2. /\ \A c \in Live : sock[c] \in Fds /\ owner[sock[c]] = Conn(c)
      /\ \A c, d \in Live : sock[c] = sock[d] => c = d
      /\ Running => /\ listenFd \in Fds /\ owner[listenFd] = Listen(made)
                    /\ \A c \in Live : sock[c] # listenFd
  BY <1>0, <1>1, Owners
<1> DEFINE Kept(fd) == /\ poller'.channels[fd] = poller.channels[fd]
                       /\ fd \in poller.interest => fd \in poller'.interest
           Still(fd, channel) == \/ platform = "linux" /\ fd \in dropped'
                                 \/ poller'.channels[fd] = channel /\ fd \in poller'.interest
<1>3. ASSUME \A c \in map' : Still(sock'[c], Conn(c)),
             Running' => Still(listenFd', Listen(made'))
      PROVE  OpenIsWatched'
  BY <1>1, <1>3 DEF OpenIsWatched, Spoilt, Watched
<1>4. /\ \A c \in map : Kept(sock[c]) => Still(sock[c], Conn(c))
      /\ Running /\ Kept(listenFd) => Still(listenFd, Listen(made))
  BY <1>0, <1>1 DEF OpenIsWatched, Spoilt, Watched
<1> HIDE DEF Still
\* Whoever stays open keeps its entries.
<1>5. ASSUME map' \subseteq map, UNCHANGED <<sock, made, listenFd>>, Running' => Running,
             \A c \in map' : Kept(sock[c]), Running => Kept(listenFd)
      PROVE  OpenIsWatched'
  BY <1>3, <1>4, <1>5
<1>6. ASSUME NEW new \in Fds, NEW channel \in Channels, Entered(new, channel),
             \A c \in map' : \/ c \in map /\ sock'[c] = sock[c]
                             \/ channel = Conn(c) /\ sock'[c] = new,
             \/ Running' => Running /\ UNCHANGED <<made, listenFd>>
             \/ channel = Listen(made') /\ listenFd' = new
      PROVE  OpenIsWatched'
  <2>1. Still(new, channel)
    BY <1>0, <1>1, <1>6, PollerTyped DEF Entered, AgreeInv, Still
  <2>2. /\ \A c \in map : sock[c] \in Fds \ {new}
        /\ Running => listenFd \in Fds \ {new}
    BY <1>0, <1>2, <1>6 DEF Entered, Listen, Conn, Free
  <2>3. \A fd \in Fds \ {new} : Kept(fd)
    BY <1>6 DEF Entered, SameElsewhere
  <2>4. \A c \in map' : Still(sock'[c], Conn(c))
    BY <1>4, <1>6, <2>1, <2>2, <2>3
  <2>5. Running' => Still(listenFd', Listen(made'))
    BY <1>4, <1>6, <2>1, <2>2, <2>3
  <2> QED
    BY <1>3, <2>4, <2>5
<1>7. CASE MakeServer
  <2>1. PICK fd \in Fds : listenFd' = fd /\ Entered(fd, Listen(made + 1))
    BY <1>0, <1>7, MadeServer
  <2>2. UNCHANGED <<sock, map>> /\ made' = made + 1 /\ Listen(made + 1) \in Channels
    BY <1>0, <1>7, MadeServer, ChannelFacts DEF MakeServer, connVars, mapVars
  <2> QED
    BY <1>6, <2>1, <2>2
<1>8. CASE Accept
  <2>1. PICK c \in Clients, fd \in Fds :
          /\ c \notin Live /\ Entered(fd, Conn(c))
          /\ sock' = [sock EXCEPT ![c] = fd] /\ map' = map \union {c}
    BY <1>0, <1>8, Accepted
  <2>2. UNCHANGED <<made, listenFd>> /\ Running' = Running /\ Conn(c) \in Channels
    BY <1>8, ChannelFacts DEF Accept, Running, serverVars
  <2>3. \A d \in map' : \/ d \in map /\ sock'[d] = sock[d]
                        \/ Conn(c) = Conn(d) /\ sock'[d] = fd
    BY <1>0, <2>1 DEF TypeOK, Live
  <2> QED
    BY <1>6, <2>1, <2>2, <2>3
<1>9. CASE DestroyServer
  BY <1>3, <1>9 DEF DestroyServer, Running
<1>10. ASSUME NEW c \in Clients, HandleRead(c) PROVE OpenIsWatched'
  <2>1. conn[c] # "none" /\ HandleClose(c) /\ c \in map
    BY <1>0, <1>10 DEF HandleRead, BatchInv, AliveInv
  <2>2. map' = map \ {c} /\ SameElsewhere(poller, poller', sock[c])
    BY <1>0, <2>1, ConnectionClosed
  <2>3. UNCHANGED <<sock, made, listenFd>> /\ Running' = Running
    BY <1>10 DEF HandleRead, Running, serverVars
  <2>4. /\ \A d \in map' : sock[d] \in Fds \ {sock[c]}
        /\ Running => listenFd \in Fds \ {sock[c]}
    BY <1>0, <1>2, <2>1, <2>2
  <2> QED
    BY <1>5, <2>2, <2>3, <2>4 DEF SameElsewhere
<1>11. CASE CloseAgain
  <2>1. /\ poller'.channels = poller.channels /\ poller'.interest = poller.interest
        /\ UNCHANGED <<sock, map>> /\ ~Running'
    BY <1>0, <1>11, UnwatchedClosed DEF CloseAgain, Running, connVars, mapVars
  <2> QED
    BY <1>3, <1>4, <2>1
<1>12. ASSUME NEW fd \in Fds, OtherCloses(fd) PROVE OpenIsWatched'
  <2>1. /\ poller'.channels = poller.channels /\ poller'.interest = poller.interest
        /\ UNCHANGED <<sock, made, listenFd, map>> /\ Running' = Running
    BY <1>0, <1>12, UnwatchedClosed DEF OtherCloses, Running, serverVars, connVars, mapVars
  <2> QED
    BY <1>5, <2>1
<1>13. ASSUME NEW c \in Clients, Release(c) PROVE OpenIsWatched'
  <2>1. UNCHANGED <<sock, made, listenFd, map>> /\ Running' = Running
    BY <1>13 DEF Release, Running, serverVars, mapVars
  <2>2. poller'.channels = poller.channels /\ poller'.interest = poller.interest
    BY <1>0, <1>13, UnwatchedClosed DEF Release
  <2> QED
    BY <1>5, <2>1, <2>2
<1>14. CASE \/ Start \/ Poll \/ HandleConn \/ AcceptFails \/ Connect
            \/ \E c \in Clients : Close(c)
            \/ \E fd \in Fds : OtherOpens(fd)
  BY <1>5, <1>14 DEF Start, Poll, HandleConn, AcceptFails, Connect, Close, OtherOpens, Running,
                     serverVars, connVars, mapVars
<1>15. CASE UNCHANGED vars
  BY <1>5, <1>15 DEF vars, Running, serverVars, connVars, mapVars
<1> QED
  BY <1>7, <1>8, <1>9, <1>10, <1>11, <1>12, <1>13, <1>14, <1>15
  DEF Next, ServerStep, LoopStep, ClientStep, OtherStep

LEMMA InitQuietInv == Init => QuietInv
<1> SUFFICES ASSUME Init PROVE QuietInv
  OBVIOUS
<1>1. poller = [channels |-> [fd \in Fds |-> Free], interest |-> {}]
  BY DEF Init, Epoll!NewPoller
<1>2. AliveInv /\ OwnDescriptor
  BY DEF Init, AliveInv, OwnDescriptor, Running, Live
<1>3. AgreeInv /\ OpenIsWatched
  BY <1>1 DEF Init, AgreeInv, OpenIsWatched, Running
<1> QED
  BY <1>2, <1>3 DEF QuietInv

LEMMA QuietInvariance ==
  ASSUME ~HandlersAct
  PROVE  Spec => []QuietInv
<1>1. IInv /\ QuietInv /\ [Next]_vars => QuietInv'
  BY AliveStep, OwnStep, AgreeStep, WatchedStep DEF QuietInv
<1> QED
  BY <1>1, InitQuietInv, Invariance, PTL DEF Spec

-----------------------------------------------------------------------------
(* The properties. *)

\* epoller.cpp:99-121, kqueue_poller.cpp: every channel the poller would return for what
\* the kernel reports belongs to a connection or an acceptor that exists, whatever
\* handlers do, though Epoller's channels_ may hold others.
THEOREM PollReturnsAlive ==
  Spec => [](\A fd \in poller.interest : Alive(poller.channels[fd]))
<1>1. IInv => \A fd \in poller.interest : Alive(poller.channels[fd])
  BY KnownIsAlive
<1> QED
  BY <1>1, Invariance, PTL

\* event_loop.cpp:45-47: the loop handles a channel only while its connection or its
\* acceptor exists, if handlers leave servers to functors.
THEOREM BatchIsAlive ==
  ASSUME ~HandlersAct
  PROVE  Spec => []ReportsAlive
<1>1. IInv /\ QuietInv => ReportsAlive
  <2> SUFFICES ASSUME IInv, QuietInv PROVE ReportsAlive
    OBVIOUS
  <2>1. \A fd \in poller.interest : Alive(poller.channels[fd])
    BY KnownIsAlive
  <2>2. batch \subseteq Channels /\ map \subseteq Live /\ AliveInv
    BY DEF IInv, TypeOK, QuietInv
  <2>3. \A channel \in batch : Alive(channel)
    BY <2>2, ChannelFacts DEF AliveInv, Alive
  <2> QED
    BY <2>1, <2>3 DEF ReportsAlive
<1> QED
  BY <1>1, Invariance, QuietInvariance, PTL

\* socket.h:8-12, acceptor.cpp:36-39: a descriptor that is open belongs to the one that
\* closes it, until the acceptor's second close() has hit a file of another thread.
THEOREM DescriptorsAreOwned ==
  ASSUME ~HandlersAct
  PROVE  Spec => []OwnDescriptor
<1>1. QuietInv => OwnDescriptor
  BY DEF QuietInv
<1> QED
  BY <1>1, QuietInvariance, PTL

\* epoller.cpp:72-91, kqueue_poller.cpp: an open connection and the listening socket are
\* watched under their own descriptor, unless one of the two known faults spoilt it.
THEOREM OpenOnesAreWatched ==
  ASSUME ~HandlersAct
  PROVE  Spec => []OpenIsWatched
<1>1. QuietInv => OpenIsWatched
  BY DEF QuietInv
<1> QED
  BY <1>1, QuietInvariance, PTL
=============================================================================
