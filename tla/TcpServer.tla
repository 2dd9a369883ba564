------------------------------ MODULE TcpServer ------------------------------
(***************************************************************************)
(* TcpServer of net/tcp_server.cpp with its Acceptor and its connections,  *)
(* over the process's descriptors: which are open and whose, which the     *)
(* poller of the loop knows, and which are used again.                     *)
(*                                                                         *)
(* Everything here runs on the loop's thread, except the clients, a user   *)
(* who gives up a reference to a connection, and other threads that open   *)
(* and close files of their own.  Of a connection there is what matters to *)
(* the server: what it does with its output is TcpConnection's.            *)
(***************************************************************************)
EXTENDS Integers, Sequences

CONSTANTS
  Platforms,      \* subset of {"linux", "mac"}: which poller the build has
  Fds,            \* descriptors the process may have
  HandlersAct,    \* handlers make, start and destroy servers
  MaxServers,     \* bound: servers made, one after the other
  MaxClients,     \* bound: clients that connect
  MaxOpened,      \* bound: files that other threads open
  MaxFails        \* bound: calls of accept() that fail

ASSUME ConstantsAssumption ==
  /\ Platforms \subseteq {"linux", "mac"} /\ Fds \subseteq Nat
  /\ HandlersAct \in BOOLEAN
  /\ MaxServers \in Nat /\ MaxClients \in Nat /\ MaxOpened \in Nat /\ MaxFails \in Nat

Servers == 1 .. MaxServers
Clients == 1 .. MaxClients
NoFd == -1

\* Who has a descriptor open; the first two also stand for channels.
Listen(s) == <<"listen", s>>
Conn(c) == <<"conn", c>>
Other == <<"other", 0>>
Free == <<"free", 0>>
Channels == {Listen(s) : s \in Servers} \union {Conn(c) : c \in Clients}

Epoll == INSTANCE Epoller WITH NoChannel <- Free
Kqueue == INSTANCE KqueuePoller WITH NoChannel <- Free

VARIABLES
  platform,
  owner,       \* the process's descriptors: who has each open
  poller,      \* channels_ and the kernel's interest set, or filters
  made,        \* servers made so far; the last one is the current one
  phase,       \* of that: "none", "made", "listening", "closing" (in ~Acceptor())
  listenFd,    \* its listenfd_
  waiting,     \* clients its listening socket has in its queue
  arrived,     \* clients that have connected, 1, 2, ...
  fin,         \* clients that have closed their side
  conn,        \* a client's TcpConnection: "none", "open", "closed", "dead"
  sock,        \* its sockfd_
  map,         \* conn_map_, the connections with a descriptor ...
  ghosts,      \* ... and how many it has without
  held,        \* connections the user has a reference to
  batch,       \* channels poll() returned and not handled yet
  accepting,   \* the loop's thread is in accept()
  others,      \* descriptors that other threads have opened and not closed
  opened,      \* how many files they have opened
  fails,       \* calls of accept() that failed
  dropped,     \* history: descriptors of connections a server was destroyed with
  robbed       \* history: a file of another thread was closed

serverVars == <<made, phase, listenFd>>
clientVars == <<arrived, fin>>
connVars == <<conn, sock, held>>
mapVars == <<map, ghosts>>
loopVars == <<batch, accepting>>
otherVars == <<others, opened>>
historyVars == <<dropped, robbed>>
vars == <<platform, owner, poller, serverVars, waiting, clientVars, connVars, mapVars, loopVars,
          otherVars, fails, historyVars>>

Live == {c \in Clients : conn[c] \in {"open", "closed"}}

TypeOK ==
  /\ platform \in Platforms
  /\ owner \in [Fds -> Channels \union {Other, Free}]
  /\ poller \in Epoll!Pollers
  /\ made \in 0 .. MaxServers
  /\ phase \in {"none", "made", "listening", "closing"}
  /\ listenFd \in Fds \union {NoFd} /\ (listenFd = NoFd <=> phase = "none")
  /\ waiting \in Seq(Clients)
  /\ arrived \in 0 .. MaxClients /\ fin \subseteq 1 .. arrived
  /\ conn \in [Clients -> {"none", "open", "closed", "dead"}]
  /\ sock \in [Clients -> Fds \union {NoFd}]
  /\ map \subseteq Live /\ ghosts \in Nat
  /\ held \subseteq Live
  /\ batch \subseteq Channels /\ accepting \in BOOLEAN
  /\ others \subseteq Fds
  /\ opened \in 0 .. MaxOpened
  /\ fails \in 0 .. MaxFails + MaxOpened
  /\ dropped \subseteq Fds /\ robbed \in BOOLEAN

Init ==
  /\ platform \in Platforms
  /\ owner = [fd \in Fds |-> Free] /\ poller = Epoll!NewPoller
  /\ made = 0 /\ phase = "none" /\ listenFd = NoFd
  /\ waiting = <<>> /\ arrived = 0 /\ fin = {}
  /\ conn = [c \in Clients |-> "none"] /\ sock = [c \in Clients |-> NoFd] /\ held = {}
  /\ map = {} /\ ghosts = 0
  /\ batch = {} /\ accepting = FALSE
  /\ others = {} /\ opened = 0 /\ fails = 0
  /\ dropped = {} /\ robbed = FALSE

\* The kernel gives the lowest descriptor that is free.
Lowest(fd) == owner[fd] = Free /\ \A other \in Fds : owner[other] = Free => fd <= other
Full == \A fd \in Fds : owner[fd] # Free

Updated(p, fd, channel) ==
  IF platform = "linux" THEN Epoll!Updated(p, fd, channel) ELSE Kqueue!Updated(p, fd, channel)

\* remove() of a connection's channel, and of the acceptor's.
Removed(p, fd) == IF platform = "linux" THEN Epoll!Removed(p, fd) ELSE Kqueue!Removed(p, fd, TRUE)
RemovedListening(p, fd) ==
  IF platform = "linux" THEN Epoll!Removed(p, fd) ELSE Kqueue!Removed(p, fd, FALSE)

LoopFree == phase # "closing" /\ ~accepting

\* User code runs as a functor or outside loop(), and with HandlersAct in handlers.
UserCode == LoopFree /\ (batch = {} \/ HandlersAct)

-----------------------------------------------------------------------------
(* The server.                                                             *)

\* TcpServer::TcpServer() and Acceptor::Acceptor(): the descriptor is registered
\* before it listens.
MakeServer ==
  LET s == made + 1
  IN  /\ UserCode /\ phase = "none" /\ made < MaxServers
      /\ \E fd \in Fds :
           /\ Lowest(fd)
           /\ listenFd' = fd
           /\ owner' = [owner EXCEPT ![fd] = Listen(s)]
           /\ poller' = Updated(poller, fd, Listen(s))
      /\ made' = s /\ phase' = "made"
      /\ UNCHANGED <<platform, waiting, clientVars, connVars, mapVars, loopVars, otherVars, fails,
                     historyVars>>

\* start()
Start ==
  /\ UserCode /\ phase = "made"
  /\ phase' = "listening"
  /\ UNCHANGED <<platform, owner, poller, made, listenFd, waiting, clientVars, connVars, mapVars,
                 loopVars, otherVars, fails, historyVars>>

\* ~TcpServer() and ~Acceptor() up to its close().  The connections are destroyed
\* without leaving the poller, the acceptor after it has.  The user has given up
\* its references to them.
DestroyServer ==
  LET ended == {sock[c] : c \in map}
  IN  /\ UserCode /\ phase \in {"made", "listening"}
      /\ map \intersect held = {}
      /\ phase' = "closing"
      /\ owner' = [fd \in Fds |-> IF fd \in ended \union {listenFd} THEN Free ELSE owner[fd]]
      /\ poller' = Epoll!Closed(RemovedListening(Epoll!Closed(poller, ended), listenFd), {listenFd})
      /\ conn' = [c \in Clients |-> IF c \in map THEN "dead" ELSE conn[c]]
      /\ map' = {} /\ ghosts' = 0
      /\ waiting' = <<>>
      /\ dropped' = dropped \union ended
      /\ UNCHANGED <<platform, made, listenFd, clientVars, sock, held, loopVars, otherVars, fails,
                     robbed>>

\* ~Socket() of accept_sock_ closes the same descriptor again, by now perhaps that
\* of another thread's file.
CloseAgain ==
  /\ phase = "closing"
  /\ phase' = "none" /\ listenFd' = NoFd
  /\ owner' = [owner EXCEPT ![listenFd] = Free]
  /\ poller' = Epoll!Closed(poller, {listenFd})
  /\ robbed' = (robbed \/ owner[listenFd] # Free)
  /\ UNCHANGED <<platform, made, waiting, clientVars, connVars, mapVars, loopVars, otherVars,
                 fails, dropped>>

-----------------------------------------------------------------------------
(* A turn of the loop.                                                     *)

\* What the kernel reports: a socket that does not listen yet has hung up, for epoll;
\* the end of a client's stream.  (accept() that is bound to fail counts as reported only
\* MaxFails times.)
Ready ==
  {fd \in Fds :
     \/ fd = listenFd /\ owner[fd] = Listen(made)
        /\ ((phase = "made" /\ platform = "linux") \/ waiting # <<>>)
        /\ (fails < MaxFails \/ (phase = "listening" /\ ~Full))
     \/ \E c \in fin : owner[fd] = Conn(c)}

Poll ==
  /\ LoopFree /\ batch = {}
  /\ batch' = Epoll!Active(poller, Ready)
  /\ batch' # {}
  /\ UNCHANGED <<platform, owner, poller, serverVars, waiting, clientVars, connVars, mapVars,
                 accepting, otherVars, fails, historyVars>>

\* handleConn() up to accept(), which waits if there is nobody to accept.
HandleConn ==
  /\ LoopFree
  /\ Listen(made) \in batch
  /\ batch' = batch \ {Listen(made)}
  /\ accepting' = TRUE
  /\ UNCHANGED <<platform, owner, poller, serverVars, waiting, clientVars, connVars, mapVars,
                 otherVars, fails, historyVars>>

\* newConnection() and connectEstablished(); the connection callback may keep a
\* reference.
NewConnection(c, fd) ==
  /\ conn' = [conn EXCEPT ![c] = "open"] /\ sock' = [sock EXCEPT ![c] = fd]
  /\ map' = map \union {c}
  /\ poller' = Updated(poller, fd, Conn(c))
  /\ held' \in {held, held \union {c}}
  /\ UNCHANGED ghosts

\* Mutant: accept() is called until it fails, on a socket that waits.
AcceptAll ==
  /\ accepting /\ phase = "listening" /\ waiting # <<>>
  /\ waiting' = Tail(waiting)
  /\ \E fd \in Fds :
       /\ Lowest(fd)
       /\ owner' = [owner EXCEPT ![fd] = Conn(Head(waiting))]
       /\ NewConnection(Head(waiting), fd)
  /\ UNCHANGED <<platform, serverVars, clientVars, loopVars, otherVars, fails, historyVars>>

Accept ==
  /\ accepting /\ phase = "listening" /\ waiting # <<>>
  /\ accepting' = FALSE
  /\ waiting' = Tail(waiting)
  /\ \E fd \in Fds :
       /\ Lowest(fd)
       /\ owner' = [owner EXCEPT ![fd] = Conn(Head(waiting))]
       /\ NewConnection(Head(waiting), fd)
  /\ UNCHANGED <<platform, serverVars, clientVars, batch, otherVars, fails, historyVars>>

\* accept() fails, and -1 is made a connection, which epoll_ctl() refuses and which
\* nothing closes.
AcceptFails ==
  /\ accepting /\ (phase = "made" \/ Full)
  /\ accepting' = FALSE
  /\ fails' = fails + 1
  /\ ghosts' = ghosts + 1
  /\ UNCHANGED <<platform, owner, poller, serverVars, waiting, clientVars, connVars, map, batch,
                 otherVars, historyVars>>

\* The last reference to a connection is gone: ~TcpConnection() and ~Socket().
Destroyed(c) ==
  /\ conn' = [conn EXCEPT ![c] = "dead"]
  /\ owner' = [owner EXCEPT ![sock[c]] = Free]

\* Mutant: removeConnection() does not find the name.
HandleCloseKeepingEntry(c) ==
  /\ conn' = [conn EXCEPT ![c] = IF c \in held THEN "closed" ELSE "dead"]
  /\ poller' = Removed(poller, sock[c])
  /\ UNCHANGED <<platform, map, owner>>

\* Mutant: the descriptor is closed before its channel is removed.
HandleCloseEarly(c) ==
  /\ map' = map \ {c}
  /\ IF c \in held
     THEN conn' = [conn EXCEPT ![c] = "closed"] /\ poller' = Removed(poller, sock[c])
          /\ UNCHANGED owner
     ELSE Destroyed(c) /\ poller' = Removed(Epoll!Closed(poller, {sock[c]}), sock[c])

\* Mutant: the descriptor is closed whoever still has a reference.
HandleCloseAtOnce(c) ==
  /\ map' = map \ {c}
  /\ poller' = Epoll!Closed(Removed(poller, sock[c]), {sock[c]})
  /\ conn' = [conn EXCEPT ![c] = IF c \in held THEN "closed" ELSE "dead"]
  /\ owner' = [owner EXCEPT ![sock[c]] = Free]

\* handleClose() and removeConnection().
HandleClose(c) ==
  /\ map' = map \ {c}
  /\ LET without == Removed(poller, sock[c])
     IN  IF c \in held
         THEN conn' = [conn EXCEPT ![c] = "closed"] /\ poller' = without /\ UNCHANGED owner
         ELSE Destroyed(c) /\ poller' = Epoll!Closed(without, {sock[c]})

HandleRead(c) ==
  /\ LoopFree
  /\ Conn(c) \in batch
  /\ batch' = batch \ {Conn(c)}
  /\ HandleClose(c)
  /\ UNCHANGED <<platform, serverVars, waiting, clientVars, sock, ghosts, held, accepting,
                 otherVars, fails, historyVars>>

-----------------------------------------------------------------------------
(* The user, the clients, and other threads.                               *)

\* A reference is given up, on any thread.
Release(c) ==
  /\ c \in held
  /\ held' = held \ {c}
  /\ IF c \in map
     THEN UNCHANGED <<platform, conn, owner, poller>>
     ELSE Destroyed(c) /\ poller' = Epoll!Closed(poller, {sock[c]})
  /\ UNCHANGED <<platform, serverVars, waiting, clientVars, sock, mapVars, loopVars, otherVars,
                 fails, historyVars>>

Connect ==
  /\ phase = "listening" /\ arrived < MaxClients
  /\ arrived' = arrived + 1
  /\ waiting' = Append(waiting, arrived')
  /\ UNCHANGED <<platform, owner, poller, serverVars, fin, connVars, mapVars, loopVars, otherVars,
                 fails, historyVars>>

Close(c) ==
  /\ c <= arrived
  /\ fin' = fin \union {c}
  /\ fin' # fin
  /\ UNCHANGED <<platform, owner, poller, serverVars, waiting, arrived, connVars, mapVars,
                 loopVars, otherVars, fails, historyVars>>

OtherOpens(fd) ==
  /\ Lowest(fd) /\ opened < MaxOpened
  /\ others' = others \union {fd} /\ opened' = opened + 1
  /\ owner' = [owner EXCEPT ![fd] = Other]
  /\ UNCHANGED <<platform, poller, serverVars, waiting, clientVars, connVars, mapVars, loopVars,
                 fails, historyVars>>

OtherCloses(fd) ==
  /\ fd \in others
  /\ others' = others \ {fd}
  /\ owner' = [owner EXCEPT ![fd] = Free]
  /\ poller' = Epoll!Closed(poller, {fd})
  /\ UNCHANGED <<platform, opened, serverVars, waiting, clientVars, connVars, mapVars, loopVars,
                 fails, historyVars>>

-----------------------------------------------------------------------------
ServerStep == MakeServer \/ Start \/ DestroyServer \/ CloseAgain

LoopStep ==
  \/ Poll \/ HandleConn \/ Accept \/ AcceptFails
  \/ \E c \in Clients : HandleRead(c)

ClientStep == Connect \/ \E c \in Clients : Close(c)
OtherStep == \E fd \in Fds : OtherOpens(fd) \/ OtherCloses(fd)

Next ==
  \/ ServerStep \/ LoopStep \/ ClientStep \/ OtherStep
  \/ \E c \in Clients : Release(c)

Spec == Init /\ [][Next]_vars

(***************************************************************************)
(* Fairness: the loop polls and handles what poll() returned, channel by   *)
(* channel, and a destructor that has begun ends.                          *)
(***************************************************************************)
FairSpec ==
  /\ Spec
  /\ WF_vars(Poll) /\ WF_vars(HandleConn) /\ WF_vars(Accept) /\ WF_vars(AcceptFails)
  /\ \A c \in Clients : WF_vars(HandleRead(c))
  /\ WF_vars(CloseAgain)

-----------------------------------------------------------------------------
(* Properties.                                                             *)

Running == phase \in {"made", "listening"}

\* Registered as channel, in both tables.
Watched(fd, channel) == poller.channels[fd] = channel /\ fd \in poller.interest

\* What went wrong before, and is not the fault of who suffers from it: a destroyed
\* server left fd in Epoller's channels_, or a file was closed by who did not own it.
Spoilt(fd) == (platform = "linux" /\ fd \in dropped) \/ robbed

\* epoller.cpp:72-91, tcp_connection.cpp:141-147, 203-211: every open connection and the
\* listening socket are watched for under their own descriptor, whoever had it
\* before, unless a server was destroyed while its connection had that number.
OpenIsWatched ==
  /\ \A c \in map : Spoilt(sock[c]) \/ Watched(sock[c], Conn(c))
  /\ Running => Spoilt(listenFd) \/ Watched(listenFd, Listen(made))

Alive(channel) ==
  \/ \E c \in Live : channel = Conn(c)
  \/ Running /\ channel = Listen(made)

\* epoller.cpp:99-121, event_loop.cpp:45-47: poll() and the loop use channels by bare
\* pointer, and never one that has been freed, though channels_ may have such
\* entries: the kernel knows none of their descriptors.
ReportsAlive ==
  /\ \A fd \in poller.interest : Alive(poller.channels[fd])
  /\ \A channel \in batch : Alive(channel)

\* socket.h:8-12, acceptor.cpp:36-39: a descriptor belongs to the one object that closes
\* it, connections, acceptor and other threads alike, unless the acceptor's second
\* close() came after another thread had the number.
OwnDescriptor ==
  robbed \/ /\ \A c \in Live : owner[sock[c]] = Conn(c)
            /\ Running => owner[listenFd] = Listen(made)
            /\ \A fd \in others : owner[fd] = Other

InQueue(c) == \E i \in DOMAIN waiting : waiting[i] = c

\* acceptor.cpp:48-56, tcp_connection.cpp:158-167, 203-211: while descriptors last,
\* every client that connects is accepted, and accept() never waits with the loop
\* behind it; a connection whose client has closed is closed, and its descriptor
\* freed unless the user keeps it.
ClientsServed ==
  \A c \in Clients :
    /\ <>[]~Full => (InQueue(c) ~> (~InQueue(c) \/ Spoilt(listenFd)))
    /\ (c \in map /\ c \in fin)
         ~> (conn[c] = "dead" \/ c \in held \ map \/ Spoilt(sock[c]))
=============================================================================
