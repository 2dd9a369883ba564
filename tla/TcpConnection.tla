---------------------------- MODULE TcpConnection ----------------------------
(***************************************************************************)
(* One connection of a TcpServer, from newConnection() to the destructor:  *)
(* net/tcp_connection.{h,cpp}, the parts of net/tcp_server.cpp that deal   *)
(* with it, its channel in net/linux/epoller.cpp, and its socket.          *)
(*                                                                         *)
(* The loop's thread handles one event or runs one functor at a time; the  *)
(* other threads reach it through a first-in first-out queue of functors,  *)
(* which is what EventLoop implements (TaskQueue).  User code on the       *)
(* loop's thread runs at the end of a handler, and is an action of its     *)
(* own.  Socket::accept() leaves the socket blocking: write() returns when *)
(* everything is in the kernel's buffer, on an error, or when a signal     *)
(* interrupts it.  The output is a sequence of bytes, numbered in the      *)
(* order sendInLoop() was called for them.                                 *)
(***************************************************************************)
EXTENDS Integers, Sequences

CONSTANTS
  Threads,        \* threads other than the loop's that get the connection
  Closers,        \* those of them that also call shutdown()
  ServerStops,    \* the server may be destroyed while the connection is open
  Garbage,        \* what update()'s uninitialised mask may contain
  SndCap,         \* room in the socket's send buffer
  MsgLens,        \* lengths of messages
  MaxBytes,       \* bound: bytes sendInLoop() was called for
  MaxSends,       \* bound: messages one thread sends
  MaxInputs,      \* bound: times the peer sends
  MaxSignals      \* bound: signals that interrupt a write()

ASSUME ConstantsAssumption ==
  /\ Closers \subseteq Threads
  /\ ServerStops \in BOOLEAN
  /\ Garbage \subseteq {"IN", "OUT"}
  /\ SndCap \in Nat \ {0}
  /\ MsgLens \subseteq Nat \ {0}
  /\ {MaxBytes, MaxSends, MaxInputs, MaxSignals} \subseteq Nat

VARIABLES
  object,      \* "none", "live", "dead"
  state,       \* state_
  events,      \* channel_->events()
  out,         \* outputBuffer_
  inMap,       \* the server's conn_map_ holds it
  held,        \* other threads that hold it
  registered,  \* Epoller's channels_ holds its channel
  interest,    \* the kernel's mask for its descriptor
  queue,       \* functors queued for the loop
  write,       \* the write() the loop's thread is in
  place,       \* where each other thread is
  sends,       \* messages each other thread sent
  readable,    \* the socket has input
  fin,         \* the peer has closed its side
  reset,       \* a reset: "no", "error" (not seen by read() yet), "seen"
  snd,         \* the socket's send buffer
  shut,        \* shutdown(SHUT_WR) was called
  delivered,   \* history: bytes the peer read
  accepted,    \* bytes sendInLoop() was called for
  inputs,      \* times the peer sent
  signals,     \* signals that interrupted a write()
  early,       \* history: a thread's functor was not what shut the socket
  before       \* history: bytes sendInLoop() was called for before that

connVars == <<object, state, events, out, inMap>>
pollVars == <<registered, interest>>
threadVars == <<held, place, sends>>
peerVars == <<readable, fin, reset, delivered, inputs>>
endVars == <<early, before>>
vars == <<connVars, pollVars, threadVars, queue, write, peerVars, snd, shut,
          accepted, signals, endVars>>

States == {"kDisconnected", "kConnecting", "kConnected", "kDisconnecting"}
\* late: queued after somebody had asked for the end.
Functors == [op : {"send"}, len : MsgLens, late : BOOLEAN] \union {[op |-> "shutdown"]}
Calls == [from : {"send", "handleWrite"}, todo : Seq(1 .. MaxBytes), n : 0 .. MaxBytes]
NoWrite == [from |-> "none"]

TypeOK ==
  /\ object \in {"none", "live", "dead"}
  /\ state \in States
  /\ events \subseteq {"READ", "WRITE"}
  /\ out \in Seq(1 .. MaxBytes)
  /\ inMap \in BOOLEAN
  /\ held \subseteq Threads
  /\ registered \in BOOLEAN
  /\ interest \subseteq {"IN", "OUT"}
  /\ queue \in Seq(Functors)
  /\ write \in Calls \union {NoWrite}
  /\ place \in [Threads -> {"idle", "send", "shutdown", "queueShutdown"}]
  /\ sends \in [Threads -> 0 .. MaxSends]
  /\ readable \in BOOLEAN /\ fin \in BOOLEAN
  /\ reset \in {"no", "error", "seen"}
  /\ snd \in Seq(1 .. MaxBytes) /\ Len(snd) <= SndCap
  /\ shut \in BOOLEAN
  /\ delivered \in Seq(1 .. MaxBytes)
  /\ accepted \in 0 .. MaxBytes
  /\ inputs \in 0 .. MaxInputs
  /\ signals \in 0 .. MaxSignals
  /\ early \in BOOLEAN /\ before \in 0 .. MaxBytes

Init ==
  /\ object = "none" /\ state = "kConnecting" /\ events = {} /\ out = <<>>
  /\ inMap = FALSE
  /\ registered = FALSE /\ interest = {}
  /\ held = {} /\ place = [t \in Threads |-> "idle"] /\ sends = [t \in Threads |-> 0]
  /\ queue = <<>> /\ write = NoWrite
  /\ readable = FALSE /\ fin = FALSE /\ reset = "no" /\ delivered = <<>> /\ inputs = 0
  /\ snd = <<>> /\ shut = FALSE
  /\ accepted = 0 /\ signals = 0
  /\ early = FALSE /\ before = 0

-----------------------------------------------------------------------------
(* Shared steps of the handlers. *)

LoopFree == object = "live" /\ write = NoWrite

\* Epoller::update(): the mask starts from whatever the stack slot contained.
Mask(evs) ==
  {bit \in {"IN", "OUT"} : (bit = "IN" /\ "READ" \in evs) \/ (bit = "OUT" /\ "WRITE" \in evs)}

Update(evs) ==
  /\ events' = evs
  /\ registered' = TRUE
  /\ \E junk \in SUBSET Garbage : interest' = Mask(evs) \union junk

Unregister == registered' = FALSE /\ interest' = {}

\* Dropping a reference; the last one runs the destructor.
DropReference(map, threads) ==
  /\ inMap' = map
  /\ held' = threads
  /\ object' = IF ~map /\ threads = {} THEN "dead" ELSE object

\* Mutant: the output that is still buffered is not waited for.
ShutdownInLoopAtOnce(evs) == shut' = TRUE

\* shutdownInLoop()
ShutdownInLoop(evs) == shut' = (shut \/ "WRITE" \notin evs)

\* Called at once and not in the turn of a thread's functor: messages that other
\* threads have queued for the connection are overtaken.
ShutdownEarly(evs) == ShutdownInLoop(evs) /\ early' = (early \/ (shut' /\ ~shut))

\* Somebody has asked for the end of the connection.
Asked == state \in {"kDisconnecting", "kDisconnected"}

\* What epoll_wait() reports for the descriptor.
Space == Len(snd) < SndCap
Ready ==
  {bit \in {"IN", "OUT", "HUP", "ERR"} :
     \/ bit = "IN" /\ (readable \/ fin \/ reset # "no")
     \/ bit = "OUT" /\ (Space \/ shut \/ reset # "no")
     \/ bit = "HUP" /\ (reset # "no" \/ (fin /\ shut))
     \/ bit = "ERR" /\ reset = "error"}
Reported == IF registered THEN Ready \intersect (interest \union {"HUP", "ERR"}) ELSE {}

-----------------------------------------------------------------------------
(* The server and the end of a connection. *)

\* newConnection() and connectEstablished(); the connection callback may hand
\* the connection to other threads.
NewConnection ==
  /\ object = "none"
  /\ object' = "live"
  /\ state' = "kConnected"
  /\ Update({"READ"})
  /\ inMap' = TRUE
  /\ held' \in SUBSET Threads
  /\ UNCHANGED <<out, place, sends, queue, write, peerVars, snd, shut, accepted, signals, endVars>>

\* Mutant: the channel stays in the poller.
HandleCloseKeepingChannel ==
  /\ state' = "kDisconnected"
  /\ DropReference(FALSE, held)
  /\ UNCHANGED <<events, out, pollVars, place, sends, queue, write, peerVars, snd, shut, accepted,
                 signals, endVars>>

\* handleClose() and removeConnection().
HandleClose ==
  /\ state' = "kDisconnected"
  /\ Unregister
  /\ DropReference(FALSE, held)
  /\ UNCHANGED <<events, out, place, sends, queue, write, peerVars, snd, shut, accepted, signals,
                 endVars>>

\* ~TcpServer(): every connection is shut down and forgotten.
DestroyServer ==
  /\ ServerStops
  /\ LoopFree /\ inMap /\ held = {}
  /\ IF state = "kConnected"
     THEN state' = "kDisconnecting" /\ ShutdownEarly(events)
     ELSE UNCHANGED <<state, shut, early>>
  /\ DropReference(FALSE, held)
  /\ UNCHANGED <<events, out, pollVars, place, sends, queue, write, peerVars, snd, accepted,
                 signals, before>>

-----------------------------------------------------------------------------
(* Input: handleRead(). *)

\* Mutant: the end of the input is not recognised.
HandleReadIgnoringEnd ==
  /\ LoopFree /\ "IN" \in Reported /\ readable
  /\ readable' = FALSE
  /\ UNCHANGED <<connVars, pollVars, threadVars, queue, write, fin, reset, delivered, inputs, snd,
                 shut, accepted, signals, endVars>>

HandleRead ==
  /\ LoopFree
  /\ "IN" \in Reported
  /\ IF readable                     \* a message
     THEN /\ readable' = FALSE
          /\ UNCHANGED <<connVars, pollVars, threadVars, queue, write, fin, reset, delivered,
                         inputs, snd, shut, accepted, signals, endVars>>
     ELSE IF reset = "error"         \* read() fails: handleError()
     THEN /\ reset' = "seen"
          /\ UNCHANGED <<connVars, pollVars, threadVars, queue, write, readable, fin, delivered,
                         inputs, snd, shut, accepted, signals, endVars>>
     ELSE HandleClose                \* end of file

-----------------------------------------------------------------------------
(* Output: sendInLoop(), handleWrite(), and the write() they share. *)

\* Mutant: one byte too many, as with the terminating zero.
BytesPastEnd(len) == [i \in 1 .. len + 1 |-> accepted + i]

Bytes(len) == [i \in 1 .. len |-> accepted + i]

\* Mutant: always write directly, even past bytes that are buffered.
SendInLoopDirect(len) ==
  /\ accepted + len <= MaxBytes
  /\ accepted' = accepted + len
  /\ before' = IF shut THEN before ELSE accepted'
  /\ write' = IF state = "kDisconnected" THEN write
              ELSE [from |-> "send", todo |-> Bytes(len), n |-> 0]
  /\ UNCHANGED <<events, out, pollVars>>

\* sendInLoop() up to its write().
SendInLoop(len) ==
  /\ accepted + len <= MaxBytes
  /\ accepted' = accepted + len
  /\ before' = IF shut THEN before ELSE accepted'
  /\ IF state = "kDisconnected"
     THEN UNCHANGED <<events, out, pollVars, write>>
     ELSE IF "WRITE" \notin events /\ out = <<>>
     THEN /\ write' = [from |-> "send", todo |-> Bytes(len), n |-> 0]
          /\ UNCHANGED <<events, out, pollVars>>
     ELSE /\ out' = out \o Bytes(len)
          /\ IF "WRITE" \in events
             THEN UNCHANGED <<events, pollVars>>
             ELSE Update(events \union {"WRITE"})
          /\ UNCHANGED write

\* send() on the loop's thread.
Send(len) ==
  /\ LoopFree
  /\ inMap
  /\ state = "kConnected"
  /\ SendInLoop(len)
  /\ UNCHANGED <<object, state, inMap, threadVars, queue, peerVars, snd, shut, signals, early>>

\* handleWrite() up to its write(); without CHANNEL_WRITE it does nothing.
HandleWrite ==
  /\ LoopFree
  /\ Reported = {"OUT"}
  /\ "WRITE" \in events
  /\ write' = [from |-> "handleWrite", todo |-> out, n |-> 0]
  /\ UNCHANGED <<connVars, pollVars, threadVars, queue, peerVars, snd, shut, accepted, signals,
                 endVars>>

Broken == shut \/ reset # "no"

\* The kernel takes what it has room for; the caller sleeps meanwhile.
WriteSome ==
  /\ write # NoWrite /\ write.todo # <<>>
  /\ ~Broken /\ Space
  /\ LET room == SndCap - Len(snd)
         k == IF Len(write.todo) < room THEN Len(write.todo) ELSE room
     IN  /\ snd' = snd \o SubSeq(write.todo, 1, k)
         /\ write' = [write EXCEPT !.todo = SubSeq(@, k + 1, Len(@)), !.n = @ + k]
  /\ UNCHANGED <<connVars, pollVars, threadVars, queue, peerVars, shut, accepted, signals,
                 endVars>>

\* Mutant: what a short write left is buffered, but CHANNEL_WRITE is not set.
AfterSendSilently(rest, fault) ==
  /\ out' = IF fault THEN out ELSE out \o rest
  /\ UNCHANGED <<events, pollVars, shut, early>>

\* What follows write(), which took n bytes and failed with a closed connection
\* if fault: in sendInLoop() the rest is buffered, or dropped after a fault ...
AfterSend(rest, fault) ==
  IF rest = <<>> \/ fault
  THEN UNCHANGED <<events, out, pollVars, shut, early>>
  ELSE /\ out' = out \o rest
       /\ Update(events \union {"WRITE"})
       /\ UNCHANGED <<shut, early>>

\* ... and in handleWrite() the bytes taken leave the buffer.  The mask of
\* `events() & !CHANNEL_WRITE' is zero: no event is left.
AfterHandleWrite(n) ==
  LET rest == SubSeq(out, n + 1, Len(out))
  IN  /\ out' = rest
      /\ IF n > 0 /\ rest = <<>>
         THEN /\ Update({})
              /\ IF state = "kDisconnecting" THEN ShutdownEarly({}) ELSE UNCHANGED <<shut, early>>
         ELSE UNCHANGED <<events, pollVars, shut, early>>

WriteReturns ==
  LET interrupted == write.todo # <<>> /\ ~Broken
  IN  /\ write # NoWrite
      /\ interrupted => signals < MaxSignals
      /\ signals' = IF interrupted THEN signals + 1 ELSE signals
      /\ IF write.from = "send"
         THEN AfterSend(write.todo, write.todo # <<>> /\ Broken /\ write.n = 0)
         ELSE AfterHandleWrite(write.n)
      /\ write' = NoWrite
      /\ reset' = IF write.n = 0 /\ reset = "error" THEN "seen" ELSE reset
      /\ UNCHANGED <<object, state, inMap, threadVars, queue, readable, fin, delivered, inputs,
                     snd, accepted, before>>

-----------------------------------------------------------------------------
(* shutdown() on the loop's thread, and the functors of the other threads. *)

Shutdown ==
  /\ LoopFree
  /\ inMap
  /\ state = "kConnected"
  /\ state' = "kDisconnecting"
  /\ ShutdownEarly(events)
  /\ UNCHANGED <<object, events, out, inMap, pollVars, threadVars, queue, write, peerVars, snd,
                 accepted, signals, before>>

RunFunctor ==
  /\ LoopFree
  /\ queue # <<>>
  /\ queue' = Tail(queue)
  /\ IF Head(queue).op = "send"
     THEN SendInLoop(Head(queue).len) /\ UNCHANGED shut
     ELSE /\ ShutdownInLoop(events)
          /\ UNCHANGED <<events, out, pollVars, write, accepted, before>>
  /\ UNCHANGED <<object, state, inMap, threadVars, peerVars, snd, signals, early>>

-----------------------------------------------------------------------------
(* The other threads: each reads state_ first and goes on with what it saw. *)

StartSend(t) ==
  /\ t \in held /\ place[t] = "idle" /\ sends[t] < MaxSends
  /\ state = "kConnected"
  /\ place' = [place EXCEPT ![t] = "send"]
  /\ sends' = [sends EXCEPT ![t] = @ + 1]
  /\ UNCHANGED <<connVars, pollVars, held, queue, write, peerVars, snd, shut, accepted, signals,
                 endVars>>

QueueSend(t, len) ==
  /\ place[t] = "send"
  /\ queue' = Append(queue, [op |-> "send", len |-> len, late |-> Asked])
  /\ place' = [place EXCEPT ![t] = "idle"]
  /\ UNCHANGED <<connVars, pollVars, held, sends, write, peerVars, snd, shut, accepted, signals,
                 endVars>>

StartShutdown(t) ==
  /\ t \in held \intersect Closers /\ place[t] = "idle"
  /\ state = "kConnected"
  /\ place' = [place EXCEPT ![t] = "shutdown"]
  /\ UNCHANGED <<connVars, pollVars, held, sends, queue, write, peerVars, snd, shut, accepted,
                 signals, endVars>>

SetDisconnecting(t) ==
  /\ place[t] = "shutdown"
  /\ state' = "kDisconnecting"
  /\ place' = [place EXCEPT ![t] = "queueShutdown"]
  /\ UNCHANGED <<object, events, out, inMap, pollVars, held, sends, queue, write, peerVars, snd,
                 shut, accepted, signals, endVars>>

\* Mutant: the functor is put in front of those that are queued.
QueueShutdownFirst(t) ==
  /\ place[t] = "queueShutdown"
  /\ queue' = <<[op |-> "shutdown"]>> \o queue
  /\ place' = [place EXCEPT ![t] = "idle"]
  /\ UNCHANGED <<connVars, pollVars, held, sends, write, peerVars, snd, shut, accepted, signals,
                 endVars>>

QueueShutdown(t) ==
  /\ place[t] = "queueShutdown"
  /\ queue' = Append(queue, [op |-> "shutdown"])
  /\ place' = [place EXCEPT ![t] = "idle"]
  /\ UNCHANGED <<connVars, pollVars, held, sends, write, peerVars, snd, shut, accepted, signals,
                 endVars>>

\* The functors hold a bare pointer: a thread has to keep the connection until
\* they have run.
Release(t) ==
  /\ t \in held /\ place[t] = "idle" /\ queue = <<>> /\ write = NoWrite
  /\ DropReference(inMap, held \ {t})
  /\ UNCHANGED <<state, events, out, pollVars, place, sends, queue, write, peerVars, snd, shut,
                 accepted, signals, endVars>>

-----------------------------------------------------------------------------
(* The peer and the network. *)

Open == object = "live" /\ reset = "no"

PeerSends ==
  /\ Open /\ ~fin /\ inputs < MaxInputs
  /\ readable' = TRUE
  /\ inputs' = inputs + 1
  /\ UNCHANGED <<connVars, pollVars, threadVars, queue, write, fin, reset, delivered, snd, shut,
                 accepted, signals, endVars>>

PeerReads ==
  /\ Open /\ snd # <<>>
  /\ delivered' = Append(delivered, Head(snd))
  /\ snd' = Tail(snd)
  /\ UNCHANGED <<connVars, pollVars, threadVars, queue, write, readable, fin, reset, inputs, shut,
                 accepted, signals, endVars>>

PeerCloses ==
  /\ Open /\ ~fin
  /\ fin' = TRUE
  /\ UNCHANGED <<connVars, pollVars, threadVars, queue, write, readable, reset, delivered, inputs,
                 snd, shut, accepted, signals, endVars>>

PeerResets ==
  /\ Open
  /\ reset' = "error"
  /\ snd' = <<>>
  /\ UNCHANGED <<connVars, pollVars, threadVars, queue, write, readable, fin, delivered, inputs,
                 shut, accepted, signals, endVars>>

-----------------------------------------------------------------------------
LoopStep ==
  \/ NewConnection \/ DestroyServer
  \/ HandleRead \/ HandleWrite
  \/ WriteSome \/ WriteReturns
  \/ Shutdown \/ RunFunctor
  \/ \E len \in MsgLens : Send(len)

ThreadStep(t) ==
  \/ StartSend(t) \/ (\E len \in MsgLens : QueueSend(t, len))
  \/ StartShutdown(t) \/ SetDisconnecting(t) \/ QueueShutdown(t)
  \/ Release(t)

PeerStep == PeerSends \/ PeerReads \/ PeerCloses \/ PeerResets

Next == LoopStep \/ (\E t \in Threads : ThreadStep(t)) \/ PeerStep

Spec == Init /\ [][Next]_vars

(***************************************************************************)
(* Fairness: the loop's thread handles what poll() reports and what is     *)
(* queued, a write() goes on when there is room, and a thread in a call    *)
(* finishes it.  ReadingPeer: the peer reads what it is sent.  Nobody has  *)
(* to send, close, reset or interrupt.                                     *)
(***************************************************************************)
FairLoop ==
  /\ WF_vars(HandleRead) /\ WF_vars(HandleWrite)
  /\ WF_vars(WriteSome) /\ WF_vars(WriteReturns /\ (write.todo = <<>> \/ Broken))
  /\ WF_vars(RunFunctor)
  /\ \A t \in Threads :
       WF_vars((\E len \in MsgLens : QueueSend(t, len)) \/ SetDisconnecting(t) \/ QueueShutdown(t))

FairSpec == Spec /\ FairLoop
ReadingPeerSpec == FairSpec /\ WF_vars(PeerReads)

-----------------------------------------------------------------------------
(* Safety. *)

Increasing(s) == \A i, j \in DOMAIN s : i < j => s[i] < s[j]

\* The bytes on their way, from the peer to the end of the output buffer.
InFlight ==
  delivered \o snd \o (IF write.from = "send" THEN write.todo ELSE <<>>)
    \o (IF write.from = "handleWrite" THEN SubSeq(out, write.n + 1, Len(out)) ELSE out)

\* tcp_connection.cpp:50-58, 95-137, 150-155, 175-200: whatever short writes,
\* interrupts, resets and threads do, no byte is sent twice or before one submitted
\* earlier.  None that sendInLoop() was called for before the socket was shut is
\* missing until the server drops the connection or it breaks; and a message that
\* send() queued before anyone asked for the end is among those.  The end overtakes
\* it only if handleWrite() (tcp_connection.cpp:187) or a shutdown() that runs on the
\* loop's thread shuts the socket while it is queued: then it is lost (early).
OutputIntact ==
  /\ Increasing(InFlight)
  /\ inMap /\ reset = "no" =>
       \A i \in 1 .. before : i \in DOMAIN InFlight /\ InFlight[i] = i
  /\ shut /\ ~early => \A i \in DOMAIN queue : queue[i].op = "send" => queue[i].late

\* tcp_connection.cpp:124-136, 177-183: CHANNEL_WRITE is set, and epoll_wait() asked
\* for it, exactly while bytes are buffered: they are neither forgotten nor
\* polled for in vain.
WriteEventIffBuffered ==
  LoopFree => /\ "WRITE" \in events <=> out # <<>>
              /\ registered /\ out # <<>> => "OUT" \in interest

\* tcp_connection.cpp:206, assert(state_ == kConnected || state_ == kDisconnecting):
\* a channel that can still report the end of the input belongs to a
\* connection that is not closed.
CloseAssert == registered => state \in {"kConnected", "kDisconnecting"}

\* What the program has given and the kernel not taken.
Untaken == SubSeq(InFlight, Len(delivered \o snd) + 1, Len(InFlight))

\* tcp_connection.cpp:50-58, 95-137, 150-155, 175-200, 237-243: from send() and
\* shutdown() on, a connection is a stream of bytes, whatever its buffer, events and
\* functors do.  None overtakes another, the side is shut down for writing only when
\* every byte sendInLoop() was called for has gone to the kernel, and a message that
\* is queued before anyone asks for the end is taken before it, except when the end
\* comes from handleWrite() or from a shutdown() on the loop's thread (early).
Stream ==
  INSTANCE ByteStream WITH
    Lens <- MsgLens, given <- accepted, posted <- queue, pending <- Untaken, network <- snd,
    received <- delivered, asked <- Asked, closed <- object # "none" /\ ~inMap,
    backlog <- out # <<>>, ended <- shut, early <- early, broken <- reset # "no"
ImplementsByteStream == Stream!Spec

\* tcp_connection.cpp:34, assert(state_ == kDisconnected) in the destructor.
DtorAssert == object = "dead" => state = "kDisconnected"

-----------------------------------------------------------------------------
(* Liveness. *)

\* test_tcpserver.cpp:30, the message callback: input is handed to the user ...
InputHandled == (registered /\ readable) ~> (~readable \/ ~registered)

\* tcp_connection.cpp:158-173, 203-211: ... as long as handleWrite() had nothing to
\* finish, that is, while no write() was interrupted; the end of the input and a
\* reset close the connection then.  (The server that is destroyed with the
\* connection notices nothing any more.)
PeerNoticed ==
  /\ (registered /\ readable) ~> (~readable \/ ~registered \/ signals > 0 \/ object = "dead")
  /\ (registered /\ (fin \/ reset # "no")) ~> (~registered \/ signals > 0 \/ object = "dead")

\* tcp_connection.cpp:124-136, 175-200: buffered output leaves the buffer.
OutputDrains ==
  out # <<>> ~> (out = <<>> \/ ~registered \/ reset # "no" \/ object = "dead")
=============================================================================
