----------------------------- MODULE HttpServer -----------------------------
(***************************************************************************)
(* HttpServer of net/http_server.cpp with the ThreadPool, EventLoopThread, *)
(* HttpData and rio functions it is made of: the start of the threads, the *)
(* choice of a loop for each connection, and the requests, which come in   *)
(* pieces and are read with blocking calls.                                *)
(*                                                                         *)
(* A loop is what TaskQueue says, which EventLoop implements: functors     *)
(* queued for it are run one by one, in order, between its handlers.  The  *)
(* main thread's loop has number 0.                                        *)
(***************************************************************************)
EXTENDS Integers, Sequences

CONSTANTS
  ThreadNums,     \* values of thread_num considered
  PageFound,      \* home.html is there
  MaxConns,       \* bound: connections
  MaxLines,       \* bound: lines a client sends
  MaxFails,       \* bound: calls of accept() that fail
  Garbage         \* what update()'s uninitialised mask may contain

ASSUME ConstantsAssumption ==
  /\ ThreadNums # {} /\ \A n \in ThreadNums : n \in Nat
  /\ \E m \in ThreadNums : \A n \in ThreadNums : n <= m
  /\ PageFound \in BOOLEAN
  /\ MaxConns \in Nat /\ MaxLines \in Nat /\ MaxFails \in Nat
  /\ Garbage \subseteq {"READ", "WRITE"}

MaxThreads == CHOOSE m \in ThreadNums : \A n \in ThreadNums : n <= m
Main == 0
Workers == 1 .. MaxThreads
Loops == {Main} \union Workers
Conns == 1 .. MaxConns
NoConn == 0
NoLoop == -1
Listen == 0
Kinds == {"text", "blank"}      \* lines of a request

VARIABLES
  maxn,      \* the pool's maxn_
  pc,        \* of a loop's thread
  pool,      \* the pool's loops_
  next,      \* the pool's next_
  arrived,   \* connections that clients have made, 1, 2, ...
  accepted,  \* those that accept() has returned
  fails,     \* calls of accept() that failed
  home,      \* the loop of a connection
  sent,      \* what a client has sent
  input,     \* what of it is still in the socket
  closed,    \* the client has sent the end of its stream
  events,    \* events_ of a connection's channel
  mask,      \* what epoll watches a connection for
  queue,     \* functors queued for a loop: the connections to update()
  batch,     \* what poll() returned and is not handled yet
  reading,   \* the connection a loop's thread is in handleRead() of
  lines,     \* lines that handleRead() has read; 2 for more
  answered,  \* history: a whole request was answered
  turns      \* history: connections given to a loop, -1 included

poolVars == <<maxn, pool, next>>
acceptVars == <<accepted, fails, home, turns>>
clientVars == <<arrived, sent, closed>>
channelVars == <<events, mask>>
readVars == <<reading, lines>>
vars == <<poolVars, pc, acceptVars, clientVars, input, channelVars, queue, batch, readVars,
          answered>>

\* A worker: no thread, a thread, a loop, in loop().  The main thread: in start(),
\* about to look at loop_, waiting for it, in loop().
WorkerStates == {"none", "thread", "made", "loop"}
MainStates == {"start", "check", "asleep", "loop"}

TypeOK ==
  /\ maxn \in ThreadNums
  /\ pc \in [Loops -> WorkerStates \union MainStates]
  /\ pc[Main] \in MainStates /\ \A l \in Workers : pc[l] \in WorkerStates
  /\ pool \in Seq(Workers) /\ Len(pool) <= maxn
  /\ next = 0 \/ next \in 0 .. maxn - 1
  /\ arrived \in 0 .. MaxConns /\ accepted \in 0 .. arrived /\ fails \in 0 .. MaxFails
  /\ home \in [Conns -> Loops \union {NoLoop}]
  /\ sent \in [Conns -> Seq(Kinds)] /\ input \in [Conns -> Seq(Kinds)]
  /\ closed \in [Conns -> BOOLEAN]
  /\ events \in [Conns -> SUBSET {"READ", "WRITE"}]
  /\ mask \in [Conns -> SUBSET {"READ", "WRITE"}]
  /\ queue \in [Loops -> Seq(Conns \union {NoConn})]
  /\ batch \in [Loops -> SUBSET ({<<Listen, "READ">>} \union (Conns \X {"READ", "WRITE"}))]
  /\ reading \in [Loops -> Conns \union {NoConn}]
  /\ lines \in [Loops -> 0 .. 2]
  /\ answered \in [Conns -> BOOLEAN]
  /\ turns \in [Loops -> Nat]

\* HttpServer::HttpServer(), whose socket could be opened.
Init ==
  /\ maxn \in ThreadNums
  /\ pc = [l \in Loops |-> IF l = Main THEN "start" ELSE "none"]
  /\ pool = <<>> /\ next = 0
  /\ arrived = 0 /\ accepted = 0 /\ fails = 0
  /\ home = [c \in Conns |-> NoLoop]
  /\ sent = [c \in Conns |-> <<>>] /\ input = sent
  /\ closed = [c \in Conns |-> FALSE]
  /\ events = [c \in Conns |-> {}] /\ mask = events
  /\ queue = [l \in Loops |-> <<>>] /\ batch = [l \in Loops |-> {}]
  /\ reading = [l \in Loops |-> NoConn] /\ lines = [l \in Loops |-> 0]
  /\ answered = [c \in Conns |-> FALSE]
  /\ turns = [l \in Loops |-> 0]

-----------------------------------------------------------------------------
(* HttpServer::start() on the main thread, ThreadPool::start(), and        *)
(* EventLoopThread::startLoop() against run() on the new thread.           *)

Starting == Len(pool) + 1

NotStarting == <<maxn, next, acceptVars, clientVars, input, channelVars, queue, batch,
                 readVars, answered>>

StartThread ==
  /\ pc[Main] = "start" /\ Starting <= maxn
  /\ pc' = [pc EXCEPT ![Main] = "check", ![Starting] = "thread"]
  /\ UNCHANGED <<NotStarting, pool>>

\* startLoop() with the mutex: waits, or returns loop_.
CheckLoop ==
  /\ pc[Main] = "check"
  /\ IF pc[Starting] = "thread"
     THEN pc' = [pc EXCEPT ![Main] = "asleep"] /\ UNCHANGED pool
     ELSE pc' = [pc EXCEPT ![Main] = "start"] /\ pool' = Append(pool, Starting)
  /\ UNCHANGED NotStarting

\* Mutant: `if' in the place of `while'.
WakeAndReturn ==
  /\ pc[Main] = "asleep"
  /\ pc' = [pc EXCEPT ![Main] = "start"] /\ pool' = Append(pool, Starting)
  /\ UNCHANGED NotStarting

\* A wait may end for no reason.
WakeSpuriously ==
  /\ pc[Main] = "asleep"
  /\ pc' = [pc EXCEPT ![Main] = "check"]
  /\ UNCHANGED <<NotStarting, pool>>

\* run() with the mutex.
MakeLoop(l) ==
  /\ pc[l] = "thread"
  /\ pc' = [pc EXCEPT ![l] = "made", ![Main] = IF @ = "asleep" THEN "check" ELSE @]
  /\ UNCHANGED <<NotStarting, pool>>

EnterLoop(l) ==
  /\ pc[l] = "made"
  /\ pc' = [pc EXCEPT ![l] = "loop"]
  /\ UNCHANGED <<NotStarting, pool>>

\* start() registers the listening socket; the main thread calls loop().
StartListening ==
  /\ pc[Main] = "start" /\ Starting > maxn
  /\ pc' = [pc EXCEPT ![Main] = "loop"]
  /\ UNCHANGED <<NotStarting, pool>>

-----------------------------------------------------------------------------
(* The loops.                                                              *)

\* Epoller::update() of a connection's channel.
Update(c, evs) == \E junk \in SUBSET Garbage : mask' = [mask EXCEPT ![c] = evs \union junk]

HasInput(c) == input[c] # <<>> \/ closed[c]

\* Writability is reported only when it is the only event.
Reported(c) ==
  IF "READ" \in mask[c] /\ HasInput(c) THEN {<<c, "READ">>}
  ELSE IF "WRITE" \in mask[c] THEN {<<c, "WRITE">>}
  ELSE {}

Ready(l) ==
  (IF l = Main /\ arrived > accepted THEN {<<Listen, "READ">>} ELSE {})
    \union UNION {Reported(c) : c \in {d \in Conns : home[d] = l}}

Idle(l) == pc[l] = "loop" /\ batch[l] = {} /\ reading[l] = NoConn

Poll(l) ==
  /\ Idle(l)
  /\ Ready(l) # {}
  /\ batch' = [batch EXCEPT ![l] = Ready(l)]
  /\ UNCHANGED <<poolVars, pc, acceptVars, clientVars, input, channelVars, queue, readVars,
                 answered>>

\* HttpData's update() on its loop; that of a descriptor -1 fails.
RunFunctor(l) ==
  LET c == Head(queue[l])
  IN  /\ Idle(l)
      /\ queue[l] # <<>>
      /\ queue' = [queue EXCEPT ![l] = Tail(@)]
      /\ IF c = NoConn THEN UNCHANGED mask ELSE Update(c, events[c])
      /\ UNCHANGED <<poolVars, pc, acceptVars, clientVars, input, events, batch, readVars,
                     answered>>

Handled(l, b) == b \in batch[l] /\ reading[l] = NoConn /\ batch' = [batch EXCEPT ![l] = @ \ {b}]

-----------------------------------------------------------------------------
(* HttpServer::handNewConn().                                              *)

NextLoop == IF pool = <<>> THEN Main ELSE pool[next + 1]

\* Mutant: next_ stays.
TakeTurnAgain ==
  /\ turns' = [turns EXCEPT ![NextLoop] = @ + 1]
  /\ UNCHANGED next

\* Mutant: next_ never wraps.
TakeTurnPastEnd ==
  /\ next' = IF pool = <<>> THEN next ELSE next + 1
  /\ turns' = [turns EXCEPT ![NextLoop] = @ + 1]

\* ThreadPool::getNextLoop()
TakeTurn ==
  /\ next' = IF pool = <<>> THEN next ELSE (next + 1) % maxn
  /\ turns' = [turns EXCEPT ![NextLoop] = @ + 1]

\* Mutant: the update is not queued for another loop.
NewRequestHere(c) ==
  /\ events' = [events EXCEPT ![c] = {"READ"}]
  /\ IF NextLoop = Main THEN Update(c, {"READ"}) ELSE UNCHANGED mask
  /\ UNCHANGED queue

\* HttpData::newRequest()
NewRequest(c) ==
  /\ events' = [events EXCEPT ![c] = {"READ"}]
  /\ IF NextLoop = Main
     THEN Update(c, {"READ"}) /\ UNCHANGED queue
     ELSE queue' = [queue EXCEPT ![NextLoop] = Append(@, c)] /\ UNCHANGED mask

Accept ==
  LET c == accepted + 1
  IN  /\ Handled(Main, <<Listen, "READ">>)
      /\ accepted' = c
      /\ home' = [home EXCEPT ![c] = NextLoop]
      /\ TakeTurn /\ NewRequest(c)
      /\ UNCHANGED <<maxn, pool, pc, fails, clientVars, input, readVars, answered>>

\* The server goes on with -1.
AcceptFails ==
  /\ fails < MaxFails
  /\ Handled(Main, <<Listen, "READ">>)
  /\ fails' = fails + 1
  /\ TakeTurn
  /\ queue' = IF NextLoop = Main THEN queue
              ELSE [queue EXCEPT ![NextLoop] = Append(@, NoConn)]
  /\ UNCHANGED <<maxn, pool, pc, accepted, home, clientVars, input, channelVars, readVars,
                 answered>>

-----------------------------------------------------------------------------
(* HttpData::handleRead(): a request line, header lines and a blank line   *)
(* are read with read() that waits.  What read() returned after that line  *)
(* is lost with the local rio_t.                                           *)

HandleRead(l, c) ==
  /\ Handled(l, <<c, "READ">>)
  /\ reading' = [reading EXCEPT ![l] = c] /\ lines' = [lines EXCEPT ![l] = 0]
  /\ UNCHANGED <<poolVars, pc, acceptVars, clientVars, input, channelVars, queue, answered>>

Leave(l) == reading' = [reading EXCEPT ![l] = NoConn] /\ lines' = [lines EXCEPT ![l] = 0]

\* Mutant: CHANNEL_WRITE is not asked for.
RequestReadWaiting(c) == events' = [events EXCEPT ![c] = {"READ"}] /\ Update(c, events'[c])

\* handleRead() has seen the blank line.
RequestRead(c) == events' = [events EXCEPT ![c] = {"READ", "WRITE"}] /\ Update(c, events'[c])

\* rio_read() takes what there is.
ReadSome(c) == input[c] # <<>> /\ input' = [input EXCEPT ![c] = <<>>]

ReadLines(l) ==
  LET c == reading[l]
      headers == IF lines[l] = 0 THEN Tail(input[c]) ELSE input[c]
  IN  /\ c # NoConn
      /\ ReadSome(c)
      /\ IF \E i \in DOMAIN headers : headers[i] = "blank"
         THEN RequestRead(c) /\ Leave(l)
         ELSE /\ lines' = [lines EXCEPT ![l] = IF headers = <<>> THEN 1 ELSE 2]
              /\ UNCHANGED <<reading, channelVars>>
      /\ UNCHANGED <<poolVars, pc, acceptVars, clientVars, queue, batch, answered>>

\* The end of the stream.  Without a header line the buffer compared with "\r\n" is
\* not initialised: by chance that is what it holds.
ReadEnd(l) ==
  LET c == reading[l]
  IN  /\ c # NoConn
      /\ input[c] = <<>> /\ closed[c]
      /\ Leave(l)
      /\ UNCHANGED channelVars \/ (lines[l] < 2 /\ RequestRead(c))
      /\ UNCHANGED <<poolVars, pc, acceptVars, clientVars, input, queue, batch, answered>>

\* The client has sent one whole request and nothing after it.
Whole(c) ==
  LET n == Len(sent[c])
  IN  n > 1 /\ sent[c][n] = "blank" /\ \A i \in 2 .. n - 1 : sent[c][i] # "blank"

\* serve_static()
Serve(c) == answered' = [answered EXCEPT ![c] = Whole(c)]

\* HttpData::handleWrite(); nothing happens without the file.
HandleWrite(l, c) ==
  /\ Handled(l, <<c, "WRITE">>)
  /\ IF PageFound
     THEN Serve(c) /\ events' = [events EXCEPT ![c] = {"READ"}] /\ Update(c, {"READ"})
     ELSE UNCHANGED <<channelVars, answered>>
  /\ UNCHANGED <<poolVars, pc, acceptVars, clientVars, input, queue, readVars>>

-----------------------------------------------------------------------------
(* The clients. *)

Connect ==
  /\ arrived < MaxConns
  /\ arrived' = arrived + 1
  /\ UNCHANGED <<poolVars, pc, acceptVars, sent, closed, input, channelVars, queue, batch,
                 readVars, answered>>

SendLine(c, kind) ==
  /\ c <= arrived /\ ~closed[c] /\ Len(sent[c]) < MaxLines
  /\ sent[c] = <<>> => kind = "text"
  /\ sent' = [sent EXCEPT ![c] = Append(@, kind)]
  /\ input' = [input EXCEPT ![c] = Append(@, kind)]
  /\ UNCHANGED <<poolVars, pc, acceptVars, arrived, closed, channelVars, queue, batch, readVars,
                 answered>>

Close(c) ==
  /\ c <= arrived /\ ~closed[c]
  /\ closed' = [closed EXCEPT ![c] = TRUE]
  /\ UNCHANGED <<poolVars, pc, acceptVars, arrived, sent, input, channelVars, queue, batch,
                 readVars, answered>>

-----------------------------------------------------------------------------
StartStep(l) == MakeLoop(l) \/ EnterLoop(l)
MainStart == StartThread \/ CheckLoop \/ StartListening

Handle(l) ==
  \/ l = Main /\ (Accept \/ AcceptFails)
  \/ \E c \in Conns : HandleRead(l, c) \/ HandleWrite(l, c)
  \/ ReadLines(l) \/ ReadEnd(l)

ClientStep ==
  \/ Connect
  \/ \E c \in Conns : Close(c) \/ \E kind \in Kinds : SendLine(c, kind)

Next ==
  \/ MainStart \/ WakeSpuriously
  \/ \E l \in Workers : StartStep(l)
  \/ \E l \in Loops : Poll(l) \/ RunFunctor(l) \/ Handle(l)
  \/ ClientStep

Spec == Init /\ [][Next]_vars

(***************************************************************************)
(* Fairness: threads go on, and every loop runs its functors, as EventLoop *)
(* promises (FunctorsRun), although there may always be something to poll. *)
(***************************************************************************)
FairSpec ==
  /\ Spec
  /\ WF_vars(MainStart)
  /\ \A l \in Workers : WF_vars(StartStep(l))
  /\ \A l \in Loops : WF_vars(Poll(l)) /\ WF_vars(Handle(l)) /\ SF_vars(RunFunctor(l))

-----------------------------------------------------------------------------
(* Properties. *)

\* event_loop_thread.cpp:15-24: every loop that startLoop() returned has been made, and
\* each thread of the pool has one of its own.
PoolHasLoops ==
  \A i \in DOMAIN pool : pool[i] = i /\ pc[pool[i]] \in {"made", "loop"}

\* thread_pool.cpp:28-36: connections are given to the loops in turn: no loop has
\* two more than another.
Balanced ==
  pool # <<>> => \A k, l \in 1 .. maxn : turns[k] <= turns[l] + 1 /\ turns[Main] = 0

\* http_data.cpp:108-111, event_loop.cpp:60-64: an accepted connection is watched for
\* what its channel asks for, or that is queued for its loop.
Watched ==
  \A c \in Conns :
    home[c] # NoLoop =>
      /\ "READ" \in events[c]
      /\ events[c] \subseteq mask[c] \/ \E i \in DOMAIN queue[home[c]] : queue[home[c]][i] = c

\* The thread that serves c, or accepts it, waits for the rest of another's request.
Held(c) == reading[IF home[c] = NoLoop THEN Main ELSE home[c]] \notin {NoConn, c}

\* http_data.cpp:77-106: a client that sends a request, in whatever pieces, and waits
\* is answered, if its loop is not kept for ever by another client's request;
\* http_data.cpp:12-25, rio.cpp:16-18: one that has closed keeps no loop.
RequestAnswered ==
  /\ \A c \in Conns :
       <>[]~Held(c) =>
         (PageFound /\ Whole(c) ~> (answered[c] \/ ~Whole(c) \/ closed[c]))
  /\ \A l \in Loops : (reading[l] # NoConn /\ closed[reading[l]]) ~> reading[l] = NoConn
=============================================================================
