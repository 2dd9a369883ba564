-------------------------- MODULE HttpServerProofs --------------------------
(***************************************************************************)
(* For any number of threads, connections and lines: startLoop() returns   *)
(* loops that exist, connections are shared out evenly, and an accepted    *)
(* connection is watched or about to be.                                   *)
(***************************************************************************)
EXTENDS HttpServer, SequenceTheorems, TLAPS

-----------------------------------------------------------------------------
(* The inductive invariant. *)

\* The pool grows with the loops; the thread that start() has begun is there.
PoolInv ==
  /\ PoolHasLoops
  /\ pc[Main] \in {"check", "asleep"} => Starting <= maxn /\ pc[Starting] # "none"
  /\ pc[Main] = "loop" => Len(pool) = maxn

\* Before loop(), nobody is accepted; after it, somebody is there to be.
BatchInv ==
  /\ pc[Main] # "loop" => batch[Main] = {}
  /\ <<Listen, "READ">> \in batch[Main] => accepted < arrived

\* next_ separates the loops that have had one connection more.
TurnInv ==
  /\ \E base \in Nat : \A k \in 1 .. maxn : turns[k] = IF k <= next THEN base + 1 ELSE base
  /\ turns[Main] = 0 \/ (pc[Main] = "loop" /\ pool = <<>>)

IInv == TypeOK /\ PoolInv /\ BatchInv /\ TurnInv /\ Watched

-----------------------------------------------------------------------------
(* Constants, and getNextLoop(). *)

LEMMA ThreadFacts ==
  /\ MaxThreads \in Nat /\ \A n \in ThreadNums : n \in Nat /\ n <= MaxThreads
  /\ Main \in Loops /\ Workers \subseteq Loops /\ Main \notin Workers
  /\ \A l \in Loops : l \in Nat /\ l # NoLoop
<1>1. MaxThreads \in ThreadNums /\ \A n \in ThreadNums : n <= MaxThreads
  BY ConstantsAssumption DEF MaxThreads
<1>2. MaxThreads \in Nat /\ \A n \in ThreadNums : n \in Nat
  BY <1>1, ConstantsAssumption
<1> QED
  BY <1>1, <1>2 DEF Main, Loops, Workers, NoLoop

LEMMA WrappedNext ==
  ASSUME NEW m \in Nat, NEW n \in 0 .. m - 1
  PROVE  (n + 1) % m = IF n + 1 = m THEN 0 ELSE n + 1
  OBVIOUS

\* While the main loop has something to handle.
LEMMA NextLoopIs ==
  ASSUME TypeOK, PoolInv, BatchInv, batch[Main] # {}
  PROVE  /\ pc[Main] = "loop" /\ maxn \in Nat /\ NextLoop \in Loops
         /\ pool = <<>> => NextLoop = Main /\ maxn = 0
         /\ pool # <<>> => /\ NextLoop = next + 1 /\ NextLoop \in 1 .. maxn /\ NextLoop \in Workers
                           /\ next \in 0 .. maxn - 1
<1>1. pc[Main] = "loop" /\ Len(pool) = maxn /\ maxn \in Nat /\ maxn <= MaxThreads
      /\ MaxThreads \in Nat
  BY ThreadFacts DEF PoolInv, BatchInv, TypeOK
<1>2. pool \in Seq(Workers) /\ DOMAIN pool = 1 .. Len(pool)
  BY LenProperties DEF TypeOK
<1>3. CASE pool = <<>>
  BY <1>1, <1>3, EmptySeq, ThreadFacts DEF NextLoop
<1>4. CASE pool # <<>>
  <2>1. maxn > 0
    BY <1>1, <1>2, <1>4, EmptySeq
  <2>2. next \in 0 .. maxn - 1 /\ next + 1 \in DOMAIN pool
    BY <1>1, <1>2, <2>1 DEF TypeOK
  <2>3. NextLoop = next + 1
    BY <1>4, <2>2 DEF NextLoop, PoolInv, PoolHasLoops
  <2> QED
    BY <1>1, <1>4, <2>1, <2>2, <2>3 DEF Workers, Loops
<1> QED
  BY <1>3, <1>4

-----------------------------------------------------------------------------
(* Types. *)

\* What update() leaves in epoll.
LEMMA Updated ==
  ASSUME TypeOK, NEW c \in Conns, NEW evs \in SUBSET {"READ", "WRITE"}, Update(c, evs)
  PROVE  /\ mask' \in [Conns -> SUBSET {"READ", "WRITE"}]
         /\ evs \subseteq mask'[c]
         /\ \A d \in Conns \ {c} : mask'[d] = mask[d]
<1>1. mask \in [Conns -> SUBSET {"READ", "WRITE"}] /\ Garbage \subseteq {"READ", "WRITE"}
  BY ConstantsAssumption DEF TypeOK
<1>2. PICK junk \in SUBSET Garbage : mask' = [mask EXCEPT ![c] = evs \union junk]
  BY DEF Update
<1> QED
  BY <1>1, <1>2

\* handleRead() when it has seen the blank line.
LEMMA RequestIsRead ==
  ASSUME TypeOK, NEW c \in Conns, RequestRead(c)
  PROVE  /\ events' \in [Conns -> SUBSET {"READ", "WRITE"}]
         /\ mask' \in [Conns -> SUBSET {"READ", "WRITE"}]
         /\ "READ" \in events'[c] /\ events'[c] \subseteq mask'[c]
         /\ \A d \in Conns \ {c} : events'[d] = events[d] /\ mask'[d] = mask[d]
<1>1. events \in [Conns -> SUBSET {"READ", "WRITE"}]
      /\ events' = [events EXCEPT ![c] = {"READ", "WRITE"}] /\ Update(c, events'[c])
  BY DEF RequestRead, TypeOK
<1>2. events'[c] = {"READ", "WRITE"} /\ events'[c] \in SUBSET {"READ", "WRITE"}
  BY <1>1
<1> QED
  BY <1>1, <1>2, Updated

\* What a connection is given: a loop, and its place in the poller or the queue.
LEMMA Given ==
  ASSUME TypeOK, PoolInv, BatchInv, Accept
  PROVE  /\ accepted + 1 \in Conns /\ accepted + 1 <= arrived /\ NextLoop \in Loops
         /\ batch' = [batch EXCEPT ![Main] = @ \ {<<Listen, "READ">>}]
         /\ home' = [home EXCEPT ![accepted + 1] = NextLoop]
         /\ events' = [events EXCEPT ![accepted + 1] = {"READ"}]
         /\ \/ /\ Update(accepted + 1, {"READ"})
               /\ queue' = queue
            \/ /\ mask' = mask
               /\ queue' = [queue EXCEPT ![NextLoop] = Append(@, accepted + 1)]
<1>1. <<Listen, "READ">> \in batch[Main] /\ Listen = 0
      /\ batch' = [batch EXCEPT ![Main] = @ \ {<<Listen, "READ">>}]
  BY DEF Accept, Handled, Listen
<1>2. accepted < arrived /\ accepted \in Nat /\ arrived \in Nat /\ arrived <= MaxConns
      /\ MaxConns \in Nat
  BY <1>1, ConstantsAssumption DEF BatchInv, TypeOK
<1>3. accepted + 1 \in Conns /\ accepted + 1 <= arrived
  BY <1>2 DEF Conns
<1>4. NextLoop \in Loops
  BY <1>1, NextLoopIs
<1> QED
  BY <1>1, <1>3, <1>4 DEF Accept, NewRequest

\* Two threads take a step at once: the one that waits for the latch, and the other.
LEMMA TwoEntries ==
  ASSUME NEW S, NEW f, DOMAIN f = S, NEW a \in S, NEW b \in S, a # b, NEW x, NEW y,
         NEW g, g = [f EXCEPT ![a] = x, ![b] = y]
  PROVE  /\ DOMAIN g = S /\ g[a] = x /\ g[b] = y
         /\ \A c \in S \ {a, b} : g[c] = f[c]
  OBVIOUS

LEMMA TypeStep == IInv /\ [Next]_vars => TypeOK'
<1> SUFFICES ASSUME IInv, [Next]_vars PROVE TypeOK'
  OBVIOUS
<1>0. TypeOK /\ PoolInv /\ BatchInv /\ TurnInv
  BY DEF IInv
<1>1. /\ MaxConns \in Nat /\ MaxLines \in Nat /\ MaxFails \in Nat /\ maxn \in Nat
      /\ maxn <= MaxThreads /\ MaxThreads \in Nat /\ Main \in Loops /\ Workers \subseteq Loops
      /\ Main \notin Workers
      /\ pool \in Seq(Workers) /\ Len(pool) \in Nat
      /\ Starting \in Nat
      /\ Starting <= maxn => Starting \in Workers
  <2>1. /\ MaxConns \in Nat /\ MaxLines \in Nat /\ MaxFails \in Nat /\ maxn \in Nat
        /\ maxn <= MaxThreads /\ pool \in Seq(Workers)
    <3>1. maxn \in ThreadNums /\ pool \in Seq(Workers)
      BY <1>0 DEF TypeOK
    <3> QED
      BY ONLY <3>1, ThreadFacts, ConstantsAssumption
  <2>2. /\ MaxThreads \in Nat /\ Main \in Loops /\ Workers \subseteq Loops /\ Main \notin Workers
    BY ThreadFacts
  <2>3. Len(pool) \in Nat
    BY <2>1, LenProperties
  <2>4. Starting \in Nat /\ (Starting <= maxn => Starting \in Workers)
    BY <2>1, <2>2, <2>3 DEF Starting, Workers
  <2> QED
    BY ONLY <2>1, <2>2, <2>3, <2>4
\* The threads and the pool.
<1>2. ASSUME UNCHANGED NotStarting, pc' \in [Loops -> WorkerStates \union MainStates],
             pc'[Main] \in MainStates, \A l \in Workers : pc'[l] \in WorkerStates,
             pool' \in Seq(Workers), Len(pool') <= maxn
      PROVE  TypeOK'
  BY <1>0, <1>2 DEF TypeOK, NotStarting, acceptVars, clientVars, channelVars, readVars
<1>3. CASE StartThread
  <2>1. Starting \in Workers /\ pool' = pool /\ UNCHANGED NotStarting
        /\ pc' = [pc EXCEPT ![Main] = "check", ![Starting] = "thread"]
    BY <1>1, <1>3 DEF StartThread
  <2>2. /\ pc \in [Loops -> WorkerStates \union MainStates] /\ \A l \in Workers : pc[l] \in WorkerStates
        /\ Len(pool) <= maxn
    BY <1>0 DEF TypeOK
  <2>3. /\ pc' \in [Loops -> WorkerStates \union MainStates]
        /\ pc'[Main] = "check" /\ pc'[Starting] = "thread"
        /\ \A l \in Workers \ {Starting} : pc'[l] = pc[l]
    <3>1. /\ DOMAIN pc' = Loops /\ pc'[Main] = "check" /\ pc'[Starting] = "thread"
          /\ \A l \in Loops \ {Main, Starting} : pc'[l] = pc[l]
      BY <1>1, <2>1, <2>2, TwoEntries
    <3>2. \A l \in Loops : pc'[l] \in WorkerStates \union MainStates
      BY <2>2, <3>1 DEF WorkerStates, MainStates
    <3>3. pc' = [l \in Loops |-> pc'[l]]
      BY <2>1, <2>2, <3>1
    <3> QED
      BY <1>1, <3>1, <3>2, <3>3
  <2> QED
    BY <1>1, <1>2, <2>1, <2>2, <2>3 DEF WorkerStates, MainStates
<1>4. CASE CheckLoop
  <2>1. Starting <= maxn /\ UNCHANGED NotStarting
        /\ pc' = [pc EXCEPT ![Main] = pc'[Main]] /\ pc'[Main] \in {"start", "asleep"}
    BY <1>0, <1>1, <1>4 DEF CheckLoop, PoolInv, TypeOK
  <2>2. pool' \in Seq(Workers) /\ Len(pool') <= maxn
    <3>1. CASE pool' = pool
      BY <1>0, <3>1 DEF TypeOK
    <3>2. CASE pool' = Append(pool, Starting)
      BY <1>1, <2>1, <3>2, AppendProperties DEF Starting
    <3> QED
      BY <1>4, <3>1, <3>2 DEF CheckLoop
  <2>3. /\ pc' \in [Loops -> WorkerStates \union MainStates]
        /\ pc'[Main] \in MainStates /\ \A l \in Workers : pc'[l] \in WorkerStates
    <3>1. pc \in [Loops -> WorkerStates \union MainStates] /\ \A l \in Workers : pc[l] \in WorkerStates
      BY <1>0 DEF TypeOK
    <3> QED
      BY <1>1, <2>1, <3>1 DEF MainStates
  <2> QED
    BY <1>2, <2>1, <2>2, <2>3
<1>5. CASE WakeSpuriously \/ StartListening
  <2>1. pool' = pool /\ UNCHANGED NotStarting
        /\ \E state \in {"check", "loop"} : pc' = [pc EXCEPT ![Main] = state]
    BY <1>5 DEF WakeSpuriously, StartListening
  <2> QED
    BY <1>0, <1>1, <1>2, <2>1 DEF TypeOK, WorkerStates, MainStates
<1>6. ASSUME NEW l \in Workers, StartStep(l) PROVE TypeOK'
  <2>1. pool' = pool /\ UNCHANGED NotStarting
    BY <1>6 DEF StartStep, MakeLoop, EnterLoop
  <2>2. \/ pc' = [pc EXCEPT ![l] = "made", ![Main] = IF @ = "asleep" THEN "check" ELSE @]
        \/ pc' = [pc EXCEPT ![l] = "loop"]
    BY <1>6 DEF StartStep, MakeLoop, EnterLoop
  <2> QED
    BY <1>0, <1>1, <1>2, <2>1, <2>2 DEF TypeOK, WorkerStates, MainStates
\* The loops.
<1>7. ASSUME NEW l \in Loops, Poll(l) PROVE TypeOK'
  <2>1. Ready(l) \subseteq {<<Listen, "READ">>} \union (Conns \X {"READ", "WRITE"})
    BY DEF Ready, Reported
  <2>2. batch' = [batch EXCEPT ![l] = Ready(l)]
    BY <1>7 DEF Poll
  <2>3. batch' \in [Loops -> SUBSET ({<<Listen, "READ">>} \union (Conns \X {"READ", "WRITE"}))]
    BY <1>0, <2>1, <2>2 DEF TypeOK
  <2> QED
    BY <1>0, <1>7, <2>3
    DEF Poll, TypeOK, poolVars, acceptVars, clientVars, channelVars, readVars
<1>8. ASSUME NEW l \in Loops, RunFunctor(l) PROVE TypeOK'
  <2> DEFINE c == Head(queue[l])
  <2>1. queue[l] \in Seq(Conns \union {NoConn}) /\ queue[l] # <<>>
    BY <1>0, <1>8 DEF RunFunctor, TypeOK
  <2>2. c \in Conns \union {NoConn} /\ Tail(queue[l]) \in Seq(Conns \union {NoConn})
    BY <2>1, HeadTailProperties
  <2>3. queue' \in [Loops -> Seq(Conns \union {NoConn})]
    BY <1>0, <1>8, <2>2 DEF RunFunctor, TypeOK
  <2>4. mask' \in [Conns -> SUBSET {"READ", "WRITE"}]
    <3>1. mask' = mask \/ (c \in Conns /\ Update(c, events[c]))
      BY <1>8, <2>2 DEF RunFunctor
    <3>2. c \in Conns => events[c] \in SUBSET {"READ", "WRITE"}
      BY <1>0 DEF TypeOK
    <3> QED
      BY <1>0, <3>1, <3>2, Updated DEF TypeOK
  <2> QED
    BY <1>0, <1>8, <2>3, <2>4
    DEF RunFunctor, TypeOK, poolVars, acceptVars, clientVars, readVars
<1>9. ASSUME NEW l \in Loops, NEW b, Handled(l, b)
      PROVE  batch' \in [Loops -> SUBSET ({<<Listen, "READ">>} \union (Conns \X {"READ", "WRITE"}))]
  BY <1>0, <1>9 DEF Handled, TypeOK
<1>10. ASSUME batch[Main] # {}, TakeTurn
       PROVE  /\ next' = 0 \/ next' \in 0 .. maxn - 1
              /\ turns' \in [Loops -> Nat]
  <2>1. /\ maxn \in Nat /\ NextLoop \in Loops
        /\ pool # <<>> => next \in 0 .. maxn - 1
    BY <1>0, <1>10, NextLoopIs
  <2>2. turns' = [turns EXCEPT ![NextLoop] = @ + 1] /\ turns \in [Loops -> Nat]
    BY <1>0, <1>10 DEF TakeTurn, TypeOK
  <2>3. turns' \in [Loops -> Nat]
    BY <2>1, <2>2
  <2>4. next' = 0 \/ next' \in 0 .. maxn - 1
    <3>1. CASE pool = <<>>
      BY <1>0, <1>10, <3>1 DEF TakeTurn, TypeOK
    <3>2. CASE pool # <<>>
      <4>1. next' = (next + 1) % maxn
        BY <1>10, <3>2 DEF TakeTurn
      <4>2. next' = IF next + 1 = maxn THEN 0 ELSE next + 1
        BY <2>1, <3>2, <4>1, WrappedNext
      <4> QED
        BY <2>1, <3>2, <4>2
    <3> QED
      BY <3>1, <3>2
  <2> QED
    BY <2>3, <2>4
<1>11. CASE Accept
  <2>1. /\ accepted + 1 \in Conns /\ accepted + 1 <= arrived /\ NextLoop \in Loops
        /\ home' = [home EXCEPT ![accepted + 1] = NextLoop]
        /\ events' = [events EXCEPT ![accepted + 1] = {"READ"}]
        /\ \/ /\ Update(accepted + 1, {"READ"})
              /\ queue' = queue
           \/ /\ mask' = mask
              /\ queue' = [queue EXCEPT ![NextLoop] = Append(@, accepted + 1)]
    BY <1>0, <1>11, Given
  <2>2. Handled(Main, <<Listen, "READ">>) /\ TakeTurn /\ accepted' = accepted + 1
    BY <1>11 DEF Accept
  <2>3. batch[Main] # {}
    BY <2>2 DEF Handled
  <2>4. batch' \in [Loops -> SUBSET ({<<Listen, "READ">>} \union (Conns \X {"READ", "WRITE"}))]
    BY <1>1, <1>9, <2>2
  <2>5. /\ home' \in [Conns -> Loops \union {NoLoop}]
        /\ events' \in [Conns -> SUBSET {"READ", "WRITE"}]
    BY <1>0, <2>1 DEF TypeOK
  <2>6. mask' \in [Conns -> SUBSET {"READ", "WRITE"}]
    BY <1>0, <2>1, Updated DEF TypeOK
  <2>7. queue' \in [Loops -> Seq(Conns \union {NoConn})]
    <3>1. Append(queue[NextLoop], accepted + 1) \in Seq(Conns \union {NoConn})
      BY <1>0, <2>1, AppendProperties DEF TypeOK
    <3> QED
      BY <1>0, <2>1, <3>1 DEF TypeOK
  <2>8. accepted' \in 0 .. arrived
    BY <1>0, <2>1, <2>2 DEF TypeOK
  <2>9. (next' = 0 \/ next' \in 0 .. maxn - 1) /\ turns' \in [Loops -> Nat]
    BY <1>10, <2>2, <2>3
  <2> QED
    BY <1>0, <1>11, <2>4, <2>5, <2>6, <2>7, <2>8, <2>9
    DEF Accept, TypeOK, clientVars, readVars
<1>12. CASE AcceptFails
  <2>1. Handled(Main, <<Listen, "READ">>) /\ TakeTurn /\ fails < MaxFails /\ fails' = fails + 1
    BY <1>12 DEF AcceptFails
  <2>2. batch[Main] # {}
    BY <2>1 DEF Handled
  <2>3. batch' \in [Loops -> SUBSET ({<<Listen, "READ">>} \union (Conns \X {"READ", "WRITE"}))]
    BY <1>1, <1>9, <2>1
  <2>4. queue' \in [Loops -> Seq(Conns \union {NoConn})]
    <3>1. NextLoop \in Loops
      BY <1>0, <2>2, NextLoopIs
    <3>2. Append(queue[NextLoop], NoConn) \in Seq(Conns \union {NoConn})
      BY <1>0, <3>1, AppendProperties DEF TypeOK
    <3> QED
      BY <1>0, <1>12, <3>1, <3>2 DEF TypeOK, AcceptFails
  <2>5. fails' \in 0 .. MaxFails
    BY <1>0, <1>1, <2>1 DEF TypeOK
  <2>6. (next' = 0 \/ next' \in 0 .. maxn - 1) /\ turns' \in [Loops -> Nat]
    BY <1>10, <2>1, <2>2
  <2> QED
    BY <1>0, <1>12, <2>3, <2>4, <2>5, <2>6
    DEF AcceptFails, TypeOK, clientVars, channelVars, readVars
\* Requests.
<1>13. ASSUME NEW l \in Loops, NEW c \in Conns, HandleRead(l, c) PROVE TypeOK'
  <2>1. batch' \in [Loops -> SUBSET ({<<Listen, "READ">>} \union (Conns \X {"READ", "WRITE"}))]
    BY <1>9, <1>13 DEF HandleRead
  <2>2. /\ reading' \in [Loops -> Conns \union {NoConn}]
        /\ lines' \in [Loops -> 0 .. 2]
    BY <1>0, <1>13 DEF HandleRead, TypeOK
  <2> QED
    BY <1>0, <1>13, <2>1, <2>2
    DEF HandleRead, TypeOK, poolVars, acceptVars, clientVars, channelVars
<1>14. ASSUME NEW l \in Loops, Leave(l)
       PROVE  reading' \in [Loops -> Conns \union {NoConn}] /\ lines' \in [Loops -> 0 .. 2]
  BY <1>0, <1>14 DEF Leave, TypeOK
<1>15. ASSUME NEW l \in Loops, ReadLines(l) PROVE TypeOK'
  <2>1. reading[l] \in Conns
    BY <1>0, <1>15 DEF ReadLines, TypeOK
  <2>2. input' \in [Conns -> Seq(Kinds)]
    BY <1>0, <1>15, EmptySeq DEF ReadLines, ReadSome, TypeOK
  <2>3. \/ RequestRead(reading[l]) /\ Leave(l)
        \/ /\ lines' = [lines EXCEPT ![l] = 1] \/ lines' = [lines EXCEPT ![l] = 2]
           /\ UNCHANGED <<reading, channelVars>>
    BY <1>15 DEF ReadLines
  <2>4. /\ events' \in [Conns -> SUBSET {"READ", "WRITE"}]
        /\ mask' \in [Conns -> SUBSET {"READ", "WRITE"}]
    BY <1>0, <2>1, <2>3, RequestIsRead DEF TypeOK, channelVars
  <2>5. reading' \in [Loops -> Conns \union {NoConn}] /\ lines' \in [Loops -> 0 .. 2]
    <3>1. CASE Leave(l)
      BY <1>14, <3>1
    <3>2. CASE /\ lines' = [lines EXCEPT ![l] = 1] \/ lines' = [lines EXCEPT ![l] = 2]
               /\ reading' = reading
      <4>1. reading \in [Loops -> Conns \union {NoConn}] /\ lines \in [Loops -> 0 .. 2]
        BY <1>0 DEF TypeOK
      <4>2. lines' \in [Loops -> 0 .. 2]
        BY ONLY <3>2, <4>1
      <4> QED
        BY <3>2, <4>1, <4>2
    <3> QED
      BY <2>3, <3>1, <3>2
  <2> QED
    BY <1>0, <1>15, <2>2, <2>4, <2>5
    DEF ReadLines, TypeOK, poolVars, acceptVars, clientVars
<1>16. ASSUME NEW l \in Loops, ReadEnd(l) PROVE TypeOK'
  <2>1. reading[l] \in Conns /\ Leave(l) /\ (UNCHANGED channelVars \/ RequestRead(reading[l]))
    BY <1>0, <1>16 DEF ReadEnd, TypeOK
  <2>2. /\ events' \in [Conns -> SUBSET {"READ", "WRITE"}]
        /\ mask' \in [Conns -> SUBSET {"READ", "WRITE"}]
    BY <1>0, <2>1, RequestIsRead DEF TypeOK, channelVars
  <2>3. reading' \in [Loops -> Conns \union {NoConn}] /\ lines' \in [Loops -> 0 .. 2]
    BY <1>14, <2>1
  <2> QED
    BY <1>0, <1>16, <2>2, <2>3 DEF ReadEnd, TypeOK, poolVars, acceptVars, clientVars
<1>17. ASSUME NEW l \in Loops, NEW c \in Conns, HandleWrite(l, c) PROVE TypeOK'
  <2>1. batch' \in [Loops -> SUBSET ({<<Listen, "READ">>} \union (Conns \X {"READ", "WRITE"}))]
    BY <1>9, <1>17 DEF HandleWrite
  <2>2. \/ UNCHANGED <<events, mask, answered>>
        \/ /\ answered' = [answered EXCEPT ![c] = Whole(c)]
           /\ events' = [events EXCEPT ![c] = {"READ"}] /\ Update(c, {"READ"})
    BY <1>17 DEF HandleWrite, Serve, channelVars
  <2>3. Whole(c) \in BOOLEAN
    BY DEF Whole
  <2>4. mask' \in [Conns -> SUBSET {"READ", "WRITE"}]
    <3>1. CASE Update(c, {"READ"})
      BY <1>0, <3>1, Updated
    <3> QED
      BY <1>0, <2>2, <3>1 DEF TypeOK
  <2>5. /\ events' \in [Conns -> SUBSET {"READ", "WRITE"}]
        /\ answered' \in [Conns -> BOOLEAN]
    BY <1>0, <2>2, <2>3 DEF TypeOK
  <2> QED
    BY <1>0, <1>17, <2>1, <2>4, <2>5 DEF HandleWrite, TypeOK, poolVars, acceptVars, clientVars, readVars
\* The clients.
<1>18. CASE Connect
  BY <1>0, <1>1, <1>18
  DEF Connect, TypeOK, poolVars, acceptVars, channelVars, readVars
<1>19. ASSUME NEW c \in Conns, Close(c) PROVE TypeOK'
  BY <1>0, <1>19 DEF Close, TypeOK, poolVars, acceptVars, channelVars, readVars
<1>20. ASSUME NEW c \in Conns, NEW kind \in Kinds, SendLine(c, kind) PROVE TypeOK'
  <2>1. /\ sent' = [sent EXCEPT ![c] = Append(sent[c], kind)]
        /\ input' = [input EXCEPT ![c] = Append(input[c], kind)]
    BY <1>20 DEF SendLine
  <2>2. Append(sent[c], kind) \in Seq(Kinds) /\ Append(input[c], kind) \in Seq(Kinds)
    BY <1>0, AppendProperties DEF TypeOK
  <2>3. sent' \in [Conns -> Seq(Kinds)] /\ input' \in [Conns -> Seq(Kinds)]
    BY <1>0, <2>1, <2>2 DEF TypeOK
  <2> QED
    BY <1>0, <1>20, <2>3 DEF SendLine, TypeOK, poolVars, acceptVars, channelVars, readVars
<1>21. CASE UNCHANGED vars
  BY <1>0, <1>21
  DEF vars, TypeOK, poolVars, acceptVars, clientVars, channelVars, readVars
<1> QED
  BY <1>3, <1>4, <1>5, <1>6, <1>7, <1>8, <1>11, <1>12, <1>13, <1>15, <1>16, <1>17, <1>18, <1>19,
     <1>20, <1>21
  DEF Next, MainStart, Handle, ClientStep

-----------------------------------------------------------------------------
(* startLoop(), and what start() leaves. *)

LEMMA PoolStep == IInv /\ [Next]_vars => PoolInv'
<1> SUFFICES ASSUME IInv, [Next]_vars PROVE PoolInv'
  OBVIOUS
<1>0. /\ TypeOK /\ PoolInv
      /\ pc \in [Loops -> WorkerStates \union MainStates]
      /\ Main \in Loops /\ Workers \subseteq Loops /\ Main \notin Workers
      /\ maxn \in Nat /\ Len(pool) \in Nat /\ Len(pool) <= maxn /\ maxn <= MaxThreads
      /\ pool \in Seq(Workers) /\ DOMAIN pool = 1 .. Len(pool) /\ MaxThreads \in Nat
  BY ThreadFacts, LenProperties DEF IInv, TypeOK
<1>1. /\ \A i \in DOMAIN pool : i \in Workers /\ i # Starting
      /\ Starting <= maxn => Starting \in Workers
  BY <1>0 DEF Workers, Starting
<1>2. CASE UNCHANGED <<maxn, pc, pool>>
  BY <1>0, <1>2 DEF PoolInv, PoolHasLoops, Starting
<1>3. CASE StartThread
  <2>1. /\ Starting <= maxn /\ UNCHANGED <<maxn, pool>>
        /\ pc' = [pc EXCEPT ![Main] = "check", ![Starting] = "thread"]
    BY <1>3 DEF StartThread, NotStarting
  <2>2. /\ pc'[Main] = "check" /\ pc'[Starting] = "thread"
        /\ \A i \in DOMAIN pool : pc'[i] = pc[i]
    <3>1. DOMAIN pc = Loops /\ Main \in Loops /\ Starting \in Loops /\ Main # Starting
          /\ \A i \in DOMAIN pool : i \in Loops /\ i # Main /\ i # Starting
      BY <1>0, <1>1, <2>1
    <3> QED
      BY ONLY <2>1, <3>1, TwoEntries
  <2>3. \A i \in DOMAIN pool : pool[i] = i /\ pc[i] \in {"made", "loop"}
    BY <1>0 DEF PoolInv, PoolHasLoops
  <2>4. PoolHasLoops'
    BY <2>1, <2>2, <2>3 DEF PoolHasLoops
  <2> QED
    BY <2>1, <2>2, <2>4 DEF PoolInv, Starting
<1>4. CASE CheckLoop
  <2>1. /\ pc[Main] = "check" /\ Starting \in Workers /\ Starting <= maxn /\ maxn' = maxn
        /\ pc[Starting] \in WorkerStates \ {"none"}
    BY <1>0, <1>1, <1>4 DEF CheckLoop, NotStarting, PoolInv, TypeOK
  <2>2. CASE pc[Starting] = "thread"
    <3>1. pool' = pool /\ pc' = [pc EXCEPT ![Main] = "asleep"]
      BY <1>4, <2>2 DEF CheckLoop
    <3>2. pc'[Main] = "asleep" /\ \A l \in Workers : pc'[l] = pc[l]
      BY <1>0, <3>1
    <3> QED
      BY <1>0, <1>1, <2>1, <3>1, <3>2 DEF PoolInv, PoolHasLoops, Starting
  <2>3. CASE pc[Starting] # "thread"
    <3>1. pool' = Append(pool, Starting) /\ pc' = [pc EXCEPT ![Main] = "start"]
      BY <1>4, <2>3 DEF CheckLoop
    <3>2. pc'[Main] = "start" /\ \A l \in Workers : pc'[l] = pc[l]
      BY <1>0, <3>1
    <3>3. /\ DOMAIN pool' = 1 .. Starting /\ pool'[Starting] = Starting
          /\ \A i \in 1 .. Len(pool) : pool'[i] = pool[i]
      BY <1>0, <2>1, <3>1, AppendProperties, LenProperties DEF Starting
    <3>4. \A i \in 1 .. Starting : i \in 1 .. Len(pool) \/ i = Starting
      BY <1>0 DEF Starting
    <3>5. \A i \in 1 .. Starting : pool'[i] = i /\ pc'[i] \in {"made", "loop"}
      BY <1>0, <1>1, <2>1, <2>3, <3>2, <3>3, <3>4 DEF PoolInv, PoolHasLoops, WorkerStates
    <3> QED
      BY <3>2, <3>3, <3>5 DEF PoolInv, PoolHasLoops
  <2> QED
    BY <2>2, <2>3
<1>5. CASE WakeSpuriously \/ StartListening
  <2>1. /\ UNCHANGED <<maxn, pool>>
        /\ \/ pc[Main] = "asleep" /\ pc' = [pc EXCEPT ![Main] = "check"]
           \/ Starting > maxn /\ pc' = [pc EXCEPT ![Main] = "loop"]
    BY <1>5 DEF WakeSpuriously, StartListening, NotStarting
  <2>2. \A l \in Workers : pc'[l] = pc[l]
    BY <1>0, <2>1
  <2>3. PoolHasLoops'
    BY <1>0, <1>1, <2>1, <2>2 DEF PoolInv, PoolHasLoops
  <2>4. CASE pc'[Main] = "check" /\ pc[Main] = "asleep"
    BY <1>0, <1>1, <2>1, <2>2, <2>3, <2>4 DEF PoolInv, Starting
  <2>5. CASE pc'[Main] = "loop" /\ Starting > maxn
    <3>1. Len(pool') = maxn'
      <4>1. Len(pool) + 1 > maxn
        BY <2>5 DEF Starting
      <4>2. Len(pool) \in Nat /\ maxn \in Nat /\ Len(pool) <= maxn
        BY <1>0
      <4>3. Len(pool) = maxn
        BY ONLY <4>1, <4>2
      <4> QED
        BY <2>1, <4>3
    <3> QED
      BY <2>3, <2>5, <3>1 DEF PoolInv
  <2> QED
    BY <1>0, <2>1, <2>4, <2>5
<1>6. ASSUME NEW l \in Workers, StartStep(l) PROVE PoolInv'
  <2>1. /\ UNCHANGED <<maxn, pool>>
        /\ \/ pc' = [pc EXCEPT ![l] = "made", ![Main] = IF @ = "asleep" THEN "check" ELSE @]
           \/ pc' = [pc EXCEPT ![l] = "loop"]
    BY <1>6 DEF StartStep, MakeLoop, EnterLoop, NotStarting
  <2>2. /\ pc'[l] \in {"made", "loop"} /\ \A k \in Workers \ {l} : pc'[k] = pc[k]
        /\ pc'[Main] = pc[Main] \/ (pc[Main] = "asleep" /\ pc'[Main] = "check")
    <3>1. DOMAIN pc = Loops /\ Main \in Loops /\ l \in Loops /\ Main # l
          /\ \A k \in Workers \ {l} : k \in Loops /\ k # Main
      BY <1>0
    <3>2. CASE pc' = [pc EXCEPT ![l] = "loop"]
      BY ONLY <3>1, <3>2
    <3>3. CASE pc' = [pc EXCEPT ![l] = "made", ![Main] = IF @ = "asleep" THEN "check" ELSE @]
      <4>1. pc' = [pc EXCEPT ![l] = "made",
                             ![Main] = IF pc[Main] = "asleep" THEN "check" ELSE pc[Main]]
        BY ONLY <3>1, <3>3
      <4> HIDE <3>3
      <4> QED
        BY ONLY <3>1, <4>1, TwoEntries
    <3> QED
      BY <2>1, <3>2, <3>3
  <2>3. PoolHasLoops'
    <3>1. \A i \in DOMAIN pool : i \in Workers /\ pool[i] = i /\ pc[i] \in {"made", "loop"}
      BY <1>0, <1>1 DEF PoolInv, PoolHasLoops
    <3> QED
      BY <2>1, <2>2, <3>1 DEF PoolHasLoops
  <2>4. pc'[Main] \in {"check", "asleep"} => Starting <= maxn /\ pc'[Starting] # "none"
    BY <1>0, <1>1, <2>2 DEF PoolInv
  <2>5. pc'[Main] = "loop" => Len(pool) = maxn
    BY <1>0, <2>2 DEF PoolInv
  <2> QED
    BY <2>1, <2>3, <2>4, <2>5 DEF PoolInv, Starting
<1>7. ASSUME NEW l \in Loops, Poll(l) \/ RunFunctor(l) \/ Handle(l) PROVE PoolInv'
  BY <1>2, <1>7
  DEF Poll, RunFunctor, Handle, Accept, AcceptFails, HandleRead, HandleWrite, ReadLines, ReadEnd,
      poolVars
<1>8. CASE ClientStep \/ UNCHANGED vars
  BY <1>2, <1>8 DEF ClientStep, Connect, Close, SendLine, vars, poolVars
<1> QED
  BY <1>3, <1>4, <1>5, <1>6, <1>7, <1>8 DEF Next, MainStart

LEMMA BatchStep == IInv /\ [Next]_vars => BatchInv'
<1> SUFFICES ASSUME IInv, [Next]_vars PROVE BatchInv'
  OBVIOUS
<1>0. /\ TypeOK /\ PoolInv /\ BatchInv /\ Main \in Loops
      /\ accepted \in Nat /\ arrived \in Nat /\ MaxConns \in Nat
      /\ batch \in [Loops -> SUBSET ({<<Listen, "READ">>} \union (Conns \X {"READ", "WRITE"}))]
  BY ThreadFacts, ConstantsAssumption DEF IInv, TypeOK
<1>1. ASSUME batch'[Main] \subseteq batch[Main], pc[Main] = "loop" => pc'[Main] = "loop",
             \/ <<Listen, "READ">> \notin batch'[Main]
             \/ accepted' = accepted /\ arrived' \in {arrived, arrived + 1}
      PROVE  BatchInv'
  BY <1>0, <1>1 DEF BatchInv
<1>2. CASE MainStart \/ WakeSpuriously \/ \E l \in Workers : StartStep(l)
  <2>1. UNCHANGED <<batch, accepted, arrived>>
    BY <1>2
    DEF MainStart, StartThread, CheckLoop, StartListening, WakeSpuriously, StartStep, MakeLoop,
        EnterLoop, NotStarting, acceptVars, clientVars
  <2>2. pc[Main] = "loop" => pc'[Main] = "loop"
    BY <1>0, <1>2, ThreadFacts
    DEF MainStart, StartThread, CheckLoop, StartListening, WakeSpuriously, StartStep, MakeLoop,
        EnterLoop, TypeOK
  <2> QED
    BY <1>0, <1>1, <2>1, <2>2
<1>3. ASSUME NEW l \in Loops, Poll(l) PROVE BatchInv'
  <2>1. /\ pc[l] = "loop" /\ batch' = [batch EXCEPT ![l] = Ready(l)]
        /\ UNCHANGED <<pc, accepted, arrived>>
    BY <1>3 DEF Poll, Idle, acceptVars, clientVars
  <2>2. CASE l = Main
    <3>1. \A c \in Conns : <<Listen, "READ">> \notin Reported(c)
      BY <1>0 DEF Reported, Conns, Listen
    <3>2. <<Listen, "READ">> \in Ready(Main) => arrived > accepted
      BY <3>1 DEF Ready
    <3>3. batch'[Main] = Ready(Main)
      BY <1>0, <2>1, <2>2
    <3> QED
      BY <1>0, <2>1, <2>2, <3>2, <3>3 DEF BatchInv
  <2>3. CASE l # Main
    BY <1>0, <1>1, <2>1, <2>3
  <2> QED
    BY <2>2, <2>3
<1>4. ASSUME NEW l \in Loops, RunFunctor(l) \/ ReadLines(l) \/ ReadEnd(l) PROVE BatchInv'
  BY <1>1, <1>4 DEF RunFunctor, ReadLines, ReadEnd, acceptVars, clientVars
<1>5. ASSUME NEW l \in Loops, NEW b, Handled(l, b)
      PROVE  batch'[Main] \subseteq batch[Main] /\ (l = Main => b \notin batch'[Main])
  BY <1>0, <1>5 DEF Handled
<1>6. CASE Accept
  BY <1>0, <1>1, <1>5, <1>6 DEF Accept
<1>7. CASE AcceptFails
  BY <1>0, <1>1, <1>5, <1>7 DEF AcceptFails
<1>8. ASSUME NEW l \in Loops, NEW c \in Conns, HandleRead(l, c) \/ HandleWrite(l, c)
      PROVE  BatchInv'
  <2>1. batch'[Main] \subseteq batch[Main]
    BY <1>5, <1>8 DEF HandleRead, HandleWrite
  <2> QED
    BY <1>1, <1>8, <2>1 DEF HandleRead, HandleWrite, acceptVars, clientVars
<1>9. CASE ClientStep \/ UNCHANGED vars
  BY <1>1, <1>9 DEF ClientStep, Connect, Close, SendLine, vars, acceptVars, clientVars
<1> QED
  BY <1>2, <1>3, <1>4, <1>6, <1>7, <1>8, <1>9 DEF Next, Handle

-----------------------------------------------------------------------------
(* getNextLoop(). *)

LEMMA TurnStep == IInv /\ [Next]_vars => TurnInv'
<1> SUFFICES ASSUME IInv, [Next]_vars PROVE TurnInv'
  OBVIOUS
<1>0. TypeOK /\ PoolInv /\ BatchInv /\ TurnInv /\ Main \in Loops
  BY ThreadFacts DEF IInv
<1>1. ASSUME UNCHANGED <<maxn, next, turns>>,
             pc[Main] = "loop" => pc'[Main] = "loop" /\ pool' = pool
      PROVE  TurnInv'
  BY <1>0, <1>1 DEF TurnInv
<1>2. CASE MainStart \/ WakeSpuriously \/ \E l \in Workers : StartStep(l)
  <2>1. UNCHANGED <<maxn, next, turns>>
    BY <1>2
    DEF MainStart, StartThread, CheckLoop, StartListening, WakeSpuriously, StartStep, MakeLoop,
        EnterLoop, NotStarting, acceptVars
  <2>2. pc[Main] = "loop" => pc'[Main] = "loop" /\ pool' = pool
    BY <1>0, <1>2, ThreadFacts
    DEF MainStart, StartThread, CheckLoop, StartListening, WakeSpuriously, StartStep, MakeLoop,
        EnterLoop, TypeOK
  <2> QED
    BY <1>1, <2>1, <2>2
<1>3. ASSUME batch[Main] # {}, TakeTurn, UNCHANGED <<maxn, pool, pc>> PROVE TurnInv'
  <2>1. /\ pc[Main] = "loop" /\ maxn \in Nat /\ NextLoop \in Loops
        /\ pool = <<>> => NextLoop = Main /\ maxn = 0
        /\ pool # <<>> => /\ NextLoop = next + 1 /\ NextLoop \in 1 .. maxn /\ NextLoop \in Workers
                          /\ next \in 0 .. maxn - 1
    BY <1>0, <1>3, NextLoopIs
  <2>2. /\ turns' = [turns EXCEPT ![NextLoop] = turns[NextLoop] + 1] /\ turns \in [Loops -> Nat]
        /\ next' = IF pool = <<>> THEN next ELSE (next + 1) % maxn
    BY <1>0, <1>3 DEF TakeTurn, TypeOK
  <2>3. CASE pool = <<>>
    <3>1. \A k \in 1 .. maxn' : FALSE
      BY <1>3, <2>1, <2>3
    <3>2. 0 \in Nat
      OBVIOUS
    <3> QED
      BY <1>3, <2>1, <2>3, <3>1, <3>2 DEF TurnInv
  <2>4. CASE pool # <<>>
    <3>1. /\ next \in 0 .. maxn - 1 /\ NextLoop = next + 1
          /\ next' = IF next + 1 = maxn THEN 0 ELSE next + 1
      BY <2>1, <2>2, <2>4, WrappedNext
    <3>2. PICK base \in Nat : \A k \in 1 .. maxn : turns[k] = IF k <= next THEN base + 1 ELSE base
      BY <1>0 DEF TurnInv
    <3>3. 1 .. maxn \subseteq Loops /\ Main \notin 1 .. maxn
      BY <1>0, <2>1, ThreadFacts DEF TypeOK, Workers, Loops, Main
    <3>4. /\ turns'[next + 1] = base + 1
          /\ \A k \in 1 .. maxn : k # next + 1 => turns'[k] = turns[k]
      BY <2>1, <2>2, <3>1, <3>2, <3>3
    <3>5. CASE next + 1 = maxn
      <4>1. \A k \in 1 .. maxn : turns'[k] = base + 1
        BY <2>1, <3>1, <3>2, <3>4, <3>5
      <4>2. next' = 0 /\ \A k \in 1 .. maxn : ~(k <= 0)
        BY <3>1, <3>5
      <4>3. base + 1 \in Nat /\ maxn' = maxn
        BY <1>3, <3>2
      <4> QED
        <5>1. \A k \in 1 .. maxn' : turns'[k] = IF k <= next' THEN base + 1 + 1 ELSE base + 1
          BY <4>1, <4>2, <4>3
        <5>2. turns'[Main] = 0
          BY <1>0, <2>1, <2>2, <2>4, <3>3 DEF TurnInv
        <5> QED
          BY <4>3, <5>1, <5>2 DEF TurnInv
    <3>6. CASE next + 1 # maxn
      <4>1. next' = next + 1 /\ maxn' = maxn
        BY <1>3, <3>1, <3>6
      <4>2. \A k \in 1 .. maxn : turns'[k] = IF k <= next + 1 THEN base + 1 ELSE base
        BY <2>1, <3>1, <3>2, <3>4
      <4>3. turns'[Main] = 0
        BY <1>0, <2>1, <2>2, <2>4, <3>3 DEF TurnInv
      <4> QED
        BY <3>2, <4>1, <4>2, <4>3 DEF TurnInv
    <3> QED
      BY <3>5, <3>6
  <2> QED
    BY <2>3, <2>4
<1>4. CASE Accept \/ AcceptFails
  <2>1. batch[Main] # {} /\ TakeTurn /\ UNCHANGED <<maxn, pool, pc>>
    BY <1>4 DEF Accept, AcceptFails, Handled
  <2> QED
    BY <1>3, <2>1
<1>5. ASSUME NEW l \in Loops,
             \/ Poll(l) \/ RunFunctor(l) \/ ReadLines(l) \/ ReadEnd(l)
             \/ \E c \in Conns : HandleRead(l, c) \/ HandleWrite(l, c)
      PROVE  TurnInv'
  BY <1>1, <1>5
  DEF Poll, RunFunctor, ReadLines, ReadEnd, HandleRead, HandleWrite, poolVars, acceptVars
<1>6. CASE ClientStep \/ UNCHANGED vars
  BY <1>1, <1>6 DEF ClientStep, Connect, Close, SendLine, vars, poolVars, acceptVars
<1> QED
  BY <1>2, <1>4, <1>5, <1>6 DEF Next, Handle

-----------------------------------------------------------------------------
(* Who is watched. *)

\* c is queued for a loop.
Queued(c, l) == \E i \in DOMAIN queue[l] : queue[l][i] = c

LEMMA AppendedStay ==
  ASSUME TypeOK, NEW k \in Loops, NEW d \in Conns \union {NoConn},
         queue' = [queue EXCEPT ![k] = Append(@, d)]
  PROVE  /\ \A c \in Conns, l \in Loops : Queued(c, l) => Queued(c, l)'
         /\ Queued(d, k)'
<1>0. queue \in [Loops -> Seq(Conns \union {NoConn})]
  BY DEF TypeOK
<1>1. queue[k] \in Seq(Conns \union {NoConn}) /\ queue'[k] = Append(queue[k], d)
      /\ \A l \in Loops \ {k} : queue'[l] = queue[l]
  BY <1>0
<1>2. /\ Len(queue[k]) \in Nat /\ DOMAIN queue[k] = 1 .. Len(queue[k])
      /\ DOMAIN queue'[k] = 1 .. (Len(queue[k]) + 1)
      /\ \A i \in 1 .. Len(queue[k]) : queue'[k][i] = queue[k][i]
      /\ queue'[k][Len(queue[k]) + 1] = d
  BY <1>1, AppendProperties, LenProperties
<1>3. \A c \in Conns : Queued(c, k) => Queued(c, k)'
  BY <1>2 DEF Queued
<1>4. \A c \in Conns, l \in Loops \ {k} : Queued(c, l) => Queued(c, l)'
  BY <1>1 DEF Queued
<1>5. Queued(d, k)'
  BY <1>2 DEF Queued
<1> QED
  BY <1>3, <1>4, <1>5

\* One functor is run; the others stay.
LEMMA OthersStay ==
  ASSUME TypeOK, NEW k \in Loops, queue[k] # <<>>, queue' = [queue EXCEPT ![k] = Tail(@)]
  PROVE  \A c \in Conns, l \in Loops : Queued(c, l) => Queued(c, l)' \/ c = Head(queue[k])
<1>0. queue \in [Loops -> Seq(Conns \union {NoConn})]
  BY DEF TypeOK
<1>1. queue[k] \in Seq(Conns \union {NoConn}) /\ queue'[k] = Tail(queue[k])
      /\ \A l \in Loops \ {k} : queue'[l] = queue[l]
  BY <1>0
<1>2. /\ Len(queue[k]) \in Nat /\ DOMAIN queue[k] = 1 .. Len(queue[k])
      /\ Len(queue'[k]) = Len(queue[k]) - 1 /\ DOMAIN queue'[k] = 1 .. Len(queue'[k])
      /\ \A i \in 1 .. Len(queue'[k]) : queue'[k][i] = queue[k][i + 1]
      /\ Head(queue[k]) = queue[k][1]
  <2>1. queue'[k] \in Seq(Conns \union {NoConn})
    BY <1>1, HeadTailProperties
  <2>2. /\ Len(queue[k]) \in Nat /\ DOMAIN queue[k] = 1 .. Len(queue[k])
        /\ DOMAIN queue'[k] = 1 .. Len(queue'[k])
    BY <1>1, <2>1, LenProperties
  <2>3. /\ Len(queue'[k]) = Len(queue[k]) - 1
        /\ \A i \in 1 .. Len(queue'[k]) : queue'[k][i] = queue[k][i + 1]
        /\ Head(queue[k]) = queue[k][1]
    <3>1. PICK q \in Seq(Conns \union {NoConn}) : q = queue[k]
      BY <1>1
    <3>2. /\ Len(Tail(q)) = Len(q) - 1 /\ Head(q) = q[1]
          /\ \A i \in 1 .. Len(Tail(q)) : Tail(q)[i] = q[i + 1]
      BY <3>1, HeadTailProperties
    <3> QED
      BY <1>1, <3>1, <3>2
  <2> QED
    BY <2>2, <2>3
<1>3. ASSUME NEW c \in Conns, Queued(c, k) PROVE Queued(c, k)' \/ c = Head(queue[k])
  <2>1. PICK i \in 1 .. Len(queue[k]) : queue[k][i] = c
    BY <1>2, <1>3 DEF Queued
  <2>2. CASE i = 1
    BY <1>2, <2>1, <2>2
  <2>3. CASE i # 1
    <3>1. i - 1 \in 1 .. Len(queue'[k]) /\ (i - 1) + 1 = i
      BY <1>2, <2>3
    <3>2. queue'[k][i - 1] = c
      BY <1>2, <2>1, <3>1
    <3> QED
      BY <1>2, <3>1, <3>2 DEF Queued
  <2> QED
    BY <2>2, <2>3
<1>4. \A c \in Conns, l \in Loops \ {k} : Queued(c, l) => Queued(c, l)'
  BY <1>1 DEF Queued
<1> QED
  BY <1>3, <1>4

LEMMA WatchedStep == IInv /\ [Next]_vars => Watched'
<1> SUFFICES ASSUME IInv, [Next]_vars PROVE Watched'
  OBVIOUS
<1>0. /\ TypeOK /\ PoolInv /\ BatchInv
      /\ home \in [Conns -> Loops \union {NoLoop}]
      /\ events \in [Conns -> SUBSET {"READ", "WRITE"}]
      /\ mask \in [Conns -> SUBSET {"READ", "WRITE"}]
  BY DEF IInv, TypeOK
<1>1. \A c \in Conns : home[c] # NoLoop =>
        /\ home[c] \in Loops /\ "READ" \in events[c]
        /\ events[c] \subseteq mask[c] \/ Queued(c, home[c])
  BY <1>0 DEF IInv, Watched, Queued
<1> DEFINE Fine(c) == /\ "READ" \in events'[c]
                      /\ events'[c] \subseteq mask'[c] \/ Queued(c, home[c])'
\* Nobody new: whoever changed is watched.
<1>2. ASSUME home' = home,
             \A c \in Conns :
               \/ /\ events'[c] = events[c] /\ mask'[c] = mask[c]
                  /\ home[c] \in Loops /\ Queued(c, home[c]) =>
                       Queued(c, home[c])' \/ events[c] \subseteq mask'[c]
               \/ "READ" \in events'[c] /\ events'[c] \subseteq mask'[c]
      PROVE  Watched'
  BY <1>1, <1>2 DEF Watched, Queued
<1>3. CASE UNCHANGED <<home, events, mask, queue>>
  BY <1>2, <1>3 DEF Queued
<1>4. CASE MainStart \/ WakeSpuriously \/ \E l \in Workers : StartStep(l)
  BY <1>3, <1>4
  DEF MainStart, StartThread, CheckLoop, StartListening, WakeSpuriously, StartStep, MakeLoop,
      EnterLoop, NotStarting, acceptVars, channelVars
<1>5. ASSUME NEW l \in Loops, RunFunctor(l) PROVE Watched'
  <2> DEFINE h == Head(queue[l])
  <2>1. /\ queue[l] # <<>> /\ queue' = [queue EXCEPT ![l] = Tail(@)]
        /\ home' = home /\ events' = events
        /\ IF h = NoConn THEN mask' = mask ELSE Update(h, events[h])
    BY <1>5 DEF RunFunctor, acceptVars
  <2>2. \A c \in Conns, k \in Loops : Queued(c, k) => Queued(c, k)' \/ c = h
    BY <1>0, <2>1, OthersStay
  <2>3. h \in Conns \union {NoConn}
    BY <1>0, <2>1, HeadTailProperties DEF TypeOK
  <2> HIDE DEF h
  <2>4. CASE h = NoConn
    <3>1. \A c \in Conns : c # h
      BY <2>4 DEF Conns, NoConn
    <3> QED
      BY <1>2, <2>1, <2>2, <2>4, <3>1
  <2>5. CASE h # NoConn
    <3>1. h \in Conns /\ events[h] \in SUBSET {"READ", "WRITE"} /\ Update(h, events[h])
      BY <1>0, <2>1, <2>3, <2>5
    <3>2. events[h] \subseteq mask'[h] /\ \A d \in Conns \ {h} : mask'[d] = mask[d]
      BY <1>0, <3>1, Updated
    <3> SUFFICES ASSUME NEW c \in Conns, home[c] # NoLoop PROVE Fine(c)
      BY <2>1 DEF Watched, Queued
    <3> QED
      BY <1>1, <2>1, <2>2, <3>2
  <2> QED
    BY <2>4, <2>5
<1>6. CASE Accept
  <2>1. PICK n \in Conns, k \in Loops :
          /\ home' = [home EXCEPT ![n] = k]
          /\ events' = [events EXCEPT ![n] = {"READ"}]
          /\ \/ Update(n, {"READ"}) /\ queue' = queue
             \/ mask' = mask /\ queue' = [queue EXCEPT ![k] = Append(@, n)]
    BY <1>0, <1>6, Given
  <2>2. /\ home'[n] = k /\ events'[n] = {"READ"}
        /\ \A d \in Conns \ {n} : home'[d] = home[d] /\ events'[d] = events[d]
    BY <1>0, <2>1
  <2>3. /\ \A c \in Conns, l \in Loops : Queued(c, l) => Queued(c, l)'
        /\ {"READ"} \subseteq mask'[n] \/ Queued(n, k)'
        /\ \A d \in Conns \ {n} : mask'[d] = mask[d]
    <3>1. CASE Update(n, {"READ"}) /\ queue' = queue
      BY <1>0, <3>1, Updated DEF Queued
    <3>2. CASE mask' = mask /\ queue' = [queue EXCEPT ![k] = Append(@, n)]
      BY <1>0, <3>2, AppendedStay
    <3> QED
      BY <2>1, <3>1, <3>2
  <2> QED
    BY <1>1, <2>1, <2>2, <2>3 DEF Watched, Queued
<1>7. CASE AcceptFails
  <2>1. /\ UNCHANGED <<home, events, mask>> /\ batch[Main] # {}
        /\ queue' = queue \/ queue' = [queue EXCEPT ![NextLoop] = Append(@, NoConn)]
    BY <1>7 DEF AcceptFails, Handled, channelVars
  <2>2. NextLoop \in Loops /\ NoConn \in Conns \union {NoConn}
    BY <1>0, <2>1, NextLoopIs
  <2>3. \A c \in Conns, l \in Loops : Queued(c, l) => Queued(c, l)'
    BY <1>0, <2>1, <2>2, AppendedStay DEF Queued
  <2> QED
    BY <1>2, <2>1, <2>3
<1>8. ASSUME NEW c \in Conns, RequestRead(c), UNCHANGED <<home, queue>> PROVE Watched'
  <2>1. /\ "READ" \in events'[c] /\ events'[c] \subseteq mask'[c]
        /\ \A d \in Conns \ {c} : events'[d] = events[d] /\ mask'[d] = mask[d]
    BY <1>0, <1>8, RequestIsRead
  <2> QED
    BY <1>2, <1>8, <2>1 DEF Queued
<1>9. ASSUME NEW l \in Loops, ReadLines(l) \/ ReadEnd(l) PROVE Watched'
  <2>1. /\ reading[l] \in Conns /\ UNCHANGED <<home, queue>>
        /\ UNCHANGED channelVars \/ RequestRead(reading[l])
    BY <1>0, <1>9 DEF ReadLines, ReadEnd, TypeOK, acceptVars
  <2> QED
    BY <1>3, <1>8, <2>1 DEF channelVars
<1>10. ASSUME NEW l \in Loops, NEW c \in Conns, HandleWrite(l, c) PROVE Watched'
  <2>1. /\ UNCHANGED <<home, queue>>
        /\ \/ UNCHANGED channelVars
           \/ events' = [events EXCEPT ![c] = {"READ"}] /\ Update(c, {"READ"})
    BY <1>10 DEF HandleWrite, acceptVars
  <2>2. CASE UNCHANGED channelVars
    BY <1>3, <2>1, <2>2 DEF channelVars
  <2>3. CASE events' = [events EXCEPT ![c] = {"READ"}] /\ Update(c, {"READ"})
    <3>1. /\ events'[c] = {"READ"} /\ {"READ"} \subseteq mask'[c]
          /\ \A d \in Conns \ {c} : events'[d] = events[d] /\ mask'[d] = mask[d]
      BY <1>0, <2>3, Updated
    <3> QED
      BY <1>2, <2>1, <3>1 DEF Queued
  <2> QED
    BY <2>1, <2>2, <2>3
<1>11. ASSUME NEW l \in Loops, Poll(l) \/ \E c \in Conns : HandleRead(l, c) PROVE Watched'
  BY <1>3, <1>11 DEF Poll, HandleRead, acceptVars, channelVars
<1>12. CASE ClientStep \/ UNCHANGED vars
  BY <1>3, <1>12 DEF ClientStep, Connect, Close, SendLine, vars, acceptVars, channelVars
<1> QED
  BY <1>4, <1>5, <1>6, <1>7, <1>9, <1>10, <1>11, <1>12 DEF Next, Handle

-----------------------------------------------------------------------------
(* The properties. *)

LEMMA InitIInv == Init => IInv
<1> SUFFICES ASSUME Init PROVE IInv
  OBVIOUS
<1>1. /\ maxn \in Nat /\ Main \in Loops /\ Main \notin Workers /\ Workers \subseteq Loops
      /\ MaxConns \in Nat /\ MaxFails \in Nat
      /\ <<>> \in Seq(Workers) /\ <<>> \in Seq(Kinds) /\ <<>> \in Seq(Conns \union {NoConn})
      /\ Len(<<>>) = 0 /\ DOMAIN <<>> = {}
  BY ThreadFacts, ConstantsAssumption, EmptySeq DEF Init
<1>2. pc = [l \in Loops |-> IF l = Main THEN "start" ELSE "none"]
  BY DEF Init
<1>3. /\ pc \in [Loops -> WorkerStates \union MainStates] /\ pc[Main] = "start"
      /\ \A l \in Workers : pc[l] = "none"
  BY <1>1, <1>2 DEF WorkerStates, MainStates
<1>4. /\ maxn \in ThreadNums /\ pool = <<>> /\ next = 0
      /\ arrived \in 0 .. MaxConns /\ accepted \in 0 .. arrived /\ fails \in 0 .. MaxFails
  BY <1>1 DEF Init
<1>5. /\ home \in [Conns -> Loops \union {NoLoop}]
      /\ sent \in [Conns -> Seq(Kinds)] /\ input \in [Conns -> Seq(Kinds)]
      /\ closed \in [Conns -> BOOLEAN] /\ answered \in [Conns -> BOOLEAN]
      /\ events \in [Conns -> SUBSET {"READ", "WRITE"}]
      /\ mask \in [Conns -> SUBSET {"READ", "WRITE"}]
  BY <1>1 DEF Init
<1>6. /\ queue \in [Loops -> Seq(Conns \union {NoConn})]
      /\ batch \in [Loops -> SUBSET ({<<Listen, "READ">>} \union (Conns \X {"READ", "WRITE"}))]
      /\ reading \in [Loops -> Conns \union {NoConn}] /\ lines \in [Loops -> 0 .. 2]
      /\ turns \in [Loops -> Nat]
  BY <1>1 DEF Init
<1>7. TypeOK
  BY <1>1, <1>3, <1>4, <1>5, <1>6 DEF TypeOK, WorkerStates, MainStates
<1>8. PoolInv
  BY <1>1, <1>3, <1>4 DEF PoolInv, PoolHasLoops
<1>9. BatchInv /\ Watched
  BY <1>1 DEF Init, BatchInv, Watched
<1>10. TurnInv
  <2>1. \A l \in Loops : turns[l] = 0
    BY DEF Init
  <2>2. \A k \in 1 .. maxn : k \in Loops /\ ~(k <= next)
    BY <1>4, ThreadFacts DEF Loops, Workers
  <2>3. 0 \in Nat /\ \A k \in 1 .. maxn : turns[k] = IF k <= next THEN 0 + 1 ELSE 0
    BY <2>1, <2>2
  <2> QED
    BY <1>1, <2>1, <2>3 DEF TurnInv
<1> QED
  BY <1>7, <1>8, <1>9, <1>10 DEF IInv

THEOREM Invariance == Spec => []IInv
<1>1. IInv /\ [Next]_vars => IInv'
  BY TypeStep, PoolStep, BatchStep, TurnStep, WatchedStep DEF IInv
<1> QED
  BY <1>1, InitIInv, PTL DEF Spec

\* http_server.h, http_data.h, thread_pool.h: every variable keeps its type; next_ stays
\* below maxn_ and a loop is handed only descriptors or -1.
THEOREM TypeCorrect == Spec => []TypeOK
  BY Invariance, PTL DEF IInv

\* event_loop_thread.cpp:15-24: startLoop() returns a loop that its thread has made,
\* whatever wakes it, and thread_pool.cpp:19-25 keeps one for each thread.
THEOREM LoopsAreMade == Spec => []PoolHasLoops
  BY Invariance, PTL DEF IInv, PoolInv

\* thread_pool.cpp:28-36: connections, and failed calls of accept(), are shared out
\* evenly over any number of loops.
THEOREM LoopsAreBalanced == Spec => []Balanced
<1>1. IInv => Balanced
  <2> SUFFICES ASSUME IInv, pool # <<>>, NEW k \in 1 .. maxn, NEW l \in 1 .. maxn
               PROVE  turns[k] <= turns[l] + 1 /\ turns[Main] = 0
    BY DEF Balanced
  <2>1. turns[Main] = 0
    BY DEF IInv, TurnInv
  <2>2. PICK base \in Nat : \A m \in 1 .. maxn : turns[m] = IF m <= next THEN base + 1 ELSE base
    BY DEF IInv, TurnInv
  <2>3. turns[k] \in {base, base + 1} /\ turns[l] \in {base, base + 1}
    BY <2>2
  <2> QED
    BY <2>1, <2>2, <2>3
<1> QED
  BY <1>1, Invariance, PTL

\* http_data.cpp:108-111, event_loop.cpp:60-64: an accepted connection is watched for what
\* its channel asks for, or its update is queued for its loop, which runs it.
THEOREM AcceptedAreWatched == Spec => []Watched
  BY Invariance, PTL DEF IInv
=============================================================================
