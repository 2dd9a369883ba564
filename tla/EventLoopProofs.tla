--------------------------- MODULE EventLoopProofs ---------------------------
(***************************************************************************)
(* For any set of threads: the invariants of EventLoop, and that it        *)
(* implements TaskQueue.                                                   *)
(***************************************************************************)
EXTENDS EventLoop, SequenceTheorems, TLAPS

-----------------------------------------------------------------------------
(* The inductive invariant. *)

\* What is in the queue, or is to be noticed in running_, when the loop may
\* still go to sleep without looking at it again.
WakeupInv ==
  /\ loopPc \in {"idle", "check", "poll", "run", "inFunctor"} /\ pending # <<>>
       => WakeupComing
  /\ loopPc = "poll" /\ ~running => WakeupComing
  /\ loopPc = "idle" => ~running

\* A batch exists only while it is being run.
BatchInv == functors # <<>> => loopPc \in {"run", "inFunctor"}

\* One thread's functors in s are in the order of submission.
InOrder(s) ==
  \A i, j \in DOMAIN s : i < j /\ s[i][1] = s[j][1] => s[i][2] < s[j][2]

\* One thread's functors in s were submitted before those in u.
Precedes(s, u) ==
  \A i \in DOMAIN s, j \in DOMAIN u : s[i][1] = u[j][1] => s[i][2] < u[j][2]

\* No functor in s has a number its thread has not reached.
Numbered(s) == \A i \in DOMAIN s : s[i][2] <= calls[s[i][1]]

OrderInv ==
  /\ Numbered(executed) /\ Numbered(functors) /\ Numbered(pending)
  /\ InOrder(executed) /\ InOrder(functors) /\ InOrder(pending)
  /\ Precedes(executed, functors)
  /\ Precedes(executed, pending)
  /\ Precedes(functors, pending)

IInv == TypeOK /\ WakeupInv /\ BatchInv /\ OrderInv

-----------------------------------------------------------------------------
(* The order of a thread's functors under the operations on sequences. *)

LEMMA InOrderAppend ==
  ASSUME NEW S, NEW s \in Seq(S), NEW f \in S, InOrder(s),
         \A i \in DOMAIN s : s[i][1] = f[1] => s[i][2] < f[2]
  PROVE  InOrder(Append(s, f))
<1> DEFINE u == Append(s, f)
<1>1. /\ Len(s) \in Nat
      /\ DOMAIN s = 1 .. Len(s)
      /\ DOMAIN u = 1 .. Len(s) + 1
      /\ \A i \in 1 .. Len(s) : u[i] = s[i]
      /\ u[Len(s) + 1] = f
  BY AppendProperties, LenProperties
<1> SUFFICES ASSUME NEW i \in DOMAIN u, NEW j \in DOMAIN u, i < j, u[i][1] = u[j][1]
             PROVE  u[i][2] < u[j][2]
  BY DEF InOrder
<1>2. i \in 1 .. Len(s)
  BY <1>1
<1>3. CASE j \in 1 .. Len(s)
  BY <1>1, <1>2, <1>3 DEF InOrder
<1>4. CASE j = Len(s) + 1
  BY <1>1, <1>2, <1>4
<1> QED
  BY <1>1, <1>3, <1>4

LEMMA InOrderConcat ==
  ASSUME NEW S, NEW s \in Seq(S), NEW u \in Seq(S),
         InOrder(s), InOrder(u), Precedes(s, u)
  PROVE  InOrder(s \o u)
<1> DEFINE v == s \o u
<1>1. /\ Len(s) \in Nat /\ Len(u) \in Nat
      /\ DOMAIN s = 1 .. Len(s) /\ DOMAIN u = 1 .. Len(u)
      /\ DOMAIN v = 1 .. Len(s) + Len(u)
      /\ \A i \in 1 .. Len(s) + Len(u) :
           v[i] = IF i <= Len(s) THEN s[i] ELSE u[i - Len(s)]
  BY ConcatProperties, LenProperties
<1> SUFFICES ASSUME NEW i \in DOMAIN v, NEW j \in DOMAIN v, i < j, v[i][1] = v[j][1]
             PROVE  v[i][2] < v[j][2]
  BY DEF InOrder
<1>2. CASE j <= Len(s)
  BY <1>1, <1>2 DEF InOrder
<1>3. CASE i <= Len(s) /\ j > Len(s)
  <2>1. i \in DOMAIN s /\ j - Len(s) \in DOMAIN u /\ v[i] = s[i] /\ v[j] = u[j - Len(s)]
    BY <1>1, <1>3
  <2> QED
    BY <2>1 DEF Precedes
<1>4. CASE i > Len(s)
  <2>1. /\ i - Len(s) \in DOMAIN u /\ j - Len(s) \in DOMAIN u
        /\ i - Len(s) < j - Len(s)
        /\ v[i] = u[i - Len(s)] /\ v[j] = u[j - Len(s)]
    BY <1>1, <1>4
  <2> QED
    BY <2>1 DEF InOrder
<1> QED
  BY <1>1, <1>2, <1>3, <1>4

LEMMA PrecedesConcat ==
  ASSUME NEW S, NEW s \in Seq(S), NEW u \in Seq(S), NEW v \in Seq(S),
         Precedes(s, v), Precedes(u, v)
  PROVE  Precedes(s \o u, v)
<1> DEFINE w == s \o u
<1>1. /\ Len(s) \in Nat /\ Len(u) \in Nat
      /\ DOMAIN s = 1 .. Len(s) /\ DOMAIN u = 1 .. Len(u)
      /\ DOMAIN w = 1 .. Len(s) + Len(u)
      /\ \A i \in 1 .. Len(s) + Len(u) :
           w[i] = IF i <= Len(s) THEN s[i] ELSE u[i - Len(s)]
  BY ConcatProperties, LenProperties
<1> SUFFICES ASSUME NEW i \in DOMAIN w, NEW j \in DOMAIN v, w[i][1] = v[j][1]
             PROVE  w[i][2] < v[j][2]
  BY DEF Precedes
<1>2. CASE i <= Len(s)
  BY <1>1, <1>2 DEF Precedes
<1>3. CASE i > Len(s)
  <2>1. i - Len(s) \in DOMAIN u /\ w[i] = u[i - Len(s)]
    BY <1>1, <1>3
  <2> QED
    BY <2>1 DEF Precedes
<1> QED
  BY <1>1, <1>2, <1>3

\* The elements of Append(s, f) are those of s and f.
LEMMA AppendElements ==
  ASSUME NEW S, NEW s \in Seq(S), NEW f \in S
  PROVE  \A i \in DOMAIN Append(s, f) :
           \/ i \in DOMAIN s /\ Append(s, f)[i] = s[i]
           \/ Append(s, f)[i] = f
  BY AppendProperties, LenProperties

\* Those of Tail(s) are elements of s, in the order of s.
LEMMA TailElements ==
  ASSUME NEW S, NEW s \in Seq(S), s # <<>>
  PROVE  /\ 1 \in DOMAIN s /\ Head(s) = s[1]
         /\ \A i \in DOMAIN Tail(s) :
              i \in Nat /\ i + 1 \in DOMAIN s /\ 1 < i + 1 /\ Tail(s)[i] = s[i + 1]
  BY HeadTailProperties, LenProperties, EmptySeq

-----------------------------------------------------------------------------
(* The invariant holds of every reachable state. *)

LEMMA InitInv == Init => IInv
<1> SUFFICES ASSUME Init PROVE IInv
  OBVIOUS
<1>1. TypeOK
  <2>1. <<>> \in Seq(Queued) /\ <<>> \in Seq(Functor)
    BY EmptySeq
  <2>2. calls \in [Threads -> 0 .. MaxCalls]
    BY ConstantsAssumption DEF Init
  <2> QED
    BY <2>1, <2>2 DEF Init, TypeOK, LoopPcs, Channels
<1>2. DOMAIN <<>> = {}
  OBVIOUS
<1> QED
  BY <1>1, <1>2 DEF Init, IInv, WakeupInv, BatchInv, OrderInv, Numbered, InOrder, Precedes

\* Queued functors are functors.
LEMMA QueuedAreFunctors == Queued \subseteq Functor
  BY DEF Queued, Functor, Threads

LEMMA TypeStep == ASSUME TypeOK, [Next]_vars PROVE TypeOK'
<1> USE DEF TypeOK, LoopPcs, Channels
<1>1. ASSUME NEW t \in Callers, Submit(t) PROVE TypeOK'
  <2>1. calls[t] + 1 \in 1 .. MaxCalls
    BY <1>1, ConstantsAssumption DEF Submit, Threads
  <2>2. <<t, calls[t] + 1>> \in Queued
    BY <2>1 DEF Queued
  <2>3. pending' \in Seq(Queued)
    BY <1>1, <2>2, AppendProperties DEF Submit
  <2> QED
    BY <1>1, <2>1, <2>3 DEF Submit, loopVars, Threads
<1>2. ASSUME NEW t \in Callers, Quit(t) PROVE TypeOK'
  BY <1>2 DEF Quit, loopVars
<1>3. ASSUME NEW t \in Callers, Wakeup(t) PROVE TypeOK'
  BY <1>3 DEF Wakeup, loopVars
<1>4. CASE StartLoop
  BY <1>4 DEF StartLoop, callerVars, ioVars, taskVars
<1>5. CASE CheckRunning
  BY <1>5 DEF CheckRunning, callerVars, ioVars, taskVars
<1>6. CASE Poll
  BY <1>6 DEF Poll, callerVars, taskVars
<1>7. CASE HandleWakeup
  BY <1>7 DEF HandleWakeup, callerVars, taskVars
<1>8. CASE HandleOther
  BY <1>8 DEF HandleOther, callerVars, taskVars
<1>9. CASE SwapPending
  BY <1>9, EmptySeq DEF SwapPending, callerVars, ioVars
<1>10. CASE RunFunctor
  <2>1. Head(functors) \in Functor /\ functors' \in Seq(Queued)
    BY <1>10, HeadTailProperties, QueuedAreFunctors DEF RunFunctor
  <2>2. executed' \in Seq(Functor)
    BY <1>10, <2>1, AppendProperties DEF RunFunctor
  <2> QED
    BY <1>10, <2>1, <2>2 DEF RunFunctor, callerVars, ioVars
<1>11. CASE Return
  BY <1>11 DEF Return, callerVars, ioVars, taskVars
<1>12. CASE DonePending
  BY <1>12 DEF DonePending, callerVars, ioVars
<1>13. CASE RunHere
  <2>1. calls[LoopThread] + 1 \in 1 .. MaxCalls
    BY <1>13, ConstantsAssumption DEF RunHere, Threads
  <2>2. <<LoopThread, calls[LoopThread] + 1>> \in Functor
    BY <2>1 DEF Functor, Threads
  <2>3. executed' \in Seq(Functor)
    BY <1>13, <2>2, AppendProperties DEF RunHere
  <2> QED
    BY <1>13, <2>1, <2>3 DEF RunHere, loopVars, Threads
<1>14. CASE QuitHere
  BY <1>14 DEF QuitHere, callerVars, loopVars
<1>15. CASE UNCHANGED vars
  BY <1>15 DEF vars
<1> QED
  BY <1>1, <1>2, <1>3, <1>4, <1>5, <1>6, <1>7, <1>8, <1>9, <1>10, <1>11, <1>12,
     <1>13, <1>14, <1>15 DEF Next, CallerStep, LoopStep

\* A queued functor has a wakeup coming until the loop is about to take it.
LEMMA WakeupStep == ASSUME TypeOK, WakeupInv, [Next]_vars PROVE WakeupInv'
<1> USE DEF TypeOK, LoopPcs, Channels, WakeupInv, WakeupComing
<1>1. ASSUME NEW t \in Callers, Submit(t) PROVE WakeupInv'
  <2>1. callerPc'[t] = "wakeup"
    BY <1>1 DEF Submit
  <2> QED
    BY <1>1, <2>1 DEF Submit, loopVars
<1>2. ASSUME NEW t \in Callers, Quit(t) PROVE WakeupInv'
  <2>1. callerPc'[t] = "wakeup"
    BY <1>2 DEF Quit
  <2> QED
    BY <1>2, <2>1 DEF Quit, loopVars
<1>3. ASSUME NEW t \in Callers, Wakeup(t) PROVE WakeupInv'
  BY <1>3 DEF Wakeup, loopVars
<1>4. CASE StartLoop
  BY <1>4 DEF StartLoop, callerVars, ioVars, taskVars
<1>5. CASE CheckRunning
  BY <1>5 DEF CheckRunning, callerVars, ioVars, taskVars
<1>6. CASE Poll
  BY <1>6 DEF Poll, callerVars, taskVars
<1>7. CASE HandleWakeup
  BY <1>7 DEF HandleWakeup, callerVars, taskVars
<1>8. CASE HandleOther
  BY <1>8 DEF HandleOther, callerVars, taskVars
<1>9. CASE SwapPending
  BY <1>9 DEF SwapPending, callerVars, ioVars
<1>10. CASE RunFunctor
  BY <1>10 DEF RunFunctor, callerVars, ioVars
<1>11. CASE Return
  BY <1>11 DEF Return, callerVars, ioVars, taskVars
<1>12. CASE DonePending
  BY <1>12 DEF DonePending, callerVars, ioVars
<1>13. CASE RunHere
  BY <1>13 DEF RunHere, loopVars
<1>14. CASE QuitHere
  BY <1>14 DEF QuitHere, UserCode, callerVars, loopVars
<1>15. CASE UNCHANGED vars
  BY <1>15 DEF vars
<1> QED
  BY <1>1, <1>2, <1>3, <1>4, <1>5, <1>6, <1>7, <1>8, <1>9, <1>10, <1>11, <1>12,
     <1>13, <1>14, <1>15 DEF Next, CallerStep, LoopStep

LEMMA BatchStep == ASSUME TypeOK, BatchInv, [Next]_vars PROVE BatchInv'
  BY DEF TypeOK, LoopPcs, BatchInv, vars, loopVars, callerVars, ioVars, taskVars,
         Next, CallerStep, LoopStep, Submit, Quit, Wakeup, StartLoop, CheckRunning,
         Poll, HandleWakeup, HandleOther, SwapPending, RunFunctor, Return,
         DonePending, RunHere, QuitHere, UserCode

-----------------------------------------------------------------------------
(* Order is kept by the four steps that move functors. *)

\* A thread's next functor comes after all of its functors so far.
LEMMA NextIsLast ==
  ASSUME TypeOK, NEW s \in Seq(Functor), Numbered(s), NEW t \in Threads,
         NEW i \in DOMAIN s, s[i][1] = t
  PROVE  s[i][2] < calls[t] + 1
<1>1. s[i] \in Functor
  BY ElementOfSeq, LenProperties
<1> QED
  BY <1>1 DEF Numbered, TypeOK, Functor

\* Submissions only raise the numbers.
LEMMA NumberedStays ==
  ASSUME TypeOK, NEW s \in Seq(Functor), Numbered(s), NEW t \in Threads,
         calls' = [calls EXCEPT ![t] = @ + 1]
  PROVE  \A i \in DOMAIN s : s[i][2] <= calls'[s[i][1]]
<1> SUFFICES ASSUME NEW i \in DOMAIN s PROVE s[i][2] <= calls'[s[i][1]]
  OBVIOUS
<1>1. s[i][1] \in Threads /\ s[i][2] \in Nat
  BY ElementOfSeq, LenProperties DEF Functor
<1>2. s[i][2] <= calls[s[i][1]]
  BY DEF Numbered
<1>3. calls[s[i][1]] \in Nat /\ calls'[s[i][1]] >= calls[s[i][1]]
  BY <1>1 DEF TypeOK
<1> QED
  BY <1>1, <1>2, <1>3 DEF TypeOK

LEMMA OrderSubmit ==
  ASSUME TypeOK, OrderInv, NEW t \in Callers, Submit(t) PROVE OrderInv'
<1> DEFINE f == <<t, calls[t] + 1>>
<1>1. t \in Threads /\ f \in Queued /\ f \in Functor /\ f[1] = t /\ f[2] = calls[t] + 1
  BY ConstantsAssumption, QueuedAreFunctors DEF TypeOK, Submit, Queued, Threads
<1>2. pending \in Seq(Queued) /\ pending \in Seq(Functor) /\ functors \in Seq(Functor)
      /\ executed \in Seq(Functor)
  BY QueuedAreFunctors, SeqMonotonic DEF TypeOK
<1>3. /\ pending' = Append(pending, f) /\ functors' = functors /\ executed' = executed
      /\ calls' = [calls EXCEPT ![t] = @ + 1]
  BY DEF Submit, loopVars
<1>4. \A i \in DOMAIN pending' : \/ i \in DOMAIN pending /\ pending'[i] = pending[i]
                                 \/ pending'[i] = f
  BY <1>1, <1>2, <1>3, AppendElements
<1>5. calls'[t] = calls[t] + 1 /\ calls[t] \in Nat
  BY <1>1, <1>3 DEF TypeOK
<1>6. Numbered(executed)' /\ Numbered(functors)'
  BY <1>1, <1>2, <1>3, NumberedStays DEF OrderInv, Numbered
<1>7. Numbered(pending)'
  <2>1. \A i \in DOMAIN pending : pending[i][2] <= calls'[pending[i][1]]
    BY <1>1, <1>2, <1>3, NumberedStays DEF OrderInv
  <2> QED
    BY <1>1, <1>4, <1>5, <2>1 DEF Numbered
<1>8. InOrder(pending)'
  <2>1. InOrder(pending)
    BY DEF OrderInv
  <2>2. \A i \in DOMAIN pending : pending[i][1] = f[1] => pending[i][2] < f[2]
    BY <1>1, <1>2, NextIsLast DEF OrderInv
  <2>3. InOrder(Append(pending, f))
    BY <1>1, <1>2, <2>1, <2>2, InOrderAppend
  <2> QED
    BY <1>3, <2>3 DEF InOrder
<1>9. ASSUME NEW s \in Seq(Functor), Numbered(s), Precedes(s, pending)
      PROVE  Precedes(s, pending')
  <2>1. \A i \in DOMAIN s : s[i][1] = f[1] => s[i][2] < f[2]
    BY <1>1, <1>9, NextIsLast
  <2> QED
    BY <1>4, <1>9, <2>1 DEF Precedes
<1>10. Precedes(executed, pending)' /\ Precedes(functors, pending)'
  BY <1>2, <1>3, <1>9 DEF OrderInv, Precedes
<1> QED
  BY <1>3, <1>6, <1>7, <1>8, <1>10 DEF OrderInv, InOrder, Precedes

LEMMA OrderRunHere ==
  ASSUME TypeOK, OrderInv, RunHere PROVE OrderInv'
<1> DEFINE f == <<LoopThread, calls[LoopThread] + 1>>
<1>1. LoopThread \in Threads /\ f \in Functor /\ f[1] = LoopThread
      /\ f[2] = calls[LoopThread] + 1
  BY ConstantsAssumption DEF TypeOK, RunHere, Functor, Threads
<1>2. pending \in Seq(Functor) /\ functors \in Seq(Functor) /\ executed \in Seq(Functor)
  BY QueuedAreFunctors, SeqMonotonic DEF TypeOK
<1>3. /\ executed' = Append(executed, f) /\ functors' = functors /\ pending' = pending
      /\ calls' = [calls EXCEPT ![LoopThread] = @ + 1]
  BY DEF RunHere, loopVars
<1>4. \A i \in DOMAIN executed' : \/ i \in DOMAIN executed /\ executed'[i] = executed[i]
                                  \/ executed'[i] = f
  BY <1>1, <1>2, <1>3, AppendElements
<1>5. calls'[LoopThread] = calls[LoopThread] + 1 /\ calls[LoopThread] \in Nat
  BY <1>1, <1>3 DEF TypeOK
<1>6. Numbered(pending)' /\ Numbered(functors)'
  BY <1>1, <1>2, <1>3, NumberedStays DEF OrderInv, Numbered
<1>7. Numbered(executed)'
  <2>1. \A i \in DOMAIN executed : executed[i][2] <= calls'[executed[i][1]]
    BY <1>1, <1>2, <1>3, NumberedStays DEF OrderInv
  <2> QED
    BY <1>1, <1>4, <1>5, <2>1 DEF Numbered
<1>8. InOrder(executed)'
  <2>1. InOrder(executed)
    BY DEF OrderInv
  <2>2. \A i \in DOMAIN executed : executed[i][1] = f[1] => executed[i][2] < f[2]
    BY <1>1, <1>2, NextIsLast DEF OrderInv
  <2>3. InOrder(Append(executed, f))
    BY <1>1, <1>2, <2>1, <2>2, InOrderAppend
  <2> QED
    BY <1>3, <2>3 DEF InOrder
<1>9. ASSUME NEW s \in Seq(Queued), Precedes(executed, s)
      PROVE  Precedes(executed', s)
  <2>1. \A j \in DOMAIN s : s[j][1] # LoopThread
    BY ConstantsAssumption, ElementOfSeq, LenProperties DEF Queued
  <2> QED
    BY <1>1, <1>4, <1>9, <2>1 DEF Precedes
<1>10. Precedes(executed, functors)' /\ Precedes(executed, pending)'
  BY <1>3, <1>9 DEF OrderInv, Precedes, TypeOK
<1> QED
  BY <1>3, <1>6, <1>7, <1>8, <1>10 DEF OrderInv, InOrder, Precedes

LEMMA OrderRunFunctor ==
  ASSUME TypeOK, OrderInv, RunFunctor PROVE OrderInv'
<1> DEFINE f == Head(functors)
<1>1. /\ functors # <<>>
      /\ executed' = Append(executed, f) /\ functors' = Tail(functors)
      /\ pending' = pending /\ calls' = calls
  BY DEF RunFunctor, callerVars
<1>2. pending \in Seq(Functor) /\ functors \in Seq(Functor) /\ executed \in Seq(Functor)
  BY QueuedAreFunctors, SeqMonotonic DEF TypeOK
<1>3. /\ 1 \in DOMAIN functors /\ f = functors[1]
      /\ \A i \in DOMAIN functors' :
           /\ i \in Nat /\ i + 1 \in DOMAIN functors /\ 1 < i + 1
           /\ functors'[i] = functors[i + 1]
  BY <1>1, <1>2, TailElements
<1>4. f \in Functor
  BY <1>1, <1>2, HeadTailProperties
<1>5. \A i \in DOMAIN executed' : \/ i \in DOMAIN executed /\ executed'[i] = executed[i]
                                  \/ executed'[i] = f
  BY <1>1, <1>2, <1>4, AppendElements
<1>6. Numbered(executed)' /\ Numbered(functors)' /\ Numbered(pending)'
  BY <1>1, <1>3, <1>5 DEF OrderInv, Numbered
<1>7. InOrder(executed)'
  <2>1. InOrder(executed)
    BY DEF OrderInv
  <2>2. \A i \in DOMAIN executed : executed[i][1] = f[1] => executed[i][2] < f[2]
    BY <1>3 DEF OrderInv, Precedes
  <2>3. InOrder(Append(executed, f))
    BY <1>2, <1>4, <2>1, <2>2, InOrderAppend
  <2> QED
    BY <1>1, <2>3 DEF InOrder
<1>8. InOrder(functors)'
  BY <1>3 DEF OrderInv, InOrder
<1>9. Precedes(executed, functors)'
  <2> SUFFICES ASSUME NEW i \in DOMAIN executed', NEW j \in DOMAIN functors',
                      executed'[i][1] = functors'[j][1]
               PROVE  executed'[i][2] < functors'[j][2]
    BY DEF Precedes
  <2>1. CASE i \in DOMAIN executed /\ executed'[i] = executed[i]
    BY <1>3, <2>1 DEF OrderInv, Precedes
  <2>2. CASE executed'[i] = f
    BY <1>3, <2>2 DEF OrderInv, InOrder
  <2> QED
    BY <1>5, <2>1, <2>2
<1>10. Precedes(executed, pending)' /\ Precedes(functors, pending)'
  BY <1>1, <1>3, <1>5 DEF OrderInv, Precedes
<1> QED
  BY <1>1, <1>6, <1>7, <1>8, <1>9, <1>10 DEF OrderInv, InOrder

\* The swap moves the whole queue to an empty batch.
LEMMA OrderSwapPending ==
  ASSUME TypeOK, OrderInv, BatchInv, SwapPending PROVE OrderInv'
<1>1. /\ functors' = pending /\ pending' = <<>>
      /\ executed' = executed /\ calls' = calls
  BY DEF SwapPending, callerVars
<1>2. DOMAIN <<>> = {}
  OBVIOUS
<1> QED
  BY <1>1, <1>2 DEF OrderInv, Numbered, InOrder, Precedes

LEMMA OrderStep ==
  ASSUME TypeOK, BatchInv, OrderInv, [Next]_vars PROVE OrderInv'
<1>1. ASSUME UNCHANGED <<executed, functors, pending, calls>> PROVE OrderInv'
  BY <1>1 DEF OrderInv, Numbered, InOrder, Precedes
<1>2. ASSUME NEW t \in Callers, Submit(t) PROVE OrderInv'
  BY <1>2, OrderSubmit
<1>3. ASSUME NEW t \in Callers, Quit(t) \/ Wakeup(t) PROVE OrderInv'
  BY <1>1, <1>3 DEF Quit, Wakeup, callerVars, loopVars
<1>4. CASE \/ StartLoop \/ CheckRunning \/ Poll \/ HandleWakeup \/ HandleOther
           \/ Return \/ DonePending \/ QuitHere
  BY <1>1, <1>4 DEF StartLoop, CheckRunning, Poll, HandleWakeup, HandleOther, Return,
     DonePending, QuitHere, callerVars, loopVars, ioVars, taskVars
<1>5. CASE SwapPending
  BY <1>5, OrderSwapPending
<1>6. CASE RunFunctor
  BY <1>6, OrderRunFunctor
<1>7. CASE RunHere
  BY <1>7, OrderRunHere
<1>8. CASE UNCHANGED vars
  BY <1>1, <1>8 DEF vars
<1> QED
  BY <1>2, <1>3, <1>4, <1>5, <1>6, <1>7, <1>8 DEF Next, CallerStep, LoopStep

-----------------------------------------------------------------------------
(* The theorems. *)

\* Every reachable state satisfies the inductive invariant.
THEOREM Invariance == Spec => []IInv
<1>1. Init => IInv
  BY InitInv
<1>2. IInv /\ [Next]_vars => IInv'
  BY TypeStep, WakeupStep, BatchStep, OrderStep DEF IInv
<1> QED
  BY <1>1, <1>2, PTL DEF Spec

\* The variables of event_loop.h and the threads' places keep their types.
THEOREM TypeCorrect == Spec => []TypeOK
<1>1. IInv => TypeOK
  BY DEF IInv
<1> QED
  BY <1>1, Invariance, PTL

\* event_loop.cpp:53-58, 80-88: for any number of threads, the loop never sleeps
\* in poll() on a functor or a quit() with no wakeup written or about to be.
THEOREM WakeupNeverLost == Spec => []NoLostWakeup
<1>1. IInv => NoLostWakeup
  BY DEF IInv, WakeupInv, NoLostWakeup
<1> QED
  BY <1>1, Invariance, PTL

\* event_loop.cpp:72-103: for any number of threads and calls, one thread's
\* functors run once and in the order it submitted them.
THEOREM SubmissionOrder == Spec => []ProgramOrder
<1>1. IInv => ProgramOrder
  <2> SUFFICES ASSUME IInv PROVE ProgramOrder
    OBVIOUS
  <2>1. pending \in Seq(Functor) /\ functors \in Seq(Functor) /\ executed \in Seq(Functor)
    BY QueuedAreFunctors, SeqMonotonic DEF IInv, TypeOK
  <2>2. executed \o functors \in Seq(Functor) /\ InOrder(executed \o functors)
    BY <2>1, InOrderConcat, ConcatProperties DEF IInv, OrderInv
  <2>3. Precedes(executed \o functors, pending)
    BY <2>1, PrecedesConcat DEF IInv, OrderInv
  <2>4. InOrder((executed \o functors) \o pending)
    BY <2>1, <2>2, <2>3, InOrderConcat DEF IInv, OrderInv
  <2> QED
    BY <2>4 DEF ProgramOrder, InOrder
<1> QED
  BY <1>1, Invariance, PTL

-----------------------------------------------------------------------------
(* Refinement of TaskQueue. *)

LEMMA TQInit == Init => TQ!Init
<1>1. <<>> \o <<>> = <<>>
  OBVIOUS
<1> QED
  BY <1>1 DEF Init, TQ!Init

LEMMA TQStep == ASSUME IInv, [Next]_vars PROVE [TQ!Next]_(TQ!vars)
<1> DEFINE q == functors \o pending
<1>1. pending \in Seq(Queued) /\ functors \in Seq(Queued)
  BY DEF IInv, TypeOK
<1>2. ASSUME UNCHANGED <<executed, functors, pending>> PROVE UNCHANGED TQ!vars
  BY <1>2 DEF TQ!vars
<1>3. ASSUME NEW t \in Callers, Submit(t) PROVE TQ!Next
  <2> DEFINE f == <<t, calls[t] + 1>>
  <2>1. f \in Queued
    BY <1>3, ConstantsAssumption DEF IInv, TypeOK, Submit, Queued, Threads
  <2>2. pending' = Append(pending, f) /\ functors' = functors /\ executed' = executed
    BY <1>3 DEF Submit, loopVars
  <2>3. functors \o Append(pending, f) = Append(functors \o pending, f)
    <3>1. <<f>> \in Seq(Queued)
      BY <2>1
    <3> QED
      BY <1>1, <2>1, <3>1, AppendIsConcat, ConcatProperties, ConcatAssociative
  <2>4. TQ!Submit(f)
    BY <2>2, <2>3 DEF TQ!Submit
  <2> QED
    BY <2>1, <2>4 DEF TQ!Next
<1>4. CASE RunFunctor
  <2>1. functors # <<>> /\ functors' = Tail(functors) /\ pending' = pending
        /\ executed' = Append(executed, Head(functors))
    BY <1>4 DEF RunFunctor
  <2>2. Head(functors \o pending) = Head(functors)
        /\ Tail(functors \o pending) = Tail(functors) \o pending
        /\ functors \o pending # <<>>
    <3>1. Len(functors) \in Nat \ {0}
      BY <1>1, <2>1, EmptySeq
    <3>2. /\ q \in Seq(Queued) /\ Len(q) = Len(functors) + Len(pending)
          /\ \A i \in 1 .. Len(functors) + Len(pending) :
               q[i] = IF i <= Len(functors) THEN functors[i] ELSE pending[i - Len(functors)]
      BY <1>1, ConcatProperties
    <3>3. Len(pending) \in Nat
      BY <1>1, LenProperties
    <3>4. q # <<>> /\ Head(q) = Head(functors)
      BY <1>1, <2>1, <3>1, <3>2, <3>3
    <3> DEFINE r == Tail(functors) \o pending
    <3>5. /\ Tail(functors) \in Seq(Queued) /\ Len(Tail(functors)) = Len(functors) - 1
          /\ \A i \in 1 .. Len(Tail(functors)) : Tail(functors)[i] = functors[i + 1]
      BY <1>1, <2>1, HeadTailProperties
    <3>6. /\ r \in Seq(Queued) /\ Len(r) = Len(Tail(functors)) + Len(pending)
          /\ \A i \in 1 .. Len(Tail(functors)) + Len(pending) :
               r[i] = IF i <= Len(Tail(functors)) THEN Tail(functors)[i]
                      ELSE pending[i - Len(Tail(functors))]
      BY <1>1, <3>5, ConcatProperties
    <3>7. /\ Tail(q) \in Seq(Queued) /\ Len(Tail(q)) = Len(q) - 1
          /\ \A i \in 1 .. Len(Tail(q)) : Tail(q)[i] = q[i + 1]
      BY <3>2, <3>4, HeadTailProperties
    <3>8. Len(Tail(q)) = Len(r)
      BY <3>1, <3>2, <3>3, <3>5, <3>6, <3>7
    <3>9. \A i \in 1 .. Len(r) : Tail(q)[i] = r[i]
      <4> SUFFICES ASSUME NEW i \in 1 .. Len(r) PROVE Tail(q)[i] = r[i]
        OBVIOUS
      <4>1. CASE i <= Len(functors) - 1
        BY <3>1, <3>2, <3>3, <3>5, <3>6, <3>7, <3>8, <4>1
      <4>2. CASE i > Len(functors) - 1
        <5>1. (i + 1) - Len(functors) = i - Len(Tail(functors))
          BY <3>1, <3>5
        <5> QED
          BY <3>1, <3>2, <3>3, <3>5, <3>6, <3>7, <3>8, <4>2, <5>1
      <4> QED
        BY <3>1, <4>1, <4>2
    <3>10. Tail(q) = r
      BY <3>6, <3>7, <3>8, <3>9, SeqEqual
    <3> QED
      BY <3>4, <3>10
  <2>3. TQ!RunFirst
    BY <2>1, <2>2 DEF TQ!RunFirst
  <2> QED
    BY <2>3 DEF TQ!Next
<1>5. CASE RunHere
  <2> DEFINE f == <<LoopThread, calls[LoopThread] + 1>>
  <2>1. f \in {LoopThread} \X (1 .. MaxCalls)
    BY <1>5, ConstantsAssumption DEF IInv, TypeOK, RunHere, Threads
  <2>2. TQ!RunNow(f)
    BY <1>5 DEF TQ!RunNow, RunHere, loopVars
  <2> QED
    BY <2>1, <2>2 DEF TQ!Next
<1>6. CASE SwapPending
  <2>1. functors = <<>> /\ functors' = pending /\ pending' = <<>> /\ executed' = executed
    BY <1>6 DEF SwapPending, IInv, BatchInv
  <2>2. pending \o <<>> = <<>> \o pending
    BY <1>1, ConcatEmptySeq
  <2> QED
    BY <2>1, <2>2 DEF TQ!vars
<1>7. ASSUME NEW t \in Callers, Quit(t) \/ Wakeup(t) PROVE UNCHANGED TQ!vars
  BY <1>2, <1>7 DEF Quit, Wakeup, callerVars, loopVars
<1>8. CASE \/ StartLoop \/ CheckRunning \/ Poll \/ HandleWakeup \/ HandleOther
           \/ Return \/ DonePending \/ QuitHere
  BY <1>2, <1>8 DEF StartLoop, CheckRunning, Poll, HandleWakeup, HandleOther, Return,
     DonePending, QuitHere, callerVars, loopVars, ioVars, taskVars
<1>9. CASE UNCHANGED vars
  BY <1>2, <1>9 DEF vars
<1> QED
  BY <1>3, <1>4, <1>5, <1>6, <1>7, <1>8, <1>9 DEF Next, CallerStep, LoopStep

\* event_loop.cpp:72-103: the lock, the swapped batches and the wakeups implement
\* a first-in first-out queue of tasks, for any number of threads and calls.
THEOREM LoopIsATaskQueue == Spec => ImplementsTaskQueue
<1>1. Init => TQ!Init
  BY TQInit
<1>2. IInv /\ [Next]_vars => [TQ!Next]_(TQ!vars)
  BY TQStep
<1> QED
  BY <1>1, <1>2, Invariance, PTL DEF Spec, ImplementsTaskQueue, TQ!Spec
=============================================================================
