----------------------------- MODULE EventLoop -----------------------------
(***************************************************************************)
(* The reactor of net/event_loop.cpp: one thread runs loop(), which waits  *)
(* in Poller::poll(), runs the handlers of the channels that became ready  *)
(* and then the functors other threads queued.  Other threads submit       *)
(* functors with runInLoop() and stop the loop with quit(); both write the *)
(* eventfd the poller watches, so that a sleeping loop wakes up.           *)
(*                                                                         *)
(* Every step of a thread between two accesses to shared state is an       *)
(* action.  A functor is known by the thread that submitted it and its     *)
(* number among that thread's submissions.                                 *)
(***************************************************************************)
EXTENDS Naturals, Sequences

CONSTANTS Callers,      \* the threads other than the loop's
          LoopThread,   \* the thread thread_id_ names
          MaxCalls,     \* bound: functors submitted by one thread
          MaxLoops      \* bound: calls of loop()

ASSUME ConstantsAssumption ==
  /\ LoopThread \notin Callers
  /\ MaxCalls \in Nat
  /\ MaxLoops \in Nat

Threads == Callers \union {LoopThread}
Queued == Callers \X (1 .. MaxCalls)         \* what pending_functors_ holds
Functor == Threads \X (1 .. MaxCalls)

VARIABLES
  running,          \* running_
  callingPending,   \* calling_pending_
  pending,          \* pending_functors_, guarded by mtx_
  functors,         \* the batch doPendingFunctors() swapped out
  wakeupReadable,   \* the eventfd's counter is not zero
  active,           \* channels poll() returned, not handled yet
  loopPc,           \* where the loop's thread is
  callerPc,         \* where each other thread is
  calls,            \* functors submitted so far, by thread
  loops,            \* calls of loop() so far
  executed          \* history: functors in the order they were run

vars == <<running, callingPending, pending, functors, wakeupReadable, active,
          loopPc, callerPc, calls, loops, executed>>

(***************************************************************************)
(* "inHandler" and "inFunctor": user code is running on the loop's thread. *)
(* "other" stands for every channel but the wakeup channel.                *)
(***************************************************************************)
LoopPcs == {"idle", "check", "poll", "handle", "inHandler", "run", "inFunctor"}
Channels == {"wakeup", "other"}

TypeOK ==
  /\ running \in BOOLEAN
  /\ callingPending \in BOOLEAN
  /\ pending \in Seq(Queued)
  /\ functors \in Seq(Queued)
  /\ wakeupReadable \in BOOLEAN
  /\ active \in SUBSET Channels
  /\ loopPc \in LoopPcs
  /\ callerPc \in [Callers -> {"idle", "wakeup"}]
  /\ calls \in [Threads -> 0 .. MaxCalls]
  /\ loops \in Nat
  /\ executed \in Seq(Functor)

Init ==
  /\ running = FALSE
  /\ callingPending = FALSE
  /\ pending = <<>>
  /\ functors = <<>>
  /\ wakeupReadable = FALSE
  /\ active = {}
  /\ loopPc = "idle"
  /\ callerPc = [t \in Callers |-> "idle"]
  /\ calls = [t \in Threads |-> 0]
  /\ loops = 0
  /\ executed = <<>>

callerVars == <<callerPc, calls>>
loopVars == <<callingPending, functors, active, loopPc, loops>>
ioVars == <<wakeupReadable, active>>
taskVars == <<callingPending, pending, functors, executed>>

-----------------------------------------------------------------------------
(* The other threads. *)

\* Mutant: queueInLoop() wakes the loop only while it is running functors.
SubmitWakingBusyLoop(t) ==
  /\ callerPc[t] = "idle"
  /\ calls[t] < MaxCalls
  /\ pending' = Append(pending, <<t, calls[t] + 1>>)
  /\ calls' = [calls EXCEPT ![t] = @ + 1]
  /\ callerPc' = [callerPc EXCEPT ![t] = IF callingPending THEN "wakeup" ELSE @]
  /\ UNCHANGED <<running, loopVars, wakeupReadable, executed>>

\* runInLoop() off the loop's thread: queueInLoop() appends under the lock ...
Submit(t) ==
  /\ callerPc[t] = "idle"
  /\ calls[t] < MaxCalls
  /\ pending' = Append(pending, <<t, calls[t] + 1>>)
  /\ calls' = [calls EXCEPT ![t] = @ + 1]
  /\ callerPc' = [callerPc EXCEPT ![t] = "wakeup"]
  /\ UNCHANGED <<running, loopVars, wakeupReadable, executed>>

\* Mutant: quit() leaves the wakeup out.
QuitSilently(t) ==
  /\ callerPc[t] = "idle"
  /\ running' = FALSE
  /\ UNCHANGED <<callerVars, loopVars, wakeupReadable, pending, executed>>

\* quit() off the loop's thread: the flag first ...
Quit(t) ==
  /\ callerPc[t] = "idle"
  /\ running' = FALSE
  /\ callerPc' = [callerPc EXCEPT ![t] = "wakeup"]
  /\ UNCHANGED <<loopVars, wakeupReadable, pending, calls, executed>>

\* ... and then, in both, the write to the eventfd.
Wakeup(t) ==
  /\ callerPc[t] = "wakeup"
  /\ wakeupReadable' = TRUE
  /\ callerPc' = [callerPc EXCEPT ![t] = "idle"]
  /\ UNCHANGED <<running, loopVars, pending, calls, executed>>

-----------------------------------------------------------------------------
(* The loop's thread. *)

\* loop(): entered with running_ false (the code asserts it), and it sets
\* running_ whatever quit() did before.
StartLoop ==
  /\ loopPc = "idle"
  /\ loops < MaxLoops
  /\ ~running
  /\ running' = TRUE
  /\ loops' = loops + 1
  /\ loopPc' = "check"
  /\ UNCHANGED <<callerVars, ioVars, taskVars>>

\* while (running_)
CheckRunning ==
  /\ loopPc = "check"
  /\ loopPc' = IF running THEN "poll" ELSE "idle"
  /\ UNCHANGED <<running, callerVars, ioVars, taskVars, loops>>

\* epoll_wait() returns the channels that are ready; it returns none when a
\* signal interrupts it.
Poll ==
  /\ loopPc = "poll"
  /\ \E others \in SUBSET {"other"} :
       active' = others \union IF wakeupReadable THEN {"wakeup"} ELSE {}
  /\ loopPc' = "handle"
  /\ UNCHANGED <<running, callerVars, wakeupReadable, taskVars, loops>>

\* wakeupRead() resets the counter of the eventfd.
HandleWakeup ==
  /\ loopPc = "handle"
  /\ "wakeup" \in active
  /\ wakeupReadable' = FALSE
  /\ active' = active \ {"wakeup"}
  /\ UNCHANGED <<running, callerVars, taskVars, loopPc, loops>>

\* The handler of another channel: user code, until Return.
HandleOther ==
  /\ loopPc = "handle"
  /\ "other" \in active
  /\ active' = active \ {"other"}
  /\ loopPc' = "inHandler"
  /\ UNCHANGED <<running, callerVars, wakeupReadable, taskVars, loops>>

\* doPendingFunctors() takes the whole queue under the lock.
SwapPending ==
  /\ loopPc = "handle"
  /\ active = {}
  /\ callingPending' = TRUE
  /\ functors' = pending
  /\ pending' = <<>>
  /\ loopPc' = "run"
  /\ UNCHANGED <<running, callerVars, ioVars, executed, loops>>

\* Mutant: the batch is run from its back.
RunLastFunctor ==
  /\ loopPc = "run"
  /\ functors # <<>>
  /\ executed' = Append(executed, functors[Len(functors)])
  /\ functors' = SubSeq(functors, 1, Len(functors) - 1)
  /\ loopPc' = "inFunctor"
  /\ UNCHANGED <<running, callerVars, ioVars, callingPending, pending, loops>>

RunFunctor ==
  /\ loopPc = "run"
  /\ functors # <<>>
  /\ executed' = Append(executed, Head(functors))
  /\ functors' = Tail(functors)
  /\ loopPc' = "inFunctor"
  /\ UNCHANGED <<running, callerVars, ioVars, callingPending, pending, loops>>

Return ==
  /\ loopPc \in {"inHandler", "inFunctor"}
  /\ loopPc' = IF loopPc = "inHandler" THEN "handle" ELSE "run"
  /\ UNCHANGED <<running, callerVars, ioVars, taskVars, loops>>

\* Mutant: a quit() ends the batch early, and the rest of it is destroyed.
DoneOrQuit ==
  /\ loopPc = "run"
  /\ functors = <<>> \/ ~running
  /\ functors' = <<>>
  /\ callingPending' = FALSE
  /\ loopPc' = "check"
  /\ UNCHANGED <<running, callerVars, ioVars, pending, executed, loops>>

DonePending ==
  /\ loopPc = "run"
  /\ functors = <<>>
  /\ callingPending' = FALSE
  /\ loopPc' = "check"
  /\ UNCHANGED <<running, callerVars, ioVars, pending, functors, executed, loops>>

-----------------------------------------------------------------------------
(* User code on the loop's thread: in a handler, in a functor, or outside    *)
(* loop() altogether.                                                        *)

UserCode == {"idle", "inHandler", "inFunctor"}

\* runInLoop() on the loop's thread calls the functor at once.
RunHere ==
  /\ loopPc \in UserCode
  /\ calls[LoopThread] < MaxCalls
  /\ executed' = Append(executed, <<LoopThread, calls[LoopThread] + 1>>)
  /\ calls' = [calls EXCEPT ![LoopThread] = @ + 1]
  /\ UNCHANGED <<running, loopVars, wakeupReadable, pending, callerPc>>

\* quit() on the loop's thread: no wakeup is needed.
QuitHere ==
  /\ loopPc \in UserCode
  /\ running' = FALSE
  /\ UNCHANGED <<callerVars, loopVars, wakeupReadable, pending, executed>>

-----------------------------------------------------------------------------
CallerStep == \E t \in Callers : Submit(t) \/ Quit(t) \/ Wakeup(t)

LoopStep ==
  \/ StartLoop
  \/ CheckRunning
  \/ Poll
  \/ HandleWakeup
  \/ HandleOther
  \/ SwapPending
  \/ RunFunctor
  \/ Return
  \/ DonePending
  \/ RunHere
  \/ QuitHere

Next == CallerStep \/ LoopStep

Spec == Init /\ [][Next]_vars

(***************************************************************************)
(* Fairness: the operating system runs the loop's thread whenever it can   *)
(* go on, user code returns, and a thread that set the flag or queued a    *)
(* functor reaches its write to the eventfd.  Nobody has to start the      *)
(* loop, and nothing has to happen on the other channels.                  *)
(***************************************************************************)
LoopProgress ==
  \/ CheckRunning
  \/ Poll /\ wakeupReadable
  \/ HandleWakeup
  \/ HandleOther
  \/ SwapPending
  \/ RunFunctor
  \/ Return
  \/ DonePending

FairSpec ==
  /\ Spec
  /\ WF_vars(LoopProgress)
  /\ \A t \in Callers : WF_vars(Wakeup(t))

-----------------------------------------------------------------------------
(* Safety. *)

WakeupComing == wakeupReadable \/ \E t \in Callers : callerPc[t] = "wakeup"

\* event_loop.cpp:80-88 and 53-58: the loop never sleeps in poll() on a queued
\* functor or on a quit() unless the eventfd is readable or is about to be.
\* It rests on wakeupRead() coming before the swap and on both callers
\* writing the eventfd after what they want seen.
NoLostWakeup ==
  loopPc = "poll" /\ (pending # <<>> \/ ~running) => WakeupComing

\* event_loop.cpp:72-103: over the run and the queued functors together, those
\* of one thread are in the order it submitted them, and none occurs twice.
ProgramOrder ==
  LET all == executed \o functors \o pending
  IN  \A i, j \in DOMAIN all :
        i < j /\ all[i][1] = all[j][1] => all[i][2] < all[j][2]

-----------------------------------------------------------------------------
(* What it implements, and liveness. *)

TQ == INSTANCE TaskQueue
        WITH Remote <- Queued, Local <- {LoopThread} \X (1 .. MaxCalls),
             queue <- functors \o pending, done <- executed

\* event_loop.cpp:72-103: the loop with its lock, batches and wakeups is a
\* first-in first-out queue of tasks for the loop's thread.
ImplementsTaskQueue == TQ!Spec

Has(s, f) == \E i \in DOMAIN s : s[i] = f

\* event_loop.cpp:42-50, 80-103: a functor queued while the loop is in loop() is
\* run, unless the loop leaves loop() first; one that doPendingFunctors() swapped out
\* is run even when one before it in the batch, or another thread, quits the loop.
FunctorsRun ==
  \A f \in Queued :
    /\ (loopPc # "idle" /\ Has(pending, f)) ~> (loopPc = "idle" \/ Has(executed, f))
    /\ Has(functors, f) ~> Has(executed, f)

\* event_loop.cpp:53-58: quit() called while the loop is in loop(), from any
\* thread and at any point, makes it return.  (A quit() before loop() is undone
\* by StartLoop.)
QuitStops == (loopPc # "idle" /\ ~running) ~> (loopPc = "idle")
=============================================================================
