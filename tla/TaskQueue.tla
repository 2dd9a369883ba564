----------------------------- MODULE TaskQueue -----------------------------
(***************************************************************************)
(* What EventLoop::runInLoop promises its callers: a task submitted from   *)
(* another thread is run by the loop's thread, once, in the order of       *)
(* submission; a task submitted by the loop's own thread is run on the     *)
(* spot.  Nothing is said of wakeups, locks or batches.                    *)
(***************************************************************************)
EXTENDS Sequences

CONSTANTS Remote,   \* tasks submitted by other threads
          Local     \* tasks submitted by the loop's thread

VARIABLES queue,    \* submitted, not yet run
          done      \* run, in the order they were run

vars == <<queue, done>>

Init == queue = <<>> /\ done = <<>>

Submit(f) ==
  /\ queue' = Append(queue, f)
  /\ UNCHANGED done

RunFirst ==
  /\ queue # <<>>
  /\ done' = Append(done, Head(queue))
  /\ queue' = Tail(queue)

RunNow(f) ==
  /\ done' = Append(done, f)
  /\ UNCHANGED queue

Next ==
  \/ \E f \in Remote : Submit(f)
  \/ RunFirst
  \/ \E f \in Local : RunNow(f)

Spec == Init /\ [][Next]_vars
=============================================================================
