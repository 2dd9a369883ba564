---------------------------- MODULE MCEventLoop ----------------------------
(* Model checking of EventLoop.  Two threads that submit twice each are    *)
(* enough for functors of one thread in a batch and in the queue at once,  *)
(* and two calls of loop() for a quit() and a queue left by the first.     *)
EXTENDS EventLoop
=============================================================================
