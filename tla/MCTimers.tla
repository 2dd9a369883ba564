------------------------------ MODULE MCTimers ------------------------------
(* Model checking of Timers.                                               *)
EXTENDS Timers

\* A delay that is refused or below a second, and one above.
ShortAndLong == {-500, 1500}

\* What test_loop.cpp:24 asks for.
OneSecond == {1000}
=============================================================================
