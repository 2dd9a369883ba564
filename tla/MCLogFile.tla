------------------------------ MODULE MCLogFile ------------------------------
(* Model checking of LogFile.                                              *)
EXTENDS LogFile

\* Before and after any time; below, at and above zero.
Rolls == {0, 9}
Counts == {-1, 0, 5}
=============================================================================
