--------------------------- MODULE MCAsyncLogging ---------------------------
(* Model checking of AsyncLogging.                                         *)
EXTENDS AsyncLogging

\* A buffer of this size takes three short lines, or a short and a long one.
SmallCap == 4
ShortAndLong == {1, 2}
=============================================================================
