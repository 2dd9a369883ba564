------------------------------ MODULE MCBuffer ------------------------------
(* Model checking of Buffer.                                               *)
EXTENDS Buffer, SequencesExt

\* Inputs up to three bytes long: longer than the initial space and than extrabuf.
ShortInputs == BoundedSeq(Byte, 3)
=============================================================================
