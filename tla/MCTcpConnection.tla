--------------------------- MODULE MCTcpConnection ---------------------------
(* Model checking of TcpConnection.                                        *)
EXTENDS TcpConnection

NoGarbage == {}
AnyGarbage == {"IN", "OUT"}
ShortAndLong == {1, 2}
=============================================================================
