----------------------------- MODULE MCTcpServer -----------------------------
(* Model checking of TcpServer.                                            *)
EXTENDS TcpServer

FewFds == 3 .. 5
=============================================================================
