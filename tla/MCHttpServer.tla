---------------------------- MODULE MCHttpServer ----------------------------
(* Model checking of HttpServer.                                           *)
EXTENDS HttpServer

\* EPOLLIN is always asked for.
AnyGarbage == {"WRITE"}
=============================================================================
