----------------------------- MODULE ByteStream -----------------------------
(***************************************************************************)
(* What net/tcp_connection.h promises of a connection's output: bytes go   *)
(* from the program to the network and from there to the peer, in order    *)
(* and each once, and the stream ends after those it has taken.  Other     *)
(* threads post their messages and their wish to end the stream, and these *)
(* are taken in the order they were posted.  The promise has one gap: an   *)
(* end made on the loop's thread (EndHere), or by the network when it has  *)
(* caught up with a message it had left part of (Drain), does not wait for *)
(* what is posted, and what is taken after it is lost.  Nothing is said of *)
(* buffers, events, system calls or references.                            *)
(***************************************************************************)
EXTENDS Naturals, Sequences

CONSTANT Lens     \* how many bytes are given at a time

VARIABLES
  given,      \* bytes given by the program, numbered 1, 2, ...
  posted,     \* what other threads have posted and the stream not taken
  pending,    \* bytes given that the network has not taken
  network,    \* those it has taken and the peer has not read
  received,   \* what the peer has read
  asked,      \* the program has asked for the end
  closed,     \* the connection is over for the program
  backlog,    \* the network has left part of a message
  ended,      \* the end of the stream was sent
  early,      \* it was sent without waiting for what was posted
  broken      \* the peer has reset the connection

vars == <<given, posted, pending, network, received, asked, closed, backlog, ended, early, broken>>

Init ==
  /\ given = 0 /\ posted = <<>> /\ pending = <<>> /\ network = <<>> /\ received = <<>>
  /\ asked = FALSE /\ closed = FALSE /\ backlog = FALSE
  /\ ended = FALSE /\ early = FALSE /\ broken = FALSE

-----------------------------------------------------------------------------
(* What the program gives, on the loop's thread or on another. *)

Message(len) == [i \in 1 .. len |-> given + i]

Give(len) ==
  /\ ~asked
  /\ given' = given + len
  /\ pending' = pending \o Message(len)
  /\ UNCHANGED <<posted, network, received, asked, closed, backlog, ended, early, broken>>

Post(len) ==
  /\ posted' = Append(posted, [op |-> "send", len |-> len, late |-> asked])
  /\ UNCHANGED <<given, pending, network, received, asked, closed, backlog, ended, early, broken>>

\* A message posted before anyone asked for the end is not taken after it, unless
\* the end came early.  A closed stream may refuse it.
Take ==
  LET message == Head(posted)
  IN  /\ posted # <<>> /\ message.op = "send"
      /\ ended => message.late \/ early
      /\ posted' = Tail(posted)
      /\ given' = given + message.len
      /\ pending' = pending \o Message(message.len) \/ (closed /\ pending' = pending)
      /\ UNCHANGED <<network, received, asked, closed, backlog, ended, early, broken>>

-----------------------------------------------------------------------------
(* The end, which is sent when no byte is pending. *)

Ask ==
  /\ asked' = TRUE
  /\ UNCHANGED <<given, posted, pending, network, received, closed, backlog, ended, early, broken>>

PostEnd ==
  /\ asked
  /\ posted' = Append(posted, [op |-> "shutdown"])
  /\ UNCHANGED <<given, pending, network, received, asked, closed, backlog, ended, early, broken>>

TakeEnd ==
  /\ posted # <<>> /\ Head(posted).op = "shutdown"
  /\ posted' = Tail(posted)
  /\ ended' \in {ended, ended \/ pending = <<>>}
  /\ UNCHANGED <<given, pending, network, received, asked, closed, backlog, early, broken>>

\* The owner of the stream ends it, and may close it too.
EndHere ==
  /\ ~asked
  /\ asked' = TRUE
  /\ ended' \in {ended, ended \/ pending = <<>>}
  /\ early' = (early \/ (ended' /\ ~ended))
  /\ closed' \in {closed, TRUE}
  /\ UNCHANGED <<given, posted, pending, network, received, backlog, broken>>

Close ==
  /\ asked' = TRUE /\ closed' = TRUE
  /\ UNCHANGED <<given, posted, pending, network, received, backlog, ended, early, broken>>

-----------------------------------------------------------------------------
(* The network and the peer. *)

Transmit ==
  /\ ~ended /\ ~broken
  /\ \E k \in 1 .. Len(pending) :
       /\ network' = network \o SubSeq(pending, 1, k)
       /\ pending' = SubSeq(pending, k + 1, Len(pending))
  /\ UNCHANGED <<given, posted, received, asked, closed, backlog, ended, early, broken>>

\* It leaves part of a message ...
Hold ==
  /\ pending # <<>>
  /\ backlog' = TRUE
  /\ UNCHANGED <<given, posted, pending, network, received, asked, closed, ended, early, broken>>

\* ... and has caught up with it: the end that was asked for may be sent.
Drain ==
  /\ backlog /\ pending = <<>>
  /\ backlog' = FALSE
  /\ ended' \in {ended, ended \/ asked}
  /\ early' = (early \/ (ended' /\ ~ended))
  /\ UNCHANGED <<given, posted, pending, network, received, asked, closed, broken>>

Receive ==
  /\ network # <<>>
  /\ received' = Append(received, Head(network))
  /\ network' = Tail(network)
  /\ UNCHANGED <<given, posted, pending, asked, closed, backlog, ended, early, broken>>

Break ==
  /\ broken' = TRUE
  /\ network' = <<>>
  /\ UNCHANGED <<given, posted, pending, received, asked, closed, backlog, ended, early>>

Lose ==
  /\ ended \/ broken
  /\ pending' = <<>>
  /\ UNCHANGED <<given, posted, network, received, asked, closed, backlog, ended, early, broken>>

Next ==
  \/ \E len \in Lens : Give(len) \/ Post(len)
  \/ Take \/ Ask \/ PostEnd \/ TakeEnd \/ EndHere \/ Close
  \/ Transmit \/ Hold \/ Drain \/ Receive \/ Break \/ Lose

Spec == Init /\ [][Next]_vars
=============================================================================
