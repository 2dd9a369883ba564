---------------------------- MODULE KqueuePoller ----------------------------
(***************************************************************************)
(* The same two tables as net/mac/kqueue_poller.cpp keeps them, for the    *)
(* channels of sockets: update() enters the channel whatever kevent() did, *)
(* and remove() erases it, but deletes the kernel's filter only for        *)
(* channels with CHANNEL_READ, which an acceptor's has not.                *)
(***************************************************************************)
CONSTANTS
  Fds,         \* descriptors the process may have
  NoChannel    \* no entry in channels_

Known(p, fd) == p.channels[fd] # NoChannel

\* update() with an open descriptor.
Updated(p, fd, channel) ==
  [channels |-> [p.channels EXCEPT ![fd] = channel], interest |-> p.interest \union {fd}]

\* remove() of a channel that asks for CHANNEL_READ or, if ~reads, for something else.
Removed(p, fd, reads) ==
  IF Known(p, fd)
  THEN [channels |-> [p.channels EXCEPT ![fd] = NoChannel],
        interest |-> IF reads THEN p.interest \ {fd} ELSE p.interest]
  ELSE p
=============================================================================
