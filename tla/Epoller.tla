------------------------------- MODULE Epoller -------------------------------
(***************************************************************************)
(* The two tables that know a channel, as net/linux/epoller.cpp keeps them *)
(* in step: channels_, by descriptor, and the kernel's interest set.  Each *)
(* operator gives what a call leaves of them.  The kernel forgets a file   *)
(* when its descriptor is closed; channels_ does not.                      *)
(***************************************************************************)
CONSTANTS
  Fds,         \* descriptors the process may have
  Channels,    \* addresses of channels
  NoChannel    \* no entry in channels_; none of Channels

Pollers == [channels : [Fds -> Channels \union {NoChannel}], interest : SUBSET Fds]

NewPoller == [channels |-> [fd \in Fds |-> NoChannel], interest |-> {}]

Known(p, fd) == p.channels[fd] # NoChannel

\* Mutant: what EPOLL_CTL_MOD does not find is added, under the channel already there.
UpdatedStale(p, fd, channel) ==
  [channels |-> IF Known(p, fd) THEN p.channels ELSE [p.channels EXCEPT ![fd] = channel],
   interest |-> p.interest \union {fd}]

\* update() with an open descriptor.  EPOLL_CTL_MOD fails for one the kernel does
\* not know, and EPOLL_CTL_ADD for one it does; the channel is not entered then.
Updated(p, fd, channel) ==
  IF Known(p, fd) <=> fd \in p.interest
  THEN [channels |-> [p.channels EXCEPT ![fd] = channel], interest |-> p.interest \union {fd}]
  ELSE p

\* remove().  When EPOLL_CTL_DEL fails the entry stays.
Removed(p, fd) ==
  IF Known(p, fd) /\ fd \in p.interest
  THEN [channels |-> [p.channels EXCEPT ![fd] = NoChannel], interest |-> p.interest \ {fd}]
  ELSE p

\* close() of a descriptor with no duplicate.
Closed(p, fds) == [p EXCEPT !.interest = @ \ fds]

\* poll(): the channels of the descriptors the kernel reports.
Active(p, ready) == {p.channels[fd] : fd \in {f \in p.interest : Known(p, f)} \intersect ready}
=============================================================================
