------------------------------- MODULE Timers -------------------------------
(***************************************************************************)
(* The timers of an EventLoop: runAfter(), runEvery() and cancel() of      *)
(* net/event_loop.cpp, on Epoller (timerfds) and on KqueuePoller.          *)
(*                                                                         *)
(* A timer has an id, which is what the user gets, and a channel, which    *)
(* timers_ owns and the poller's channels_ points to.  Threads other than  *)
(* the loop's reach both tables only through the loop's queue of functors. *)
(* A channel is known by the number of the call that makes it.             *)
(***************************************************************************)
EXTENDS Integers, Sequences

CONSTANTS
  Platforms,       \* pollers considered: "linux", "mac"
  Delays,          \* delays and intervals, in milliseconds
  IdLimit,         \* WAKEUP_FD - TIMER_FD_BEGIN: how many ids kqueue has
  HandlersCancel,  \* handlers of channels may call cancel()
  MaxTimers,       \* bound: calls of runAfter() and runEvery()
  MaxCancels       \* bound: calls of cancel()

ASSUME ConstantsAssumption ==
  /\ Platforms \subseteq {"linux", "mac"}
  /\ Delays \subseteq Int
  /\ IdLimit \in Nat \ {0}
  /\ HandlersCancel \in BOOLEAN
  /\ MaxTimers \in Nat /\ MaxCancels \in Nat

Ids == 0 .. (IF IdLimit > MaxTimers THEN IdLimit ELSE MaxTimers)
Channels == 1 .. MaxTimers
None == 0

VARIABLES
  platform,   \* the poller compiled in
  made,       \* the calls of runAfter() and runEvery(), one after the other
  timers,     \* timers_: the channel of an id
  channels,   \* the poller's channels_: the channel of an id
  armed,      \* the kernel's timer of an id: "off", "once", "periodic"
  expired,    \* ids that have expired since poll() last returned them
  queue,      \* functors queued for the loop
  pc,         \* where loop() is: "poll", "handle", "run"
  left,       \* functors of the batch not yet run
  batch,      \* channels poll() returned, not handled yet
  handling,   \* the channel whose timer handler is running
  cancels,    \* calls of cancel()
  cancelled,  \* history: channels whose timer was cancelled
  replaced,   \* history: channels whose id was used again before that
  fired       \* history: channels whose handler was called

userVars == <<made, cancels>>
kernelVars == <<armed, expired>>
loopVars == <<pc, left, batch, handling>>
history == <<cancelled, replaced, fired>>
vars == <<platform, userVars, timers, channels, kernelVars, queue, loopVars, history>>

Call == [id : Ids, delay : Delays, repeat : BOOLEAN]
Functor == [op : {"add"}, channel : Channels] \union [op : {"cancel"}, id : Ids]

TypeOK ==
  /\ platform \in Platforms
  /\ made \in Seq(Call) /\ Len(made) <= MaxTimers
  /\ timers \in [Ids -> Channels \union {None}]
  /\ channels \in [Ids -> Channels \union {None}]
  /\ armed \in [Ids -> {"off", "once", "periodic"}]
  /\ expired \subseteq Ids
  /\ queue \in Seq(Functor)
  /\ pc \in {"poll", "handle", "run"}
  /\ left \in 0 .. Len(queue)
  /\ batch \subseteq DOMAIN made
  /\ handling \in DOMAIN made \union {None}
  /\ cancels \in 0 .. MaxCancels
  /\ cancelled \subseteq Channels /\ replaced \subseteq Channels /\ fired \subseteq Channels

\* User code on the loop's thread comes before loop() as well.
Init ==
  /\ platform \in Platforms
  /\ made = <<>>
  /\ timers = [id \in Ids |-> None] /\ channels = [id \in Ids |-> None]
  /\ armed = [id \in Ids |-> "off"] /\ expired = {}
  /\ queue = <<>>
  /\ pc = "run" /\ left = 0 /\ batch = {} /\ handling = None
  /\ cancels = 0
  /\ cancelled = {} /\ replaced = {} /\ fired = {}

-----------------------------------------------------------------------------
(* What the pollers make of a timer. *)

\* kqueue's getTimerFd(): the next number, which wraps.
WrappedId == (Len(made) + 1) % IdLimit

\* Epoller's: a new timerfd, which is never closed.
NextId == IF platform = "linux" THEN Len(made) + 1 ELSE WrappedId

\* Division in the code rounds towards zero.
Seconds(ms) == IF ms >= 0 THEN ms \div 1000 ELSE -((-ms) \div 1000)
Millis(ms) == ms - 1000 * Seconds(ms)

\* timerfd_settime() fails; Epoller::update() returns before it registers anything.
Refused(call) ==
  /\ platform = "linux"
  /\ Seconds(call.delay) < 0 \/ (call.repeat /\ Millis(call.delay) < 0)

\* Mutant: EV_ONESHOT is never set.
ArmedAlways(call) == IF call.delay < 0 THEN "off" ELSE "periodic"

\* kqueue does what is asked for.
ArmedKqueue(call) ==
  IF call.delay < 0 THEN "off" ELSE IF call.repeat THEN "periodic" ELSE "once"

\* The timerfd is set to whole seconds, the first time and every time after it,
\* also for runAfter(); zero disarms it.
Armed(call) ==
  IF platform = "mac" THEN ArmedKqueue(call)
  ELSE IF Seconds(call.delay) = 0 THEN "off" ELSE "periodic"

\* `!CHANNEL_READ' is a logical negation: no flag, or the lowest.
Not(flags) == IF flags = {} THEN {"CONN"} ELSE {}

\* The active event of a timer's channel.
ActiveEvent ==
  IF platform = "linux" THEN {"READ", "TIMER"} \intersect Not({"READ"}) ELSE {"TIMER"}

-----------------------------------------------------------------------------
(* The functors. *)

\* runAfter() and runEvery() on the loop's thread: update(), then timers_.
Add(channel, call) ==
  LET id == call.id
  IN  /\ IF Refused(call)
         THEN UNCHANGED <<channels, kernelVars>>
         ELSE /\ channels' = [channels EXCEPT ![id] = channel]
              /\ armed' = [armed EXCEPT ![id] = Armed(call)]
              /\ expired' = expired \ {id}
      /\ timers' = [timers EXCEPT ![id] = channel]
      /\ replaced' = replaced \union ({timers[id]} \ {None})

\* Mutant: the channel stays in the poller.
RemoveFromTimers(id) ==
  /\ timers' = [timers EXCEPT ![id] = None]
  /\ UNCHANGED <<channels, kernelVars>>

\* kqueue deletes the timer.  A timerfd goes on although nobody polls it.
Stopped(id) ==
  IF platform = "mac"
  THEN armed' = [armed EXCEPT ![id] = "off"] /\ expired' = expired \ {id}
  ELSE UNCHANGED kernelVars

\* cancel() on the loop's thread.
Remove(id) ==
  /\ timers' = [timers EXCEPT ![id] = None]
  /\ IF timers[id] # None /\ channels[id] # None
     THEN channels' = [channels EXCEPT ![id] = None] /\ Stopped(id)
     ELSE UNCHANGED <<channels, kernelVars>>

RunFunctor ==
  LET f == Head(queue)
  IN  /\ pc = "run" /\ left > 0
      /\ left' = left - 1
      /\ queue' = Tail(queue)
      /\ IF f.op = "add"
         THEN Add(f.channel, made[f.channel])
         ELSE Remove(f.id) /\ UNCHANGED replaced
      /\ UNCHANGED <<platform, userVars, pc, batch, handling, cancelled, fired>>

-----------------------------------------------------------------------------
(* The user's calls. *)

NewCall(delay, repeat) ==
  /\ Len(made) < MaxTimers
  /\ made' = Append(made, [id |-> NextId, delay |-> delay, repeat |-> repeat])

\* On another thread.
RunLater(delay, repeat) ==
  /\ NewCall(delay, repeat)
  /\ queue' = Append(queue, [op |-> "add", channel |-> Len(made')])
  /\ UNCHANGED <<platform, cancels, timers, channels, kernelVars, loopVars, history>>

\* On the loop's thread: in a handler, in a functor, or before loop().
RunLaterHere(delay, repeat) ==
  /\ pc # "poll"
  /\ NewCall(delay, repeat)
  /\ Add(Len(made'), made'[Len(made')])
  /\ UNCHANGED <<platform, cancels, queue, loopVars, cancelled, fired>>

\* The ids that runAfter() and runEvery() have returned.
KnownIds == {made[c].id : c \in DOMAIN made}
WithId(id) == {c \in DOMAIN made : made[c].id = id}

\* Mutant: another thread changes the tables itself.
CancelDirectly(id) ==
  /\ cancels < MaxCancels
  /\ cancels' = cancels + 1
  /\ Remove(id)
  /\ cancelled' = cancelled \union WithId(id)
  /\ UNCHANGED <<platform, made, queue, loopVars, replaced, fired>>

Cancel(id) ==
  /\ cancels < MaxCancels
  /\ cancels' = cancels + 1
  /\ queue' = Append(queue, [op |-> "cancel", id |-> id])
  /\ cancelled' = cancelled \union WithId(id)
  /\ UNCHANGED <<platform, made, timers, channels, kernelVars, loopVars, replaced, fired>>

\* On the loop's thread; a timer that is still queued is not found.
CancelHere(id) ==
  /\ pc = "run" \/ (pc = "handle" /\ HandlersCancel)
  /\ cancels < MaxCancels
  /\ cancels' = cancels + 1
  /\ Remove(id)
  /\ cancelled' = cancelled \union ({timers[id]} \ {None})
  /\ UNCHANGED <<platform, made, queue, loopVars, replaced, fired>>

-----------------------------------------------------------------------------
(* The kernel and the loop. *)

Expire(id) ==
  /\ armed[id] # "off" /\ id \notin expired
  /\ expired' = expired \union {id}
  /\ armed' = IF armed[id] = "once" THEN [armed EXCEPT ![id] = "off"] ELSE armed
  /\ UNCHANGED <<platform, userVars, timers, channels, queue, loopVars, history>>

Ready == {id \in expired : channels[id] # None}

\* Mutant: the timerfd is not read.
PollUnread ==
  /\ pc = "poll"
  /\ pc' = "handle"
  /\ batch' = {channels[id] : id \in Ready}
  /\ UNCHANGED <<platform, userVars, timers, channels, armed, expired, queue, left, handling,
                 history>>

\* poll() returns what has expired, also when something else woke it up, and
\* reads the timerfds.
Poll ==
  /\ pc = "poll"
  /\ pc' = "handle"
  /\ batch' = {channels[id] : id \in Ready}
  /\ expired' = expired \ Ready
  /\ UNCHANGED <<platform, userVars, timers, channels, armed, queue, left, handling, history>>

\* Channel::handleEvent()
Handle(channel) ==
  /\ pc = "handle" /\ handling = None
  /\ channel \in batch
  /\ batch' = batch \ {channel}
  /\ IF "TIMER" \in ActiveEvent
     THEN handling' = channel /\ fired' = fired \union {channel}
     ELSE UNCHANGED <<handling, fired>>
  /\ UNCHANGED <<platform, userVars, timers, channels, kernelVars, queue, pc, left, cancelled,
                 replaced>>

HandlerReturns ==
  /\ handling # None
  /\ handling' = None
  /\ UNCHANGED <<platform, userVars, timers, channels, kernelVars, queue, pc, left, batch,
                 history>>

\* doPendingFunctors() takes what is queued by now ...
SwapPending ==
  /\ pc = "handle" /\ batch = {} /\ handling = None
  /\ pc' = "run" /\ left' = Len(queue)
  /\ UNCHANGED <<platform, userVars, timers, channels, kernelVars, queue, batch, handling,
                 history>>

\* ... and when that has run, loop() goes on.
DonePending ==
  /\ pc = "run" /\ left = 0
  /\ pc' = "poll"
  /\ UNCHANGED <<platform, userVars, timers, channels, kernelVars, queue, left, batch, handling,
                 history>>

-----------------------------------------------------------------------------
UserStep ==
  \/ \E delay \in Delays, repeat \in BOOLEAN :
       RunLater(delay, repeat) \/ RunLaterHere(delay, repeat)
  \/ \E id \in KnownIds : Cancel(id) \/ CancelHere(id)

LoopStep ==
  \/ Poll \/ (\E channel \in batch : Handle(channel)) \/ HandlerReturns
  \/ SwapPending \/ RunFunctor \/ DonePending

Next == UserStep \/ LoopStep \/ (\E id \in Ids : Expire(id))

Spec == Init /\ [][Next]_vars

(***************************************************************************)
(* Fairness: time passes, the loop goes on whenever poll() has a reason to *)
(* return, and handlers return.                                            *)
(***************************************************************************)
LoopProgress ==
  \/ Poll /\ (Ready # {} \/ queue # <<>>)
  \/ \E channel \in batch : Handle(channel)
  \/ HandlerReturns \/ SwapPending \/ RunFunctor \/ DonePending

FairSpec == Spec /\ WF_vars(LoopProgress) /\ \A id \in Ids : WF_vars(Expire(id))

-----------------------------------------------------------------------------
(* Properties. *)

Owned == {timers[id] : id \in Ids} \ {None}

\* event_loop.cpp:111-119, 142-147: whatever the poller's table points to is owned by
\* timers_ under the same id: no channel is freed while poll() can still return it.
ChannelsOwned == \A id \in Ids : channels[id] \in {None, timers[id]}

\* event_loop.cpp:45-48, 142-147: because functors run after the batch, cancel() on
\* other threads never frees a channel that poll() returned and loop() has
\* still to handle or is handling.  (An id that kqueue hands out again does.)
BatchAlive == \A c \in batch \union ({handling} \ {None}) : c \in Owned \/ c \in replaced

\* event_loop.cpp:141-148: once another thread has called cancel() with an id that
\* it was given, the timer is gone or a functor that removes it comes last.
RemovedLater(c) ==
  \E i \in DOMAIN queue :
    /\ queue[i] = [op |-> "cancel", id |-> made[c].id]
    /\ \A j \in DOMAIN queue : queue[j] = [op |-> "add", channel |-> c] => j < i
CancelSticks ==
  \A c \in cancelled :
    c \in Owned \/ (\E i \in DOMAIN queue : queue[i] = [op |-> "add", channel |-> c])
      => RemovedLater(c)

\* kqueue_poller.cpp:37-38: the handler of runAfter() is called once, also when its
\* id is used again meanwhile.
OneShotOnce ==
  [][\A c \in DOMAIN made :
       handling # c /\ handling' = c /\ ~made[c].repeat => c \notin fired]_vars

\* test_loop.cpp:24, runEvery(1000, work): the handler of a timer is called, unless
\* it is cancelled (or its id used again) first.
Fires(c) ==
  (c \in Owned /\ made[c].delay >= 0) ~> (c \notin Owned \/ c \in fired)
TimersFire == \A c \in Channels : Fires(c)

\* epoller.cpp:109-117: poll() takes what made it return, so that a loop with timers
\* that no handler is called for does not spin.
ExpiriesTaken ==
  \A id \in Ids : id \in Ready ~> (id \notin expired \/ channels[id] = None)
=============================================================================
