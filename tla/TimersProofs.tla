---------------------------- MODULE TimersProofs ----------------------------
(***************************************************************************)
(* For any delays, ids and numbers of calls: the invariants of Timers.     *)
(***************************************************************************)
EXTENDS Timers, SequenceTheorems, TLAPS

-----------------------------------------------------------------------------
(* The inductive invariant. *)

\* timers_ has a channel under the id it was made for; the poller's table has no
\* other.  A timerfd is never used again.
TablesInv ==
  /\ \A id \in Ids : timers[id] # None =>
       timers[id] \in DOMAIN made /\ made[timers[id]].id = id
  /\ ChannelsOwned
  /\ cancelled \subseteq DOMAIN made
  /\ platform = "linux" => \A c \in DOMAIN made : made[c].id = c

\* A channel is queued once, before it is in timers_.
QueueInv ==
  /\ \A i \in DOMAIN queue : queue[i].op = "add" =>
       queue[i].channel \in DOMAIN made /\ queue[i].channel \notin Owned
  /\ \A i, j \in DOMAIN queue :
       queue[i].op = "add" /\ queue[j].op = "add" /\ queue[i].channel = queue[j].channel => i = j

IInv == TypeOK /\ TablesInv /\ QueueInv /\ CancelSticks

\* What BatchAlive rests on, where handlers do not cancel: functors run on an
\* empty batch.
BatchInv ==
  /\ pc # "handle" => batch = {} /\ handling = None
  /\ pc # "run" => left = 0
  /\ BatchAlive

-----------------------------------------------------------------------------
(* Types. *)

LEMMA IdsAreInts == Ids \subseteq Int /\ Channels \subseteq Nat \ {0} /\ None \notin Channels
BY ConstantsAssumption DEF Ids, Channels, None

LEMMA MadeDomain ==
  ASSUME TypeOK
  PROVE  /\ Len(made) \in Nat
         /\ DOMAIN made = 1 .. Len(made)
         /\ DOMAIN made \subseteq Channels
         /\ \A c \in DOMAIN made : made[c] \in Call
<1>1. made \in Seq(Call) /\ Len(made) <= MaxTimers /\ MaxTimers \in Nat
  BY ConstantsAssumption DEF TypeOK
<1>2. Len(made) \in Nat /\ DOMAIN made = 1 .. Len(made) /\ made \in [1 .. Len(made) -> Call]
  BY <1>1, LenProperties
<1> QED
  BY <1>1, <1>2 DEF Channels

LEMMA Remainder == ASSUME NEW n \in Nat, NEW m \in Nat \ {0} PROVE n % m \in 0 .. m - 1
OBVIOUS

LEMMA NextIdTyped ==
  ASSUME TypeOK, Len(made) < MaxTimers
  PROVE  NextId \in Ids
<1>1. Len(made) \in Nat
  BY MadeDomain
<1>2. WrappedId \in 0 .. IdLimit - 1
  BY <1>1, Remainder, ConstantsAssumption DEF WrappedId
<1> QED
  BY <1>1, <1>2, ConstantsAssumption DEF NextId, Ids

\* A call appends one channel, which is new.
LEMMA NewCallAppends ==
  ASSUME TypeOK, NEW delay \in Delays, NEW repeat \in BOOLEAN, NewCall(delay, repeat)
  PROVE  /\ made' \in Seq(Call)
         /\ Len(made') = Len(made) + 1 /\ Len(made') <= MaxTimers
         /\ DOMAIN made' = DOMAIN made \union {Len(made')}
         /\ Len(made') \in Channels /\ Len(made') \notin DOMAIN made
         /\ \A c \in DOMAIN made : made'[c] = made[c]
         /\ made'[Len(made')].id = NextId /\ made'[Len(made')].id \in Ids
<1> DEFINE call == [id |-> NextId, delay |-> delay, repeat |-> repeat]
<1>1. call \in Call
  BY NextIdTyped, ConstantsAssumption DEF NewCall, Call
<1>2. made \in Seq(Call) /\ made' = Append(made, call) /\ Len(made) < MaxTimers
  BY DEF NewCall, TypeOK
<1>3. /\ made' \in Seq(Call) /\ Len(made') = Len(made) + 1
      /\ \A i \in 1 .. Len(made) : made'[i] = made[i]
      /\ made'[Len(made) + 1] = call
  BY <1>1, <1>2, AppendProperties
<1>4. Len(made) \in Nat /\ DOMAIN made = 1 .. Len(made) /\ DOMAIN made' = 1 .. Len(made) + 1
  BY <1>2, <1>3, LenProperties
<1>5. Len(made') \in Channels /\ Len(made') <= MaxTimers
  BY <1>2, <1>3, <1>4, ConstantsAssumption DEF Channels
<1>6. NextId \in Ids
  BY <1>2, NextIdTyped
<1> QED
  BY <1>3, <1>4, <1>5, <1>6

LEMMA AddTyped ==
  ASSUME TypeOK, NEW c \in Channels, NEW call \in Call, Add(c, call)
  PROVE  /\ timers' \in [Ids -> Channels \union {None}]
         /\ channels' \in [Ids -> Channels \union {None}]
         /\ armed' \in [Ids -> {"off", "once", "periodic"}]
         /\ expired' \subseteq Ids
         /\ replaced' \subseteq Channels
<1>1. call.id \in Ids
  BY DEF Call
<1>2. Armed(call) \in {"off", "once", "periodic"}
  BY DEF Armed, ArmedKqueue
<1>3. timers[call.id] \in Channels \union {None}
  BY <1>1 DEF TypeOK
<1>4. timers' \in [Ids -> Channels \union {None}] /\ replaced' \subseteq Channels
  BY <1>1, <1>3 DEF TypeOK, Add
<1>5. CASE Refused(call)
  BY <1>4, <1>5 DEF TypeOK, Add, kernelVars
<1>6. CASE ~Refused(call)
  BY <1>1, <1>2, <1>4, <1>6 DEF TypeOK, Add
<1> QED
  BY <1>5, <1>6

LEMMA RemoveTyped ==
  ASSUME TypeOK, NEW id \in Ids, Remove(id)
  PROVE  /\ timers' \in [Ids -> Channels \union {None}]
         /\ channels' \in [Ids -> Channels \union {None}]
         /\ armed' \in [Ids -> {"off", "once", "periodic"}]
         /\ expired' \subseteq Ids
<1>1. timers' \in [Ids -> Channels \union {None}]
  BY DEF TypeOK, Remove
<1>2. CASE timers[id] # None /\ channels[id] # None
  <2>1. channels' \in [Ids -> Channels \union {None}]
    BY <1>2 DEF TypeOK, Remove
  <2>2. Stopped(id)
    BY <1>2 DEF Remove
  <2> QED
    BY <1>1, <2>1, <2>2 DEF TypeOK, Stopped, kernelVars
<1>3. CASE ~(timers[id] # None /\ channels[id] # None)
  BY <1>1, <1>3 DEF TypeOK, Remove, kernelVars
<1> QED
  BY <1>2, <1>3

LEMMA HeadTyped ==
  ASSUME TypeOK, queue # <<>>
  PROVE  /\ Head(queue) \in Functor
         /\ Head(queue).op = "add" => Head(queue).channel \in Channels
         /\ Head(queue).op # "add" => Head(queue).id \in Ids
<1>1. Head(queue) \in Functor
  BY HeadTailProperties DEF TypeOK
<1> QED
  BY <1>1 DEF Functor

LEMMA InitInv == Init => IInv /\ BatchInv
<1> SUFFICES ASSUME Init PROVE IInv /\ BatchInv
  OBVIOUS
<1>1. made = <<>> /\ queue = <<>> /\ DOMAIN made = {} /\ DOMAIN queue = {}
      /\ Len(made) = 0 /\ Len(queue) = 0 /\ made \in Seq(Call) /\ queue \in Seq(Functor)
  BY DEF Init
<1>2. TypeOK
  BY <1>1, ConstantsAssumption DEF Init, TypeOK
<1>3. TablesInv /\ QueueInv /\ CancelSticks /\ BatchInv
  BY <1>1 DEF Init, TablesInv, ChannelsOwned, QueueInv, CancelSticks, BatchInv, BatchAlive, None
<1> QED
  BY <1>2, <1>3 DEF IInv

-----------------------------------------------------------------------------
(* Steps. *)

\* What every action leaves to the lemmas below.
LEMMA QueueAppends ==
  ASSUME TypeOK, NEW f \in Functor, queue' = Append(queue, f)
  PROVE  /\ queue' \in Seq(Functor) /\ Len(queue') = Len(queue) + 1
         /\ Len(queue) \in Nat
         /\ DOMAIN queue = 1 .. Len(queue) /\ DOMAIN queue' = 1 .. Len(queue) + 1
         /\ \A i \in DOMAIN queue : queue'[i] = queue[i]
         /\ queue'[Len(queue) + 1] = f
<1>1. queue \in Seq(Functor)
  BY DEF TypeOK
<1>2. /\ queue' \in Seq(Functor) /\ Len(queue') = Len(queue) + 1
      /\ \A i \in 1 .. Len(queue) : queue'[i] = queue[i]
      /\ queue'[Len(queue) + 1] = f
  BY <1>1, AppendProperties
<1> QED
  BY <1>1, <1>2, LenProperties

LEMMA QueueShrinks ==
  ASSUME TypeOK, queue # <<>>, queue' = Tail(queue)
  PROVE  /\ queue' \in Seq(Functor) /\ Len(queue') = Len(queue) - 1
         /\ Len(queue) \in Nat \ {0}
         /\ DOMAIN queue = 1 .. Len(queue) /\ DOMAIN queue' = 1 .. Len(queue) - 1
         /\ Head(queue) = queue[1]
         /\ \A i \in DOMAIN queue' : queue'[i] = queue[i + 1]
<1>1. queue \in Seq(Functor)
  BY DEF TypeOK
<1>2. /\ queue' \in Seq(Functor) /\ Len(queue') = Len(queue) - 1
      /\ Head(queue) = queue[1]
      /\ \A i \in 1 .. Len(queue') : queue'[i] = queue[i + 1]
  BY <1>1, HeadTailProperties
<1>3. Len(queue) \in Nat \ {0}
  BY <1>1, EmptySeq, LenProperties
<1> QED
  BY <1>1, <1>2, <1>3, LenProperties

LEMMA TypeStep == ASSUME TypeOK, TablesInv, QueueInv, [Next]_vars PROVE TypeOK'
<1> USE DEF TypeOK
<1>1. ASSUME NEW delay \in Delays, NEW repeat \in BOOLEAN, RunLater(delay, repeat) PROVE TypeOK'
  <2> DEFINE f == [op |-> "add", channel |-> Len(made')]
  <2>1. NewCall(delay, repeat)
    BY <1>1 DEF RunLater
  <2>2. /\ made' \in Seq(Call) /\ Len(made') <= MaxTimers /\ DOMAIN made \subseteq DOMAIN made'
        /\ Len(made') \in Channels
    BY <2>1, NewCallAppends
  <2>3. f \in Functor
    BY <2>2 DEF Functor
  <2>4. queue' \in Seq(Functor) /\ Len(queue') = Len(queue) + 1 /\ Len(queue) \in Nat
    BY <1>1, <2>3, QueueAppends DEF RunLater
  <2> QED
    BY <1>1, <2>2, <2>4 DEF RunLater, kernelVars, loopVars, history
<1>2. ASSUME NEW delay \in Delays, NEW repeat \in BOOLEAN, RunLaterHere(delay, repeat)
      PROVE  TypeOK'
  <2>1. NewCall(delay, repeat)
    BY <1>2 DEF RunLaterHere
  <2>2. /\ made' \in Seq(Call) /\ Len(made') <= MaxTimers /\ DOMAIN made \subseteq DOMAIN made'
        /\ Len(made') \in Channels /\ Len(made') \in DOMAIN made'
    BY <2>1, NewCallAppends
  <2>3. made'[Len(made')] \in Call
    BY <2>2, LenProperties
  <2>4. Add(Len(made'), made'[Len(made')])
    BY <1>2 DEF RunLaterHere
  <2>5. /\ timers' \in [Ids -> Channels \union {None}]
        /\ channels' \in [Ids -> Channels \union {None}]
        /\ armed' \in [Ids -> {"off", "once", "periodic"}]
        /\ expired' \subseteq Ids /\ replaced' \subseteq Channels
    BY <2>2, <2>3, <2>4, AddTyped
  <2> QED
    BY <1>2, <2>2, <2>5 DEF RunLaterHere, loopVars
<1>3. ASSUME NEW id \in KnownIds, Cancel(id) PROVE TypeOK'
  <2> DEFINE f == [op |-> "cancel", id |-> id]
  <2>1. id \in Ids
    BY MadeDomain DEF KnownIds, Call
  <2>2. f \in Functor
    BY <2>1 DEF Functor
  <2>3. queue' \in Seq(Functor) /\ Len(queue') = Len(queue) + 1 /\ Len(queue) \in Nat
    BY <1>3, <2>2, QueueAppends DEF Cancel
  <2>4. cancelled' \subseteq Channels
    BY <1>3, MadeDomain DEF Cancel, WithId
  <2>5. cancels' \in 0 .. MaxCancels
    BY <1>3, ConstantsAssumption DEF Cancel
  <2> QED
    BY <1>3, <2>3, <2>4, <2>5 DEF Cancel, kernelVars, loopVars
<1>4. ASSUME NEW id \in KnownIds, CancelHere(id) PROVE TypeOK'
  <2>1. id \in Ids
    BY MadeDomain DEF KnownIds, Call
  <2>2. Remove(id)
    BY <1>4 DEF CancelHere
  <2>3. /\ timers' \in [Ids -> Channels \union {None}]
        /\ channels' \in [Ids -> Channels \union {None}]
        /\ armed' \in [Ids -> {"off", "once", "periodic"}]
        /\ expired' \subseteq Ids
    BY <2>1, <2>2, RemoveTyped
  <2>4. cancelled' \subseteq Channels
    BY <1>4, <2>1 DEF CancelHere
  <2>5. cancels' \in 0 .. MaxCancels
    BY <1>4, ConstantsAssumption DEF CancelHere
  <2> QED
    BY <1>4, <2>3, <2>4, <2>5 DEF CancelHere, loopVars
<1>5. CASE Poll
  <2>1. batch' \subseteq DOMAIN made
    BY <1>5 DEF Poll, Ready, TablesInv, ChannelsOwned
  <2> QED
    BY <1>5, <2>1 DEF Poll, userVars, history
<1>6. ASSUME NEW c \in batch, Handle(c) PROVE TypeOK'
  <2>1. handling' \in DOMAIN made \union {None} /\ fired' \subseteq Channels
    BY <1>6, MadeDomain DEF Handle
  <2> QED
    BY <1>6, <2>1 DEF Handle, userVars, kernelVars
<1>7. CASE HandlerReturns
  BY <1>7 DEF HandlerReturns, userVars, kernelVars, history
<1>8. CASE SwapPending
  <2>1. Len(queue) \in Nat
    BY LenProperties
  <2> QED
    BY <1>8, <2>1 DEF SwapPending, userVars, kernelVars, history
<1>9. CASE RunFunctor
  <2> DEFINE f == Head(queue)
  <2>1. queue # <<>> /\ left > 0 /\ left \in Nat
    <3>1. Len(queue) \in Nat
      BY LenProperties
    <3> QED
      BY <1>9, <3>1, EmptySeq DEF RunFunctor
  <2>2. queue' \in Seq(Functor) /\ Len(queue') = Len(queue) - 1 /\ Len(queue) \in Nat
    BY <1>9, <2>1, QueueShrinks DEF RunFunctor
  <2>3. left' \in 0 .. Len(queue')
    BY <1>9, <2>1, <2>2 DEF RunFunctor
  <2>4. /\ timers' \in [Ids -> Channels \union {None}]
        /\ channels' \in [Ids -> Channels \union {None}]
        /\ armed' \in [Ids -> {"off", "once", "periodic"}]
        /\ expired' \subseteq Ids /\ replaced' \subseteq Channels
    <3>1. CASE f.op = "add"
      <4>1. 1 \in DOMAIN queue /\ f = queue[1]
        BY <1>9, <2>1, QueueShrinks DEF RunFunctor
      <4>2. f.channel \in DOMAIN made
        BY <3>1, <4>1 DEF QueueInv
      <4> QED
        BY <1>9, <3>1, <4>2, AddTyped, MadeDomain DEF RunFunctor
    <3>2. CASE f.op # "add"
      BY <1>9, <2>1, <3>2, HeadTyped, RemoveTyped DEF RunFunctor
    <3> QED
      BY <3>1, <3>2
  <2> QED
    BY <1>9, <2>2, <2>3, <2>4 DEF RunFunctor, userVars
<1>10. CASE DonePending
  BY <1>10 DEF DonePending, userVars, kernelVars, history
<1>11. ASSUME NEW id \in Ids, Expire(id) PROVE TypeOK'
  BY <1>11 DEF Expire, userVars, loopVars, history
<1>12. CASE UNCHANGED vars
  BY <1>12 DEF vars, userVars, kernelVars, loopVars, history
<1> QED
  BY <1>1, <1>2, <1>3, <1>4, <1>5, <1>6, <1>7, <1>8, <1>9, <1>10, <1>11, <1>12
     DEF Next, UserStep, LoopStep

\* add() of a channel that no table has yet.
LEMMA AddEffect ==
  ASSUME TypeOK, NEW c \in Channels, NEW call \in Call, Add(c, call), ChannelsOwned,
         Refused(call) => timers[call.id] = None
  PROVE  /\ \A id \in Ids : timers'[id] = IF id = call.id THEN c ELSE timers[id]
         /\ ChannelsOwned'
         /\ Owned' \subseteq Owned \union {c}
         /\ Owned \subseteq Owned' \union replaced'
         /\ replaced \subseteq replaced'
<1>1. call.id \in Ids
  BY DEF Call
<1>2. \A id \in Ids : timers'[id] = IF id = call.id THEN c ELSE timers[id]
  BY <1>1 DEF Add, TypeOK
<1>3. Owned' \subseteq Owned \union {c} /\ replaced \subseteq replaced'
  BY <1>2 DEF Owned, Add
<1>4. Owned \subseteq Owned' \union replaced'
  <2> SUFFICES ASSUME NEW id \in Ids, timers[id] # None
               PROVE  timers[id] \in Owned' \union replaced'
    BY DEF Owned
  <2>1. CASE id = call.id
    BY <2>1 DEF Add
  <2>2. CASE id # call.id
    BY <1>2, <2>2 DEF Owned
  <2> QED
    BY <2>1, <2>2
<1>5. ChannelsOwned'
  <2> SUFFICES ASSUME NEW id \in Ids PROVE channels'[id] \in {None, timers'[id]}
    BY DEF ChannelsOwned
  <2>1. CASE Refused(call)
    BY <1>1, <1>2, <2>1 DEF Add, ChannelsOwned
  <2>2. CASE ~Refused(call)
    BY <1>1, <1>2, <2>2 DEF Add, ChannelsOwned, TypeOK
  <2> QED
    BY <2>1, <2>2
<1> QED
  BY <1>2, <1>3, <1>4, <1>5

LEMMA RemoveEffect ==
  ASSUME TypeOK, NEW id \in Ids, Remove(id), TablesInv
  PROVE  /\ \A i \in Ids : timers'[i] = IF i = id THEN None ELSE timers[i]
         /\ ChannelsOwned'
         /\ Owned' = Owned \ {timers[id]}
         /\ \A c \in Owned' : made[c].id # id
<1>1. \A i \in Ids : timers'[i] = IF i = id THEN None ELSE timers[i]
  BY DEF Remove, TypeOK
<1>2. ChannelsOwned'
  <2> SUFFICES ASSUME NEW i \in Ids PROVE channels'[i] \in {None, timers'[i]}
    BY DEF ChannelsOwned
  <2> QED
    BY <1>1 DEF Remove, TablesInv, ChannelsOwned, TypeOK
<1>3. \A c \in Owned : \E i \in Ids : timers[i] = c /\ c # None /\ made[c].id = i
  BY DEF Owned, TablesInv
<1>4. Owned' = Owned \ {timers[id]}
  <2>1. ASSUME NEW c \in Owned' PROVE c \in Owned /\ c # timers[id]
    BY <1>1, <1>3 DEF Owned, TablesInv
  <2>2. ASSUME NEW c \in Owned, c # timers[id] PROVE c \in Owned'
    BY <1>1, <1>3, <2>2 DEF Owned
  <2> QED
    BY <2>1, <2>2
<1>5. ASSUME NEW c \in Owned' PROVE made[c].id # id
  BY <1>1, <1>3, <1>4
<1> QED
  BY <1>1, <1>2, <1>4, <1>5

\* A queued timer is refused only if its id is free.
LEMMA RefusedIsFree ==
  ASSUME TypeOK, TablesInv, NEW c, c \notin Owned, NEW call, call.id \in Ids, Refused(call),
         platform = "linux" => call.id = c
  PROVE  timers[call.id] = None
<1>1. platform = "linux" /\ call.id = c
  BY DEF Refused
<1>2. timers[c] # None => made[timers[c]].id = timers[c] /\ made[timers[c]].id = c
  BY <1>1 DEF TablesInv
<1> QED
  BY <1>1, <1>2 DEF Owned

\* Steps that change neither the tables nor the queue nor the calls.
Quiet ==
  \/ Poll \/ (\E c \in batch : Handle(c)) \/ HandlerReturns \/ SwapPending \/ DonePending
  \/ (\E id \in Ids : Expire(id)) \/ UNCHANGED vars

LEMMA QuietIsQuiet ==
  ASSUME Quiet
  PROVE  UNCHANGED <<platform, made, timers, channels, queue, cancelled, replaced>>
BY DEF Quiet, Poll, Handle, HandlerReturns, SwapPending, DonePending, Expire, vars, userVars,
       history

LEMMA Steps ==
  ASSUME [Next]_vars
  PROVE  \/ \E delay \in Delays, repeat \in BOOLEAN :
              RunLater(delay, repeat) \/ RunLaterHere(delay, repeat)
         \/ \E id \in KnownIds : Cancel(id) \/ CancelHere(id)
         \/ RunFunctor
         \/ Quiet
BY DEF Next, UserStep, LoopStep, Quiet

LEMMA OwnedIsMade == ASSUME TypeOK, TablesInv PROVE Owned \subseteq DOMAIN made
BY DEF Owned, TablesInv

LEMMA KnownIdsAreIds == ASSUME TypeOK PROVE KnownIds \subseteq Ids
BY MadeDomain DEF KnownIds, Call

\* What runs on the loop's thread finds tables in order and leaves them so.
LEMMA AddHere ==
  ASSUME TypeOK, TablesInv, NEW delay \in Delays, NEW repeat \in BOOLEAN,
         RunLaterHere(delay, repeat)
  PROVE  /\ Len(made') \in Channels /\ Len(made') \notin DOMAIN made
         /\ DOMAIN made' = DOMAIN made \union {Len(made')}
         /\ \A c \in DOMAIN made : made'[c] = made[c]
         /\ ChannelsOwned'
         /\ \A id \in Ids : timers'[id] = IF id = made'[Len(made')].id THEN Len(made')
                                           ELSE timers[id]
         /\ Owned' \subseteq Owned \union {Len(made')}
         /\ Owned \subseteq Owned' \union replaced'
         /\ replaced \subseteq replaced'
<1> DEFINE c == Len(made')
           call == made'[c]
<1>1. NewCall(delay, repeat) /\ Add(c, call)
  BY DEF RunLaterHere
<1>2. /\ c \in Channels /\ c \notin DOMAIN made /\ DOMAIN made' = DOMAIN made \union {c}
      /\ \A b \in DOMAIN made : made'[b] = made[b]
      /\ call.id = NextId /\ call.id \in Ids
      /\ c = Len(made) + 1 /\ made' \in Seq(Call)
  BY <1>1, NewCallAppends
<1>3. call \in Call
  BY <1>2, LenProperties
<1>4. Refused(call) => timers[call.id] = None
  <2>1. c \notin Owned
    BY <1>2, OwnedIsMade
  <2>2. platform = "linux" => call.id = c
    BY <1>2 DEF NextId
  <2> QED
    BY <1>2, <2>1, <2>2, RefusedIsFree
<1> HIDE DEF c, call
<1>5. /\ \A id \in Ids : timers'[id] = IF id = call.id THEN c ELSE timers[id]
      /\ ChannelsOwned'
      /\ Owned' \subseteq Owned \union {c}
      /\ Owned \subseteq Owned' \union replaced'
      /\ replaced \subseteq replaced'
  BY <1>1, <1>2, <1>3, <1>4, AddEffect DEF TablesInv
<1> QED
  BY <1>2, <1>5 DEF c, call

LEMMA AddQueued ==
  ASSUME TypeOK, TablesInv, QueueInv, RunFunctor, Head(queue).op = "add"
  PROVE  LET c == Head(queue).channel
         IN  /\ c \in DOMAIN made /\ c \notin Owned
             /\ ChannelsOwned'
             /\ \A id \in Ids : timers'[id] = IF id = made[c].id THEN c ELSE timers[id]
             /\ Owned' \subseteq Owned \union {c}
             /\ Owned \subseteq Owned' \union replaced'
             /\ replaced \subseteq replaced'
<1> DEFINE c == Head(queue).channel
           call == made[c]
<1>1. queue # <<>>
  <2>1. left > 0 /\ left \in 0 .. Len(queue) /\ queue \in Seq(Functor)
    BY DEF RunFunctor, TypeOK
  <2>2. Len(queue) \in Nat
    BY <2>1, LenProperties
  <2> QED
    BY <2>1, <2>2, EmptySeq
<1>2. 1 \in DOMAIN queue /\ Head(queue) = queue[1]
  BY <1>1, QueueShrinks DEF RunFunctor
<1>3. c \in DOMAIN made /\ c \notin Owned
  BY <1>2 DEF QueueInv
<1>4. c \in Channels /\ call \in Call /\ call.id \in Ids
  BY <1>3, MadeDomain DEF Call
<1>5. Add(c, call)
  BY DEF RunFunctor
<1>6. Refused(call) => timers[call.id] = None
  BY <1>3, <1>4, RefusedIsFree DEF TablesInv
<1> HIDE DEF c, call
<1>7. /\ \A id \in Ids : timers'[id] = IF id = call.id THEN c ELSE timers[id]
      /\ ChannelsOwned'
      /\ Owned' \subseteq Owned \union {c}
      /\ Owned \subseteq Owned' \union replaced'
      /\ replaced \subseteq replaced'
  BY <1>4, <1>5, <1>6, AddEffect DEF TablesInv
<1> QED
  BY <1>3, <1>7 DEF c, call

LEMMA FunctorIsFirst ==
  ASSUME TypeOK, RunFunctor
  PROVE  queue # <<>> /\ queue' = Tail(queue)
<1>1. left > 0 /\ left \in 0 .. Len(queue) /\ queue \in Seq(Functor)
  BY DEF RunFunctor, TypeOK
<1>2. Len(queue) \in Nat
  BY <1>1, LenProperties
<1> QED
  BY <1>1, <1>2, EmptySeq DEF RunFunctor

LEMMA TablesStep == ASSUME TypeOK, TablesInv, QueueInv, [Next]_vars PROVE TablesInv'
<1>1. ASSUME NEW delay \in Delays, NEW repeat \in BOOLEAN, RunLater(delay, repeat)
      PROVE  TablesInv'
  <2>1. NewCall(delay, repeat)
    BY <1>1 DEF RunLater
  <2>2. /\ DOMAIN made' = DOMAIN made \union {Len(made')}
        /\ \A c \in DOMAIN made : made'[c] = made[c]
        /\ made'[Len(made')].id = NextId /\ Len(made') = Len(made) + 1
    BY <2>1, NewCallAppends
  <2> QED
    BY <1>1, <2>2 DEF RunLater, TablesInv, ChannelsOwned, history, NextId
<1>2. ASSUME NEW delay \in Delays, NEW repeat \in BOOLEAN, RunLaterHere(delay, repeat)
      PROVE  TablesInv'
  <2>1. NewCall(delay, repeat) /\ UNCHANGED <<platform, cancelled>>
    BY <1>2 DEF RunLaterHere
  <2>2. made'[Len(made')].id = NextId /\ Len(made') = Len(made) + 1
    BY <2>1, NewCallAppends
  <2>3. /\ DOMAIN made' = DOMAIN made \union {Len(made')}
        /\ \A c \in DOMAIN made : made'[c] = made[c]
        /\ ChannelsOwned'
        /\ \A id \in Ids : timers'[id] = IF id = made'[Len(made')].id THEN Len(made')
                                          ELSE timers[id]
    BY <1>2, AddHere
  <2>4. \A id \in Ids : timers'[id] # None =>
          timers'[id] \in DOMAIN made' /\ made'[timers'[id]].id = id
    <3> DEFINE c == Len(made')
    <3> SUFFICES ASSUME NEW id \in Ids, timers'[id] # None
                 PROVE  timers'[id] \in DOMAIN made' /\ made'[timers'[id]].id = id
      OBVIOUS
    <3>1. CASE id = made'[c].id
      <4>1. timers'[id] = c
        BY <2>3, <3>1
      <4> QED
        BY <2>3, <3>1, <4>1
    <3>2. CASE id # made'[c].id
      <4>1. timers'[id] = timers[id]
        BY <2>3, <3>2
      <4>2. timers[id] \in DOMAIN made /\ made[timers[id]].id = id
        BY <4>1 DEF TablesInv
      <4> QED
        BY <2>3, <4>1, <4>2
    <3> QED
      BY <3>1, <3>2
  <2>5. platform' = "linux" => \A c \in DOMAIN made' : made'[c].id = c
    BY <2>1, <2>2, <2>3 DEF TablesInv, NextId
  <2> QED
    BY <2>1, <2>3, <2>4, <2>5 DEF TablesInv
<1>3. ASSUME NEW id \in KnownIds, Cancel(id) PROVE TablesInv'
  BY <1>3 DEF Cancel, TablesInv, ChannelsOwned, WithId
<1>4. ASSUME NEW id \in KnownIds, CancelHere(id) PROVE TablesInv'
  <2>1. id \in Ids /\ Remove(id)
    BY <1>4, KnownIdsAreIds DEF CancelHere
  <2>2. ChannelsOwned' /\ \A i \in Ids : timers'[i] = IF i = id THEN None ELSE timers[i]
    BY <2>1, RemoveEffect
  <2>3. UNCHANGED <<platform, made>> /\ cancelled' \subseteq DOMAIN made
    BY <1>4, <2>1 DEF CancelHere, TablesInv
  <2> QED
    BY <2>2, <2>3 DEF TablesInv
<1>5. CASE RunFunctor
  <2>1. UNCHANGED <<platform, made, cancelled>>
    BY <1>5 DEF RunFunctor, userVars
  <2>2. CASE Head(queue).op = "add"
    BY <1>5, <2>1, <2>2, AddQueued DEF TablesInv
  <2>3. CASE Head(queue).op # "add"
    <3>1. Head(queue).id \in Ids /\ Remove(Head(queue).id)
      BY <1>5, <2>3, HeadTyped, FunctorIsFirst DEF RunFunctor
    <3>2. ChannelsOwned' /\ \A i \in Ids : timers'[i] \in {None, timers[i]}
      BY <3>1, RemoveEffect
    <3> QED
      BY <2>1, <3>2 DEF TablesInv
  <2> QED
    BY <2>2, <2>3
<1>6. CASE Quiet
  BY <1>6, QuietIsQuiet DEF TablesInv, ChannelsOwned
<1> QED
  BY <1>1, <1>2, <1>3, <1>4, <1>5, <1>6, Steps

LEMMA QueueStep == ASSUME TypeOK, TablesInv, QueueInv, [Next]_vars PROVE QueueInv'
<1>1. ASSUME NEW delay \in Delays, NEW repeat \in BOOLEAN, RunLater(delay, repeat)
      PROVE  QueueInv'
  <2> DEFINE c == Len(made')
             f == [op |-> "add", channel |-> c]
  <2>1. NewCall(delay, repeat) /\ UNCHANGED timers
    BY <1>1 DEF RunLater
  <2>2. DOMAIN made' = DOMAIN made \union {c} /\ c \in Channels /\ c \notin DOMAIN made
    BY <2>1, NewCallAppends
  <2>3. f \in Functor
    BY <2>2 DEF Functor
  <2>4. /\ Len(queue) \in Nat
        /\ DOMAIN queue = 1 .. Len(queue) /\ DOMAIN queue' = 1 .. Len(queue) + 1
        /\ \A i \in DOMAIN queue : queue'[i] = queue[i]
        /\ queue'[Len(queue) + 1] = f
    BY <1>1, <2>3, QueueAppends DEF RunLater
  <2>5. c \notin Owned' /\ Owned' = Owned
    BY <2>1, <2>2, OwnedIsMade DEF Owned
  <2>6. f.op = "add" /\ f.channel = c
    OBVIOUS
  <2> HIDE DEF c, f
  <2>7. \A i \in DOMAIN queue' : i \in DOMAIN queue \/ i = Len(queue) + 1
    BY <2>4
  <2> QED
    BY <2>2, <2>4, <2>5, <2>6, <2>7 DEF QueueInv
<1>2. ASSUME NEW delay \in Delays, NEW repeat \in BOOLEAN, RunLaterHere(delay, repeat)
      PROVE  QueueInv'
  <2>1. UNCHANGED queue
    BY <1>2 DEF RunLaterHere
  <2>2. /\ DOMAIN made' = DOMAIN made \union {Len(made')} /\ Len(made') \notin DOMAIN made
        /\ Owned' \subseteq Owned \union {Len(made')}
    BY <1>2, AddHere
  <2> QED
    BY <2>1, <2>2 DEF QueueInv
<1>3. ASSUME NEW id \in KnownIds, Cancel(id) PROVE QueueInv'
  <2> DEFINE f == [op |-> "cancel", id |-> id]
  <2>1. f \in Functor /\ f.op # "add"
    BY KnownIdsAreIds DEF Functor
  <2>2. UNCHANGED <<made, timers>> /\ queue' = Append(queue, f)
    BY <1>3 DEF Cancel
  <2> HIDE DEF f
  <2>3. /\ DOMAIN queue = 1 .. Len(queue) /\ DOMAIN queue' = 1 .. Len(queue) + 1
        /\ \A i \in DOMAIN queue : queue'[i] = queue[i]
        /\ queue'[Len(queue) + 1] = f /\ Len(queue) \in Nat
    BY <2>1, <2>2, QueueAppends
  <2>4. Owned' = Owned
    BY <2>2 DEF Owned
  <2>5. \A i \in DOMAIN queue' : i \in DOMAIN queue \/ i = Len(queue) + 1
    BY <2>3
  <2> QED
    BY <2>1, <2>2, <2>3, <2>4, <2>5 DEF QueueInv
<1>4. ASSUME NEW id \in KnownIds, CancelHere(id) PROVE QueueInv'
  <2>1. id \in Ids /\ Remove(id) /\ UNCHANGED <<made, queue>>
    BY <1>4, KnownIdsAreIds DEF CancelHere
  <2>2. Owned' \subseteq Owned
    BY <2>1, RemoveEffect
  <2> QED
    BY <2>1, <2>2 DEF QueueInv
<1>5. CASE RunFunctor
  <2>1. /\ Len(queue) \in Nat \ {0}
        /\ DOMAIN queue = 1 .. Len(queue) /\ DOMAIN queue' = 1 .. Len(queue) - 1
        /\ Head(queue) = queue[1]
        /\ \A i \in DOMAIN queue' : queue'[i] = queue[i + 1]
    BY <1>5, FunctorIsFirst, QueueShrinks
  <2>2. UNCHANGED made
    BY <1>5 DEF RunFunctor, userVars
  <2>3. \A i \in DOMAIN queue' : i + 1 \in DOMAIN queue /\ i + 1 # 1
    BY <2>1
  <2>4. \A i, j \in DOMAIN queue' :
          queue'[i].op = "add" /\ queue'[j].op = "add" /\ queue'[i].channel = queue'[j].channel
            => i = j
    <3> SUFFICES ASSUME NEW i \in DOMAIN queue', NEW j \in DOMAIN queue',
                        queue'[i].op = "add", queue'[j].op = "add",
                        queue'[i].channel = queue'[j].channel
                 PROVE  i = j
      OBVIOUS
    <3>1. i + 1 = j + 1
      BY <2>1, <2>3 DEF QueueInv
    <3> QED
      BY <2>1, <3>1
  <2>5. \A i \in DOMAIN queue' : queue'[i].op = "add" => queue'[i].channel \notin Owned'
    <3> SUFFICES ASSUME NEW i \in DOMAIN queue', queue'[i].op = "add"
                 PROVE  queue'[i].channel \notin Owned'
      OBVIOUS
    <3>1. queue'[i] = queue[i + 1] /\ i + 1 \in DOMAIN queue /\ i + 1 # 1 /\ 1 \in DOMAIN queue
      BY <2>1, <2>3
    <3>2. queue'[i].channel \notin Owned
      BY <3>1 DEF QueueInv
    <3>3. CASE Head(queue).op = "add"
      <4>1. Owned' \subseteq Owned \union {Head(queue).channel}
        BY <1>5, <3>3, AddQueued
      <4>2. queue'[i].channel # Head(queue).channel
        BY <2>1, <3>1, <3>3 DEF QueueInv
      <4> QED
        BY <3>2, <4>1, <4>2
    <3>4. CASE Head(queue).op # "add"
      <4>1. Head(queue).id \in Ids /\ Remove(Head(queue).id)
        BY <1>5, <3>4, HeadTyped, FunctorIsFirst DEF RunFunctor
      <4>2. Owned' \subseteq Owned
        BY <4>1, RemoveEffect
      <4> QED
        BY <3>2, <4>2
    <3> QED
      BY <3>3, <3>4
  <2>6. \A i \in DOMAIN queue' : queue'[i].op = "add" => queue'[i].channel \in DOMAIN made'
    BY <2>1, <2>2, <2>3 DEF QueueInv
  <2> QED
    BY <2>4, <2>5, <2>6 DEF QueueInv
<1>6. CASE Quiet
  BY <1>6, QuietIsQuiet DEF QueueInv, Owned
<1> QED
  BY <1>1, <1>2, <1>3, <1>4, <1>5, <1>6, Steps

\* A functor that is not the first comes one earlier when the first has run.
LEMMA LaterShifts ==
  ASSUME TypeOK, RunFunctor, NEW c, NEW i \in DOMAIN queue, i # 1,
         queue[i] = [op |-> "cancel", id |-> made[c].id],
         \A j \in DOMAIN queue : queue[j] = [op |-> "add", channel |-> c] => j < i
  PROVE  RemovedLater(c)'
<1>1. /\ Len(queue) \in Nat \ {0}
      /\ DOMAIN queue = 1 .. Len(queue) /\ DOMAIN queue' = 1 .. Len(queue) - 1
      /\ \A j \in DOMAIN queue' : queue'[j] = queue[j + 1]
  BY FunctorIsFirst, QueueShrinks
<1>2. made' = made
  BY DEF RunFunctor, userVars
<1>3. i \in Int /\ i - 1 \in DOMAIN queue' /\ (i - 1) + 1 = i
  BY <1>1
<1>4. queue'[i - 1] = [op |-> "cancel", id |-> made'[c].id]
  BY <1>1, <1>2, <1>3
<1>5. ASSUME NEW j \in DOMAIN queue', queue'[j] = [op |-> "add", channel |-> c]
      PROVE  j < i - 1
  <2>1. j \in Int /\ j + 1 \in DOMAIN queue /\ queue[j + 1] = [op |-> "add", channel |-> c]
    BY <1>1, <1>5
  <2>2. j + 1 < i
    BY <2>1
  <2> QED
    BY <1>3, <2>1, <2>2
<1> QED
  BY <1>3, <1>4, <1>5 DEF RemovedLater

\* A cancel() that is queued comes after everything queued before it.
LEMMA LastRemoves ==
  ASSUME TypeOK, NEW id \in Ids, NEW c, Cancel(id), made[c].id = id
  PROVE  RemovedLater(c)'
<1> DEFINE f == [op |-> "cancel", id |-> id]
<1>1. f \in Functor /\ f.op = "cancel"
  BY DEF Functor
<1>2. made' = made /\ queue' = Append(queue, f)
  BY DEF Cancel
<1>3. /\ Len(queue) \in Nat
      /\ DOMAIN queue = 1 .. Len(queue) /\ DOMAIN queue' = 1 .. Len(queue) + 1
      /\ queue'[Len(queue) + 1] = f
  BY <1>1, <1>2, QueueAppends
<1>4. ASSUME NEW j \in DOMAIN queue', queue'[j] = [op |-> "add", channel |-> c]
      PROVE  j < Len(queue) + 1
  <2>1. queue'[j].op = "add"
    BY <1>4
  <2>2. j # Len(queue) + 1
    BY <1>1, <1>3, <2>1
  <2> QED
    BY <1>3, <2>2
<1>5. Len(queue) + 1 \in DOMAIN queue'
  BY <1>3
<1> QED
  BY <1>2, <1>3, <1>4, <1>5 DEF RemovedLater

\* It stays so when the queue grows by something that does not add the timer.
LEMMA LaterStays ==
  ASSUME TypeOK, NEW c \in DOMAIN made, RemovedLater(c), NEW f \in Functor,
         queue' = Append(queue, f), f # [op |-> "add", channel |-> c], made'[c] = made[c]
  PROVE  RemovedLater(c)'
<1>1. PICK i \in DOMAIN queue :
        /\ queue[i] = [op |-> "cancel", id |-> made[c].id]
        /\ \A j \in DOMAIN queue : queue[j] = [op |-> "add", channel |-> c] => j < i
  BY DEF RemovedLater
<1>2. /\ Len(queue) \in Nat
      /\ DOMAIN queue = 1 .. Len(queue) /\ DOMAIN queue' = 1 .. Len(queue) + 1
      /\ \A j \in DOMAIN queue : queue'[j] = queue[j]
      /\ queue'[Len(queue) + 1] = f
  BY QueueAppends
<1>3. i \in DOMAIN queue' /\ queue'[i] = [op |-> "cancel", id |-> made'[c].id]
  BY <1>1, <1>2
<1>4. ASSUME NEW j \in DOMAIN queue', queue'[j] = [op |-> "add", channel |-> c] PROVE j < i
  <2>1. j # Len(queue) + 1
    BY <1>2, <1>4
  <2>2. j \in DOMAIN queue
    BY <1>2, <2>1
  <2> QED
    BY <1>1, <1>2, <1>4, <2>2
<1> QED
  BY <1>3, <1>4 DEF RemovedLater

\* A call of runAfter() or runEvery() that the loop has not carried out yet.
Queued(c) == \E i \in DOMAIN queue : queue[i] = [op |-> "add", channel |-> c]

LEMMA CancelStep == ASSUME IInv, [Next]_vars PROVE CancelSticks'
<1> USE DEF IInv
<1>1. ASSUME NEW delay \in Delays, NEW repeat \in BOOLEAN, RunLater(delay, repeat)
      PROVE  CancelSticks'
  <2> DEFINE a == Len(made')
             f == [op |-> "add", channel |-> a]
  <2>1. /\ NewCall(delay, repeat) /\ queue' = Append(queue, f)
        /\ UNCHANGED <<timers, cancelled>>
    BY <1>1 DEF RunLater, history
  <2>2. /\ a \notin DOMAIN made /\ a \in Channels
        /\ \A c \in DOMAIN made : made'[c] = made[c]
    BY <2>1, NewCallAppends
  <2>3. f \in Functor
    BY <2>2 DEF Functor
  <2>4. Owned' = Owned
    BY <2>1 DEF Owned
  <2> SUFFICES ASSUME NEW c \in cancelled, c \in Owned \/ Queued(c)' PROVE RemovedLater(c)'
    BY <2>1, <2>4 DEF CancelSticks, Queued
  <2>5. c \in DOMAIN made /\ c # a /\ f # [op |-> "add", channel |-> c]
    BY <2>2 DEF TablesInv
  <2> HIDE DEF a, f
  <2>6. Queued(c)' => Queued(c)
    BY <2>1, <2>3, <2>5, QueueAppends DEF Queued
  <2>7. RemovedLater(c)
    BY <2>6 DEF CancelSticks, Queued
  <2> QED
    BY <2>1, <2>2, <2>3, <2>5, <2>7, LaterStays
<1>2. ASSUME NEW delay \in Delays, NEW repeat \in BOOLEAN, RunLaterHere(delay, repeat)
      PROVE  CancelSticks'
  <2>1. UNCHANGED <<queue, cancelled>>
    BY <1>2 DEF RunLaterHere
  <2>2. /\ Len(made') \notin DOMAIN made
        /\ \A c \in DOMAIN made : made'[c] = made[c]
        /\ Owned' \subseteq Owned \union {Len(made')}
    BY <1>2, AddHere
  <2> SUFFICES ASSUME NEW c \in cancelled, c \in Owned' \/ Queued(c)' PROVE RemovedLater(c)'
    BY <2>1 DEF CancelSticks, Queued
  <2>3. c \in DOMAIN made /\ c # Len(made')
    BY <2>2 DEF TablesInv
  <2>4. RemovedLater(c)
    BY <2>1, <2>2, <2>3 DEF CancelSticks, Queued
  <2>5. made'[c] = made[c]
    BY <2>2, <2>3
  <2> QED
    BY <2>1, <2>4, <2>5 DEF RemovedLater
<1>3. ASSUME NEW id \in KnownIds, Cancel(id) PROVE CancelSticks'
  <2> DEFINE f == [op |-> "cancel", id |-> id]
  <2>1. id \in Ids /\ f \in Functor /\ f.op # "add"
    BY KnownIdsAreIds DEF Functor
  <2>2. /\ UNCHANGED <<made, timers>> /\ queue' = Append(queue, f)
        /\ cancelled' = cancelled \union WithId(id)
    BY <1>3 DEF Cancel
  <2>3. Owned' = Owned
    BY <2>2 DEF Owned
  <2> SUFFICES ASSUME NEW c \in cancelled', c \in Owned \/ Queued(c)' PROVE RemovedLater(c)'
    BY <2>3 DEF CancelSticks, Queued
  <2>4. CASE c \in WithId(id)
    BY <1>3, <2>1, <2>4, LastRemoves DEF WithId
  <2>5. CASE c \in cancelled
    <3>1. c \in DOMAIN made /\ f # [op |-> "add", channel |-> c]
      BY <2>1, <2>5 DEF TablesInv
    <3> HIDE DEF f
    <3>2. Queued(c)' => Queued(c)
      BY <2>1, <2>2, <3>1, QueueAppends DEF Queued
    <3>3. RemovedLater(c)
      BY <2>5, <3>2 DEF CancelSticks, Queued
    <3> QED
      BY <2>1, <2>2, <3>1, <3>3, LaterStays
  <2> QED
    BY <2>2, <2>4, <2>5
<1>4. ASSUME NEW id \in KnownIds, CancelHere(id) PROVE CancelSticks'
  <2>1. /\ id \in Ids /\ Remove(id) /\ UNCHANGED <<made, queue>>
        /\ cancelled' = cancelled \union ({timers[id]} \ {None})
    BY <1>4, KnownIdsAreIds DEF CancelHere
  <2>2. Owned' = Owned \ {timers[id]}
    BY <2>1, RemoveEffect
  <2> SUFFICES ASSUME NEW c \in cancelled', c \in Owned' \/ Queued(c) PROVE RemovedLater(c)
    BY <2>1 DEF CancelSticks, Queued, RemovedLater
  <2>3. CASE c \in cancelled
    BY <2>2, <2>3 DEF CancelSticks, Queued
  <2>4. CASE c \in {timers[id]} \ {None}
    <3>1. c \in Owned /\ c \notin Owned'
      BY <2>1, <2>2, <2>4 DEF Owned
    <3>2. ~Queued(c)
      BY <3>1 DEF Queued, QueueInv
    <3> QED
      BY <3>1, <3>2
  <2> QED
    BY <2>1, <2>3, <2>4
<1>5. CASE RunFunctor
  <2>1. UNCHANGED <<made, cancelled>>
    BY <1>5 DEF RunFunctor, userVars
  <2>2. /\ Len(queue) \in Nat \ {0}
        /\ DOMAIN queue = 1 .. Len(queue) /\ DOMAIN queue' = 1 .. Len(queue) - 1
        /\ Head(queue) = queue[1]
        /\ \A i \in DOMAIN queue' : queue'[i] = queue[i + 1]
    BY <1>5, FunctorIsFirst, QueueShrinks
  <2> SUFFICES ASSUME NEW c \in cancelled, c \in Owned' \/ Queued(c)' PROVE RemovedLater(c)'
    BY <2>1 DEF CancelSticks, Queued
  <2>3. Queued(c)' => \E j \in DOMAIN queue :
                         j > 1 /\ queue[j] = [op |-> "add", channel |-> c]
    <3> SUFFICES ASSUME NEW i \in DOMAIN queue', queue'[i] = [op |-> "add", channel |-> c]
                 PROVE  \E j \in DOMAIN queue :
                          j > 1 /\ queue[j] = [op |-> "add", channel |-> c]
      BY DEF Queued
    <3>1. i + 1 \in DOMAIN queue /\ i + 1 > 1 /\ queue[i + 1] = queue'[i]
      BY <2>2
    <3> QED
      BY <3>1
  <2>4. c \in Owned \/ Queued(c)
    <3>1. CASE Queued(c)'
      BY <2>3, <3>1 DEF Queued
    <3>2. CASE c \in Owned' /\ Head(queue).op = "add"
      <4>1. c \in Owned \/ c = Head(queue).channel
        BY <1>5, <3>2, AddQueued
      <4>2. queue[1] \in Functor /\ 1 \in DOMAIN queue
        BY <1>5, <2>2, FunctorIsFirst, HeadTyped
      <4>3. queue[1] = [op |-> "add", channel |-> queue[1].channel]
        BY <2>2, <3>2, <4>2 DEF Functor
      <4> QED
        BY <2>2, <4>1, <4>2, <4>3 DEF Queued
    <3>3. CASE c \in Owned' /\ Head(queue).op # "add"
      <4>1. Head(queue).id \in Ids /\ Remove(Head(queue).id)
        BY <1>5, <3>3, HeadTyped, FunctorIsFirst DEF RunFunctor
      <4> QED
        BY <3>3, <4>1, RemoveEffect
    <3> QED
      BY <3>1, <3>2, <3>3
  <2>5. PICK i \in DOMAIN queue :
          /\ queue[i] = [op |-> "cancel", id |-> made[c].id]
          /\ \A j \in DOMAIN queue : queue[j] = [op |-> "add", channel |-> c] => j < i
    BY <2>4 DEF CancelSticks, Queued, RemovedLater
  <2>6. i # 1
    <3> SUFFICES ASSUME i = 1 PROVE FALSE
      OBVIOUS
    <3>1. ~Queued(c)'
      BY <2>2, <2>3, <2>5
    <3>2. Head(queue).op # "add" /\ Head(queue).id = made[c].id
      BY <2>2, <2>5
    <3>3. Head(queue).id \in Ids /\ Remove(Head(queue).id)
      BY <1>5, <3>2, HeadTyped, FunctorIsFirst DEF RunFunctor
    <3>4. c \notin Owned'
      BY <3>2, <3>3, RemoveEffect
    <3> QED
      BY <3>1, <3>4
  <2> QED
    BY <1>5, <2>5, <2>6, LaterShifts
<1>6. CASE Quiet
  BY <1>6, QuietIsQuiet DEF CancelSticks, RemovedLater, Owned
<1> QED
  BY <1>1, <1>2, <1>3, <1>4, <1>5, <1>6, Steps

\* Between poll() and the return of the last handler nothing removes a channel,
\* unless a handler does.
LEMMA BatchStep ==
  ASSUME TypeOK, TablesInv, QueueInv, BatchInv, HandlersCancel = FALSE, [Next]_vars
  PROVE  BatchInv'
<1>1. ASSUME NEW delay \in Delays, NEW repeat \in BOOLEAN, RunLater(delay, repeat)
      PROVE  BatchInv'
  BY <1>1 DEF RunLater, loopVars, history, BatchInv, BatchAlive, Owned
<1>2. ASSUME NEW delay \in Delays, NEW repeat \in BOOLEAN, RunLaterHere(delay, repeat)
      PROVE  BatchInv'
  <2>1. Owned \subseteq Owned' \union replaced' /\ replaced \subseteq replaced'
    BY <1>2, AddHere
  <2>2. UNCHANGED <<pc, left, batch, handling>>
    BY <1>2 DEF RunLaterHere, loopVars
  <2>3. BatchAlive'
    BY <2>1, <2>2 DEF BatchInv, BatchAlive
  <2> QED
    BY <2>2, <2>3 DEF BatchInv
<1>3. ASSUME NEW id \in KnownIds, Cancel(id) PROVE BatchInv'
  BY <1>3 DEF Cancel, loopVars, BatchInv, BatchAlive, Owned
<1>4. ASSUME NEW id \in KnownIds, CancelHere(id) PROVE BatchInv'
  <2>1. pc = "run" /\ UNCHANGED <<pc, left, batch, handling>>
    BY <1>4 DEF CancelHere, loopVars
  <2>2. batch' = {} /\ handling' = None
    BY <2>1 DEF BatchInv
  <2> QED
    BY <2>1, <2>2 DEF BatchInv, BatchAlive
<1>5. CASE RunFunctor
  <2>1. pc = "run" /\ UNCHANGED <<pc, batch, handling>>
    BY <1>5 DEF RunFunctor
  <2>2. batch' = {} /\ handling' = None
    BY <2>1 DEF BatchInv
  <2> QED
    BY <2>1, <2>2 DEF BatchInv, BatchAlive
<1>6. CASE Poll
  <2>1. handling = None /\ left = 0
    BY <1>6 DEF Poll, BatchInv
  <2>2. ASSUME NEW c \in batch' PROVE c \in Owned
    <3>1. PICK id \in Ids : c = channels[id] /\ channels[id] # None
      BY <1>6 DEF Poll, Ready, TypeOK
    <3>2. c = timers[id]
      BY <3>1 DEF TablesInv, ChannelsOwned
    <3> QED
      BY <3>1, <3>2 DEF Owned
  <2>3. Owned' = Owned
    BY <1>6 DEF Poll, Owned
  <2>4. pc' = "handle" /\ UNCHANGED <<handling, left>>
    BY <1>6 DEF Poll
  <2> QED
    BY <2>1, <2>2, <2>3, <2>4 DEF BatchInv, BatchAlive
<1>7. ASSUME NEW c \in batch, Handle(c) PROVE BatchInv'
  <2>1. /\ pc = "handle" /\ UNCHANGED <<pc, left, replaced>>
        /\ batch' \subseteq batch /\ handling' \in {handling, c}
    BY <1>7 DEF Handle
  <2>2. Owned' = Owned
    BY <1>7 DEF Handle, Owned
  <2> QED
    BY <2>1, <2>2 DEF BatchInv, BatchAlive
<1>8. CASE HandlerReturns
  BY <1>8 DEF HandlerReturns, history, BatchInv, BatchAlive, Owned
<1>9. CASE SwapPending
  BY <1>9 DEF SwapPending, history, BatchInv, BatchAlive
<1>10. CASE DonePending
  BY <1>10 DEF DonePending, history, BatchInv, BatchAlive, Owned
<1>11. ASSUME NEW id \in Ids, Expire(id) PROVE BatchInv'
  BY <1>11 DEF Expire, loopVars, history, BatchInv, BatchAlive, Owned
<1>12. CASE UNCHANGED vars
  BY <1>12 DEF vars, loopVars, history, BatchInv, BatchAlive, Owned
<1> QED
  BY <1>1, <1>2, <1>3, <1>4, <1>5, <1>6, <1>7, <1>8, <1>9, <1>10, <1>11, <1>12
     DEF Next, UserStep, LoopStep

-----------------------------------------------------------------------------
(* Timers that fire once. *)

\* The channel of an id that fires once is armed, or has expired, or has been handed to
\* loop(): never two of these.
SpentOnce(id) ==
  channels[id] # None /\ ~made[channels[id]].repeat =>
    /\ armed[id] # "periodic"
    /\ armed[id] = "once" => id \notin expired
    /\ armed[id] = "once" \/ id \in expired => channels[id] \notin batch \union fired

\* That holds on kqueue; on epoll no handler of a timer is ever called.  A channel that
\* is still queued has neither been polled nor handled.
OnceInv ==
  /\ fired \subseteq DOMAIN made
  /\ platform = "linux" => fired = {}
  /\ \A i \in DOMAIN queue : queue[i].op = "add" => queue[i].channel \notin batch \union fired
  /\ \A c \in batch : ~made[c].repeat => c \notin fired
  /\ platform = "mac" => \A id \in Ids : SpentOnce(id)

\* kqueue arms a new timer; what was under its id is forgotten.
LEMMA AddArms ==
  ASSUME TypeOK, platform = "mac", NEW c \in Channels, NEW call \in Call, Add(c, call),
         NEW id \in Ids
  PROVE  IF id = call.id
         THEN /\ channels'[id] = c /\ id \notin expired'
              /\ ~call.repeat => armed'[id] # "periodic"
         ELSE /\ channels'[id] = channels[id] /\ armed'[id] = armed[id]
              /\ id \in expired' <=> id \in expired
<1>1. call.id \in Ids
  BY DEF Call
<1>2. /\ channels' = [channels EXCEPT ![call.id] = c]
      /\ armed' = [armed EXCEPT ![call.id] = ArmedKqueue(call)]
      /\ expired' = expired \ {call.id}
  BY DEF Add, Refused, Armed
<1>3. ~call.repeat => ArmedKqueue(call) # "periodic"
  BY DEF ArmedKqueue
<1> QED
  BY <1>1, <1>2, <1>3 DEF TypeOK

\* A timer that is removed is not armed any more; the others are left alone.
LEMMA RemoveDisarms ==
  ASSUME TypeOK, platform = "mac", NEW gone \in Ids, Remove(gone), NEW id \in Ids
  PROVE  \/ channels'[id] = None
         \/ /\ channels'[id] = channels[id] /\ armed'[id] = armed[id]
            /\ id \in expired' <=> id \in expired
<1>1. CASE timers[gone] # None /\ channels[gone] # None
  <2>1. /\ channels' = [channels EXCEPT ![gone] = None]
        /\ armed' = [armed EXCEPT ![gone] = "off"] /\ expired' = expired \ {gone}
    BY <1>1 DEF Remove, Stopped
  <2> QED
    BY <2>1 DEF TypeOK
<1>2. CASE ~(timers[gone] # None /\ channels[gone] # None)
  BY <1>2 DEF Remove, kernelVars
<1> QED
  BY <1>1, <1>2

\* A channel the poller points to was made for that id, and is not queued.
LEMMA PointedTo ==
  ASSUME TypeOK, TablesInv, QueueInv, NEW id \in Ids, channels[id] # None
  PROVE  /\ channels[id] \in DOMAIN made /\ made[channels[id]].id = id
         /\ channels[id] \in Owned
         /\ \A i \in DOMAIN queue : queue[i].op = "add" => queue[i].channel # channels[id]
<1>1. channels[id] = timers[id] /\ timers[id] # None
  BY DEF TablesInv, ChannelsOwned
<1>2. timers[id] \in Owned
  BY <1>1 DEF Owned
<1> QED
  BY <1>1, <1>2 DEF TablesInv, QueueInv

\* Calls append to made and never change what was made before.
LEMMA OnceStays ==
  ASSUME TypeOK, TablesInv, QueueInv, OnceInv, UNCHANGED <<platform, batch, fired>>,
         DOMAIN made \subseteq DOMAIN made', \A c \in DOMAIN made : made'[c] = made[c],
         \A i \in DOMAIN queue' : queue'[i].op = "add" => queue'[i].channel \notin batch \union fired,
         platform = "mac" => \A id \in Ids :
           \/ channels'[id] = None
           \/ /\ channels'[id] = channels[id] /\ armed'[id] = armed[id]
              /\ id \in expired' <=> id \in expired
           \/ SpentOnce(id)'
  PROVE  OnceInv'
<1>1. batch \subseteq DOMAIN made
  BY DEF TypeOK
<1>2. ASSUME platform = "mac", NEW id \in Ids PROVE SpentOnce(id)'
  <2>1. CASE channels'[id] = None
    BY <2>1 DEF SpentOnce
  <2>2. CASE /\ channels'[id] = channels[id] /\ armed'[id] = armed[id]
             /\ id \in expired' <=> id \in expired
    <3> SUFFICES ASSUME channels[id] # None PROVE SpentOnce(id)'
      BY <2>1, <2>2
    <3>1. channels[id] \in DOMAIN made /\ made'[channels[id]] = made[channels[id]]
      BY PointedTo
    <3>2. SpentOnce(id)
      BY <1>2 DEF OnceInv
    <3> QED
      BY <2>2, <3>1, <3>2 DEF SpentOnce
  <2> QED
    BY <1>2, <2>1, <2>2
<1>3. \A c \in batch : ~made'[c].repeat => c \notin fired
  BY <1>1 DEF OnceInv
<1> QED
  BY <1>2, <1>3 DEF OnceInv

\* A call on another thread queues a channel that is new.
LEMMA OnceQueued ==
  ASSUME TypeOK, TablesInv, QueueInv, OnceInv,
         NEW delay \in Delays, NEW repeat \in BOOLEAN, RunLater(delay, repeat)
  PROVE  OnceInv'
<1> DEFINE c == Len(made')
           f == [op |-> "add", channel |-> c]
<1>1. /\ DOMAIN made' = DOMAIN made \union {c} /\ c \in Channels /\ c \notin DOMAIN made
      /\ \A b \in DOMAIN made : made'[b] = made[b]
  BY NewCallAppends DEF RunLater
<1>2. f \in Functor /\ f.op = "add" /\ f.channel = c
  BY <1>1 DEF Functor
<1>3. queue' = Append(queue, f)
  BY DEF RunLater
<1> HIDE DEF c, f
<1>4. /\ DOMAIN queue = 1 .. Len(queue) /\ DOMAIN queue' = 1 .. Len(queue) + 1
      /\ \A i \in DOMAIN queue : queue'[i] = queue[i]
      /\ queue'[Len(queue) + 1] = f /\ Len(queue) \in Nat
  BY <1>2, <1>3, QueueAppends
<1>5. \A i \in DOMAIN queue' : i \in DOMAIN queue \/ i = Len(queue) + 1
  BY <1>4
<1>6. c \notin batch \union fired
  BY <1>1 DEF TypeOK, OnceInv
<1>7. \A i \in DOMAIN queue' : queue'[i].op = "add" => queue'[i].channel \notin batch \union fired
  BY <1>2, <1>4, <1>5, <1>6 DEF OnceInv
<1>8. UNCHANGED <<platform, batch, fired, channels, armed, expired>>
  BY DEF RunLater, kernelVars, loopVars, history
<1> QED
  BY <1>1, <1>7, <1>8, OnceStays

\* A call on the loop's thread arms a timer that has not expired yet.
LEMMA OnceAdded ==
  ASSUME TypeOK, TablesInv, QueueInv, OnceInv,
         NEW delay \in Delays, NEW repeat \in BOOLEAN, RunLaterHere(delay, repeat)
  PROVE  OnceInv'
<1> DEFINE c == Len(made')
           call == made'[c]
<1>1. /\ DOMAIN made' = DOMAIN made \union {c} /\ c \in Channels /\ c \notin DOMAIN made
      /\ \A b \in DOMAIN made : made'[b] = made[b]
      /\ made' \in Seq(Call)
  BY NewCallAppends DEF RunLaterHere
<1>2. call \in Call
  BY <1>1, LenProperties
<1>3. Add(c, call) /\ UNCHANGED <<platform, batch, fired, queue>>
  BY DEF RunLaterHere, loopVars
<1>4. c \notin batch \union fired
  BY <1>1 DEF TypeOK, OnceInv
<1>5. ASSUME platform = "mac", NEW id \in Ids
      PROVE  \/ channels'[id] = None
             \/ /\ channels'[id] = channels[id] /\ armed'[id] = armed[id]
                /\ id \in expired' <=> id \in expired
             \/ SpentOnce(id)'
  <2> DEFINE kept == /\ channels'[id] = channels[id] /\ armed'[id] = armed[id]
                     /\ id \in expired' <=> id \in expired
  <2>1. IF id = call.id
        THEN /\ channels'[id] = c /\ id \notin expired'
             /\ ~call.repeat => armed'[id] # "periodic"
        ELSE kept
    <3> HIDE DEF c, call
    <3> QED
      BY <1>1, <1>2, <1>3, <1>5, AddArms
  <2>2. CASE id = call.id
    <3>1. SpentOnce(id)'
      BY <1>3, <1>4, <2>1, <2>2 DEF SpentOnce
    <3> QED
      BY <3>1
  <2>3. CASE id # call.id
    BY <2>1, <2>3
  <2> QED
    BY <2>2, <2>3
<1>6. \A i \in DOMAIN queue' : queue'[i].op = "add" => queue'[i].channel \notin batch \union fired
  BY <1>3 DEF OnceInv
<1> QED
  BY <1>1, <1>3, <1>5, <1>6, OnceStays

\* cancel() arms nothing.
LEMMA OnceCancelled ==
  ASSUME TypeOK, TablesInv, QueueInv, OnceInv,
         NEW id \in KnownIds, Cancel(id) \/ CancelHere(id)
  PROVE  OnceInv'
<1>1. id \in Ids /\ made' = made /\ UNCHANGED <<platform, batch, fired>>
  BY KnownIdsAreIds DEF Cancel, CancelHere, loopVars
<1>2. CASE Cancel(id)
  <2> DEFINE f == [op |-> "cancel", id |-> id]
  <2>1. f \in Functor /\ f.op # "add"
    BY <1>1 DEF Functor
  <2>2. queue' = Append(queue, f) /\ UNCHANGED <<channels, armed, expired>>
    BY <1>2 DEF Cancel, kernelVars
  <2> HIDE DEF f
  <2>3. /\ DOMAIN queue = 1 .. Len(queue) /\ DOMAIN queue' = 1 .. Len(queue) + 1
        /\ \A i \in DOMAIN queue : queue'[i] = queue[i]
        /\ queue'[Len(queue) + 1] = f /\ Len(queue) \in Nat
    BY <2>1, <2>2, QueueAppends
  <2>4. \A i \in DOMAIN queue' : i \in DOMAIN queue \/ i = Len(queue) + 1
    BY <2>3
  <2>5. \A i \in DOMAIN queue' :
          queue'[i].op = "add" => queue'[i].channel \notin batch \union fired
    BY <2>1, <2>3, <2>4 DEF OnceInv
  <2> QED
    BY <1>1, <2>2, <2>5, OnceStays
<1>3. CASE CancelHere(id)
  <2>1. Remove(id) /\ queue' = queue
    BY <1>3 DEF CancelHere
  <2>2. ASSUME platform = "mac", NEW i \in Ids
        PROVE  \/ channels'[i] = None
               \/ /\ channels'[i] = channels[i] /\ armed'[i] = armed[i]
                  /\ i \in expired' <=> i \in expired
    BY <1>1, <2>1, <2>2, RemoveDisarms
  <2>3. \A i \in DOMAIN queue' :
          queue'[i].op = "add" => queue'[i].channel \notin batch \union fired
    BY <2>1 DEF OnceInv
  <2> QED
    BY <1>1, <2>2, <2>3, OnceStays
<1> QED
  BY <1>2, <1>3

\* A functor arms the timer that was queued, or removes one.
LEMMA OnceRuns ==
  ASSUME TypeOK, TablesInv, QueueInv, OnceInv, RunFunctor
  PROVE  OnceInv'
<1>1. /\ Len(queue) \in Nat \ {0}
      /\ DOMAIN queue = 1 .. Len(queue) /\ DOMAIN queue' = 1 .. Len(queue) - 1
      /\ Head(queue) = queue[1]
      /\ \A i \in DOMAIN queue' : queue'[i] = queue[i + 1]
  BY FunctorIsFirst, QueueShrinks
<1>2. made' = made /\ UNCHANGED <<platform, batch, fired>>
  BY DEF RunFunctor, userVars
<1>3. \A i \in DOMAIN queue' : i + 1 \in DOMAIN queue
  BY <1>1
<1>4. \A i \in DOMAIN queue' :
        queue'[i].op = "add" => queue'[i].channel \notin batch \union fired
  BY <1>1, <1>3 DEF OnceInv
<1>5. ASSUME platform = "mac", NEW id \in Ids
      PROVE  \/ channels'[id] = None
             \/ /\ channels'[id] = channels[id] /\ armed'[id] = armed[id]
                /\ id \in expired' <=> id \in expired
             \/ SpentOnce(id)'
  <2>1. CASE Head(queue).op = "add"
    <3> DEFINE c == Head(queue).channel
               call == made[c]
               kept == /\ channels'[id] = channels[id] /\ armed'[id] = armed[id]
                       /\ id \in expired' <=> id \in expired
    <3>1. 1 \in DOMAIN queue
      BY <1>1
    <3>2. c \in DOMAIN made /\ c \notin batch \union fired
      BY <1>1, <2>1, <3>1 DEF QueueInv, OnceInv
    <3>3. c \in Channels /\ call \in Call /\ Add(c, call)
      BY <2>1, <3>2, MadeDomain DEF RunFunctor
    <3>4. IF id = call.id
          THEN /\ channels'[id] = c /\ id \notin expired'
               /\ ~call.repeat => armed'[id] # "periodic"
          ELSE kept
      <4> HIDE DEF c, call
      <4> QED
        BY <1>5, <3>3, AddArms
    <3>5. CASE id = call.id
      <4>1. SpentOnce(id)'
        BY <1>2, <3>2, <3>4, <3>5 DEF SpentOnce
      <4> QED
        BY <4>1
    <3>6. CASE id # call.id
      BY <3>4, <3>6
    <3> QED
      BY <3>5, <3>6
  <2>2. CASE Head(queue).op # "add"
    <3>1. Head(queue).id \in Ids /\ Remove(Head(queue).id)
      BY <2>2, HeadTyped, FunctorIsFirst DEF RunFunctor
    <3> QED
      BY <1>5, <3>1, RemoveDisarms
  <2> QED
    BY <2>1, <2>2
<1> QED
  BY <1>2, <1>4, <1>5, OnceStays

\* The kernel and the loop: a timer expires, poll() takes it, its handler is called.
LEMMA OnceExpires ==
  ASSUME TypeOK, TablesInv, QueueInv, OnceInv, NEW gone \in Ids, Expire(gone)
  PROVE  OnceInv'
<1>1. UNCHANGED <<platform, made, channels, queue, batch, fired>>
  BY DEF Expire, userVars, loopVars, history
<1>2. ASSUME platform = "mac", NEW id \in Ids PROVE SpentOnce(id)'
  <2>1. SpentOnce(id)
    BY <1>2 DEF OnceInv
  <2>2. CASE id = gone
    <3>1. /\ armed[id] # "off" /\ id \notin expired
          /\ armed'[id] = IF armed[id] = "once" THEN "off" ELSE armed[id]
      BY <2>2 DEF Expire, TypeOK
    <3>2. armed[id] \in {"off", "once", "periodic"}
      BY DEF TypeOK
    <3> QED
      BY <1>1, <2>1, <3>1, <3>2 DEF SpentOnce
  <2>3. CASE id # gone
    <3>1. armed'[id] = armed[id] /\ (id \in expired' <=> id \in expired)
      BY <2>3 DEF Expire, TypeOK
    <3> QED
      BY <1>1, <2>1, <3>1 DEF SpentOnce
  <2> QED
    BY <2>2, <2>3
<1> QED
  BY <1>1, <1>2 DEF OnceInv

LEMMA OncePolled ==
  ASSUME TypeOK, TablesInv, QueueInv, OnceInv, Poll
  PROVE  OnceInv'
<1>1. /\ UNCHANGED <<platform, made, channels, armed, queue, fired>>
      /\ expired' = expired \ Ready
      /\ batch' = {channels[id] : id \in Ready}
  BY DEF Poll, userVars, history
<1>2. Ready \subseteq Ids /\ \A id \in Ready : id \in expired /\ channels[id] # None
  BY DEF Ready, TypeOK
<1>3. \A i \in DOMAIN queue : queue[i].op = "add" => queue[i].channel \notin batch'
  BY <1>1, <1>2, PointedTo
<1>4. ASSUME NEW c \in batch', ~made[c].repeat PROVE c \notin fired
  <2>1. PICK id \in Ready : c = channels[id]
    BY <1>1
  <2>2. CASE platform = "linux"
    BY <2>2 DEF OnceInv
  <2>3. CASE platform = "mac"
    BY <1>2, <1>4, <2>1, <2>3 DEF OnceInv, SpentOnce
  <2> QED
    BY <2>2, <2>3, ConstantsAssumption DEF TypeOK
<1>5. ASSUME platform = "mac", NEW id \in Ids PROVE SpentOnce(id)'
  <2> SUFFICES ASSUME channels[id] # None, ~made[channels[id]].repeat PROVE SpentOnce(id)'
    BY <1>1 DEF SpentOnce
  <2>1. /\ armed[id] # "periodic" /\ (armed[id] = "once" => id \notin expired)
        /\ armed[id] = "once" \/ id \in expired => channels[id] \notin fired
    BY <1>5 DEF OnceInv, SpentOnce
  <2>2. id \notin expired'
    BY <1>1 DEF Ready
  <2>3. armed[id] = "once" => channels[id] \notin batch'
    <3> SUFFICES ASSUME armed[id] = "once", NEW j \in Ready, channels[j] = channels[id]
                 PROVE  FALSE
      BY <1>1
    <3>1. j = id
      BY <1>2, PointedTo
    <3> QED
      BY <1>2, <2>1, <3>1
  <2> QED
    BY <1>1, <2>1, <2>2, <2>3 DEF SpentOnce
<1> QED
  BY <1>1, <1>3, <1>4, <1>5 DEF OnceInv

LEMMA OnceHandled ==
  ASSUME TypeOK, TablesInv, QueueInv, OnceInv, NEW c \in batch, Handle(c)
  PROVE  OnceInv'
<1>1. /\ UNCHANGED <<platform, made, channels, armed, expired, queue>>
      /\ batch' = batch \ {c} /\ c \in DOMAIN made
      /\ fired' \in {fired, fired \union {c}}
  BY DEF Handle, userVars, kernelVars, TypeOK
<1>2. platform = "linux" => fired' = fired
  BY DEF Handle, ActiveEvent, Not
<1>3. batch' \union fired' \subseteq batch \union fired
  BY <1>1
<1>4. \A b \in batch' : ~made[b].repeat => b \notin fired'
  BY <1>1 DEF OnceInv
<1>5. \A i \in DOMAIN queue : queue[i].op = "add" => queue[i].channel \notin batch' \union fired'
  BY <1>3 DEF OnceInv
<1>6. ASSUME platform = "mac", NEW id \in Ids PROVE SpentOnce(id)'
  <2>1. SpentOnce(id)
    BY <1>6 DEF OnceInv
  <2> QED
    BY <1>1, <1>3, <2>1 DEF SpentOnce
<1>7. fired' \subseteq DOMAIN made
  BY <1>1 DEF OnceInv
<1> QED
  BY <1>1, <1>2, <1>4, <1>5, <1>6, <1>7 DEF OnceInv

LEMMA OnceStep == ASSUME TypeOK, TablesInv, QueueInv, OnceInv, [Next]_vars PROVE OnceInv'
<1>1. CASE HandlerReturns \/ SwapPending \/ DonePending \/ UNCHANGED vars
  <2>1. UNCHANGED <<platform, made, channels, armed, expired, queue, batch, fired>>
    BY <1>1 DEF HandlerReturns, SwapPending, DonePending, vars, userVars, kernelVars, loopVars,
                history
  <2> QED
    BY <2>1 DEF OnceInv, SpentOnce
<1>2. CASE Quiet
  BY <1>1, <1>2, OnceExpires, OncePolled, OnceHandled DEF Quiet
<1> QED
  BY <1>2, OnceQueued, OnceAdded, OnceCancelled, OnceRuns, Steps

-----------------------------------------------------------------------------
(* Theorems. *)

LEMMA Invariance == Spec => []IInv
<1>1. Init => IInv
  BY InitInv
<1>2. IInv /\ [Next]_vars => IInv'
  BY TypeStep, TablesStep, QueueStep, CancelStep DEF IInv
<1> QED
  BY <1>1, <1>2, PTL DEF Spec

\* timers_, the poller's table, the queue of functors and the batch that loop()
\* handles keep their types; the batch holds only channels that were made.
THEOREM TypeCorrect == Spec => []TypeOK
<1>1. IInv => TypeOK
  BY DEF IInv
<1> QED
  BY <1>1, Invariance, PTL

\* runAfter(), runEvery() and cancel() (event_loop.cpp:111-147) keep timers_ and the poller's
\* channels_ in step: the poller points only to channels that timers_ owns under the
\* same id, also where an id is used again or a timer was refused.
THEOREM PollerPointsToOwned == Spec => []ChannelsOwned
<1>1. IInv => ChannelsOwned
  BY DEF IInv, TablesInv
<1> QED
  BY <1>1, Invariance, PTL

\* cancel() on another thread (event_loop.cpp:141-148) is never overtaken by the
\* runAfter() or runEvery() that made the timer.
THEOREM CancelIsFinal == Spec => []CancelSticks
<1>1. IInv => CancelSticks
  BY DEF IInv
<1> QED
  BY <1>1, Invariance, PTL

\* Functors run after the handlers of a batch (event_loop.cpp:45-48), so that no
\* cancel() frees a channel of the batch, provided that handlers call none.
THEOREM BatchStaysAlive == ASSUME HandlersCancel = FALSE PROVE Spec => []BatchAlive
<1>1. Init => BatchInv
  BY InitInv
<1>2. IInv /\ BatchInv /\ [Next]_vars => BatchInv'
  BY BatchStep DEF IInv
<1>3. BatchInv => BatchAlive
  BY DEF BatchInv
<1> QED
  BY <1>1, <1>2, <1>3, Invariance, PTL DEF Spec

\* runAfter() (kqueue_poller.cpp:41-43 sets EV_ONESHOT) calls its handler once: no handler
\* is called again for a channel that is not to repeat, whoever else uses its id
\* meanwhile, and whether or not handlers cancel.
THEOREM OneShotFiresOnce == Spec => OneShotOnce
<1>1. Init => OnceInv
  <2> SUFFICES ASSUME Init PROVE OnceInv
    OBVIOUS
  <2>1. made = <<>> /\ queue = <<>> /\ DOMAIN queue = {} /\ batch = {} /\ fired = {}
        /\ \A id \in Ids : channels[id] = None
    BY DEF Init
  <2> QED
    BY <2>1 DEF OnceInv, SpentOnce
<1>2. IInv /\ OnceInv /\ [Next]_vars => OnceInv'
  BY OnceStep DEF IInv
<1>3. IInv /\ OnceInv /\ [Next]_vars =>
        [\A c \in DOMAIN made :
           handling # c /\ handling' = c /\ ~made[c].repeat => c \notin fired]_vars
  <2> SUFFICES ASSUME TypeOK, OnceInv, [Next]_vars, NEW c \in DOMAIN made,
                      handling # c, handling' = c, ~made[c].repeat
               PROVE  c \notin fired
    BY DEF IInv
  <2>1. c # None
    BY MadeDomain, IdsAreInts
  <2>2. \E b \in batch : Handle(b)
    <3>1. CASE \E b \in batch : Handle(b)
      BY <3>1
    <3>2. CASE UNCHANGED handling \/ HandlerReturns
      BY <2>1, <3>2 DEF HandlerReturns
    <3> QED
      BY <3>1, <3>2 DEF Next, UserStep, LoopStep, RunLater, RunLaterHere, Cancel, CancelHere, Poll,
                        SwapPending, RunFunctor, DonePending, Expire, vars, loopVars
  <2>3. c \in batch
    BY <2>2 DEF Handle
  <2> QED
    BY <2>3 DEF OnceInv
<1> QED
  BY <1>1, <1>2, <1>3, Invariance, PTL DEF Spec, OneShotOnce
=============================================================================
