------------------------ MODULE TcpConnectionProofs ------------------------
(***************************************************************************)
(* For any threads, messages, send buffer and garbage in the mask: a       *)
(* connection implements ByteStream, its assertion in handleClose() holds, *)
(* and it waits for room exactly while it has bytes to write.              *)
(***************************************************************************)
EXTENDS TcpConnection, SequenceTheorems, TLAPS

-----------------------------------------------------------------------------
(* The inductive invariant. *)

\* Nothing has happened to a connection that is not made yet.
FreshInv ==
  object = "none" =>
    /\ state = "kConnecting" /\ out = <<>> /\ ~inMap /\ ~registered
    /\ held = {} /\ queue = <<>> /\ write = NoWrite
    /\ \A t \in Threads : place[t] = "idle"
    /\ reset = "no" /\ snd = <<>> /\ ~shut /\ delivered = <<>> /\ accepted = 0

\* Whoever can still reach handleClose() or is in a write() has a connection that is
\* not closed, though a late shutdown() may set kDisconnecting on one that is.
StateInv ==
  /\ inMap \/ registered \/ write # NoWrite => state \in {"kConnected", "kDisconnecting"}
  /\ object # "none" => state # "kConnecting"

\* CHANNEL_WRITE goes with buffered bytes, also in the middle of a write().
EventsInv ==
  /\ "WRITE" \in events <=> out # <<>>
  /\ registered /\ out # <<>> => "OUT" \in interest

\* sendInLoop() writes past an empty buffer only, handleWrite() what is in it.
WriteInv ==
  /\ write.from = "send" => out = <<>> /\ Len(write.todo) + write.n <= accepted
  /\ write.from = "handleWrite" =>
       /\ out # <<>> /\ write.n <= Len(out)
       /\ write.todo = SubSeq(out, write.n + 1, Len(out))
  /\ Len(out) <= accepted

\* Nobody shuts the socket unasked.  A thread that wants the end has said so before it
\* queues its functor, so what is queued behind that is late; and unless the socket
\* was shut early, what is still queued then is late too.
IsSend(i) == queue[i].op = "send"
QueueInv ==
  /\ \A t \in Threads : place[t] = "queueShutdown" => Asked
  /\ \A i \in DOMAIN queue : ~IsSend(i) =>
       Asked /\ \A j \in DOMAIN queue : i < j /\ IsSend(j) => queue[j].late
EndInv ==
  /\ shut => Asked
  /\ shut /\ ~early => \A i \in DOMAIN queue : IsSend(i) => queue[i].late
  /\ before <= accepted /\ (~shut => before = accepted)

IInv == TypeOK /\ FreshInv /\ StateInv /\ EventsInv /\ WriteInv /\ QueueInv /\ EndInv

-----------------------------------------------------------------------------
(* Calls and bytes. *)

LEMMA WriteShape ==
  ASSUME TypeOK
  PROVE  \/ write = NoWrite /\ write.from = "none"
         \/ /\ write # NoWrite /\ write \in Calls
            /\ write.from \in {"send", "handleWrite"}
            /\ write.todo \in Seq(1 .. MaxBytes) /\ write.n \in 0 .. MaxBytes
  BY DEF TypeOK, Calls, NoWrite

LEMMA CallShape ==
  ASSUME NEW from \in {"send", "handleWrite"}, NEW todo \in Seq(1 .. MaxBytes),
         NEW n \in 0 .. MaxBytes, NEW w, w = [from |-> from, todo |-> todo, n |-> n]
  PROVE  /\ w \in Calls /\ w # NoWrite
         /\ w.from = from /\ w.todo = todo /\ w.n = n
  BY DEF Calls, NoWrite

LEMMA BytesAreSeq ==
  ASSUME NEW len \in Nat, accepted \in Nat, accepted + len <= MaxBytes, MaxBytes \in Nat
  PROVE  /\ Bytes(len) \in Seq(1 .. MaxBytes)
         /\ Len(Bytes(len)) = len
         /\ \A i \in 1 .. len : Bytes(len)[i] = accepted + i
<1>1. \A i \in 1 .. len : accepted + i \in 1 .. MaxBytes
  OBVIOUS
<1>2. Bytes(len) \in [1 .. len -> 1 .. MaxBytes]
  BY <1>1 DEF Bytes
<1> QED
  BY <1>2 DEF Bytes

LEMMA MessageLength == \A len \in MsgLens : len \in Nat /\ len > 0
  BY ConstantsAssumption

LEMMA MaxBytesIsNat == MaxBytes \in Nat
  BY ConstantsAssumption

\* What is left of a sequence after its first k elements.
LEMMA CutAt ==
  ASSUME NEW S, NEW s \in Seq(S), NEW k \in 0 .. Len(s)
  PROVE  /\ SubSeq(s, 1, k) \in Seq(S) /\ Len(SubSeq(s, 1, k)) = k
         /\ SubSeq(s, k + 1, Len(s)) \in Seq(S) /\ Len(SubSeq(s, k + 1, Len(s))) = Len(s) - k
         /\ \A i \in 1 .. k : SubSeq(s, 1, k)[i] = s[i]
         /\ \A i \in 1 .. Len(s) - k : SubSeq(s, k + 1, Len(s))[i] = s[k + i]
<1>1. Len(s) \in Nat /\ k \in Int /\ \A i \in 1 .. Len(s) : s[i] \in S
  BY LenProperties, ElementOfSeq
<1>2. /\ SubSeq(s, 1, k) \in Seq(S)
      /\ Len(SubSeq(s, 1, k)) = (IF 1 <= k THEN k - 1 + 1 ELSE 0)
      /\ \A i \in 1 .. k - 1 + 1 : SubSeq(s, 1, k)[i] = s[1 + i - 1]
  BY <1>1, SubSeqProperties
<1>3. /\ SubSeq(s, k + 1, Len(s)) \in Seq(S)
      /\ Len(SubSeq(s, k + 1, Len(s))) = (IF k + 1 <= Len(s) THEN Len(s) - (k + 1) + 1 ELSE 0)
      /\ \A i \in 1 .. Len(s) - (k + 1) + 1 : SubSeq(s, k + 1, Len(s))[i] = s[(k + 1) + i - 1]
  BY <1>1, SubSeqProperties
<1>4. \A i \in 1 .. k : SubSeq(s, 1, k)[i] = s[i]
  BY <1>1, <1>2
<1>5. \A i \in 1 .. Len(s) - k : SubSeq(s, k + 1, Len(s))[i] = s[k + i]
  BY <1>1, <1>3
<1> QED
  BY <1>1, <1>2, <1>3, <1>4, <1>5

-----------------------------------------------------------------------------
(* What handlers share. *)

LEMMA UpdateStep ==
  ASSUME NEW evs \in SUBSET {"READ", "WRITE"}, Update(evs)
  PROVE  /\ events' = evs /\ registered' = TRUE
         /\ interest' \in SUBSET {"IN", "OUT"}
         /\ "WRITE" \in evs => "OUT" \in interest'
<1>1. PICK junk \in SUBSET Garbage : interest' = Mask(evs) \union junk
  BY DEF Update
<1>2. junk \subseteq {"IN", "OUT"}
  BY <1>1, ConstantsAssumption
<1>3. Mask(evs) \subseteq {"IN", "OUT"} /\ ("WRITE" \in evs => "OUT" \in Mask(evs))
  BY DEF Mask
<1> QED
  BY <1>1, <1>2, <1>3 DEF Update

\* sendInLoop() refuses a message, begins to write it, or adds it to what is buffered.
Refused == state = "kDisconnected" /\ UNCHANGED <<events, out, pollVars, write>>
Begun(len) ==
  /\ state # "kDisconnected" /\ out = <<>>
  /\ write' = [from |-> "send", todo |-> Bytes(len), n |-> 0]
  /\ UNCHANGED <<events, out, pollVars>>
Buffered(len) ==
  /\ state # "kDisconnected" /\ out # <<>>
  /\ out' = out \o Bytes(len)
  /\ UNCHANGED <<events, pollVars, write>>

LEMMA SendInLoopStep ==
  ASSUME EventsInv, NEW len \in MsgLens, SendInLoop(len)
  PROVE  /\ accepted' = accepted + len /\ accepted' <= MaxBytes
         /\ before' = IF shut THEN before ELSE accepted'
         /\ Refused \/ Begun(len) \/ Buffered(len)
<1>1. CASE state = "kDisconnected"
  BY <1>1 DEF SendInLoop, Refused
<1>2. CASE state # "kDisconnected" /\ out = <<>>
  BY <1>2 DEF SendInLoop, EventsInv, Begun
<1>3. CASE state # "kDisconnected" /\ out # <<>>
  BY <1>3 DEF SendInLoop, EventsInv, Buffered
<1> QED
  BY <1>1, <1>2, <1>3 DEF SendInLoop

\* The socket is shut on the loop's thread, not by a functor of another.
EarlyMarked == early' = (early \/ (shut' /\ ~shut))

\* A write() of sendInLoop() leaves nothing, or a rest that is buffered or dropped.
Sent ==
  /\ write.from = "send"
  /\ write.todo = <<>> \/ Broken
  /\ UNCHANGED <<events, out, pollVars, shut, early>>
SentPartly ==
  /\ write.from = "send" /\ write.todo # <<>>
  /\ out' = write.todo
  /\ Update(events \union {"WRITE"})
  /\ UNCHANGED <<shut, early>>
\* One of handleWrite() leaves the rest in the buffer.
Drained ==
  /\ write.from = "handleWrite" /\ write.todo = <<>>
  /\ out' = <<>> /\ Update({})
  /\ shut' = shut \/ (shut' = TRUE /\ Asked)
  /\ EarlyMarked
DrainedPartly ==
  /\ write.from = "handleWrite" /\ write.todo # <<>>
  /\ out' = write.todo
  /\ UNCHANGED <<events, pollVars, shut, early>>

LEMMA WriteReturnsStep ==
  ASSUME TypeOK, EventsInv, WriteInv, WriteReturns
  PROVE  /\ write # NoWrite /\ write' = NoWrite
         /\ Sent \/ SentPartly \/ Drained \/ DrainedPartly
<1>1. write # NoWrite /\ write' = NoWrite
  BY DEF WriteReturns
<1> SUFFICES Sent \/ SentPartly \/ Drained \/ DrainedPartly
  BY <1>1
<1>2. CASE write.from = "send"
  <2> DEFINE fault == write.todo # <<>> /\ Broken /\ write.n = 0
  <2>1. AfterSend(write.todo, fault)
    BY <1>2 DEF WriteReturns
  <2>2. CASE write.todo = <<>> \/ fault
    BY <1>2, <2>1, <2>2 DEF AfterSend, Sent
  <2>3. CASE ~(write.todo = <<>> \/ fault)
    <3>1. out' = out \o write.todo /\ Update(events \union {"WRITE"})
          /\ UNCHANGED <<shut, early>>
      BY <2>1, <2>3 DEF AfterSend
    <3>2. out = <<>> /\ <<>> \o write.todo = write.todo
      BY <1>1, <1>2, WriteShape, ConcatEmptySeq DEF WriteInv
    <3>3. out' = write.todo
      BY <3>1, <3>2
    <3> QED
      BY <1>2, <2>3, <3>1, <3>3 DEF SentPartly
  <2> QED
    BY <2>2, <2>3
<1>3. CASE write.from = "handleWrite"
  <2>1. /\ AfterHandleWrite(write.n)
        /\ write.todo = SubSeq(out, write.n + 1, Len(out))
        /\ write.n \in 0 .. Len(out)
    BY <1>1, <1>3, WriteShape DEF WriteReturns, WriteInv
  <2>2. out \in Seq(1 .. MaxBytes) /\ Len(out) \in Nat
    BY LenProperties DEF TypeOK
  <2>3. CASE write.todo = <<>>
    <3>1. write.n = Len(out)
      BY <2>1, <2>2, <2>3, CutAt, EmptySeq
    <3>2. CASE write.n > 0
      <4>1. /\ out' = <<>> /\ Update({})
            /\ IF state = "kDisconnecting" THEN ShutdownEarly({}) ELSE UNCHANGED <<shut, early>>
        BY <2>1, <2>3, <3>2 DEF AfterHandleWrite
      <4>2. CASE state = "kDisconnecting"
        BY <1>3, <2>3, <4>1, <4>2
        DEF Drained, ShutdownEarly, ShutdownInLoop, EarlyMarked, Asked
      <4>3. CASE state # "kDisconnecting"
        BY <1>3, <2>3, <4>1, <4>3 DEF Drained, EarlyMarked, TypeOK
      <4> QED
        BY <4>2, <4>3
    <3>3. CASE write.n = 0
      BY <1>3, <2>2, <3>1, <3>3, EmptySeq DEF WriteInv
    <3> QED
      BY <2>1, <3>2, <3>3
  <2>4. CASE write.todo # <<>>
    BY <1>3, <2>1, <2>4 DEF AfterHandleWrite, DrainedPartly
  <2> QED
    BY <2>3, <2>4
<1> QED
  BY <1>1, <1>2, <1>3, WriteShape

\* The kernel takes some bytes of the write() under way, and not more than fit.
LEMMA TakenSome ==
  ASSUME TypeOK, WriteSome
  PROVE  \E k \in 1 .. Len(write.todo) :
           /\ Len(snd) + k <= SndCap
           /\ snd' = snd \o SubSeq(write.todo, 1, k)
           /\ write' = [write EXCEPT !.todo = SubSeq(@, k + 1, Len(@)), !.n = @ + k]
<1> DEFINE room == SndCap - Len(snd)
           k == IF Len(write.todo) < room THEN Len(write.todo) ELSE room
<1>1. /\ snd' = snd \o SubSeq(write.todo, 1, k)
      /\ write' = [write EXCEPT !.todo = SubSeq(@, k + 1, Len(@)), !.n = @ + k]
  BY DEF WriteSome
<1>2. Len(snd) \in Nat /\ SndCap \in Nat /\ Len(write.todo) \in Nat /\ Len(write.todo) > 0
  BY ConstantsAssumption, WriteShape, LenProperties, EmptySeq DEF TypeOK, WriteSome
<1>3. room \in Nat /\ room > 0
  BY <1>2 DEF WriteSome, Space
<1>4. k \in 1 .. Len(write.todo) /\ Len(snd) + k <= SndCap
  BY <1>2, <1>3
<1> QED
  BY <1>1, <1>4

LEMMA TakenIsCall ==
  ASSUME TypeOK, WriteInv, write # NoWrite, NEW k \in 1 .. Len(write.todo),
         write' = [write EXCEPT !.todo = SubSeq(@, k + 1, Len(@)), !.n = @ + k]
  PROVE  /\ write' \in Calls /\ write' # NoWrite /\ write'.from = write.from
         /\ write'.todo = SubSeq(write.todo, k + 1, Len(write.todo))
         /\ write'.n = write.n + k
<1>1. /\ write \in Calls /\ write.from \in {"send", "handleWrite"}
      /\ write.todo \in Seq(1 .. MaxBytes) /\ write.n \in 0 .. MaxBytes
      /\ Len(write.todo) \in Nat /\ Len(out) \in Nat /\ accepted \in 0 .. MaxBytes
  BY WriteShape, LenProperties DEF TypeOK
<1>2. SubSeq(write.todo, k + 1, Len(write.todo)) \in Seq(1 .. MaxBytes)
  <2>1. k \in 0 .. Len(write.todo)
    BY <1>1
  <2> QED
    BY <1>1, <2>1, CutAt
<1>3. write.n + Len(write.todo) <= accepted
  <2>1. CASE write.from = "send"
    BY <1>1, <2>1 DEF WriteInv
  <2>2. CASE write.from = "handleWrite"
    <3>1. write.n \in 0 .. Len(out) /\ write.todo = SubSeq(out, write.n + 1, Len(out))
      BY <1>1, <2>2 DEF WriteInv
    <3>2. Len(write.todo) = Len(out) - write.n
      <4>1. out \in Seq(1 .. MaxBytes)
        BY DEF TypeOK
      <4> QED
        BY <3>1, <4>1, CutAt
    <3> QED
      BY <1>1, <3>2 DEF WriteInv
  <2> QED
    BY <1>1, <2>1, <2>2
<1>4. write.n + k \in 0 .. MaxBytes
  <2>1. k \in Nat /\ k <= Len(write.todo) /\ write.n \in Nat
    BY <1>1
  <2>2. accepted <= MaxBytes /\ accepted \in Nat /\ MaxBytes \in Nat
    BY <1>1, MaxBytesIsNat
  <2> HIDE DEF WriteInv
  <2> QED
    BY <1>1, <1>3, <2>1, <2>2
<1>5. write' = [from |-> write.from, todo |-> SubSeq(write.todo, k + 1, Len(write.todo)),
                n |-> write.n + k]
  BY <1>1 DEF Calls
<1> DEFINE rest == SubSeq(write.todo, k + 1, Len(write.todo))
           m == write.n + k
<1>6. rest \in Seq(1 .. MaxBytes) /\ m \in 0 .. MaxBytes
  BY <1>2, <1>4
<1>7. write' = [from |-> write.from, todo |-> rest, n |-> m]
  BY <1>5
<1> HIDE DEF rest, m
<1>8. /\ write' \in Calls /\ write' # NoWrite
      /\ write'.from = write.from /\ write'.todo = rest /\ write'.n = m
  BY ONLY <1>1, <1>6, <1>7 DEF Calls, NoWrite
<1> QED
  BY <1>8 DEF rest, m

-----------------------------------------------------------------------------
(* Types. *)

LEMMA TypeInit == Init => TypeOK
<1> SUFFICES ASSUME Init PROVE TypeOK
  OBVIOUS
<1>1. 0 \in 0 .. MaxBytes /\ 0 \in 0 .. MaxSends /\ 0 \in 0 .. MaxInputs /\ 0 \in 0 .. MaxSignals
  BY ConstantsAssumption
<1>2. /\ queue \in Seq(Functors) /\ out \in Seq(1 .. MaxBytes)
      /\ snd \in Seq(1 .. MaxBytes) /\ delivered \in Seq(1 .. MaxBytes) /\ Len(snd) <= SndCap
  BY ConstantsAssumption, EmptySeq DEF Init
<1> QED
  BY <1>1, <1>2 DEF Init, TypeOK, States

LEMMA TypeStep == IInv /\ [Next]_vars => TypeOK'
<1> SUFFICES ASSUME IInv, [Next]_vars PROVE TypeOK'
  OBVIOUS
<1> USE DEF IInv, endVars
<1>0. TypeOK
  OBVIOUS
<1>1. CASE NewConnection
  <2>1. {"READ"} \in SUBSET {"READ", "WRITE"}
    OBVIOUS
  <2>2. events' = {"READ"} /\ registered' = TRUE /\ interest' \in SUBSET {"IN", "OUT"}
    BY <1>1, <2>1, UpdateStep DEF NewConnection
  <2> QED
    BY <1>0, <1>1, <2>2 DEF NewConnection, TypeOK, States, peerVars
<1>2. CASE DestroyServer
  <2>1. shut' \in BOOLEAN /\ early' \in BOOLEAN
    BY <1>0, <1>2 DEF DestroyServer, ShutdownEarly, ShutdownInLoop, TypeOK
  <2> QED
    BY <1>0, <1>2, <2>1 DEF DestroyServer, DropReference, TypeOK, States, pollVars, peerVars
<1>3. CASE HandleRead
  <2>1. CASE HandleClose
    BY <1>0, <2>1 DEF HandleClose, Unregister, DropReference, TypeOK, States, peerVars
  <2>2. CASE ~HandleClose
    <3>1. /\ UNCHANGED <<connVars, pollVars, threadVars, queue, write, fin, delivered, inputs, snd,
                         shut, accepted, signals, endVars>>
          /\ readable' \in {readable, FALSE} /\ reset' \in {reset, "seen"}
      BY <1>3, <2>2 DEF HandleRead
    <3>2. readable' \in BOOLEAN /\ reset' \in {"no", "error", "seen"}
      BY <1>0, <3>1 DEF TypeOK
    <3> QED
      BY <1>0, <3>1, <3>2 DEF TypeOK, connVars, pollVars, threadVars, endVars
  <2> QED
    BY <2>1, <2>2
<1>4. CASE HandleWrite
  <2>1. write' \in Calls
    <3>1. out \in Seq(1 .. MaxBytes) /\ 0 \in 0 .. MaxBytes
      BY <1>0, MaxBytesIsNat DEF TypeOK
    <3> QED
      BY <1>4, <3>1 DEF HandleWrite, Calls
  <2> QED
    BY <1>0, <1>4, <2>1 DEF HandleWrite, TypeOK, connVars, pollVars, threadVars, peerVars
<1>5. CASE WriteSome
  <2>1. PICK k \in 1 .. Len(write.todo) :
          /\ Len(snd) + k <= SndCap
          /\ snd' = snd \o SubSeq(write.todo, 1, k)
          /\ write' = [write EXCEPT !.todo = SubSeq(@, k + 1, Len(@)), !.n = @ + k]
    BY <1>5, TakenSome
  <2>2. write' \in Calls
    <3>1. write # NoWrite /\ WriteInv
      BY <1>5 DEF WriteSome
    <3> QED
      BY <1>0, <2>1, <3>1, TakenIsCall
  <2>3. snd' \in Seq(1 .. MaxBytes) /\ Len(snd') <= SndCap
    <3>1. write.todo \in Seq(1 .. MaxBytes) /\ snd \in Seq(1 .. MaxBytes) /\ Len(write.todo) \in Nat
      <4>1. write \in Calls \union {NoWrite} /\ write # NoWrite /\ snd \in Seq(1 .. MaxBytes)
        BY <1>0, <1>5 DEF TypeOK, WriteSome
      <4>2. write.todo \in Seq(1 .. MaxBytes)
        BY <4>1 DEF Calls
      <4> QED
        BY <4>1, <4>2, LenProperties
    <3>2. k \in 0 .. Len(write.todo)
      BY <3>1
    <3>3. SubSeq(write.todo, 1, k) \in Seq(1 .. MaxBytes) /\ Len(SubSeq(write.todo, 1, k)) = k
      <4> DEFINE todo == write.todo
      <4>1. todo \in Seq(1 .. MaxBytes) /\ k \in 0 .. Len(todo)
        BY ONLY <3>1, <3>2
      <4> HIDE DEF todo
      <4>2. SubSeq(todo, 1, k) \in Seq(1 .. MaxBytes) /\ Len(SubSeq(todo, 1, k)) = k
        BY ONLY <4>1, CutAt
      <4> QED
        BY <4>2 DEF todo
    <3>4. /\ snd \o SubSeq(write.todo, 1, k) \in Seq(1 .. MaxBytes)
          /\ Len(snd \o SubSeq(write.todo, 1, k)) = Len(snd) + k
      BY ONLY <3>1, <3>3, ConcatProperties
    <3> QED
      BY <2>1, <3>4
  <2> QED
    BY <1>0, <1>5, <2>2, <2>3 DEF WriteSome, TypeOK, connVars, pollVars, threadVars, peerVars
<1>6. CASE WriteReturns
  <2>1. /\ signals' \in 0 .. MaxSignals /\ reset' \in {"no", "error", "seen"}
        /\ UNCHANGED <<object, state, inMap, threadVars, queue, readable, fin, delivered, inputs,
                       snd, accepted, before>>
    BY <1>0, <1>6, ConstantsAssumption DEF WriteReturns, TypeOK
  <2>2. write' = NoWrite /\ (Sent \/ SentPartly \/ Drained \/ DrainedPartly)
    BY <1>0, <1>6, WriteReturnsStep
  <2>3. /\ events' \subseteq {"READ", "WRITE"} /\ out' \in Seq(1 .. MaxBytes)
        /\ registered' \in BOOLEAN /\ interest' \subseteq {"IN", "OUT"}
        /\ shut' \in BOOLEAN /\ early' \in BOOLEAN
    <3>1. write.todo \in Seq(1 .. MaxBytes) /\ <<>> \in Seq(1 .. MaxBytes)
      BY <1>6, <1>0, WriteShape, EmptySeq, WriteReturnsStep
    <3>2. events \union {"WRITE"} \in SUBSET {"READ", "WRITE"} /\ {} \in SUBSET {"READ", "WRITE"}
      BY <1>0 DEF TypeOK
    <3>3. CASE Sent \/ DrainedPartly
      BY <1>0, <3>1, <3>3 DEF Sent, DrainedPartly, TypeOK, pollVars
    <3>4. CASE SentPartly
      BY <1>0, <3>1, <3>2, <3>4, UpdateStep DEF SentPartly, TypeOK
    <3>5. CASE Drained
      BY <1>0, <3>1, <3>2, <3>5, UpdateStep DEF Drained, EarlyMarked, TypeOK
    <3> QED
      BY <2>2, <3>3, <3>4, <3>5
  <2> QED
    BY <1>0, <2>1, <2>2, <2>3 DEF TypeOK, threadVars
<1>7. CASE Shutdown
  <2>1. shut' \in BOOLEAN /\ early' \in BOOLEAN
    BY <1>0, <1>7 DEF Shutdown, ShutdownEarly, ShutdownInLoop, TypeOK
  <2> QED
    BY <1>0, <1>7, <2>1 DEF Shutdown, TypeOK, States, pollVars, threadVars, peerVars
<1>8. ASSUME NEW len \in MsgLens, SendInLoop(len)
      PROVE  /\ events' \subseteq {"READ", "WRITE"} /\ out' \in Seq(1 .. MaxBytes)
             /\ UNCHANGED pollVars /\ write' \in Calls \union {NoWrite}
             /\ accepted' \in 0 .. MaxBytes /\ before' \in 0 .. MaxBytes
  <2>1. /\ accepted' = accepted + len /\ accepted' <= MaxBytes
        /\ before' = IF shut THEN before ELSE accepted'
        /\ Refused \/ Begun(len) \/ Buffered(len)
    BY <1>8, SendInLoopStep
  <2>2. len \in Nat /\ accepted \in Nat /\ MaxBytes \in Nat /\ before \in 0 .. MaxBytes
    BY <1>0, MessageLength, MaxBytesIsNat DEF TypeOK
  <2>3. Bytes(len) \in Seq(1 .. MaxBytes)
    BY <2>1, <2>2, BytesAreSeq
  <2>4. CASE Refused
    BY <1>0, <2>1, <2>2, <2>4 DEF Refused, TypeOK
  <2>5. CASE Begun(len)
    <3>1. write' \in Calls
      BY <2>2, <2>3, <2>5, CallShape DEF Begun
    <3> QED
      BY <1>0, <2>1, <2>2, <2>5, <3>1 DEF Begun, TypeOK
  <2>6. CASE Buffered(len)
    <3>1. out \o Bytes(len) \in Seq(1 .. MaxBytes)
      BY <1>0, <2>3, ConcatProperties DEF TypeOK
    <3> QED
      BY <1>0, <2>1, <2>2, <2>6, <3>1 DEF Buffered, TypeOK
  <2> QED
    BY <2>1, <2>4, <2>5, <2>6
<1>9. ASSUME NEW len \in MsgLens, Send(len) PROVE TypeOK'
  BY <1>0, <1>8, <1>9 DEF Send, TypeOK, pollVars, threadVars, peerVars
<1>10. CASE RunFunctor
  <2>1. /\ queue' \in Seq(Functors) /\ Head(queue) \in Functors
        /\ UNCHANGED <<object, state, inMap, threadVars, peerVars, snd, signals, early>>
    BY <1>0, <1>10, HeadTailProperties DEF RunFunctor, TypeOK
  <2>2. CASE Head(queue).op = "send"
    <3>1. Head(queue).len \in MsgLens
      BY <2>1, <2>2 DEF Functors
    <3> QED
      BY <1>0, <1>8, <1>10, <2>1, <2>2, <3>1 DEF RunFunctor, TypeOK, pollVars, threadVars, peerVars
  <2>3. CASE Head(queue).op # "send"
    BY <1>0, <1>10, <2>1, <2>3
    DEF RunFunctor, ShutdownInLoop, TypeOK, pollVars, threadVars, peerVars
  <2> QED
    BY <2>2, <2>3
<1>11. ASSUME NEW t \in Threads, ThreadStep(t) PROVE TypeOK'
  <2>1. CASE StartSend(t)
    <3>1. sends' \in [Threads -> 0 .. MaxSends]
      BY <1>0, <2>1, ConstantsAssumption DEF StartSend, TypeOK
    <3> QED
      BY <1>0, <2>1, <3>1 DEF StartSend, TypeOK, connVars, pollVars, peerVars
  <2>2. ASSUME NEW len \in MsgLens, QueueSend(t, len) PROVE TypeOK'
    <3>1. queue' \in Seq(Functors)
      BY <1>0, <2>2, AppendProperties DEF QueueSend, TypeOK, Functors, Asked
    <3> QED
      BY <1>0, <2>2, <3>1 DEF QueueSend, TypeOK, connVars, pollVars, peerVars
  <2>3. CASE StartShutdown(t)
    BY <1>0, <2>3 DEF StartShutdown, TypeOK, connVars, pollVars, peerVars
  <2>4. CASE SetDisconnecting(t)
    BY <1>0, <2>4 DEF SetDisconnecting, TypeOK, States, pollVars, peerVars
  <2>5. CASE QueueShutdown(t)
    <3>1. queue' \in Seq(Functors)
      BY <1>0, <2>5, AppendProperties DEF QueueShutdown, TypeOK, Functors
    <3> QED
      BY <1>0, <2>5, <3>1 DEF QueueShutdown, TypeOK, connVars, pollVars, peerVars
  <2>6. CASE Release(t)
    BY <1>0, <2>6 DEF Release, DropReference, TypeOK, pollVars, peerVars
  <2> QED
    BY <1>11, <2>1, <2>2, <2>3, <2>4, <2>5, <2>6 DEF ThreadStep
<1>12. CASE PeerSends
  BY <1>0, <1>12, ConstantsAssumption DEF PeerSends, TypeOK, connVars, pollVars, threadVars
<1>13. CASE PeerReads
  <2>1. /\ snd' \in Seq(1 .. MaxBytes) /\ Len(snd') <= SndCap
        /\ delivered' \in Seq(1 .. MaxBytes)
    <3>1. /\ snd \in Seq(1 .. MaxBytes) /\ snd # <<>> /\ Len(snd) <= SndCap
          /\ delivered \in Seq(1 .. MaxBytes) /\ SndCap \in Nat
      BY <1>0, <1>13, ConstantsAssumption DEF PeerReads, TypeOK
    <3>2. snd' = Tail(snd) /\ delivered' = Append(delivered, Head(snd))
      BY <1>13 DEF PeerReads
    <3>3. /\ Head(snd) \in 1 .. MaxBytes /\ Tail(snd) \in Seq(1 .. MaxBytes)
          /\ Len(Tail(snd)) = Len(snd) - 1 /\ Len(snd) \in Nat
      BY ONLY <3>1, LenProperties, HeadTailProperties
    <3>4. Append(delivered, Head(snd)) \in Seq(1 .. MaxBytes)
      BY ONLY <3>1, <3>3, AppendProperties
    <3> QED
      BY <3>1, <3>2, <3>3, <3>4
  <2> QED
    BY <1>0, <1>13, <2>1 DEF PeerReads, TypeOK, connVars, pollVars, threadVars
<1>14. CASE PeerCloses
  BY <1>0, <1>14 DEF PeerCloses, TypeOK, connVars, pollVars, threadVars
<1>15. CASE PeerResets
  <2>1. snd' \in Seq(1 .. MaxBytes) /\ Len(snd') <= SndCap
    BY <1>15, ConstantsAssumption, EmptySeq DEF PeerResets
  <2> QED
    BY <1>0, <1>15, <2>1 DEF PeerResets, TypeOK, connVars, pollVars, threadVars
<1>16. CASE UNCHANGED vars
  BY <1>0, <1>16 DEF TypeOK, vars, connVars, pollVars, threadVars, peerVars
<1> QED
  BY <1>1, <1>2, <1>3, <1>4, <1>5, <1>6, <1>7, <1>9, <1>10, <1>11, <1>12, <1>13, <1>14, <1>15, <1>16
  DEF Next, LoopStep, PeerStep
\* The other threads only queue functors, drop references and set kDisconnecting.
LEMMA ThreadFrame ==
  ASSUME NEW t \in Threads, ThreadStep(t)
  PROVE  /\ UNCHANGED <<events, out, inMap, pollVars, write, peerVars, snd, shut, accepted, endVars>>
         /\ state' = state \/ state' = "kDisconnecting"
<1>1. CASE StartSend(t)
  BY <1>1 DEF StartSend, connVars
<1>2. ASSUME NEW len \in MsgLens, QueueSend(t, len)
      PROVE  UNCHANGED <<state, events, out, inMap, pollVars, write, peerVars, snd, shut, accepted,
                         endVars>>
  BY <1>2 DEF QueueSend, connVars
<1>3. CASE StartShutdown(t)
  BY <1>3 DEF StartShutdown, connVars
<1>4. CASE SetDisconnecting(t)
  BY <1>4 DEF SetDisconnecting
<1>5. CASE QueueShutdown(t)
  BY <1>5 DEF QueueShutdown, connVars
<1>6. CASE Release(t)
  BY <1>6 DEF Release, DropReference
<1> QED
  BY <1>1, <1>2, <1>3, <1>4, <1>5, <1>6 DEF ThreadStep

-----------------------------------------------------------------------------
(* Nothing happens before newConnection(). *)

LEMMA FreshFirst ==
  ASSUME IInv, object = "none", Next
  PROVE  NewConnection
<1>1. ~LoopFree /\ ~Open /\ write = NoWrite /\ held = {}
      /\ \A t \in Threads : place[t] = "idle"
  BY DEF IInv, FreshInv, LoopFree, Open
<1>2. ~LoopStep \/ NewConnection
  BY <1>1 DEF LoopStep, DestroyServer, HandleRead, HandleWrite, WriteSome, WriteReturns, Shutdown,
              RunFunctor, Send
<1>3. \A t \in Threads : ~ThreadStep(t)
  BY <1>1 DEF ThreadStep, StartSend, QueueSend, StartShutdown, SetDisconnecting, QueueShutdown,
              Release
<1>4. ~PeerStep
  BY <1>1 DEF PeerStep, PeerSends, PeerReads, PeerCloses, PeerResets
<1> QED
  BY <1>2, <1>3, <1>4 DEF Next

LEMMA ObjectStays ==
  ASSUME object # "none", Next
  PROVE  object' # "none"
<1>1. CASE LoopStep
  BY <1>1 DEF LoopStep, NewConnection, DestroyServer, HandleRead, HandleClose, HandleWrite,
              WriteSome, WriteReturns, Shutdown, RunFunctor, Send, DropReference, connVars
<1>2. ASSUME NEW t \in Threads, ThreadStep(t) PROVE object' # "none"
  BY <1>2 DEF ThreadStep, StartSend, QueueSend, StartShutdown, SetDisconnecting, QueueShutdown,
              Release, DropReference, connVars
<1>3. CASE PeerStep
  BY <1>3 DEF PeerStep, PeerSends, PeerReads, PeerCloses, PeerResets, connVars
<1> QED
  BY <1>1, <1>2, <1>3 DEF Next

LEMMA FreshStep == IInv /\ [Next]_vars => FreshInv'
<1> SUFFICES ASSUME IInv, [Next]_vars PROVE FreshInv'
  OBVIOUS
<1>1. CASE Next
  <2>1. object' # "none"
    BY <1>1, FreshFirst, ObjectStays DEF NewConnection
  <2> QED
    BY <2>1 DEF FreshInv
<1>2. CASE UNCHANGED vars
  BY <1>2 DEF IInv, FreshInv, vars, connVars, pollVars, threadVars, peerVars
<1> QED
  BY <1>1, <1>2

-----------------------------------------------------------------------------
(* The state of a connection that is still in use. *)

LEMMA StateStep == IInv /\ [Next]_vars => StateInv'
<1> SUFFICES ASSUME IInv, [Next]_vars PROVE StateInv'
  OBVIOUS
<1>0. TypeOK /\ StateInv /\ EventsInv /\ WriteInv /\ state \in States
  BY DEF IInv, TypeOK
<1>1. CASE NewConnection
  BY <1>1 DEF NewConnection, StateInv
<1>2. CASE object = "none" /\ Next
  BY <1>1, <1>2, FreshFirst
<1>3. CASE object # "none" /\ Next
  <2>0. state # "kConnecting"
    BY <1>0, <1>3 DEF StateInv
  <2>1. CASE DestroyServer
    BY <1>0, <2>0, <2>1 DEF DestroyServer, LoopFree, StateInv, pollVars
  <2>2. CASE HandleRead
    BY <1>0, <2>0, <2>2
    DEF HandleRead, HandleClose, Unregister, DropReference, LoopFree, StateInv, connVars, pollVars
  <2>3. CASE HandleWrite
    BY <1>0, <2>0, <2>3 DEF HandleWrite, LoopFree, Reported, StateInv, connVars, pollVars
  <2>4. CASE WriteSome
    BY <1>0, <2>0, <2>4 DEF WriteSome, StateInv, connVars, pollVars
  <2>5. CASE WriteReturns
    <3>1. write # NoWrite /\ write' = NoWrite
      BY <1>0, <2>5, WriteReturnsStep
    <3> QED
      BY <1>0, <2>0, <2>5, <3>1 DEF WriteReturns, StateInv
  <2>6. CASE Shutdown
    BY <2>0, <2>6 DEF Shutdown, StateInv
  <2>7. ASSUME NEW len \in MsgLens, SendInLoop(len), UNCHANGED <<object, state, inMap>>
        PROVE  StateInv'
    <3>1. Refused \/ Begun(len) \/ Buffered(len)
      BY <1>0, <2>7, SendInLoopStep
    <3> QED
      BY <1>0, <2>0, <2>7, <3>1 DEF Refused, Begun, Buffered, StateInv, States, pollVars
  <2>8. ASSUME NEW len \in MsgLens, Send(len) PROVE StateInv'
    BY <2>7, <2>8 DEF Send
  <2>9. CASE RunFunctor
    <3>1. CASE Head(queue).op = "send"
      <4>1. Head(queue).len \in MsgLens
        BY <1>0, <2>9, <3>1, HeadTailProperties DEF RunFunctor, TypeOK, Functors
      <4> QED
        BY <2>7, <2>9, <3>1, <4>1 DEF RunFunctor
    <3>2. CASE Head(queue).op # "send"
      BY <1>0, <2>0, <2>9, <3>2 DEF RunFunctor, StateInv, pollVars
    <3> QED
      BY <3>1, <3>2
  <2>10. ASSUME NEW t \in Threads, ThreadStep(t) PROVE StateInv'
    BY <1>0, <2>0, <2>10, ThreadFrame DEF StateInv, pollVars
  <2>11. CASE PeerStep
    BY <1>0, <2>0, <2>11 DEF PeerStep, PeerSends, PeerReads, PeerCloses, PeerResets, StateInv,
                             connVars, pollVars
  <2> QED
    BY <1>1, <1>3, <2>1, <2>2, <2>3, <2>4, <2>5, <2>6, <2>8, <2>9, <2>10, <2>11 DEF Next, LoopStep
<1>4. CASE UNCHANGED vars
  BY <1>0, <1>4 DEF StateInv, vars, connVars, pollVars
<1> QED
  BY <1>2, <1>3, <1>4

-----------------------------------------------------------------------------
(* CHANNEL_WRITE. *)

LEMMA LongerIsNotEmpty ==
  ASSUME NEW S, NEW s \in Seq(S), NEW u \in Seq(S), s # <<>> \/ u # <<>>
  PROVE  s \o u # <<>>
<1>1. Len(s \o u) = Len(s) + Len(u) /\ Len(s) \in Nat /\ Len(u) \in Nat
  BY ConcatProperties, LenProperties
<1>2. Len(s) > 0 \/ Len(u) > 0
  BY <1>1, EmptySeq
<1> QED
  BY <1>1, <1>2, EmptySeq

LEMMA EventsStep == IInv /\ [Next]_vars => EventsInv'
<1> SUFFICES ASSUME IInv, [Next]_vars PROVE EventsInv'
  OBVIOUS
<1>0. TypeOK /\ EventsInv /\ WriteInv /\ MaxBytes \in Nat
  BY MaxBytesIsNat DEF IInv
<1>1. CASE NewConnection
  <2>1. out = <<>>
    BY <1>1 DEF NewConnection, IInv, FreshInv
  <2> QED
    BY <1>1, <2>1 DEF NewConnection, Update, EventsInv
<1>2. CASE DestroyServer
  BY <1>0, <1>2 DEF DestroyServer, EventsInv, pollVars
<1>3. CASE HandleRead
  BY <1>0, <1>3 DEF HandleRead, HandleClose, Unregister, EventsInv, connVars, pollVars
<1>4. CASE HandleWrite
  BY <1>0, <1>4 DEF HandleWrite, EventsInv, connVars, pollVars
<1>5. CASE WriteSome
  BY <1>0, <1>5 DEF WriteSome, EventsInv, connVars, pollVars
<1>6. CASE WriteReturns
  <2>1. write # NoWrite /\ (Sent \/ SentPartly \/ Drained \/ DrainedPartly)
    BY <1>0, <1>6, WriteReturnsStep
  <2>2. events \union {"WRITE"} \in SUBSET {"READ", "WRITE"} /\ {} \in SUBSET {"READ", "WRITE"}
    BY <1>0 DEF TypeOK
  <2>3. CASE Sent
    BY <1>0, <2>3 DEF Sent, EventsInv, pollVars
  <2>4. CASE SentPartly
    BY <2>2, <2>4, UpdateStep DEF SentPartly, EventsInv
  <2>5. CASE Drained
    BY <2>2, <2>5, UpdateStep DEF Drained, EventsInv
  <2>6. CASE DrainedPartly
    BY <1>0, <2>6 DEF DrainedPartly, EventsInv, WriteInv, pollVars
  <2> QED
    BY <2>1, <2>3, <2>4, <2>5, <2>6
<1>7. CASE Shutdown
  BY <1>0, <1>7 DEF Shutdown, EventsInv, pollVars
<1>8. ASSUME NEW len \in MsgLens, SendInLoop(len) PROVE EventsInv'
  <2>1. /\ accepted' = accepted + len /\ accepted' <= MaxBytes
        /\ Refused \/ Begun(len) \/ Buffered(len)
    BY <1>0, <1>8, SendInLoopStep
  <2>2. CASE Refused \/ Begun(len)
    BY <1>0, <2>2 DEF Refused, Begun, EventsInv, pollVars
  <2>3. CASE Buffered(len)
    <3>1. Bytes(len) \in Seq(1 .. MaxBytes) /\ out \in Seq(1 .. MaxBytes)
      BY <1>0, <2>1, MessageLength, BytesAreSeq DEF TypeOK
    <3>2. out' # <<>>
      BY <2>3, <3>1, LongerIsNotEmpty DEF Buffered
    <3> QED
      BY <1>0, <2>3, <3>2 DEF Buffered, EventsInv, pollVars
  <2> QED
    BY <2>1, <2>2, <2>3
<1>9. ASSUME NEW len \in MsgLens, Send(len) PROVE EventsInv'
  BY <1>8, <1>9 DEF Send
<1>10. CASE RunFunctor
  <2>1. CASE Head(queue).op = "send"
    <3>1. Head(queue).len \in MsgLens
      BY <1>0, <1>10, <2>1, HeadTailProperties DEF RunFunctor, TypeOK, Functors
    <3> QED
      BY <1>8, <1>10, <2>1, <3>1 DEF RunFunctor
  <2>2. CASE Head(queue).op # "send"
    BY <1>0, <1>10, <2>2 DEF RunFunctor, EventsInv, pollVars
  <2> QED
    BY <2>1, <2>2
<1>11. ASSUME NEW t \in Threads, ThreadStep(t) PROVE EventsInv'
  BY <1>0, <1>11, ThreadFrame DEF EventsInv, pollVars
<1>12. CASE PeerStep
  BY <1>0, <1>12 DEF PeerStep, PeerSends, PeerReads, PeerCloses, PeerResets, EventsInv, connVars,
                     pollVars
<1>13. CASE UNCHANGED vars
  BY <1>0, <1>13 DEF EventsInv, vars, connVars, pollVars
<1> QED
  BY <1>1, <1>2, <1>3, <1>4, <1>5, <1>6, <1>7, <1>9, <1>10, <1>11, <1>12, <1>13 DEF Next, LoopStep

-----------------------------------------------------------------------------
(* The write() under way, and the invariant. *)

\* Cutting k elements off after n is cutting n + k.
LEMMA CutTwice ==
  ASSUME NEW S, NEW s \in Seq(S), NEW n \in 0 .. Len(s), NEW k \in 0 .. Len(s) - n,
         NEW u, u = SubSeq(s, n + 1, Len(s))
  PROVE  SubSeq(u, k + 1, Len(u)) = SubSeq(s, n + k + 1, Len(s))
<1>1. /\ Len(s) \in Nat /\ n \in Nat /\ k \in Nat /\ n + k <= Len(s) /\ n + k \in 0 .. Len(s)
  BY LenProperties
<1>2. /\ u \in Seq(S) /\ Len(u) = Len(s) - n
      /\ \A i \in 1 .. Len(s) - n : u[i] = s[n + i]
  BY CutAt
<1>3. k \in 0 .. Len(u)
  BY <1>1, <1>2
<1> DEFINE a == SubSeq(u, k + 1, Len(u))
           b == SubSeq(s, n + k + 1, Len(s))
<1>4. /\ a \in Seq(S) /\ Len(a) = Len(s) - (n + k)
      /\ \A i \in 1 .. Len(s) - (n + k) : a[i] = s[n + k + i]
  <2>1. /\ a \in Seq(S) /\ Len(a) = Len(u) - k
        /\ \A i \in 1 .. Len(u) - k : a[i] = u[k + i]
    <3>1. u \in Seq(S)
      BY <1>2
    <3> QED
      BY ONLY <1>3, <3>1, CutAt
  <2> HIDE DEF a
  <2>2. Len(u) - k = Len(s) - (n + k)
    BY <1>1, <1>2
  <2>3. ASSUME NEW i \in 1 .. Len(s) - (n + k) PROVE a[i] = s[n + k + i]
    <3>1. k + i \in 1 .. Len(s) - n /\ n + (k + i) = n + k + i
      BY <1>1
    <3>2. u[k + i] = s[n + (k + i)]
      BY <1>2, <3>1
    <3> QED
      BY <2>1, <2>2, <3>1, <3>2
  <2> QED
    BY <2>1, <2>2, <2>3
<1>5. /\ b \in Seq(S) /\ Len(b) = Len(s) - (n + k)
      /\ \A i \in 1 .. Len(s) - (n + k) : b[i] = s[n + k + i]
  BY <1>1, CutAt
<1> HIDE DEF a, b
<1>6. a = b
  BY <1>4, <1>5, SeqEqual
<1> QED
  BY <1>6 DEF a, b

LEMMA WriteStep == IInv /\ [Next]_vars => WriteInv'
<1> SUFFICES ASSUME IInv, [Next]_vars PROVE WriteInv'
  OBVIOUS
<1>0. /\ TypeOK /\ EventsInv /\ WriteInv
      /\ MaxBytes \in Nat /\ accepted \in Nat /\ out \in Seq(1 .. MaxBytes) /\ Len(out) \in Nat
  BY MaxBytesIsNat, LenProperties DEF IInv, TypeOK
<1>1. CASE UNCHANGED <<write, out, accepted>>
  BY <1>0, <1>1 DEF WriteInv
<1>2. CASE HandleWrite
  <2>1. /\ write' = [from |-> "handleWrite", todo |-> out, n |-> 0]
        /\ out # <<>> /\ UNCHANGED <<out, accepted>>
    BY <1>0, <1>2 DEF HandleWrite, EventsInv, connVars
  <2>2. SubSeq(out, 0 + 1, Len(out)) = out
    BY <1>0, SubSeqFull
  <2> QED
    BY <1>0, <2>1, <2>2 DEF WriteInv
<1>3. CASE WriteSome
  <2>1. PICK k \in 1 .. Len(write.todo) :
          write' = [write EXCEPT !.todo = SubSeq(@, k + 1, Len(@)), !.n = @ + k]
    BY <1>0, <1>3, TakenSome
  <2>2. write # NoWrite /\ UNCHANGED <<out, accepted>>
    BY <1>3 DEF WriteSome, connVars
  <2>3. /\ write'.from = write.from /\ write'.n = write.n + k
        /\ write'.todo = SubSeq(write.todo, k + 1, Len(write.todo))
    BY <1>0, <2>1, <2>2, TakenIsCall
  <2>4. /\ write.todo \in Seq(1 .. MaxBytes) /\ write.n \in Nat /\ Len(write.todo) \in Nat
        /\ k \in Nat /\ k <= Len(write.todo) /\ k \in 0 .. Len(write.todo)
    BY <1>0, <2>2, WriteShape, LenProperties
  <2>5. Len(write'.todo) = Len(write.todo) - k
    BY <2>3, <2>4, CutAt
  <2>6. ASSUME write.from = "handleWrite"
        PROVE  /\ out # <<>> /\ write'.n <= Len(out)
               /\ write'.todo = SubSeq(out, write'.n + 1, Len(out))
    <3>1. out # <<>> /\ write.n <= Len(out) /\ write.todo = SubSeq(out, write.n + 1, Len(out))
      BY <1>0, <2>6 DEF WriteInv
    <3>2. write.n \in 0 .. Len(out) /\ Len(write.todo) = Len(out) - write.n
      BY <1>0, <2>4, <3>1, CutAt
    <3>3. k \in 0 .. Len(out) - write.n
      BY <2>4, <3>2
    <3>4. SubSeq(write.todo, k + 1, Len(write.todo)) = SubSeq(out, write.n + k + 1, Len(out))
      BY <1>0, <3>1, <3>2, <3>3, CutTwice
    <3>5. write.n + k <= Len(out)
      BY <1>0, <2>4, <3>2
    <3> QED
      BY <2>3, <3>1, <3>4, <3>5
  <2>7. write.from = "send" => Len(write'.todo) + write'.n <= accepted
    BY <1>0, <2>3, <2>4, <2>5 DEF WriteInv
  <2> QED
    BY <1>0, <2>2, <2>3, <2>6, <2>7 DEF WriteInv
<1>4. CASE WriteReturns
  <2>1. /\ write # NoWrite /\ write' = NoWrite
        /\ Sent \/ SentPartly \/ Drained \/ DrainedPartly
    BY <1>0, <1>4, WriteReturnsStep
  <2>2. accepted' = accepted
    BY <1>4 DEF WriteReturns
  <2>3. /\ write.todo \in Seq(1 .. MaxBytes) /\ write.n \in Nat /\ Len(write.todo) \in Nat
        /\ Len(<<>>) = 0
    BY <1>0, <2>1, WriteShape, LenProperties, EmptySeq
  <2>4. Len(out') <= accepted
    <3>1. CASE Sent
      BY <1>0, <3>1 DEF Sent, WriteInv
    <3>2. CASE SentPartly
      BY <1>0, <2>3, <3>2 DEF SentPartly, WriteInv
    <3>3. CASE Drained
      BY <1>0, <2>3, <3>3 DEF Drained
    <3>4. CASE DrainedPartly
      <4>1. /\ write.n \in 0 .. Len(out) /\ write.todo = SubSeq(out, write.n + 1, Len(out))
            /\ out' = write.todo
        BY <1>0, <2>3, <3>4 DEF DrainedPartly, WriteInv
      <4>2. Len(write.todo) = Len(out) - write.n
        BY <1>0, <4>1, CutAt
      <4> QED
        BY <1>0, <2>3, <4>1, <4>2 DEF WriteInv
    <3> QED
      BY <2>1, <3>1, <3>2, <3>3, <3>4
  <2> QED
    BY <2>1, <2>2, <2>4 DEF WriteInv, NoWrite
<1>5. ASSUME NEW len \in MsgLens, SendInLoop(len), write = NoWrite PROVE WriteInv'
  <2>1. /\ accepted' = accepted + len /\ accepted' <= MaxBytes
        /\ Refused \/ Begun(len) \/ Buffered(len)
    BY <1>0, <1>5, SendInLoopStep
  <2>2. len \in Nat /\ Bytes(len) \in Seq(1 .. MaxBytes) /\ Len(Bytes(len)) = len
    BY <1>0, <2>1, MessageLength, BytesAreSeq
  <2>3. CASE Refused
    BY <1>0, <1>5, <2>1, <2>2, <2>3 DEF Refused, WriteInv, NoWrite
  <2>4. CASE Begun(len)
    <3>1. /\ write'.from = "send" /\ write'.todo = Bytes(len) /\ write'.n = 0 /\ out' = <<>>
      BY <2>4 DEF Begun
    <3>2. Len(out') <= accepted' /\ Len(write'.todo) + write'.n <= accepted'
      BY <1>0, <2>1, <2>2, <3>1, EmptySeq
    <3> QED
      BY <3>1, <3>2 DEF WriteInv
  <2>5. CASE Buffered(len)
    <3>1. Len(out \o Bytes(len)) = Len(out) + len
      BY <1>0, <2>2, ConcatProperties
    <3> QED
      BY <1>0, <1>5, <2>1, <2>2, <2>5, <3>1 DEF Buffered, WriteInv, NoWrite
  <2> QED
    BY <2>1, <2>3, <2>4, <2>5
<1>6. ASSUME NEW len \in MsgLens, Send(len) PROVE WriteInv'
  BY <1>5, <1>6 DEF Send, LoopFree
<1>7. CASE RunFunctor
  <2>1. CASE Head(queue).op = "send"
    <3>1. Head(queue).len \in MsgLens
      BY <1>0, <1>7, <2>1, HeadTailProperties DEF RunFunctor, TypeOK, Functors
    <3> QED
      BY <1>5, <1>7, <2>1, <3>1 DEF RunFunctor, LoopFree
  <2>2. CASE Head(queue).op # "send"
    BY <1>1, <1>7, <2>2 DEF RunFunctor
  <2> QED
    BY <2>1, <2>2
<1>8. NewConnection \/ DestroyServer \/ HandleRead \/ Shutdown => WriteInv'
  BY <1>1 DEF NewConnection, DestroyServer, HandleRead, HandleClose, Shutdown, connVars
<1>9. ASSUME NEW t \in Threads, ThreadStep(t) PROVE WriteInv'
  BY <1>1, <1>9, ThreadFrame
<1>10. PeerStep => WriteInv'
  BY <1>1 DEF PeerStep, PeerSends, PeerReads, PeerCloses, PeerResets, connVars
<1>11. UNCHANGED vars => WriteInv'
  BY <1>1 DEF vars, connVars
<1> QED
  BY <1>2, <1>3, <1>4, <1>6, <1>7, <1>8, <1>9, <1>10, <1>11 DEF Next, LoopStep

-----------------------------------------------------------------------------
(* What is queued, and the end of the output. *)

LEMMA QueueElements ==
  ASSUME TypeOK
  PROVE  /\ Len(queue) \in Nat /\ DOMAIN queue = 1 .. Len(queue)
         /\ \A i \in 1 .. Len(queue) : queue[i] \in Functors
  BY LenProperties, ElementOfSeq DEF TypeOK

\* What is appended to the queue leaves the rest of it where it is.
LEMMA QueueAppend ==
  ASSUME TypeOK, NEW f \in Functors, queue' = Append(queue, f)
  PROVE  /\ DOMAIN queue' = 1 .. Len(queue) + 1
         /\ \A i \in 1 .. Len(queue) : queue'[i] = queue[i]
         /\ queue'[Len(queue) + 1] = f
<1>1. queue \in Seq(Functors)
  BY DEF TypeOK
<1>2. /\ queue' \in Seq(Functors) /\ Len(queue') = Len(queue) + 1
      /\ \A i \in 1 .. Len(queue) : queue'[i] = queue[i]
      /\ queue'[Len(queue) + 1] = f
  BY <1>1, AppendProperties
<1>3. DOMAIN queue' = 1 .. Len(queue')
  BY <1>2, LenProperties
<1> QED
  BY <1>2, <1>3

LEMMA QueueTail ==
  ASSUME TypeOK, queue # <<>>, queue' = Tail(queue)
  PROVE  /\ Head(queue) \in Functors /\ Head(queue) = queue[1] /\ 1 \in DOMAIN queue
         /\ \A i \in DOMAIN queue' : i \in Nat /\ i + 1 \in DOMAIN queue /\ queue'[i] = queue[i + 1]
         /\ \A i \in DOMAIN queue' : 1 < i + 1
<1>1. queue \in Seq(Functors)
  BY DEF TypeOK
<1>2. /\ Head(queue) \in Functors /\ queue' \in Seq(Functors) /\ Len(queue') = Len(queue) - 1
      /\ \A i \in 1 .. Len(queue') : queue'[i] = queue[i + 1]
  BY <1>1, HeadTailProperties
<1>3. DOMAIN queue' = 1 .. Len(queue')
  BY <1>2, LenProperties
<1>4. Len(queue) \in Nat /\ Len(queue) > 0 /\ DOMAIN queue = 1 .. Len(queue)
  BY <1>1, LenProperties, EmptySeq
<1>5. Head(queue) = queue[1]
  BY <1>1, <1>4
<1>6. \A i \in DOMAIN queue' : i \in Nat /\ i + 1 \in 1 .. Len(queue) /\ 1 < i + 1
  BY <1>2, <1>3, <1>4
<1> QED
  BY <1>2, <1>3, <1>4, <1>5, <1>6

\* Somebody who has asked for the end has asked for good.
LEMMA AskedForGood ==
  ASSUME IInv, Next, Asked
  PROVE  Asked'
<1>1. state \in {"kDisconnecting", "kDisconnected"} /\ object # "none"
  BY DEF Asked, IInv, FreshInv
<1>2. CASE LoopStep
  <2>1. UNCHANGED state \/ state' \in {"kDisconnecting", "kDisconnected"}
    BY <1>1, <1>2 DEF LoopStep, NewConnection, DestroyServer, HandleRead, HandleClose, HandleWrite,
                      WriteSome, WriteReturns, Shutdown, RunFunctor, Send, connVars
  <2> QED
    BY <1>1, <2>1 DEF Asked
<1>3. ASSUME NEW t \in Threads, ThreadStep(t) PROVE Asked'
  BY <1>1, <1>3, ThreadFrame DEF Asked
<1>4. CASE PeerStep
  BY <1>1, <1>4 DEF PeerStep, PeerSends, PeerReads, PeerCloses, PeerResets, Asked, connVars
<1> QED
  BY <1>2, <1>3, <1>4 DEF Next

\* Steps that leave queue and threads alone.
QueueKept == UNCHANGED <<queue, place>> /\ (Asked => Asked')

LEMMA QueueStep == IInv /\ [Next]_vars => QueueInv'
<1> SUFFICES ASSUME IInv, [Next]_vars PROVE QueueInv'
  OBVIOUS
<1>0. TypeOK /\ QueueInv
  BY DEF IInv
<1>1. CASE QueueKept
  BY <1>0, <1>1 DEF QueueKept, QueueInv, IsSend
<1>2. CASE UNCHANGED vars
  BY <1>1, <1>2 DEF vars, connVars, threadVars, QueueKept, Asked
<1>3. CASE Next
  <2>0. Asked => Asked'
    BY <1>3, AskedForGood
  <2>1. CASE NewConnection \/ DestroyServer \/ HandleRead \/ HandleWrite \/ WriteSome \/ WriteReturns
             \/ Shutdown \/ \E len \in MsgLens : Send(len)
    <3>1. UNCHANGED <<queue, place>>
      BY <2>1 DEF NewConnection, DestroyServer, HandleRead, HandleClose, HandleWrite, WriteSome,
                  WriteReturns, Shutdown, Send, threadVars
    <3> QED
      BY <1>1, <2>0, <3>1 DEF QueueKept
  <2>2. CASE PeerStep
    <3>1. UNCHANGED <<queue, place>>
      BY <2>2 DEF PeerStep, PeerSends, PeerReads, PeerCloses, PeerResets, threadVars
    <3> QED
      BY <1>1, <2>0, <3>1 DEF QueueKept
  <2>3. CASE RunFunctor
    <3>1. queue # <<>> /\ queue' = Tail(queue) /\ place' = place
      BY <2>3 DEF RunFunctor, threadVars
    <3>2. \A i \in DOMAIN queue' : i \in Nat /\ i + 1 \in DOMAIN queue /\ queue'[i] = queue[i + 1]
      BY <1>0, <3>1, QueueTail
    <3>3. ASSUME NEW i \in DOMAIN queue', queue'[i].op # "send"
          PROVE  Asked' /\ \A j \in DOMAIN queue' : i < j /\ queue'[j].op = "send" => queue'[j].late
      <4>1. i + 1 \in DOMAIN queue /\ queue[i + 1].op # "send"
        BY <3>2, <3>3
      <4>2. /\ Asked
            /\ \A j \in DOMAIN queue : i + 1 < j /\ queue[j].op = "send" => queue[j].late
        BY <1>0, <4>1 DEF QueueInv, IsSend
      <4>3. ASSUME NEW j \in DOMAIN queue', i < j, queue'[j].op = "send" PROVE queue'[j].late
        <5>1. j + 1 \in DOMAIN queue /\ queue'[j] = queue[j + 1] /\ i + 1 < j + 1
          BY <3>2, <4>3
        <5> QED
          BY <4>2, <4>3, <5>1
      <4> QED
        BY <2>0, <4>2, <4>3
    <3>4. \A t \in Threads : place'[t] = "queueShutdown" => Asked'
      BY <1>0, <2>0, <3>1 DEF QueueInv
    <3> QED
      BY <3>3, <3>4 DEF QueueInv, IsSend
  <2>4. ASSUME NEW t \in Threads, NEW len \in MsgLens, QueueSend(t, len) PROVE QueueInv'
    <3> DEFINE f == [op |-> "send", len |-> len, late |-> Asked]
    <3>1. f \in Functors /\ queue' = Append(queue, f) /\ f.op = "send" /\ f.late = Asked
      BY <2>4 DEF QueueSend, Functors, Asked
    <3> HIDE DEF f
    <3>2. /\ DOMAIN queue' = 1 .. Len(queue) + 1
          /\ \A i \in 1 .. Len(queue) : queue'[i] = queue[i]
          /\ queue'[Len(queue) + 1] = f
      BY <1>0, <3>1, QueueAppend
    <3>3. Len(queue) \in Nat /\ DOMAIN queue = 1 .. Len(queue)
      BY <1>0, QueueElements
    <3>4. ASSUME NEW i \in DOMAIN queue', queue'[i].op # "send"
          PROVE  Asked' /\ \A j \in DOMAIN queue' : i < j /\ queue'[j].op = "send" => queue'[j].late
      <4>1. i \in 1 .. Len(queue) /\ queue'[i] = queue[i]
        BY <3>1, <3>2, <3>3, <3>4
      <4>2. Asked /\ \A j \in DOMAIN queue : i < j /\ queue[j].op = "send" => queue[j].late
        BY <1>0, <3>3, <3>4, <4>1 DEF QueueInv, IsSend
      <4>3. ASSUME NEW j \in DOMAIN queue', i < j, queue'[j].op = "send" PROVE queue'[j].late
        <5>1. CASE j \in 1 .. Len(queue)
          BY <3>2, <3>3, <4>2, <4>3, <5>1
        <5>2. CASE j = Len(queue) + 1
          BY <3>1, <3>2, <4>2, <5>2
        <5> QED
          BY <3>2, <3>3, <5>1, <5>2
      <4> QED
        BY <2>0, <4>2, <4>3
    <3>5. \A r \in Threads : place'[r] = "queueShutdown" => Asked'
      BY <1>0, <2>0, <2>4 DEF QueueInv, QueueSend, TypeOK
    <3> QED
      BY <3>4, <3>5 DEF QueueInv, IsSend
  <2>5. ASSUME NEW t \in Threads, QueueShutdown(t) PROVE QueueInv'
    <3> DEFINE f == [op |-> "shutdown"]
    <3>1. /\ f \in Functors /\ queue' = Append(queue, f) /\ f.op # "send" /\ Asked
          /\ place' = [place EXCEPT ![t] = "idle"]
      BY <1>0, <2>5 DEF QueueShutdown, QueueInv, Functors
    <3> HIDE DEF f
    <3>2. /\ DOMAIN queue' = 1 .. Len(queue) + 1
          /\ \A i \in 1 .. Len(queue) : queue'[i] = queue[i]
          /\ queue'[Len(queue) + 1] = f
      BY <1>0, <3>1, QueueAppend
    <3>3. Len(queue) \in Nat /\ DOMAIN queue = 1 .. Len(queue)
      BY <1>0, QueueElements
    <3>4. ASSUME NEW i \in DOMAIN queue', queue'[i].op # "send",
                 NEW j \in DOMAIN queue', i < j, queue'[j].op = "send"
          PROVE  queue'[j].late
      <4>1. j \in 1 .. Len(queue) /\ queue'[j] = queue[j]
        BY <3>1, <3>2, <3>3, <3>4
      <4>2. i \in 1 .. Len(queue) /\ queue'[i] = queue[i]
        BY <3>2, <3>3, <3>4, <4>1
      <4> QED
        BY <1>0, <3>3, <3>4, <4>1, <4>2 DEF QueueInv, IsSend
    <3> QED
      BY <2>0, <3>1, <3>4 DEF QueueInv, IsSend
  <2>6. ASSUME NEW t \in Threads, SetDisconnecting(t) PROVE QueueInv'
    BY <1>0, <2>6 DEF SetDisconnecting, QueueInv, IsSend, Asked
  <2>7. ASSUME NEW t \in Threads, StartSend(t) \/ StartShutdown(t) PROVE QueueInv'
    <3>1. /\ queue' = queue
          /\ \A r \in Threads : place'[r] = "queueShutdown" => place[r] = "queueShutdown"
      BY <1>0, <2>7 DEF StartSend, StartShutdown, TypeOK
    <3> QED
      BY <1>0, <2>0, <3>1 DEF QueueInv, IsSend
  <2>8. ASSUME NEW t \in Threads, Release(t) PROVE QueueInv'
    BY <1>1, <2>0, <2>8 DEF Release, QueueKept
  <2> QED
    BY <1>3, <2>1, <2>2, <2>3, <2>4, <2>5, <2>6, <2>7, <2>8 DEF Next, LoopStep, ThreadStep
<1> QED
  BY <1>2, <1>3

\* A step that shuts the socket before what is queued, or not at all, and the bytes
\* that were given before that.
ShutEarlyOrNot == UNCHANGED <<shut, early>> \/ (shut' = TRUE /\ early' = TRUE /\ Asked')
Counted == before' <= accepted' /\ (~shut' => before' = accepted')

LEMMA EarlyOrNot ==
  ASSUME TypeOK, EarlyMarked, Asked', shut' = shut \/ shut' = TRUE
  PROVE  ShutEarlyOrNot
  BY DEF TypeOK, EarlyMarked, ShutEarlyOrNot

LEMMA CountKept ==
  ASSUME EndInv, UNCHANGED <<accepted, before>>, shut => shut'
  PROVE  Counted
  BY DEF EndInv, Counted

LEMMA EndKept ==
  ASSUME EndInv, UNCHANGED queue, Asked => Asked', ShutEarlyOrNot, Counted
  PROVE  EndInv'
  BY DEF EndInv, IsSend, ShutEarlyOrNot, Counted

LEMMA SendCounts ==
  ASSUME IInv, NEW len \in MsgLens, SendInLoop(len), UNCHANGED shut
  PROVE  Counted
<1>1. /\ before \in Nat /\ accepted \in Nat /\ len \in Nat /\ before <= accepted
  BY MessageLength, MaxBytesIsNat DEF IInv, TypeOK, EndInv
<1>2. accepted' = accepted + len /\ before' = IF shut THEN before ELSE accepted'
  BY DEF SendInLoop
<1> QED
  BY <1>1, <1>2 DEF Counted

LEMMA EndStep == IInv /\ [Next]_vars => EndInv'
<1> SUFFICES ASSUME IInv, [Next]_vars PROVE EndInv'
  OBVIOUS
<1>0. TypeOK /\ QueueInv /\ EndInv /\ EventsInv /\ WriteInv
  BY DEF IInv
<1>1. CASE UNCHANGED vars
  BY <1>0, <1>1 DEF vars, connVars, endVars, EndInv, IsSend, Asked
<1>2. CASE Next
  <2>0. Asked => Asked'
    BY <1>2, AskedForGood
  <2>1. CASE UNCHANGED <<queue, accepted, before>> /\ ShutEarlyOrNot
    <3>1. shut => shut'
      BY <2>1 DEF ShutEarlyOrNot
    <3>2. Counted
      BY <1>0, <2>1, <3>1, CountKept
    <3> QED
      BY <1>0, <2>0, <2>1, <3>2, EndKept
  <2>2. ASSUME UNCHANGED <<queue, shut, accepted, endVars>> PROVE EndInv'
    BY <2>1, <2>2 DEF ShutEarlyOrNot, endVars
  <2>3. CASE NewConnection \/ HandleRead \/ HandleWrite \/ WriteSome
    BY <2>2, <2>3 DEF NewConnection, HandleRead, HandleClose, HandleWrite, WriteSome
  <2>4. CASE PeerStep
    BY <2>2, <2>4 DEF PeerStep, PeerSends, PeerReads, PeerCloses, PeerResets
  <2>5. CASE DestroyServer
    <3>1. UNCHANGED <<queue, accepted, before>>
      BY <2>5 DEF DestroyServer
    <3>2. UNCHANGED <<shut, early>> \/ (EarlyMarked /\ Asked' /\ (shut' = shut \/ shut' = TRUE))
      BY <1>0, <2>5
      DEF DestroyServer, ShutdownEarly, ShutdownInLoop, EarlyMarked, Asked, TypeOK
    <3> QED
      BY <1>0, <2>1, <3>1, <3>2, EarlyOrNot DEF ShutEarlyOrNot
  <2>6. CASE Shutdown
    <3>1. UNCHANGED <<queue, accepted, before>>
      BY <2>6 DEF Shutdown
    <3>2. EarlyMarked /\ Asked' /\ (shut' = shut \/ shut' = TRUE)
      BY <1>0, <2>6 DEF Shutdown, ShutdownEarly, ShutdownInLoop, EarlyMarked, Asked, TypeOK
    <3> QED
      BY <1>0, <2>1, <3>1, <3>2, EarlyOrNot
  <2>7. CASE WriteReturns
    <3>1. UNCHANGED <<queue, accepted, before>>
      BY <2>7 DEF WriteReturns
    <3>2. Sent \/ SentPartly \/ Drained \/ DrainedPartly
      BY <1>0, <2>7, WriteReturnsStep
    <3>3. CASE Sent \/ SentPartly \/ DrainedPartly
      BY <2>1, <3>1, <3>3 DEF Sent, SentPartly, DrainedPartly, ShutEarlyOrNot
    <3>4. CASE Drained
      <4>1. EarlyMarked /\ (shut' = shut \/ (shut' = TRUE /\ Asked))
        BY <3>4 DEF Drained
      <4>2. CASE shut' = shut
        BY <1>0, <2>1, <3>1, <4>1, <4>2 DEF EarlyMarked, ShutEarlyOrNot, TypeOK
      <4>3. CASE shut' = TRUE /\ Asked
        BY <1>0, <2>0, <2>1, <3>1, <4>1, <4>3, EarlyOrNot
      <4> QED
        BY <4>1, <4>2, <4>3
    <3> QED
      BY <3>2, <3>3, <3>4
  <2>8. ASSUME NEW len \in MsgLens, Send(len) PROVE EndInv'
    <3>1. Counted
      BY <2>8, SendCounts DEF Send
    <3> QED
      BY <1>0, <2>0, <2>8, <3>1, EndKept DEF Send, ShutEarlyOrNot
  <2>9. CASE RunFunctor
    <3>1. queue # <<>> /\ queue' = Tail(queue) /\ early' = early
      BY <2>9 DEF RunFunctor
    <3>2. /\ Head(queue) \in Functors /\ Head(queue) = queue[1] /\ 1 \in DOMAIN queue
          /\ \A i \in DOMAIN queue' : i + 1 \in DOMAIN queue /\ queue'[i] = queue[i + 1] /\ 1 < i + 1
      BY <1>0, <3>1, QueueTail
    <3>3. CASE Head(queue).op = "send"
      <4>1. Head(queue).len \in MsgLens
        BY <3>2, <3>3 DEF Functors
      <4>2. SendInLoop(Head(queue).len) /\ shut' = shut
        BY <2>9, <3>3 DEF RunFunctor
      <4>3. Counted
        BY <4>1, <4>2, SendCounts
      <4>4. shut' /\ ~early' => \A i \in DOMAIN queue' : queue'[i].op = "send" => queue'[i].late
        BY <1>0, <3>1, <3>2, <4>2 DEF EndInv, IsSend
      <4> QED
        BY <1>0, <2>0, <4>2, <4>3, <4>4 DEF EndInv, IsSend, Counted
    <3>4. CASE Head(queue).op # "send"
      <4>1. UNCHANGED <<accepted, before>> /\ (shut => shut')
        BY <2>9, <3>4 DEF RunFunctor, ShutdownInLoop
      <4>2. Counted
        BY <1>0, <4>1, CountKept
      <4>3. Asked /\ \A j \in DOMAIN queue : 1 < j /\ queue[j].op = "send" => queue[j].late
        BY <1>0, <3>2, <3>4 DEF QueueInv, IsSend
      <4>4. \A i \in DOMAIN queue' : queue'[i].op = "send" => queue'[i].late
        BY <3>2, <4>3
      <4> QED
        BY <2>0, <4>2, <4>3, <4>4 DEF EndInv, IsSend, Counted
    <3> QED
      BY <3>3, <3>4
  <2>10. ASSUME NEW t \in Threads, NEW len \in MsgLens, QueueSend(t, len) PROVE EndInv'
    <3> DEFINE f == [op |-> "send", len |-> len, late |-> Asked]
    <3>1. f \in Functors /\ queue' = Append(queue, f) /\ f.late = Asked
      BY <2>10 DEF QueueSend, Functors, Asked
    <3> HIDE DEF f
    <3>2. /\ DOMAIN queue' = 1 .. Len(queue) + 1
          /\ \A i \in 1 .. Len(queue) : queue'[i] = queue[i]
          /\ queue'[Len(queue) + 1] = f
      BY <1>0, <3>1, QueueAppend
    <3>3. Len(queue) \in Nat /\ DOMAIN queue = 1 .. Len(queue)
      BY <1>0, QueueElements
    <3>4. UNCHANGED <<shut, early, accepted, before>>
      BY <2>10 DEF QueueSend, endVars
    <3>5. ASSUME shut, ~early, NEW i \in DOMAIN queue', queue'[i].op = "send" PROVE queue'[i].late
      <4>1. CASE i \in 1 .. Len(queue)
        BY <1>0, <3>2, <3>3, <3>5, <4>1 DEF EndInv, IsSend
      <4>2. CASE i = Len(queue) + 1
        BY <1>0, <3>1, <3>2, <3>5, <4>2 DEF EndInv
      <4> QED
        BY <3>2, <3>3, <3>5, <4>1, <4>2
    <3> QED
      BY <1>0, <2>0, <3>4, <3>5 DEF EndInv, IsSend
  <2>11. ASSUME NEW t \in Threads, QueueShutdown(t) PROVE EndInv'
    <3> DEFINE f == [op |-> "shutdown"]
    <3>1. f \in Functors /\ queue' = Append(queue, f) /\ f.op # "send"
      BY <2>11 DEF QueueShutdown, Functors
    <3> HIDE DEF f
    <3>2. /\ DOMAIN queue' = 1 .. Len(queue) + 1
          /\ \A i \in 1 .. Len(queue) : queue'[i] = queue[i]
          /\ queue'[Len(queue) + 1] = f
      BY <1>0, <3>1, QueueAppend
    <3>3. Len(queue) \in Nat /\ DOMAIN queue = 1 .. Len(queue)
      BY <1>0, QueueElements
    <3>4. UNCHANGED <<shut, early, accepted, before>>
      BY <2>11 DEF QueueShutdown, endVars
    <3>5. ASSUME shut, ~early, NEW i \in DOMAIN queue', queue'[i].op = "send" PROVE queue'[i].late
      <4>1. i \in 1 .. Len(queue)
        BY <3>1, <3>2, <3>3, <3>5
      <4> QED
        BY <1>0, <3>2, <3>3, <3>5, <4>1 DEF EndInv, IsSend
    <3> QED
      BY <1>0, <2>0, <3>4, <3>5 DEF EndInv, IsSend
  <2>12. ASSUME NEW t \in Threads, SetDisconnecting(t) \/ StartSend(t) \/ StartShutdown(t) \/ Release(t)
         PROVE  EndInv'
    BY <2>2, <2>12 DEF SetDisconnecting, StartSend, StartShutdown, Release
  <2> QED
    BY <1>2, <2>3, <2>4, <2>5, <2>6, <2>7, <2>8, <2>9, <2>10, <2>11, <2>12
    DEF Next, LoopStep, ThreadStep
<1> QED
  BY <1>1, <1>2

LEMMA InitIInv == Init => IInv
<1> SUFFICES ASSUME Init PROVE IInv
  OBVIOUS
<1>1. TypeOK
  BY TypeInit
<1>2. FreshInv /\ StateInv /\ EventsInv
  BY DEF Init, FreshInv, StateInv, EventsInv
<1>3. WriteInv
  BY EmptySeq DEF Init, WriteInv, NoWrite
<1>4. queue = <<>> /\ DOMAIN queue = {}
  BY DEF Init
<1>5. QueueInv /\ EndInv
  BY <1>4 DEF Init, QueueInv, EndInv
<1> QED
  BY <1>1, <1>2, <1>3, <1>5 DEF IInv

LEMMA StepIInv == IInv /\ [Next]_vars => IInv'
  BY TypeStep, FreshStep, StateStep, EventsStep, WriteStep, QueueStep, EndStep DEF IInv

THEOREM Invariance == Spec => []IInv
  BY InitIInv, StepIInv, PTL DEF Spec

\* tcp_connection.h: every variable of a connection keeps its type, the kernel's send
\* buffer its bound, and a write() its bytes, whatever threads, peer and signals do.
THEOREM TypeCorrect == Spec => []TypeOK
  BY Invariance, PTL DEF IInv

\* tcp_connection.cpp:203-211: the assertion of handleClose() holds whenever the
\* channel can report anything.
LEMMA CloseAssertFromIInv == IInv => CloseAssert
  BY DEF IInv, StateInv, CloseAssert

THEOREM CloseAssertHolds == Spec => []CloseAssert
  BY Invariance, CloseAssertFromIInv, PTL

\* tcp_connection.cpp:124-136, 177-183: between two calls of the loop's thread the
\* channel waits for room exactly while bytes are buffered.
LEMMA WriteEventFromIInv == IInv => WriteEventIffBuffered
  BY DEF IInv, EventsInv, WriteEventIffBuffered

THEOREM WaitsIffBuffered == Spec => []WriteEventIffBuffered
  BY Invariance, WriteEventFromIInv, PTL

-----------------------------------------------------------------------------
(* The bytes on their way. *)

\* What the program has given and the kernel not taken, by whether a write() runs.
Rest == IF write = NoWrite THEN out ELSE write.todo

LEMMA RestOfConcat ==
  ASSUME NEW S, NEW s \in Seq(S), NEW u \in Seq(S)
  PROVE  SubSeq(s \o u, Len(s) + 1, Len(s \o u)) = u
<1>1. Len(s) \in Nat /\ Len(u) \in Nat /\ Len(s \o u) = Len(s) + Len(u)
  BY LenProperties, ConcatProperties
<1>2. CASE u = <<>>
  <2>1. Len(u) = 0
    BY <1>2, EmptySeq
  <2>2. SubSeq(s \o u, Len(s) + 1, Len(s \o u)) = <<>>
    BY <1>1, <2>1, SubSeqEmpty
  <2> QED
    BY <1>2, <2>2
<1>3. CASE u # <<>>
  <2>1. Len(u) > 0
    BY <1>3, EmptySeq
  <2>2. /\ Len(s) + 1 \in Len(s) + 1 .. Len(s) + Len(u)
        /\ Len(s) + Len(u) \in Len(s) + 1 .. Len(s) + Len(u)
        /\ Len(s) + 1 - Len(s) = 1 /\ Len(s) + Len(u) - Len(s) = Len(u)
    BY <1>1, <2>1
  <2>3. SubSeq(s \o u, Len(s) + 1, Len(s) + Len(u)) = SubSeq(u, 1, Len(u))
    BY <2>2, SubSeqOfConcat2
  <2> QED
    BY <1>1, <2>3, SubSeqFull
<1> QED
  BY <1>2, <1>3

LEMMA BytesOnTheirWay ==
  ASSUME IInv
  PROVE  /\ Rest \in Seq(1 .. MaxBytes)
         /\ snd \in Seq(1 .. MaxBytes) /\ delivered \in Seq(1 .. MaxBytes)
         /\ InFlight = delivered \o snd \o Rest
         /\ Untaken = Rest
<1>1. /\ TypeOK /\ WriteInv /\ out \in Seq(1 .. MaxBytes)
      /\ snd \in Seq(1 .. MaxBytes) /\ delivered \in Seq(1 .. MaxBytes)
  BY DEF IInv, TypeOK
<1> DEFINE taken == delivered \o snd
<1>2. taken \in Seq(1 .. MaxBytes)
  BY <1>1, ConcatProperties
<1>3. taken \o <<>> = taken
  BY <1>2, ConcatEmptySeq
<1>4. Rest \in Seq(1 .. MaxBytes) /\ InFlight = taken \o Rest
  <2>1. CASE write = NoWrite
    <3>1. write.from # "send" /\ write.from # "handleWrite"
      BY <2>1 DEF NoWrite
    <3>2. InFlight = taken \o <<>> \o out
      BY <3>1 DEF InFlight
    <3> QED
      BY <1>1, <1>3, <2>1, <3>2 DEF Rest
  <2>2. CASE write # NoWrite /\ write.from = "send"
    <3>1. write.todo \in Seq(1 .. MaxBytes) /\ out = <<>>
      BY <1>1, <2>2, WriteShape DEF WriteInv
    <3>2. InFlight = taken \o write.todo \o out
      BY <2>2 DEF InFlight
    <3>3. taken \o write.todo \in Seq(1 .. MaxBytes)
      BY <1>2, <3>1, ConcatProperties
    <3> QED
      BY <2>2, <3>1, <3>2, <3>3, ConcatEmptySeq DEF Rest
  <2>3. CASE write # NoWrite /\ write.from = "handleWrite"
    <3>1. write.todo \in Seq(1 .. MaxBytes) /\ write.todo = SubSeq(out, write.n + 1, Len(out))
      BY <1>1, <2>3, WriteShape DEF WriteInv
    <3>2. InFlight = taken \o <<>> \o write.todo
      BY <2>3, <3>1 DEF InFlight
    <3> QED
      BY <1>3, <2>3, <3>1, <3>2 DEF Rest
  <2> QED
    BY <1>1, <2>1, <2>2, <2>3, WriteShape
<1>5. Untaken = SubSeq(taken \o Rest, Len(taken) + 1, Len(taken \o Rest))
  BY <1>4 DEF Untaken
<1> HIDE DEF taken
<1>6. Untaken = Rest
  BY <1>2, <1>4, <1>5, RestOfConcat
<1> QED
  BY <1>1, <1>4, <1>6 DEF taken

-----------------------------------------------------------------------------
(* A connection is a stream of bytes: each step of it is one of the stream. *)

Closed == object # "none" /\ ~inMap

\* What steps of the stream have in common, in the connection's variables.
SameFlow ==
  /\ Rest' = Rest /\ UNCHANGED <<accepted, before, snd, delivered>>
  /\ (reset' = "no") = (reset = "no")
SameEnd == UNCHANGED <<shut, early>> /\ Asked' = Asked /\ Closed' = Closed
SameBacklog == (out' # <<>>) = (out # <<>>)
ShutWhenEmpty == shut' = shut \/ (shut' = TRUE /\ Rest = <<>>)
\* Bytes are taken from the program; only a closed connection refuses them.
Given(len) ==
  /\ accepted' = accepted + len
  /\ before' = IF shut THEN before ELSE accepted'
  /\ Rest' = Rest \o Bytes(len) \/ (Closed /\ Rest' = Rest)
  /\ UNCHANGED <<snd, delivered, reset>> /\ SameEnd /\ SameBacklog

\* The steps themselves; PeerReads and PeerResets are their own.
GiveStep(len) == ~Asked /\ ~Closed /\ Given(len) /\ UNCHANGED queue
TakeStep ==
  /\ queue # <<>> /\ Head(queue).op = "send"
  /\ shut => Head(queue).late \/ early
  /\ queue' = Tail(queue)
  /\ Given(Head(queue).len)
PostStep(len) ==
  /\ queue' = Append(queue, [op |-> "send", len |-> len, late |-> Asked])
  /\ SameFlow /\ SameEnd /\ SameBacklog
AskStep ==
  /\ Asked' /\ Closed' = Closed /\ UNCHANGED <<queue, shut, early>>
  /\ SameFlow /\ SameBacklog
PostEndStep ==
  /\ Asked /\ queue' = Append(queue, [op |-> "shutdown"])
  /\ SameFlow /\ SameEnd /\ SameBacklog
TakeEndStep ==
  /\ queue # <<>> /\ Head(queue).op = "shutdown" /\ queue' = Tail(queue)
  /\ ShutWhenEmpty /\ UNCHANGED early
  /\ Asked' = Asked /\ Closed' = Closed
  /\ SameFlow /\ SameBacklog
EndHereStep ==
  /\ ~Asked /\ Asked' /\ (Closed' = Closed \/ Closed')
  /\ ShutWhenEmpty /\ EarlyMarked /\ UNCHANGED queue
  /\ SameFlow /\ SameBacklog
CloseStep ==
  /\ Asked' /\ Closed' /\ UNCHANGED <<queue, shut, early>>
  /\ SameFlow /\ SameBacklog
TransmitStep ==
  /\ ~shut /\ reset = "no"
  /\ \E k \in 1 .. Len(Rest) :
       /\ snd' = snd \o SubSeq(Rest, 1, k)
       /\ Rest' = SubSeq(Rest, k + 1, Len(Rest))
  /\ UNCHANGED <<queue, accepted, before, delivered, reset>> /\ SameEnd /\ SameBacklog
HoldStep == Rest # <<>> /\ out' # <<>> /\ UNCHANGED queue /\ SameFlow /\ SameEnd
DrainStep ==
  /\ out # <<>> /\ Rest = <<>> /\ out' = <<>>
  /\ shut' = shut \/ (shut' = TRUE /\ Asked)
  /\ EarlyMarked /\ UNCHANGED queue
  /\ Asked' = Asked /\ Closed' = Closed
  /\ SameFlow
LoseStep ==
  /\ shut \/ reset # "no"
  /\ Rest' = <<>>
  /\ UNCHANGED <<queue, accepted, before, snd, delivered>>
  /\ (reset' = "no") = (reset = "no")
  /\ SameEnd /\ SameBacklog
SameStream == UNCHANGED queue /\ SameFlow /\ SameEnd /\ SameBacklog

ProgramStep ==
  \/ \E len \in MsgLens : GiveStep(len) \/ PostStep(len)
  \/ TakeStep \/ AskStep \/ PostEndStep \/ TakeEndStep \/ EndHereStep \/ CloseStep
NetworkStep == TransmitStep \/ HoldStep \/ DrainStep \/ PeerReads \/ PeerResets \/ LoseStep
StreamStep == ProgramStep \/ NetworkStep \/ SameStream

LEMMA UntakenIsRest == IInv => Untaken = Rest
  BY BytesOnTheirWay

LEMMA UntakenStays ==
  ASSUME IInv, IInv'
  PROVE  Untaken = Rest /\ Untaken' = Rest'
<1>1. Untaken = Rest
  BY UntakenIsRest
<1>2. (IInv => Untaken = Rest)'
  BY UntakenIsRest, PTL
<1> QED
  BY <1>1, <1>2

LEMMA ProgramOfSteps ==
  ASSUME IInv, IInv', ProgramStep
  PROVE  Stream!Next
<1>1. Untaken = Rest /\ Untaken' = Rest'
  BY UntakenStays
<1>2. shut \in BOOLEAN /\ shut' \in BOOLEAN
  BY DEF IInv, TypeOK
<1> USE DEF SameFlow, SameEnd, SameBacklog
<1>3. ASSUME NEW len \in MsgLens, GiveStep(len) PROVE Stream!Give(len)
  BY <1>1, <1>3 DEF GiveStep, Given, Closed, Asked, Bytes, Stream!Give, Stream!Message
<1>4. ASSUME NEW len \in MsgLens, PostStep(len) PROVE Stream!Post(len)
  BY <1>1, <1>4 DEF PostStep, Closed, Asked, Stream!Post
<1>5. TakeStep => Stream!Take
  BY <1>1 DEF TakeStep, Given, Closed, Asked, Bytes, Stream!Take, Stream!Message
<1>6. AskStep => Stream!Ask
  BY <1>1 DEF AskStep, Closed, Asked, Stream!Ask
<1>7. PostEndStep => Stream!PostEnd
  BY <1>1 DEF PostEndStep, Closed, Asked, Stream!PostEnd
<1>8. TakeEndStep => Stream!TakeEnd
  BY <1>1, <1>2 DEF TakeEndStep, ShutWhenEmpty, Closed, Asked, Stream!TakeEnd
<1>9. EndHereStep => Stream!EndHere
  BY <1>1, <1>2 DEF EndHereStep, ShutWhenEmpty, EarlyMarked, Closed, Asked, Stream!EndHere
<1>10. CloseStep => Stream!Close
  BY <1>1 DEF CloseStep, Closed, Asked, Stream!Close
<1> QED
  BY <1>3, <1>4, <1>5, <1>6, <1>7, <1>8, <1>9, <1>10 DEF ProgramStep, Stream!Next

LEMMA NetworkOfSteps ==
  ASSUME IInv, IInv', NetworkStep
  PROVE  Stream!Next
<1>1. Untaken = Rest /\ Untaken' = Rest'
  BY UntakenStays
<1>2. shut \in BOOLEAN /\ shut' \in BOOLEAN
  BY DEF IInv, TypeOK
<1> USE DEF SameFlow, SameEnd, SameBacklog
<1>3. TransmitStep => Stream!Transmit
  BY <1>1 DEF TransmitStep, Closed, Asked, Stream!Transmit
<1>4. HoldStep => Stream!Hold
  BY <1>1 DEF HoldStep, Closed, Asked, Stream!Hold
<1>5. DrainStep => Stream!Drain
  BY <1>1, <1>2 DEF DrainStep, EarlyMarked, Closed, Asked, Stream!Drain
<1>6. PeerReads => Stream!Receive
  BY <1>1 DEF PeerReads, Stream!Receive, Rest, Asked, connVars, endVars
<1>7. PeerResets => Stream!Break
  BY <1>1 DEF PeerResets, Stream!Break, Rest, Asked, connVars, endVars
<1>8. LoseStep => Stream!Lose
  BY <1>1 DEF LoseStep, Closed, Asked, Stream!Lose
<1> QED
  BY <1>3, <1>4, <1>5, <1>6, <1>7, <1>8 DEF NetworkStep, Stream!Next

\* sendInLoop() gives the stream its message; only a closed connection refuses it.
LEMMA SendIsGive ==
  ASSUME IInv, object # "none", write = NoWrite, NEW len \in MsgLens, SendInLoop(len),
         UNCHANGED <<object, state, inMap, snd, delivered, shut, early, reset>>
  PROVE  Given(len)
<1>1. /\ TypeOK /\ StateInv /\ EventsInv /\ MaxBytes \in Nat /\ accepted \in Nat /\ len \in Nat
      /\ len > 0 /\ out \in Seq(1 .. MaxBytes)
  BY MaxBytesIsNat, MessageLength DEF IInv, TypeOK
<1>2. /\ accepted' = accepted + len /\ accepted' <= MaxBytes
      /\ before' = IF shut THEN before ELSE accepted'
      /\ Refused \/ Begun(len) \/ Buffered(len)
  BY <1>1, SendInLoopStep
<1>3. Bytes(len) \in Seq(1 .. MaxBytes)
  BY <1>1, <1>2, BytesAreSeq
<1>4. Closed' = Closed /\ SameEnd
  BY DEF Closed, SameEnd, Asked
<1>5. CASE Refused
  <2>1. Closed /\ Rest' = Rest /\ SameBacklog
    BY <1>1, <1>5 DEF Refused, Closed, Rest, StateInv, SameBacklog
  <2> QED
    BY <1>2, <1>4, <2>1 DEF Given
<1>6. CASE Begun(len)
  <2>1. Rest = <<>> /\ Rest' = Bytes(len) /\ SameBacklog
    BY <1>6 DEF Begun, Rest, NoWrite, SameBacklog
  <2>2. <<>> \o Bytes(len) = Bytes(len)
    BY <1>3, ConcatEmptySeq
  <2> QED
    BY <1>2, <1>4, <2>1, <2>2 DEF Given
<1>7. CASE Buffered(len)
  <2>1. Rest' = Rest \o Bytes(len)
    BY <1>7 DEF Buffered, Rest
  <2>2. out # <<>> /\ out' # <<>>
    BY <1>1, <1>3, <1>7, LongerIsNotEmpty DEF Buffered
  <2> QED
    BY <1>2, <1>4, <2>1, <2>2 DEF Given, SameBacklog
<1> QED
  BY <1>2, <1>5, <1>6, <1>7

\* What a shutdown() closes has no byte left, unless CHANNEL_WRITE keeps it open.
LEMMA ShutdownIsEnd ==
  ASSUME IInv, write = NoWrite, ShutdownInLoop(events)
  PROVE  ShutWhenEmpty
<1>1. shut \in BOOLEAN /\ EventsInv
  BY DEF IInv, TypeOK
<1>2. CASE "WRITE" \in events
  BY <1>1, <1>2 DEF ShutdownInLoop, ShutWhenEmpty
<1>3. CASE "WRITE" \notin events
  BY <1>1, <1>3 DEF ShutdownInLoop, EventsInv, Rest, ShutWhenEmpty
<1> QED
  BY <1>2, <1>3

LEMMA ReturnIsStep ==
  ASSUME IInv, WriteReturns
  PROVE  SameStream \/ HoldStep \/ DrainStep \/ LoseStep
<1>1. TypeOK /\ EventsInv /\ WriteInv
  BY DEF IInv
<1>2. /\ write # NoWrite /\ write' = NoWrite
      /\ Sent \/ SentPartly \/ Drained \/ DrainedPartly
  BY <1>1, WriteReturnsStep
<1>3. /\ UNCHANGED <<queue, accepted, before, snd, delivered>>
      /\ Closed' = Closed /\ Asked' = Asked
      /\ (reset' = "no") = (reset = "no")
  BY DEF WriteReturns, Closed, Asked
<1>4. Rest = write.todo /\ Rest' = out'
  BY <1>2 DEF Rest
<1>5. CASE Sent
  <2>1. out = <<>> /\ out' = <<>> /\ UNCHANGED <<shut, early>>
    BY <1>1, <1>5 DEF Sent, WriteInv
  <2>2. SameEnd /\ SameBacklog
    BY <1>3, <2>1 DEF SameEnd, SameBacklog
  <2>3. CASE write.todo = <<>>
    BY <1>3, <1>4, <2>1, <2>2, <2>3 DEF SameStream, SameFlow
  <2>4. CASE Broken
    BY <1>3, <1>4, <2>1, <2>2, <2>4 DEF LoseStep, Broken
  <2> QED
    BY <1>5, <2>3, <2>4 DEF Sent
<1>6. CASE SentPartly
  BY <1>3, <1>4, <1>6 DEF SentPartly, HoldStep, SameFlow, SameEnd
<1>7. CASE Drained
  BY <1>1, <1>3, <1>4, <1>7 DEF Drained, WriteInv, DrainStep, SameFlow
<1>8. CASE DrainedPartly
  <2>1. out # <<>> /\ out' # <<>> /\ Rest' = Rest /\ UNCHANGED <<shut, early>>
    BY <1>1, <1>4, <1>8 DEF DrainedPartly, WriteInv
  <2> QED
    BY <1>3, <2>1 DEF SameStream, SameFlow, SameEnd, SameBacklog
<1> QED
  BY <1>2, <1>5, <1>6, <1>7, <1>8

\* What the other threads do to the stream.
LEMMA ThreadIsStep ==
  ASSUME IInv, NEW t \in Threads, ThreadStep(t), object # "none", object' # "none"
  PROVE  StreamStep
<1>1. /\ UNCHANGED <<out, inMap, write, snd, delivered, reset, shut, accepted, early, before>>
      /\ SameFlow /\ SameBacklog /\ Closed' = Closed
  BY ThreadFrame DEF peerVars, endVars, SameFlow, SameBacklog, Closed, Rest
<1>2. ASSUME UNCHANGED state PROVE SameEnd
  BY <1>1, <1>2 DEF SameEnd, Asked
<1>3. CASE StartSend(t) \/ StartShutdown(t) \/ Release(t)
  BY <1>1, <1>2, <1>3 DEF StartSend, StartShutdown, Release, connVars, StreamStep, SameStream
<1>4. ASSUME NEW len \in MsgLens, QueueSend(t, len) PROVE StreamStep
  <2>1. SameEnd
    BY <1>2, <1>4 DEF QueueSend, connVars
  <2> QED
    BY <1>1, <1>4, <2>1 DEF QueueSend, StreamStep, ProgramStep, PostStep
<1>5. CASE SetDisconnecting(t)
  <2>1. Asked' /\ UNCHANGED queue
    BY <1>5 DEF SetDisconnecting, Asked
  <2> QED
    BY <1>1, <2>1 DEF StreamStep, ProgramStep, AskStep
<1>6. CASE QueueShutdown(t)
  <2>1. SameEnd /\ Asked
    BY <1>2, <1>6 DEF QueueShutdown, connVars, IInv, QueueInv
  <2> QED
    BY <1>1, <1>6, <2>1 DEF QueueShutdown, StreamStep, ProgramStep, PostEndStep
<1> QED
  BY <1>3, <1>4, <1>5, <1>6 DEF ThreadStep

LEMMA FunctorIsStep ==
  ASSUME IInv, RunFunctor, object # "none"
  PROVE  TakeStep \/ TakeEndStep
<1>0. TypeOK /\ EndInv
  BY DEF IInv
<1>1. /\ queue # <<>> /\ queue' = Tail(queue) /\ write = NoWrite
      /\ UNCHANGED <<object, state, inMap, snd, delivered, reset, early>>
  BY DEF RunFunctor, LoopFree, peerVars
<1>2. Head(queue) \in Functors /\ Head(queue) = queue[1] /\ 1 \in DOMAIN queue
  BY <1>0, <1>1, QueueTail
<1>3. CASE Head(queue).op = "send"
  <2>1. Head(queue).len \in MsgLens
    BY <1>2, <1>3 DEF Functors
  <2>2. SendInLoop(Head(queue).len) /\ shut' = shut
    BY <1>3 DEF RunFunctor
  <2>3. Given(Head(queue).len)
    BY <1>1, <2>1, <2>2, SendIsGive
  <2>4. shut => Head(queue).late \/ early
    BY <1>0, <1>2, <1>3 DEF EndInv, IsSend
  <2> QED
    BY <1>1, <1>3, <2>3, <2>4 DEF TakeStep
<1>4. CASE Head(queue).op # "send"
  <2>1. Head(queue).op = "shutdown"
    BY <1>2, <1>4 DEF Functors
  <2>2. ShutdownInLoop(events) /\ UNCHANGED <<out, write, accepted, before>>
    BY <1>4 DEF RunFunctor
  <2>3. Asked' = Asked /\ Closed' = Closed /\ SameFlow /\ SameBacklog
    BY <1>1, <2>2 DEF Asked, Closed, SameFlow, SameBacklog, Rest
  <2> QED
    BY <1>1, <2>1, <2>2, <2>3, ShutdownIsEnd DEF TakeEndStep
<1> QED
  BY <1>3, <1>4

LEMMA StepsOfStream == IInv /\ [Next]_vars => StreamStep
<1> SUFFICES ASSUME IInv, [Next]_vars PROVE StreamStep
  OBVIOUS
<1>0. TypeOK /\ StateInv /\ EventsInv /\ WriteInv /\ FreshInv
  BY DEF IInv
<1>1. CASE /\ UNCHANGED <<state, accepted, before, out, write, snd, delivered, shut, early, inMap>>
           /\ UNCHANGED <<queue, reset>>
           /\ (object = "none") = (object' = "none")
  BY <1>1 DEF StreamStep, SameStream, SameFlow, SameEnd, SameBacklog, Closed, Asked, Rest
<1>2. CASE NewConnection
  <2>1. /\ UNCHANGED <<accepted, before, out, write, snd, delivered, shut, early, queue, reset>>
        /\ Asked' = Asked /\ Closed' = Closed
    BY <1>0, <1>2 DEF NewConnection, FreshInv, Asked, Closed, peerVars, endVars
  <2> QED
    BY <2>1 DEF StreamStep, SameStream, SameFlow, SameEnd, SameBacklog, Rest
<1>3. CASE UNCHANGED vars
  BY <1>1, <1>3 DEF vars, connVars, peerVars, endVars
<1>4. CASE object = "none" /\ Next
  BY <1>2, <1>4, FreshFirst
<1>5. CASE object # "none" /\ Next
  <2>0. object' # "none"
    BY <1>5, ObjectStays
  <2>1. CASE DestroyServer
    <3>1. /\ write = NoWrite /\ Closed' /\ UNCHANGED queue /\ SameFlow /\ SameBacklog
      BY <2>0, <2>1
      DEF DestroyServer, DropReference, LoopFree, Closed, Rest, SameFlow, SameBacklog, peerVars
    <3>2. CASE state = "kConnected"
      <4>1. ShutdownInLoop(events) /\ EarlyMarked /\ ~Asked /\ Asked'
        BY <2>1, <3>2 DEF DestroyServer, ShutdownEarly, EarlyMarked, Asked
      <4> QED
        BY <3>1, <4>1, ShutdownIsEnd DEF StreamStep, ProgramStep, EndHereStep
    <3>3. CASE state # "kConnected"
      <4>1. UNCHANGED <<shut, early>> /\ Asked'
        BY <1>0, <2>1, <3>3 DEF DestroyServer, Asked, StateInv
      <4> QED
        BY <3>1, <4>1 DEF StreamStep, ProgramStep, CloseStep
    <3> QED
      BY <3>2, <3>3
  <2>2. CASE HandleRead
    <3>1. CASE readable
      BY <1>1, <2>2, <3>1 DEF HandleRead, connVars, endVars
    <3>2. CASE ~readable /\ reset = "error"
      <4>1. /\ UNCHANGED <<state, object, inMap, accepted, before, out, write, snd, delivered>>
            /\ UNCHANGED <<shut, early, queue>> /\ reset = "error" /\ reset' = "seen"
        BY <2>2, <3>2 DEF HandleRead, connVars, endVars
      <4> QED
        BY <4>1 DEF StreamStep, SameStream, SameFlow, SameEnd, SameBacklog, Closed, Asked, Rest
    <3>3. CASE ~readable /\ reset # "error"
      <4>1. HandleClose
        BY <2>2, <3>3 DEF HandleRead
      <4>2. Asked' /\ Closed' /\ UNCHANGED <<queue, shut, early>> /\ SameFlow /\ SameBacklog
        BY <2>0, <4>1
        DEF HandleClose, DropReference, Closed, Asked, Rest, SameFlow, SameBacklog, peerVars, endVars
      <4> QED
        BY <4>2 DEF StreamStep, ProgramStep, CloseStep
    <3> QED
      BY <3>1, <3>2, <3>3
  <2>3. CASE HandleWrite
    <3>1. Rest' = Rest
      BY <2>3 DEF HandleWrite, LoopFree, Rest, NoWrite, connVars
    <3> QED
      BY <2>3, <3>1 DEF HandleWrite, StreamStep, SameStream, SameFlow, SameEnd, SameBacklog, Closed,
                        Asked, connVars, peerVars, endVars
  <2>4. CASE WriteSome
    <3>1. PICK k \in 1 .. Len(write.todo) :
            /\ snd' = snd \o SubSeq(write.todo, 1, k)
            /\ write' = [write EXCEPT !.todo = SubSeq(@, k + 1, Len(@)), !.n = @ + k]
      BY <1>0, <2>4, TakenSome
    <3>2. write # NoWrite
      BY <2>4 DEF WriteSome
    <3>3. write' # NoWrite /\ write'.todo = SubSeq(write.todo, k + 1, Len(write.todo))
      BY <1>0, <3>1, <3>2, TakenIsCall
    <3>4. Rest = write.todo /\ Rest' = SubSeq(Rest, k + 1, Len(Rest))
      BY <3>2, <3>3 DEF Rest
    <3>5. /\ ~shut /\ reset = "no" /\ UNCHANGED <<queue, accepted, before, delivered, reset>>
          /\ SameEnd /\ SameBacklog
      BY <2>4 DEF WriteSome, Broken, SameEnd, SameBacklog, Closed, Asked, connVars, peerVars, endVars
    <3> QED
      BY <3>1, <3>4, <3>5 DEF StreamStep, NetworkStep, TransmitStep
  <2>5. CASE WriteReturns
    BY <2>5, ReturnIsStep DEF StreamStep, NetworkStep
  <2>6. CASE Shutdown
    <3>1. /\ write = NoWrite /\ Closed' = Closed /\ UNCHANGED queue /\ SameFlow /\ SameBacklog
      BY <2>6 DEF Shutdown, LoopFree, Closed, Rest, SameFlow, SameBacklog, peerVars
    <3>2. ShutdownInLoop(events) /\ EarlyMarked /\ ~Asked /\ Asked'
      BY <2>6 DEF Shutdown, ShutdownEarly, EarlyMarked, Asked
    <3> QED
      BY <3>1, <3>2, ShutdownIsEnd DEF StreamStep, ProgramStep, EndHereStep
  <2>7. ASSUME NEW len \in MsgLens, Send(len) PROVE StreamStep
    <3>1. /\ write = NoWrite /\ SendInLoop(len) /\ ~Asked /\ ~Closed
          /\ UNCHANGED <<object, state, inMap, queue, snd, delivered, shut, early, reset>>
      BY <2>7 DEF Send, LoopFree, Asked, Closed, peerVars
    <3>2. Given(len)
      BY <1>5, <3>1, SendIsGive
    <3> QED
      BY <3>1, <3>2 DEF StreamStep, ProgramStep, GiveStep
  <2>8. CASE RunFunctor
    BY <1>5, <2>8, FunctorIsStep DEF StreamStep, ProgramStep
  <2>9. ASSUME NEW t \in Threads, ThreadStep(t) PROVE StreamStep
    BY <1>5, <2>0, <2>9, ThreadIsStep
  <2>10. CASE PeerSends \/ PeerCloses
    BY <1>1, <2>10 DEF PeerSends, PeerCloses, connVars, endVars
  <2>11. CASE PeerReads \/ PeerResets
    BY <2>11 DEF StreamStep, NetworkStep
  <2> QED
    BY <1>2, <1>5, <2>1, <2>2, <2>3, <2>4, <2>5, <2>6, <2>7, <2>8, <2>9, <2>10, <2>11
    DEF Next, LoopStep, PeerStep
<1> QED
  BY <1>3, <1>4, <1>5

\* tcp_connection.cpp:50-58, 95-137, 150-155, 175-200, 237-243: from send() and
\* shutdown() on, a connection implements the stream of bytes ByteStream describes, for
\* any number of threads, lengths of messages, room in the kernel, short writes,
\* interrupts and resets: the end overtakes no message posted before anyone asked for
\* it, except when handleWrite() or a shutdown() on the loop's thread makes it.
THEOREM ConnectionIsAByteStream == Spec => ImplementsByteStream
<1>1. Init => Stream!Init
  <2> SUFFICES ASSUME Init PROVE Stream!Init
    OBVIOUS
  <2>1. IInv /\ Rest = <<>>
    BY InitIInv DEF Init, Rest
  <2>2. Untaken = <<>>
    BY <2>1, UntakenIsRest
  <2> QED
    BY <2>2 DEF Init, Asked, Stream!Init
<1>2. IInv /\ IInv' /\ [Next]_vars => [Stream!Next]_(Stream!vars)
  <2> SUFFICES ASSUME IInv, IInv', [Next]_vars PROVE [Stream!Next]_(Stream!vars)
    OBVIOUS
  <2>1. StreamStep
    BY StepsOfStream
  <2>2. CASE SameStream
    <3>1. Untaken = Rest /\ Untaken' = Rest'
      BY UntakenStays
    <3> QED
      BY <2>2, <3>1
      DEF SameStream, SameFlow, SameEnd, SameBacklog, Closed, Asked, Stream!vars
  <2>3. CASE ~SameStream
    <3>1. Stream!Next
      BY <2>1, <2>3, ProgramOfSteps, NetworkOfSteps DEF StreamStep
    <3> QED
      BY <3>1
  <2> QED
    BY <2>2, <2>3
<1> QED
  BY <1>1, <1>2, Invariance, PTL DEF Spec, ImplementsByteStream, Stream!Spec

-----------------------------------------------------------------------------
(* Order and completeness of the output, from the stream alone. *)

\* Distinct numbers up to n, in ascending order.
Numbered(q, n) == Increasing(q) /\ \A i \in DOMAIN q : q[i] <= n

LEMMA ConcatElements ==
  ASSUME NEW S, NEW s \in Seq(S), NEW u \in Seq(S)
  PROVE  /\ s \o u \in Seq(S) /\ Len(s) \in Nat /\ Len(u) \in Nat
         /\ DOMAIN s = 1 .. Len(s) /\ DOMAIN u = 1 .. Len(u)
         /\ DOMAIN (s \o u) = 1 .. Len(s) + Len(u) /\ Len(s \o u) = Len(s) + Len(u)
         /\ \A i \in 1 .. Len(s) : (s \o u)[i] = s[i] /\ s[i] \in S
         /\ \A i \in 1 .. Len(u) : (s \o u)[Len(s) + i] = u[i] /\ u[i] \in S
<1>1. /\ s \o u \in Seq(S) /\ Len(s) \in Nat /\ Len(u) \in Nat
      /\ DOMAIN s = 1 .. Len(s) /\ DOMAIN u = 1 .. Len(u)
      /\ DOMAIN (s \o u) = 1 .. Len(s \o u) /\ Len(s \o u) = Len(s) + Len(u)
  BY ConcatProperties, LenProperties
<1>2. \A i \in 1 .. Len(s) + Len(u) :
         (s \o u)[i] = IF i <= Len(s) THEN s[i] ELSE u[i - Len(s)]
  BY ConcatProperties
<1> DEFINE w == s \o u
<1> HIDE DEF w
<1>3. ASSUME NEW i \in 1 .. Len(s) PROVE w[i] = s[i]
  <2>1. i \in 1 .. Len(s) + Len(u) /\ i <= Len(s)
    BY <1>1
  <2> QED
    BY <1>2, <2>1 DEF w
<1>4. ASSUME NEW i \in 1 .. Len(u) PROVE w[Len(s) + i] = u[i]
  <2>1. /\ Len(s) + i \in 1 .. Len(s) + Len(u) /\ ~(Len(s) + i <= Len(s))
        /\ Len(s) + i - Len(s) = i
    BY <1>1
  <2>2. w[Len(s) + i] = u[Len(s) + i - Len(s)]
    BY <1>2, <2>1 DEF w
  <2> QED
    BY <2>1, <2>2
<1>5. (\A i \in 1 .. Len(s) : s[i] \in S) /\ (\A i \in 1 .. Len(u) : u[i] \in S)
  BY ElementOfSeq
<1> QED
  BY <1>1, <1>3, <1>4, <1>5 DEF w

\* Sequences that are placed one after the other keep their order.
LEMMA NumberedAppend ==
  ASSUME NEW S \in SUBSET Nat, NEW q \in Seq(S), NEW u \in Seq(S), NEW n \in Nat,
         Numbered(q, n), Numbered(u, n),
         \A i \in 1 .. Len(q), j \in 1 .. Len(u) : q[i] < u[j]
  PROVE  Numbered(q \o u, n)
<1> DEFINE w == q \o u
<1>1. /\ Len(q) \in Nat /\ Len(u) \in Nat /\ DOMAIN q = 1 .. Len(q) /\ DOMAIN u = 1 .. Len(u)
      /\ DOMAIN w = 1 .. Len(q) + Len(u)
      /\ \A i \in 1 .. Len(q) : w[i] = q[i]
      /\ \A i \in 1 .. Len(u) : w[Len(q) + i] = u[i]
  BY ConcatElements
<1> HIDE DEF w
<1>2. \A i \in 1 .. Len(q) : q[i] <= n
  BY <1>1 DEF Numbered
<1>3. \A i \in 1 .. Len(u) : u[i] <= n
  BY <1>1 DEF Numbered
<1>4. ASSUME NEW i \in DOMAIN w PROVE i \in 1 .. Len(q) \/ \E j \in 1 .. Len(u) : i = Len(q) + j
  <2>1. i <= Len(q) \/ i - Len(q) \in 1 .. Len(u)
    BY <1>1
  <2>2. CASE i - Len(q) \in 1 .. Len(u)
    <3>1. i = Len(q) + (i - Len(q))
      BY <1>1
    <3> QED
      BY <2>2, <3>1
  <2> QED
    BY <1>1, <2>1, <2>2
<1>5. ASSUME NEW i \in DOMAIN w PROVE w[i] <= n
  <2>1. CASE i \in 1 .. Len(q)
    BY <1>1, <1>2, <2>1
  <2>2. ASSUME NEW j \in 1 .. Len(u), i = Len(q) + j PROVE w[i] <= n
    BY <1>1, <1>3, <2>2
  <2> QED
    BY <1>4, <2>1, <2>2
<1>6. ASSUME NEW i \in DOMAIN w, NEW j \in DOMAIN w, i < j PROVE w[i] < w[j]
  <2>1. CASE i \in 1 .. Len(q) /\ j \in 1 .. Len(q)
    <3>1. q[i] < q[j]
      BY <1>1, <1>6, <2>1 DEF Numbered, Increasing
    <3> QED
      BY <1>1, <2>1, <3>1
  <2>2. ASSUME i \in 1 .. Len(q), NEW k \in 1 .. Len(u), j = Len(q) + k PROVE w[i] < w[j]
    BY <1>1, <2>2
  <2>3. ASSUME NEW h \in 1 .. Len(u), i = Len(q) + h, NEW k \in 1 .. Len(u), j = Len(q) + k
        PROVE  w[i] < w[j]
    <3>1. h < k
      BY <1>1, <1>6, <2>3
    <3>2. u[h] < u[k]
      BY <1>1, <3>1 DEF Numbered, Increasing
    <3> QED
      BY <1>1, <2>3, <3>2
  <2>4. ASSUME NEW h \in 1 .. Len(u), i = Len(q) + h, j \in 1 .. Len(q) PROVE FALSE
    BY <1>1, <1>6, <2>4
  <2> QED
    BY <1>4, <2>1, <2>2, <2>3, <2>4
<1>7. Numbered(w, n)
  BY <1>5, <1>6 DEF Numbered, Increasing
<1> QED
  BY <1>7 DEF w

\* Parts of a numbered sequence are numbered, and the first precedes the second.
LEMMA NumberedParts ==
  ASSUME NEW S \in SUBSET Nat, NEW q \in Seq(S), NEW u \in Seq(S), NEW n \in Nat,
         Numbered(q \o u, n)
  PROVE  /\ Numbered(q, n) /\ Numbered(u, n)
         /\ \A i \in 1 .. Len(q), j \in 1 .. Len(u) : q[i] < u[j]
<1> DEFINE w == q \o u
<1>1. /\ Len(q) \in Nat /\ Len(u) \in Nat /\ DOMAIN q = 1 .. Len(q) /\ DOMAIN u = 1 .. Len(u)
      /\ DOMAIN w = 1 .. Len(q) + Len(u)
      /\ \A i \in 1 .. Len(q) : w[i] = q[i]
      /\ \A i \in 1 .. Len(u) : w[Len(q) + i] = u[i]
  BY ConcatElements
<1>2. Numbered(w, n)
  OBVIOUS
<1> HIDE DEF w
<1>3. /\ \A i \in 1 .. Len(q) : i \in DOMAIN w
      /\ \A i \in 1 .. Len(u) : Len(q) + i \in DOMAIN w
  BY <1>1
<1>4. Numbered(q, n)
  BY <1>1, <1>2, <1>3 DEF Numbered, Increasing
<1>5. ASSUME NEW i \in 1 .. Len(u), NEW j \in 1 .. Len(u), i < j PROVE u[i] < u[j]
  <2>1. Len(q) + i < Len(q) + j
    BY <1>1, <1>5
  <2>2. w[Len(q) + i] < w[Len(q) + j]
    BY <1>2, <1>3, <2>1 DEF Numbered, Increasing
  <2> QED
    BY <1>1, <2>2
<1>6. \A i \in 1 .. Len(u) : u[i] <= n
  <2>1. \A i \in 1 .. Len(u) : w[Len(q) + i] <= n
    BY <1>2, <1>3 DEF Numbered
  <2> QED
    BY <1>1, <2>1
<1>7. ASSUME NEW i \in 1 .. Len(q), NEW j \in 1 .. Len(u) PROVE q[i] < u[j]
  <2>1. i < Len(q) + j
    BY <1>1
  <2>2. w[i] < w[Len(q) + j]
    BY <1>2, <1>3, <2>1 DEF Numbered, Increasing
  <2> QED
    BY <1>1, <2>2
<1> QED
  BY <1>1, <1>4, <1>5, <1>6, <1>7 DEF Numbered, Increasing

\* What remains when the middle is lost.
LEMMA NumberedWithout ==
  ASSUME NEW S \in SUBSET Nat, NEW a \in Seq(S), NEW b \in Seq(S), NEW c \in Seq(S), NEW n \in Nat,
         Numbered(a \o b \o c, n)
  PROVE  Numbered(a \o c, n) /\ Numbered(a \o b, n)
<1> DEFINE ab == a \o b
<1>1. /\ ab \in Seq(S) /\ Len(ab) = Len(a) + Len(b) /\ Len(a) \in Nat /\ Len(b) \in Nat
      /\ \A i \in 1 .. Len(a) : ab[i] = a[i]
  BY ConcatElements
<1>2. Numbered(ab \o c, n)
  OBVIOUS
<1> HIDE DEF ab
<1>3. /\ Numbered(ab, n) /\ Numbered(c, n)
      /\ \A i \in 1 .. Len(ab), j \in 1 .. Len(c) : ab[i] < c[j]
  BY <1>1, <1>2, NumberedParts
<1>4. Numbered(a, n)
  BY <1>3, NumberedParts DEF ab
<1>5. \A i \in 1 .. Len(a) : i \in 1 .. Len(ab)
  BY <1>1
<1>6. \A i \in 1 .. Len(a), j \in 1 .. Len(c) : a[i] < c[j]
  BY <1>1, <1>3, <1>5
<1>7. Numbered(a \o c, n)
  BY <1>3, <1>4, <1>6, NumberedAppend
<1> QED
  BY <1>3, <1>7 DEF ab

\* The bytes of a new message come after all earlier ones.
LEMMA NumberedBytes ==
  ASSUME NEW q \in Seq(1 .. MaxBytes), NEW len \in Nat, accepted \in Nat, MaxBytes \in Nat,
         accepted + len <= MaxBytes, Numbered(q, accepted)
  PROVE  Numbered(q \o Bytes(len), accepted + len)
<1> DEFINE b == Bytes(len)
<1>1. /\ b \in Seq(1 .. MaxBytes) /\ Len(b) = len /\ DOMAIN b = 1 .. len
      /\ \A i \in 1 .. len : b[i] = accepted + i
  BY BytesAreSeq, LenProperties
<1> HIDE DEF b
<1>2. Numbered(b, accepted + len)
  BY <1>1 DEF Numbered, Increasing
<1>3. /\ DOMAIN q = 1 .. Len(q) /\ \A i \in 1 .. Len(q) : q[i] \in Nat /\ q[i] <= accepted
  <2>1. DOMAIN q = 1 .. Len(q)
    BY LenProperties
  <2>2. \A i \in 1 .. Len(q) : q[i] \in 1 .. MaxBytes
    BY ElementOfSeq
  <2> QED
    BY <2>1, <2>2 DEF Numbered
<1>4. Numbered(q, accepted + len)
  BY <1>3 DEF Numbered
<1>5. \A i \in 1 .. Len(q), j \in 1 .. Len(b) : q[i] < b[j]
  BY <1>1, <1>3
<1>6. (1 .. MaxBytes) \in SUBSET Nat /\ accepted + len \in Nat
  OBVIOUS
<1>7. Numbered(q \o b, accepted + len)
  BY <1>1, <1>2, <1>4, <1>5, <1>6, NumberedAppend
<1> QED
  BY <1>7 DEF b

LEMMA Regroup ==
  ASSUME NEW S, NEW a \in Seq(S), NEW b \in Seq(S), NEW c \in Seq(S)
  PROVE  a \o (b \o c) = a \o b \o c
  BY ConcatAssociative

\* All of 1, 2, ... n, in this order.
AllUpTo(q, n) == Len(q) = n /\ \A i \in 1 .. n : q[i] = i

LEMMA AllUpToNext ==
  ASSUME NEW q \in Seq(1 .. MaxBytes), NEW len \in Nat, accepted \in Nat, MaxBytes \in Nat,
         accepted + len <= MaxBytes, AllUpTo(q, accepted)
  PROVE  AllUpTo(q \o Bytes(len), accepted + len)
<1> DEFINE b == Bytes(len)
           w == q \o b
<1>1. b \in Seq(1 .. MaxBytes) /\ Len(b) = len /\ \A i \in 1 .. len : b[i] = accepted + i
  BY BytesAreSeq
<1>2. Len(q) = accepted /\ \A i \in 1 .. accepted : q[i] = i
  BY DEF AllUpTo
<1> HIDE DEF b
<1>3. /\ Len(w) = accepted + len
      /\ \A i \in 1 .. accepted : w[i] = q[i]
      /\ \A i \in 1 .. len : w[accepted + i] = b[i]
  <2>1. /\ Len(w) = Len(q) + Len(b)
        /\ \A i \in 1 .. Len(q) : w[i] = q[i]
        /\ \A i \in 1 .. Len(b) : w[Len(q) + i] = b[i]
    <3> DEFINE S == 1 .. MaxBytes
    <3>1. q \in Seq(S) /\ b \in Seq(S)
      BY <1>1
    <3> HIDE DEF S
    <3> QED
      BY ONLY <3>1, ConcatElements
  <2> QED
    BY <1>1, <1>2, <2>1
<1> HIDE DEF w
<1>4. ASSUME NEW i \in 1 .. accepted + len PROVE w[i] = i
  <2>1. CASE i \in 1 .. accepted
    BY <1>2, <1>3, <2>1
  <2>2. CASE i \notin 1 .. accepted
    <3>1. i - accepted \in 1 .. len /\ accepted + (i - accepted) = i
      BY <2>2
    <3> QED
      BY <1>1, <1>3, <3>1
  <2> QED
    BY <2>1, <2>2
<1>5. AllUpTo(w, accepted + len)
  BY <1>3, <1>4 DEF AllUpTo
<1> QED
  BY <1>5 DEF b, w

\* The bytes on their way are numbered.  None is missing from a stream that is neither
\* broken nor closed, if the socket is not shut; of one that is, the kernel and the
\* peer have all that were given before.
Flow == delivered \o snd \o Rest
FlowInv ==
  /\ Numbered(Flow, accepted)
  /\ ~Closed /\ reset = "no" =>
       IF shut THEN AllUpTo(delivered \o snd, before) ELSE AllUpTo(Flow, accepted)

\* Steps that move no byte: the socket is shut at most when nothing is left.
QuietStep == SameFlow /\ ShutWhenEmpty /\ (Closed => Closed')

LEMMA FlowSteps ==
  ASSUME TypeOK, StreamStep
  PROVE  \/ \E len \in MsgLens : Given(len)
         \/ TransmitStep \/ PeerReads \/ PeerResets \/ LoseStep \/ QuietStep
<1>1. CASE PostEndStep \/ AskStep \/ CloseStep \/ HoldStep \/ SameStream
           \/ \E len \in MsgLens : PostStep(len)
  <2>1. SameFlow /\ shut' = shut /\ (Closed => Closed')
    <3>1. CASE AskStep \/ CloseStep
      BY <3>1 DEF AskStep, CloseStep
    <3>2. CASE PostEndStep \/ HoldStep \/ SameStream \/ \E len \in MsgLens : PostStep(len)
      <4>1. SameFlow /\ SameEnd
        BY <3>2 DEF PostStep, PostEndStep, HoldStep, SameStream
      <4> QED
        BY <4>1 DEF SameEnd
    <3> QED
      BY <1>1, <3>1, <3>2
  <2> QED
    BY <2>1 DEF QuietStep, ShutWhenEmpty
<1>2. CASE TakeEndStep \/ EndHereStep
  BY <1>2 DEF TakeEndStep, EndHereStep, QuietStep
<1>3. CASE DrainStep
  BY <1>3 DEF DrainStep, QuietStep, ShutWhenEmpty
<1>4. CASE TakeStep
  <2>1. Head(queue).len \in MsgLens /\ Given(Head(queue).len)
    BY <1>4, HeadTailProperties DEF TakeStep, TypeOK, Functors
  <2> QED
    BY <2>1
<1>5. CASE TransmitStep \/ PeerReads \/ PeerResets \/ LoseStep \/ \E len \in MsgLens : GiveStep(len)
  BY <1>5 DEF GiveStep
<1> QED
  BY <1>1, <1>2, <1>3, <1>4, <1>5 DEF StreamStep, ProgramStep, NetworkStep

LEMMA FlowStep ==
  ASSUME IInv, IInv', FlowInv, StreamStep
  PROVE  FlowInv'
<1> DEFINE S == 1 .. MaxBytes
<1>0. /\ Rest \in Seq(S) /\ snd \in Seq(S) /\ delivered \in Seq(S)
      /\ accepted \in Nat /\ accepted' \in Nat /\ accepted' <= MaxBytes /\ MaxBytes \in Nat
      /\ S \in SUBSET Nat /\ shut \in BOOLEAN
      /\ (~shut => before = accepted)
  BY BytesOnTheirWay, MaxBytesIsNat DEF IInv, TypeOK, EndInv
<1>1. delivered \o snd \in Seq(S) /\ Flow \in Seq(S) /\ Len(Flow) \in Nat
  BY <1>0, ConcatProperties, LenProperties DEF Flow
<1> HIDE DEF S
<1>10. \A a, b, c \in Seq(S) : a \o (b \o c) = a \o b \o c
  BY ONLY Regroup
<1>2. ASSUME NEW len \in MsgLens, Given(len) PROVE FlowInv'
  <2>1. /\ len \in Nat /\ accepted' = accepted + len /\ Closed' = Closed
        /\ UNCHANGED <<snd, delivered, reset, shut>>
        /\ before' = IF shut THEN before ELSE accepted'
    BY <1>2, MessageLength DEF Given, SameEnd
  <2>2. Bytes(len) \in Seq(S) /\ Len(Bytes(len)) = len
    BY <1>0, <2>1, BytesAreSeq DEF S
  <2>3. CASE Rest' = Rest \o Bytes(len)
    <3>1. Flow' = delivered \o snd \o (Rest \o Bytes(len))
      BY <2>1, <2>3 DEF Flow
    <3>2. Flow' = Flow \o Bytes(len)
      <4>1. delivered \o snd \o (Rest \o Bytes(len)) = delivered \o snd \o Rest \o Bytes(len)
        <5>1. Rest \in Seq(S) /\ Bytes(len) \in Seq(S) /\ delivered \o snd \in Seq(S)
          BY <1>0, <1>1, <2>2
        <5> QED
          BY ONLY <1>10, <5>1, Zenon
      <4> QED
        BY <3>1, <4>1 DEF Flow
    <3>3. Numbered(Flow', accepted')
      BY <1>0, <1>1, <2>1, <3>2, NumberedBytes DEF FlowInv, S
    <3>4. ASSUME ~Closed', reset' = "no", shut' PROVE AllUpTo((delivered \o snd)', before')
      BY <2>1, <3>4 DEF FlowInv
    <3>5. ASSUME ~Closed', reset' = "no", ~shut' PROVE AllUpTo(Flow', accepted')
      <4>1. AllUpTo(Flow, accepted)
        BY <2>1, <3>5 DEF FlowInv
      <4> QED
        BY <1>0, <1>1, <2>1, <3>2, <4>1, AllUpToNext DEF S
    <3> QED
      BY <3>3, <3>4, <3>5 DEF FlowInv
  <2>4. CASE Closed /\ Rest' = Rest
    <3>1. Flow' = Flow /\ Closed'
      BY <2>1, <2>4 DEF Flow
    <3>2. \A i \in DOMAIN Flow : Flow[i] \in Nat /\ Flow[i] <= accepted
      <4>1. DOMAIN Flow = 1 .. Len(Flow)
        BY <1>1, LenProperties
      <4>2. \A i \in 1 .. Len(Flow) : Flow[i] \in S
        BY <1>1, ElementOfSeq
      <4> QED
        BY <1>0, <4>1, <4>2 DEF FlowInv, Numbered
    <3>3. \A i \in DOMAIN Flow : Flow[i] <= accepted'
      BY <1>0, <2>1, <3>2
    <3>4. Numbered(Flow, accepted')
      BY <3>3 DEF FlowInv, Numbered
    <3> QED
      BY <3>1, <3>4 DEF FlowInv
  <2> QED
    BY <1>2, <2>3, <2>4 DEF Given
<1>3. CASE TransmitStep
  <2>1. PICK k \in 1 .. Len(Rest) :
          snd' = snd \o SubSeq(Rest, 1, k) /\ Rest' = SubSeq(Rest, k + 1, Len(Rest))
    BY <1>3 DEF TransmitStep
  <2> DEFINE x == SubSeq(Rest, 1, k)
             y == SubSeq(Rest, k + 1, Len(Rest))
  <2>2. k \in 0 .. Len(Rest) /\ Len(Rest) \in Nat
    BY <1>0, LenProperties
  <2>3. x \in Seq(S) /\ y \in Seq(S)
    BY <1>0, <2>2, CutAt
  <2>4. x \o y = Rest
    <3>1. 1 \in 1 .. Len(Rest) + 1 /\ k \in 1 - 1 .. Len(Rest) /\ Len(Rest) \in k .. Len(Rest)
      BY <2>2
    <3>2. x \o y = SubSeq(Rest, 1, Len(Rest))
      BY <1>0, <3>1, ConcatAdjacentSubSeq
    <3> QED
      BY <1>0, <3>2, SubSeqFull
  <2>5. Flow' = delivered \o (snd \o x) \o y
    BY <1>3, <2>1 DEF TransmitStep, Flow
  <2> HIDE DEF x, y
  <2>6. delivered \o (snd \o x) = delivered \o snd \o x
    BY ONLY <1>0, <1>10, <2>3, Zenon
  <2>7. delivered \o snd \o x \o y = delivered \o snd \o (x \o y)
    BY ONLY <1>1, <1>10, <2>3, Zenon
  <2>8. Flow' = Flow
    BY <2>4, <2>5, <2>6, <2>7 DEF Flow
  <2>9. ~shut /\ ~shut' /\ accepted' = accepted /\ Closed' = Closed /\ reset' = reset
    BY <1>3 DEF TransmitStep, SameEnd
  <2> QED
    BY <2>8, <2>9 DEF FlowInv
<1>4. CASE PeerReads
  <2>1. /\ snd # <<>> /\ delivered' = Append(delivered, Head(snd)) /\ snd' = Tail(snd)
        /\ UNCHANGED <<accepted, before, reset, shut>> /\ Closed' = Closed /\ Rest' = Rest
    BY <1>4 DEF PeerReads, Closed, Rest, connVars, endVars
  <2> DEFINE h == <<Head(snd)>>
             t == Tail(snd)
  <2>2. Head(snd) \in S /\ t \in Seq(S)
    BY <1>0, <2>1, HeadTailProperties
  <2>3. h \in Seq(S)
    BY <2>2
  <2>4. h \o t = snd
    <3>1. Len(snd) \in Nat /\ Len(snd) > 0
      BY <1>0, <2>1, LenProperties, EmptySeq
    <3>2. 1 \in 1 .. Len(snd) /\ Len(snd) \in 1 .. Len(snd)
      BY <3>1
    <3>3. SubSeq(snd, 1, Len(snd)) = <<snd[1]>> \o SubSeq(snd, 1 + 1, Len(snd))
      BY <1>0, <3>2, SubSeqRecursiveFirst
    <3>4. SubSeq(snd, 1, Len(snd)) = snd /\ t = SubSeq(snd, 2, Len(snd)) /\ 1 + 1 = 2
      BY <1>0, <2>1, SubSeqFull, TailIsSubSeq
    <3>5. Head(snd) = snd[1]
      BY <3>2, <3>4, <1>0, HeadTailOfSubSeq
    <3> QED
      BY <3>3, <3>4, <3>5
  <2>5. delivered' = delivered \o h
    BY <1>0, <2>1, <2>2, AppendIsConcat
  <2>6. Flow' = delivered \o h \o t \o Rest
    BY <2>1, <2>5 DEF Flow
  <2> HIDE DEF h, t
  <2>7. delivered \o h \o t = delivered \o snd
    <3>1. delivered \o (h \o t) = delivered \o h \o t
      BY ONLY <1>0, <1>10, <2>2, <2>3, Zenon
    <3> QED
      BY <2>4, <3>1
  <2>8. Flow' = Flow
    BY <2>6, <2>7 DEF Flow
  <2>9. (delivered \o snd)' = delivered \o snd
    BY <2>1, <2>5, <2>7 DEF t
  <2> QED
    BY <2>1, <2>8, <2>9 DEF FlowInv
<1>5. CASE QuietStep
  <2>1. /\ Flow' = Flow /\ (delivered \o snd)' = delivered \o snd
        /\ UNCHANGED <<accepted, before>> /\ (reset' = "no") = (reset = "no")
        /\ (Closed => Closed')
    BY <1>5 DEF QuietStep, SameFlow, Flow
  <2>2. CASE shut' = shut
    BY <2>1, <2>2 DEF FlowInv
  <2>3. CASE ~shut /\ shut' = TRUE /\ Rest = <<>>
    <3>1. Flow = delivered \o snd
      <4>1. delivered \o snd \o <<>> = delivered \o snd
        BY <1>1, ConcatEmptySeq
      <4> QED
        BY <2>3, <4>1 DEF Flow
    <3>2. ~Closed' /\ reset' = "no" => AllUpTo(Flow, before)
      BY <1>0, <2>1, <2>3 DEF FlowInv
    <3> QED
      BY <2>1, <2>3, <3>1, <3>2 DEF FlowInv
  <2> QED
    BY <1>0, <1>5, <2>2, <2>3 DEF QuietStep, ShutWhenEmpty
<1>6. CASE PeerResets
  <2>1. snd' = <<>> /\ delivered' = delivered /\ Rest' = Rest /\ accepted' = accepted
        /\ reset' # "no"
    BY <1>6 DEF PeerResets, Rest, connVars
  <2>2. delivered \o <<>> = delivered
    BY <1>0, ConcatEmptySeq
  <2>3. Flow' = delivered \o Rest
    BY <2>1, <2>2 DEF Flow
  <2>4. Numbered(delivered \o Rest, accepted)
    BY <1>0, NumberedWithout DEF FlowInv, Flow
  <2> QED
    BY <2>1, <2>3, <2>4 DEF FlowInv
<1>7. CASE LoseStep
  <2>1. /\ Rest' = <<>> /\ UNCHANGED <<delivered, snd, accepted, before, shut>>
        /\ Closed' = Closed /\ (reset' = "no") = (reset = "no") /\ (shut \/ reset # "no")
    BY <1>7 DEF LoseStep, SameEnd
  <2>2. (delivered \o snd) \o <<>> = delivered \o snd
    BY <1>1, ConcatEmptySeq
  <2>3. Flow' = delivered \o snd
    BY <2>1, <2>2 DEF Flow
  <2>4. Numbered(delivered \o snd, accepted)
    BY <1>0, NumberedWithout DEF FlowInv, Flow
  <2> QED
    BY <2>1, <2>3, <2>4 DEF FlowInv
<1> QED
  BY <1>2, <1>3, <1>4, <1>5, <1>6, <1>7, FlowSteps DEF IInv

LEMMA OutputFromFlow == IInv /\ FlowInv => OutputIntact
<1> SUFFICES ASSUME IInv, FlowInv PROVE OutputIntact
  OBVIOUS
<1> DEFINE taken == delivered \o snd
<1>1. InFlight = Flow /\ Flow = taken \o Rest
  BY BytesOnTheirWay DEF Flow
<1>2. Increasing(InFlight)
  BY <1>1 DEF FlowInv, Numbered
<1>3. shut /\ ~early => \A i \in DOMAIN queue : queue[i].op = "send" => queue[i].late
  BY DEF IInv, EndInv, IsSend
<1>4. ASSUME inMap, reset = "no", NEW i \in 1 .. before
      PROVE  i \in DOMAIN InFlight /\ InFlight[i] = i
  <2>1. ~Closed /\ before \in Nat /\ (~shut => before = accepted)
    BY <1>4, MaxBytesIsNat DEF Closed, IInv, TypeOK, EndInv
  <2>2. Rest \in Seq(1 .. MaxBytes) /\ taken \in Seq(1 .. MaxBytes)
    BY BytesOnTheirWay, ConcatProperties
  <2> HIDE DEF taken
  <2>3. /\ Len(taken) \in Nat /\ Len(Rest) \in Nat
        /\ DOMAIN Flow = 1 .. Len(taken) + Len(Rest) /\ Len(Flow) = Len(taken) + Len(Rest)
        /\ \A j \in 1 .. Len(taken) : Flow[j] = taken[j]
    BY <1>1, <2>2, ConcatElements
  <2>4. CASE shut
    <3>1. AllUpTo(taken, before)
      BY <1>4, <2>1, <2>4 DEF FlowInv, taken
    <3>2. i \in 1 .. Len(taken) /\ taken[i] = i
      BY <3>1 DEF AllUpTo
    <3> QED
      BY <1>1, <2>3, <3>2
  <2>5. CASE ~shut
    <3>1. AllUpTo(Flow, before)
      BY <1>4, <2>1, <2>5 DEF FlowInv
    <3> QED
      BY <1>1, <2>1, <2>3, <3>1 DEF AllUpTo
  <2> QED
    BY <2>4, <2>5
<1> QED
  BY <1>2, <1>3, <1>4 DEF OutputIntact

\* tcp_connection.cpp:50-58, 95-137, 150-155, 175-200: whatever short writes, interrupts,
\* resets and threads do, no byte is sent twice or overtakes one submitted before it.
\* None that sendInLoop() was called for before the socket was shut is missing until
\* the server drops the connection or it breaks, and a message queued before anyone
\* asked for the end is among those, unless handleWrite() or a shutdown() on the loop's
\* thread shut the socket first.
THEOREM OutputStaysIntact == Spec => []OutputIntact
<1>1. Init => FlowInv
  <2> SUFFICES ASSUME Init PROVE FlowInv
    OBVIOUS
  <2>1. Flow = <<>> \o <<>> \o <<>> /\ accepted = 0
    BY DEF Init, Flow, Rest
  <2>2. <<>> \in Seq(Nat) /\ Len(<<>>) = 0
    BY EmptySeq
  <2>3. Flow = <<>>
    BY <2>1, <2>2, ConcatEmptySeq
  <2>4. DOMAIN <<>> = 1 .. 0
    BY <2>2, LenProperties
  <2> QED
    BY <2>1, <2>2, <2>3, <2>4 DEF Init, FlowInv, Numbered, Increasing, AllUpTo
<1>2. IInv /\ IInv' /\ FlowInv /\ [Next]_vars => FlowInv'
  BY StepsOfStream, FlowStep
<1> QED
  BY <1>1, <1>2, OutputFromFlow, Invariance, PTL DEF Spec
=============================================================================
