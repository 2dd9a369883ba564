------------------------- MODULE AsyncLoggingProofs -------------------------
(***************************************************************************)
(* For any capacity, lengths of lines, limit and number of lines: the      *)
(* backend's assertions hold, no line of AsyncLogging is lost and the file *)
(* keeps their order.  The second part is about LogStream, where lines     *)
(* come from: for any sizes and operands its conversions are right, it     *)
(* stays in its buffer, a line is whole operands, and one that             *)
(* AsyncLogging can take.                                                  *)
(***************************************************************************)
EXTENDS AsyncLogging, LogStream, SequenceTheorems, WellFoundedInduction, TLAPS

-----------------------------------------------------------------------------
(* The inductive invariant. *)

\* The buffers between the two sides.  The front end is out of a next buffer
\* only after it filled one since the last swap, so that a batch for which the
\* backend gave both of its own away has at least two buffers.
BuffersInv ==
  /\ owner = "off" => backend = "none"
  /\ nextBuffer = Null => buffers # <<>>
  /\ backend \in {"top", "lock", "wait"} => newBuffer1 = <<>> /\ newBuffer2 = <<>>
  /\ backend \in {"write", "refill"} =>
       /\ newBuffer1 = Null
       /\ Len(buffersToWrite) >= Taken
  /\ backend \notin {"write", "refill"} => buffersToWrite = <<>>

IInv == TypeOK /\ BuffersInv /\ NothingLost

-----------------------------------------------------------------------------
(* The lines in a sequence of buffers. *)

LEMMA InLines ==
  ASSUME NEW bs
  PROVE  \A n : n \in Lines(bs) <=> \E i \in DOMAIN bs : \E k \in DOMAIN bs[i] : n = bs[i][k].n
  BY DEF Lines

LEMMA LinesConcat ==
  ASSUME NEW S, NEW s \in Seq(S), NEW u \in Seq(S)
  PROVE  Lines(s \o u) = Lines(s) \union Lines(u)
<1> DEFINE w == s \o u
<1>1. /\ Len(s) \in Nat /\ Len(u) \in Nat
      /\ DOMAIN s = 1 .. Len(s) /\ DOMAIN u = 1 .. Len(u)
      /\ DOMAIN w = 1 .. Len(s) + Len(u)
      /\ \A i \in 1 .. Len(s) + Len(u) :
           w[i] = IF i <= Len(s) THEN s[i] ELSE u[i - Len(s)]
  BY ConcatProperties, LenProperties
<1>2. \A i \in DOMAIN s : i \in DOMAIN w /\ w[i] = s[i]
  BY <1>1
<1>3. \A i \in DOMAIN u : i + Len(s) \in DOMAIN w /\ w[i + Len(s)] = u[i]
  BY <1>1
<1>4. \A i \in DOMAIN w : \/ i \in DOMAIN s /\ w[i] = s[i]
                          \/ i - Len(s) \in DOMAIN u /\ w[i] = u[i - Len(s)]
  BY <1>1
<1>5. \A n : n \in Lines(w) <=> n \in Lines(s) \/ n \in Lines(u)
  <2>0. \A n : n \in Lines(w) <=> \E i \in DOMAIN w : \E k \in DOMAIN w[i] : n = w[i][k].n
    BY InLines
  <2> HIDE DEF w
  <2> SUFFICES ASSUME NEW n PROVE n \in Lines(w) <=> n \in Lines(s) \/ n \in Lines(u)
    OBVIOUS
  <2>1. ASSUME n \in Lines(w) PROVE n \in Lines(s) \/ n \in Lines(u)
    <3>1. PICK i \in DOMAIN w : \E k \in DOMAIN w[i] : n = w[i][k].n
      BY <2>0, <2>1
    <3>2. CASE i \in DOMAIN s /\ w[i] = s[i]
      BY <3>1, <3>2, InLines
    <3>3. CASE i - Len(s) \in DOMAIN u /\ w[i] = u[i - Len(s)]
      BY <3>1, <3>3, InLines
    <3> QED
      BY <1>4, <3>2, <3>3
  <2>2. ASSUME n \in Lines(s) PROVE n \in Lines(w)
    <3>1. PICK i \in DOMAIN s : \E k \in DOMAIN s[i] : n = s[i][k].n
      BY <2>2, InLines
    <3> QED
      BY <1>2, <2>0, <3>1
  <2>3. ASSUME n \in Lines(u) PROVE n \in Lines(w)
    <3>1. PICK i \in DOMAIN u : \E k \in DOMAIN u[i] : n = u[i][k].n
      BY <2>3, InLines
    <3> QED
      BY <1>3, <2>0, <3>1
  <2> QED
    BY <2>1, <2>2, <2>3
<1> QED
  BY <1>5

LEMMA LinesOfNothing == Lines(<<>>) = {} /\ Lines(<<<<>>>>) = {}
<1>1. DOMAIN <<>> = {} /\ DOMAIN <<<<>>>> = {1} /\ <<<<>>>>[1] = <<>>
  OBVIOUS
<1> QED
  BY <1>1, InLines

\* A line appended to a buffer.
LEMMA LinesAppendLine ==
  ASSUME NEW b \in Buffer, NEW line \in Line
  PROVE  Lines(<<Append(b, line)>>) = Lines(<<b>>) \union {line.n}
<1> DEFINE c == Append(b, line)
<1>1. /\ Len(b) \in Nat /\ DOMAIN b = 1 .. Len(b) /\ DOMAIN c = 1 .. Len(b) + 1
      /\ \A k \in 1 .. Len(b) : c[k] = b[k]
      /\ c[Len(b) + 1] = line
  BY AppendProperties, LenProperties DEF Buffer
<1>2. \A n, d : n \in Lines(<<d>>) <=> \E k \in DOMAIN d : n = d[k].n
  <2> SUFFICES ASSUME NEW n, NEW d
               PROVE  n \in Lines(<<d>>) <=> \E k \in DOMAIN d : n = d[k].n
    OBVIOUS
  <2>1. DOMAIN <<d>> = {1} /\ <<d>>[1] = d
    OBVIOUS
  <2> QED
    BY <2>1, InLines
<1>3. \A n : n \in Lines(<<c>>) <=> n \in Lines(<<b>>) \/ n = line.n
  <2> SUFFICES ASSUME NEW n PROVE n \in Lines(<<c>>) <=> n \in Lines(<<b>>) \/ n = line.n
    OBVIOUS
  <2>1. ASSUME n \in Lines(<<c>>) PROVE n \in Lines(<<b>>) \/ n = line.n
    <3>1. PICK k \in DOMAIN c : n = c[k].n
      BY <1>2, <2>1
    <3>2. CASE k \in DOMAIN b
      BY <1>1, <1>2, <3>1, <3>2
    <3>3. CASE k = Len(b) + 1
      BY <1>1, <3>1, <3>3
    <3> QED
      BY <1>1, <3>1, <3>2, <3>3
  <2>2. ASSUME n \in Lines(<<b>>) PROVE n \in Lines(<<c>>)
    <3>1. PICK k \in DOMAIN b : n = b[k].n
      BY <1>2, <2>2
    <3> QED
      BY <1>1, <1>2, <3>1
  <2>3. line.n \in Lines(<<c>>)
    <3>1. Len(b) + 1 \in DOMAIN c
      BY <1>1
    <3> QED
      BY <1>1, <1>2, <3>1
  <2> QED
    BY <2>1, <2>2, <2>3
<1> QED
  BY <1>3

\* A batch cut in two.
LEMMA LinesCut ==
  ASSUME NEW bs \in Seq(Buffer), NEW k \in 0 .. Len(bs)
  PROVE  /\ SubSeq(bs, 1, k) \in Seq(Buffer)
         /\ Lines(SubSeq(bs, 1, k)) \union Lines(SubSeq(bs, k + 1, Len(bs))) = Lines(bs)
<1>1. Len(bs) \in Nat /\ \A i \in 1 .. Len(bs) : bs[i] \in Buffer
  BY LenProperties, ElementOfSeq
<1>2. SubSeq(bs, 1, k) \in Seq(Buffer) /\ SubSeq(bs, k + 1, Len(bs)) \in Seq(Buffer)
  BY <1>1, SubSeqProperties
<1>3. SubSeq(bs, 1, k) \o SubSeq(bs, k + 1, Len(bs)) = bs
  <2>1. 1 \in 1 .. Len(bs) + 1 /\ k \in 1 - 1 .. Len(bs) /\ Len(bs) \in k .. Len(bs)
    BY <1>1
  <2>2. SubSeq(bs, 1, k) \o SubSeq(bs, k + 1, Len(bs)) = SubSeq(bs, 1, Len(bs))
    BY <2>1, ConcatAdjacentSubSeq
  <2> QED
    BY <2>2, SubSeqFull
<1>4. Lines(SubSeq(bs, 1, k) \o SubSeq(bs, k + 1, Len(bs)))
        = Lines(SubSeq(bs, 1, k)) \union Lines(SubSeq(bs, k + 1, Len(bs)))
  BY <1>2, LinesConcat
<1> QED
  BY <1>2, <1>3, <1>4

\* The lines of a pipeline: two sequences of buffers and the current one.
LEMMA LinesOfThree ==
  ASSUME NEW s \in Seq(Buffer), NEW u \in Seq(Buffer), NEW b \in Buffer
  PROVE  Lines(s \o u \o <<b>>) = Lines(s) \union Lines(u) \union Lines(<<b>>)
<1>1. s \o u \in Seq(Buffer) /\ <<b>> \in Seq(Buffer)
  <2>1. s \o u \in Seq(Buffer)
    BY ConcatProperties
  <2>2. <<b>> \in Seq(Buffer)
    OBVIOUS
  <2> QED
    BY <2>1, <2>2
<1>2. Lines(s \o u) = Lines(s) \union Lines(u)
  BY LinesConcat
<1>3. Lines((s \o u) \o <<b>>) = Lines(s \o u) \union Lines(<<b>>)
  <2> DEFINE x == s \o u
             y == <<b>>
  <2>1. x \in Seq(Buffer) /\ y \in Seq(Buffer)
    BY <1>1
  <2> HIDE DEF x, y
  <2>2. Lines(x \o y) = Lines(x) \union Lines(y)
    BY <2>1, LinesConcat
  <2> QED
    BY <2>2 DEF x, y
<1> QED
  BY <1>2, <1>3

-----------------------------------------------------------------------------
(* The invariant holds of every reachable state. *)

LEMMA NullIsNoBuffer == Null # <<>>
  BY NullAssumption, EmptySeq

LEMMA InitInv == Init => IInv
<1> SUFFICES ASSUME Init PROVE IInv
  OBVIOUS
<1>1. <<>> \in Buffer /\ <<>> \in Seq(Buffer)
  BY EmptySeq DEF Buffer
<1>2. TypeOK
  <2>1. logged \in 0 .. MaxLines /\ starts \in 0 .. MaxStarts /\ latch \in Int
    BY ConstantsAssumption DEF Init
  <2>2. currentBuffer \in Buffer /\ buffers \in Seq(Buffer) /\ buffersToWrite \in Seq(Buffer)
    BY <1>1 DEF Init
  <2>3. nextBuffer \in {Null, <<>>} /\ newBuffer1 \in {Null, <<>>} /\ newBuffer2 \in {Null, <<>>}
    BY DEF Init
  <2> QED
    BY <2>1, <2>2, <2>3 DEF Init, TypeOK
<1>3. BuffersInv
  BY NullIsNoBuffer DEF Init, BuffersInv
<1>4. NothingLost
  <2>1. Unwritten = <<>> /\ buffers = <<>> /\ currentBuffer = <<>>
    BY DEF Init, Unwritten
  <2>2. Lines(Pipeline) = {}
    BY <1>1, <2>1, LinesOfThree, LinesOfNothing DEF Pipeline
  <2>3. 1 .. logged = {} /\ written \union dropped = {}
    BY DEF Init
  <2> QED
    BY <2>2, <2>3 DEF NothingLost
<1> QED
  BY <1>2, <1>3, <1>4 DEF IInv

\* The line that append() writes.
LEMMA LineAppended ==
  ASSUME TypeOK, NEW len \in Lengths, AppendLine(len)
  PROVE  [n |-> logged + 1, len |-> len] \in Line /\ logged' \in 0 .. MaxLines
  BY ConstantsAssumption DEF TypeOK, AppendLine, Line

LEMMA TypeStep == ASSUME TypeOK, BuffersInv, [Next]_vars PROVE TypeOK'
<1> USE DEF sharedVars, spareVars, ownerVars, fileVars
<1>1. ASSUME NEW len \in Lengths, AppendLine(len) PROVE TypeOK'
  <2> DEFINE line == [n |-> logged + 1, len |-> len]
  <2>1. line \in Line /\ logged' \in 0 .. MaxLines
    BY <1>1, LineAppended
  <2>2. UNCHANGED <<newBuffer1, newBuffer2, buffersToWrite, running, owner, starts, latch,
                    backend, written, dropped>>
    BY <1>1 DEF AppendLine
  <2>3. Append(currentBuffer, line) \in Buffer /\ Append(<<>>, line) \in Buffer
        /\ <<line>> \in Buffer
    BY <2>1, AppendProperties, EmptySeq DEF TypeOK, Buffer
  <2>4. Append(buffers, currentBuffer) \in Seq(Buffer)
    BY AppendProperties DEF TypeOK
  <2>5. currentBuffer' \in Buffer /\ nextBuffer' \in {Null, <<>>} /\ buffers' \in Seq(Buffer)
    BY <1>1, <2>3, <2>4 DEF AppendLine, TypeOK
  <2> QED
    BY <2>1, <2>2, <2>5 DEF TypeOK
<1>2. CASE Start
  BY <1>2, ConstantsAssumption DEF Start, TypeOK
<1>3. CASE Started
  BY <1>3 DEF Started, TypeOK
<1>4. CASE Stop
  BY <1>4 DEF Stop, TypeOK
<1>5. CASE Joined
  BY <1>5 DEF Joined, TypeOK
<1>6. CASE Begin
  BY <1>6 DEF Begin, TypeOK
<1>7. CASE CheckRunning
  BY <1>7 DEF CheckRunning, TypeOK
<1>8. CASE Wait
  BY <1>8 DEF Wait, TypeOK
<1>9. CASE Collect
  <2>1. Append(buffers, currentBuffer) \in Seq(Buffer)
    BY AppendProperties DEF TypeOK
  <2>2. backend \in {"lock", "wait"}
    BY <1>9 DEF Collect
  <2>3. newBuffer1 = <<>> /\ newBuffer2 = <<>> /\ buffersToWrite = <<>>
    BY <2>2 DEF BuffersInv
  <2>4. <<>> \in Buffer /\ <<>> \in Seq(Buffer)
    BY EmptySeq DEF Buffer
  <2> QED
    BY <1>9, <2>1, <2>3, <2>4 DEF Collect, TypeOK
<1>10. CASE Write
  <2> DEFINE size == Len(buffersToWrite)
             kept == IF size > DropLimit THEN Keep ELSE size
  <2>1. size \in Nat /\ kept \in 0 .. size /\ (IF kept > 2 THEN 2 ELSE kept) \in 0 .. size
    BY ConstantsAssumption, LenProperties DEF TypeOK
  <2>2. buffersToWrite' \in Seq(Buffer)
    BY <1>10, <2>1, LinesCut DEF Write, TypeOK
  <2>3. Lines(SubSeq(buffersToWrite, 1, kept)) \subseteq Nat
        /\ Lines(SubSeq(buffersToWrite, kept + 1, size)) \subseteq Nat
    <3>1. \A i \in DOMAIN buffersToWrite : \A k \in DOMAIN buffersToWrite[i] :
            buffersToWrite[i][k].n \in Nat
      <4> SUFFICES ASSUME NEW i \in DOMAIN buffersToWrite, NEW k \in DOMAIN buffersToWrite[i]
                   PROVE  buffersToWrite[i][k].n \in Nat
        OBVIOUS
      <4>1. buffersToWrite[i] \in Seq(Line)
        BY ElementOfSeq, LenProperties DEF TypeOK, Buffer
      <4>2. buffersToWrite[i][k] \in Line
        BY <4>1, ElementOfSeq, LenProperties
      <4> QED
        BY <4>2 DEF Line
    <3>2. Lines(buffersToWrite) \subseteq Nat
      BY <3>1, InLines
    <3> QED
      BY <2>1, <3>2, LinesCut DEF TypeOK
  <2>4. written' \subseteq Nat /\ dropped' \subseteq Nat
    BY <1>10, <2>3 DEF Write, TypeOK
  <2> QED
    BY <1>10, <2>2, <2>4 DEF Write, TypeOK
<1>11. CASE Refill
  BY <1>11, EmptySeq DEF Refill, TypeOK
<1>12. CASE UNCHANGED vars
  BY <1>12 DEF vars, TypeOK
<1> QED
  BY <1>1, <1>2, <1>3, <1>4, <1>5, <1>6, <1>7, <1>8, <1>9, <1>10, <1>11, <1>12
  DEF Next, OwnerStep, BackendStep

\* The spare buffers: what the front end took since the last swap, the next
\* batch has.
LEMMA BuffersStep == ASSUME TypeOK, BuffersInv, [Next]_vars PROVE BuffersInv'
<1> USE DEF sharedVars, spareVars, ownerVars, fileVars
<1>1. ASSUME NEW len \in Lengths, AppendLine(len) PROVE BuffersInv'
  <2>1. UNCHANGED <<newBuffer1, newBuffer2, buffersToWrite, backend, owner>>
    BY <1>1 DEF AppendLine
  <2>2. nextBuffer' = Null => buffers' # <<>>
    <3>1. Append(buffers, currentBuffer) # <<>>
      BY AppendProperties DEF TypeOK
    <3> QED
      BY <1>1, <3>1 DEF AppendLine, BuffersInv
  <2> QED
    BY <2>1, <2>2 DEF BuffersInv, Taken
<1>2. CASE Start
  BY <1>2 DEF Start, BuffersInv, Taken, TypeOK
<1>3. CASE Started
  BY <1>3 DEF Started, BuffersInv, Taken
<1>4. CASE Stop
  BY <1>4 DEF Stop, BuffersInv, Taken
<1>5. CASE Joined
  BY <1>5 DEF Joined, BuffersInv, Taken
<1>6. CASE Begin
  BY <1>6 DEF Begin, BuffersInv, Taken
<1>7. CASE CheckRunning
  BY <1>7 DEF CheckRunning, BuffersInv, Taken
<1>8. CASE Wait
  BY <1>8 DEF Wait, BuffersInv, Taken
<1>9. CASE Collect
  <2>1. backend \in {"lock", "wait"}
    BY <1>9 DEF Collect
  <2>2. newBuffer1 = <<>> /\ newBuffer2 = <<>> /\ buffersToWrite = <<>>
    BY <2>1 DEF BuffersInv
  <2>3. Len(buffersToWrite') = Len(buffers) + 1 /\ Len(buffers) \in Nat
        /\ (buffers # <<>> => Len(buffers) >= 1)
    BY <1>9, AppendProperties, LenProperties, EmptySeq DEF Collect, TypeOK
  <2>4. nextBuffer' # Null /\ newBuffer1' = Null /\ backend' = "write" /\ owner' # "off"
    BY <1>9, <2>1, <2>2, NullIsNoBuffer DEF Collect, BuffersInv
  <2>5. newBuffer2' = Null => buffers # <<>>
    BY <1>9, <2>2, NullIsNoBuffer DEF Collect, BuffersInv
  <2> QED
    BY <2>3, <2>4, <2>5 DEF BuffersInv, Taken
<1>10. CASE Write
  <2> DEFINE size == Len(buffersToWrite)
             kept == IF size > DropLimit THEN Keep ELSE size
             reused == IF kept > 2 THEN 2 ELSE kept
  <2>1. size \in Nat /\ reused \in 0 .. size /\ (size >= 2 => reused = 2)
        /\ (size = 1 => reused = 1)
    <3>1. size \in Nat
      BY LenProperties DEF TypeOK
    <3> HIDE DEF size
    <3>2. CASE size > DropLimit
      <4>1. kept = Keep
        BY <3>2
      <4> HIDE DEF kept
      <4>2. Keep > 1 /\ Keep \in Nat /\ size > Keep
        BY <3>1, <3>2, ConstantsAssumption
      <4>3. reused = 2
        BY <4>1, <4>2
      <4> HIDE DEF reused
      <4> QED
        BY <3>1, <4>2, <4>3
    <3>3. CASE ~(size > DropLimit)
      <4>1. kept = size
        BY <3>3
      <4> HIDE DEF kept
      <4>2. reused = IF size > 2 THEN 2 ELSE size
        BY <4>1
      <4> HIDE DEF reused
      <4> QED
        BY <3>1, <4>2
    <3> QED
      BY <3>1, <3>2, <3>3
  <2>2. Len(buffersToWrite') = reused
    <3>1. \A i \in 1 .. reused : buffersToWrite[i] \in Buffer
      BY <2>1, ElementOfSeq DEF TypeOK
    <3>2. buffersToWrite' = SubSeq(buffersToWrite, 1, reused)
      BY <1>10 DEF Write
    <3> QED
      BY <2>1, <3>1, <3>2, SubSeqProperties
  <2>3. backend = "write" /\ backend' = "refill"
        /\ UNCHANGED <<nextBuffer, buffers, newBuffer1, newBuffer2, owner>>
    BY <1>10 DEF Write
  <2>4. newBuffer1 = Null /\ size >= Taken
    BY <2>3 DEF BuffersInv
  <2>5. reused >= Taken /\ Taken' = Taken
    <3>1. Taken \in {1, 2} /\ Taken' = Taken
      BY <2>3, <2>4 DEF Taken
    <3> HIDE DEF size, reused
    <3>2. CASE Taken = 1
      BY <2>1, <2>4, <3>1, <3>2
    <3>3. CASE Taken = 2
      BY <2>1, <2>4, <3>1, <3>3
    <3> QED
      BY <3>1, <3>2, <3>3
  <2> QED
    BY <2>2, <2>3, <2>4, <2>5 DEF BuffersInv
<1>11. CASE Refill
  BY <1>11 DEF Refill, BuffersInv, Taken
<1>12. CASE UNCHANGED vars
  BY <1>12 DEF vars, BuffersInv, Taken
<1> QED
  BY <1>1, <1>2, <1>3, <1>4, <1>5, <1>6, <1>7, <1>8, <1>9, <1>10, <1>11, <1>12
  DEF Next, OwnerStep, BackendStep

\* No step loses a line: those that move lines move all of them.
LEMMA NothingLostStep ==
  ASSUME TypeOK, TypeOK', BuffersInv, NothingLost, [Next]_vars PROVE NothingLost'
<1> USE DEF sharedVars, spareVars, ownerVars, fileVars
<1>1. /\ 1 .. logged = written \union dropped \union Lines(Unwritten) \union Lines(buffers)
                          \union Lines(<<currentBuffer>>)
      /\ Lines(Pipeline)' = Lines(Unwritten)' \union Lines(buffers)'
                              \union Lines(<<currentBuffer>>)'
  <2>1. Unwritten \in Seq(Buffer) /\ Unwritten' \in Seq(Buffer)
    BY EmptySeq DEF TypeOK, Unwritten
  <2>2. Lines(Pipeline) = Lines(Unwritten) \union Lines(buffers) \union Lines(<<currentBuffer>>)
    BY <2>1, LinesOfThree DEF TypeOK, Pipeline
  <2>3. Lines(Pipeline') = Lines(Unwritten') \union Lines(buffers')
                             \union Lines(<<currentBuffer'>>)
    BY <2>1, LinesOfThree DEF TypeOK, Pipeline
  <2> QED
    BY <2>2, <2>3 DEF NothingLost, Lines
<1>2. ASSUME 1 .. logged' = written' \union dropped' \union Lines(Unwritten)'
               \union Lines(buffers)' \union Lines(<<currentBuffer>>)'
      PROVE  NothingLost'
  BY <1>1, <1>2 DEF NothingLost
<1>3. Lines(Append(buffers, currentBuffer)) = Lines(buffers) \union Lines(<<currentBuffer>>)
  <2>1. <<currentBuffer>> \in Seq(Buffer) /\ buffers \in Seq(Buffer)
    BY DEF TypeOK
  <2>2. Append(buffers, currentBuffer) = buffers \o <<currentBuffer>>
    BY <2>1, AppendIsConcat DEF TypeOK
  <2>3. Lines(buffers \o <<currentBuffer>>) = Lines(buffers) \union Lines(<<currentBuffer>>)
    BY ONLY <2>1, LinesConcat
  <2> QED
    BY ONLY <2>2, <2>3
<1>4. ASSUME NEW len \in Lengths, AppendLine(len) PROVE NothingLost'
  <2> DEFINE line == [n |-> logged + 1, len |-> len]
  <2>1. line \in Line /\ line.n = logged + 1
    BY <1>4, LineAppended
  <2>2. logged' = logged + 1 /\ written' = written /\ dropped' = dropped
        /\ Unwritten' = Unwritten
    BY <1>4 DEF AppendLine, Unwritten
  <2>3. 1 .. logged' = (1 .. logged) \union {line.n}
    BY <2>1, <2>2 DEF TypeOK
  <2>4. CASE Avail(currentBuffer) > len
    <3>1. currentBuffer' = Append(currentBuffer, line) /\ buffers' = buffers
      BY <1>4, <2>4 DEF AppendLine
    <3>2. Lines(<<Append(currentBuffer, line)>>) = Lines(<<currentBuffer>>) \union {line.n}
      BY <2>1, LinesAppendLine DEF TypeOK
    <3> QED
      BY <1>1, <1>2, <2>2, <2>3, <3>1, <3>2
  <2>5. CASE ~(Avail(currentBuffer) > len)
    <3>1. buffers' = Append(buffers, currentBuffer)
      BY <1>4, <2>5 DEF AppendLine
    <3>2. currentBuffer' = Append(<<>>, line)
      <4>1. <<line>> = Append(<<>>, line)
        OBVIOUS
      <4> QED
        BY <1>4, <2>5, <4>1 DEF AppendLine, TypeOK
    <3>3. Lines(<<Append(<<>>, line)>>) = {line.n}
      <4>1. <<>> \in Buffer
        BY EmptySeq DEF Buffer
      <4> QED
        BY <2>1, <4>1, LinesAppendLine, LinesOfNothing
    <3> QED
      BY <1>1, <1>2, <1>3, <2>2, <2>3, <3>1, <3>2, <3>3
  <2> QED
    BY <2>4, <2>5
<1>5. CASE Collect
  <2>1. newBuffer1 = <<>> /\ buffersToWrite = <<>> /\ backend # "write"
    BY <1>5 DEF Collect, BuffersInv
  <2>2. Unwritten = <<>> /\ Unwritten' = Append(buffers, currentBuffer)
        /\ buffers' = <<>> /\ currentBuffer' = <<>>
        /\ UNCHANGED <<logged, written, dropped>>
    BY <1>5, <2>1 DEF Collect, Unwritten
  <2>3. Lines(Unwritten) = {} /\ Lines(buffers)' = {} /\ Lines(<<currentBuffer>>)' = {}
    BY <2>2, LinesOfNothing
  <2> QED
    BY <1>1, <1>2, <1>3, <2>2, <2>3
<1>6. CASE Write
  <2> DEFINE size == Len(buffersToWrite)
             kept == IF size > DropLimit THEN Keep ELSE size
  <2>1. size \in Nat /\ kept \in 0 .. size
    BY ConstantsAssumption, LenProperties DEF TypeOK
  <2>2. written' \union dropped' = written \union dropped \union Lines(buffersToWrite)
    <3>1. Lines(SubSeq(buffersToWrite, 1, kept)) \union Lines(SubSeq(buffersToWrite, kept + 1, size))
            = Lines(buffersToWrite)
      BY <2>1, LinesCut DEF TypeOK
    <3>2. /\ written' = written \union Lines(SubSeq(buffersToWrite, 1, kept))
          /\ dropped' = dropped \union Lines(SubSeq(buffersToWrite, kept + 1, size))
      BY <1>6 DEF Write
    <3> QED
      BY <3>1, <3>2
  <2>3. Unwritten = buffersToWrite /\ Unwritten' = <<>>
        /\ UNCHANGED <<logged, buffers, currentBuffer>>
    BY <1>6 DEF Write, Unwritten
  <2>4. Lines(Unwritten)' = {}
    BY <2>3, LinesOfNothing
  <2> QED
    BY <1>1, <1>2, <2>2, <2>3, <2>4
<1>7. ASSUME UNCHANGED <<logged, written, dropped, buffers, currentBuffer, Unwritten>>
      PROVE  NothingLost'
  BY <1>1, <1>2, <1>7
<1>8. CASE OwnerStep
  BY <1>7, <1>8 DEF OwnerStep, Start, Started, Stop, Joined, Unwritten, BuffersInv
<1>9. CASE Begin \/ CheckRunning \/ Wait \/ Refill
  BY <1>7, <1>9 DEF Begin, CheckRunning, Wait, Refill, Unwritten
<1>10. CASE UNCHANGED vars
  BY <1>7, <1>10 DEF vars, Unwritten
<1> QED
  BY <1>4, <1>5, <1>6, <1>8, <1>9, <1>10 DEF Next, BackendStep

-----------------------------------------------------------------------------
(* The theorems. *)

\* Every reachable state satisfies the inductive invariant.
THEOREM Invariance == Spec => []IInv
<1>1. Init => IInv
  BY InitInv
<1>2. IInv /\ [Next]_vars => IInv'
  BY TypeStep, BuffersStep, NothingLostStep DEF IInv
<1> QED
  BY <1>1, <1>2, PTL DEF Spec

\* The members of async_logging.h and the locals of threadFunc() keep their types;
\* in particular a spare buffer is never one with lines left in it.
THEOREM TypeCorrect == Spec => []TypeOK
<1>1. IInv => TypeOK
  BY DEF IInv
<1> QED
  BY <1>1, Invariance, PTL

\* async_logging.cpp:28-49, 64-125: for any capacity, limit and interleaving, and
\* over stops and restarts, no line that append() took disappears.
THEOREM NoLineIsLost == Spec => []NothingLost
<1>1. IInv => NothingLost
  BY DEF IInv
<1> QED
  BY <1>1, Invariance, PTL

\* async_logging.cpp:65-67, 83, 107-121: the backend always has enough buffers
\* to take the place of the ones it gave away; it never runs out of them.
THEOREM AssertsHold == Spec => []BackendAsserts
<1>1. IInv => BackendAsserts
  <2> SUFFICES ASSUME IInv PROVE BackendAsserts
    OBVIOUS
  <2>1. backend = "write" => buffersToWrite # <<>>
    <3> SUFFICES ASSUME backend = "write" PROVE buffersToWrite # <<>>
      OBVIOUS
    <3>1. newBuffer1 = Null /\ Len(buffersToWrite) >= Taken
      BY DEF IInv, BuffersInv
    <3>2. Taken >= 1
      BY <3>1 DEF Taken
    <3>3. Len(<<>>) = 0 /\ Taken \in Nat
      BY EmptySeq DEF Taken
    <3> QED
      BY <3>1, <3>2, <3>3
  <2> QED
    BY <2>1 DEF IInv, BuffersInv, BackendAsserts
<1> QED
  BY <1>1, Invariance, PTL

-----------------------------------------------------------------------------
(* The order of the lines. *)

\* Every line comes after those before it in its buffer and in earlier buffers.
Sorted(bs) ==
  \A i, j \in DOMAIN bs :
    \A k \in DOMAIN bs[i], l \in DOMAIN bs[j] :
      i < j \/ (i = j /\ k < l) => bs[i][k].n < bs[j][l].n

Before(ms, ns) == \A m \in ms, n \in ns : m < n

LEMMA SortedConcat ==
  ASSUME NEW s \in Seq(Buffer), NEW u \in Seq(Buffer)
  PROVE  Sorted(s \o u) <=> Sorted(s) /\ Sorted(u) /\ Before(Lines(s), Lines(u))
<1> DEFINE w == s \o u
<1>1. /\ Len(s) \in Nat /\ Len(u) \in Nat
      /\ DOMAIN s = 1 .. Len(s) /\ DOMAIN u = 1 .. Len(u)
      /\ DOMAIN w = 1 .. Len(s) + Len(u)
      /\ \A i \in 1 .. Len(s) + Len(u) :
           w[i] = IF i <= Len(s) THEN s[i] ELSE u[i - Len(s)]
  BY ConcatProperties, LenProperties
<1> HIDE DEF w
<1>2. \A i \in DOMAIN s : i \in DOMAIN w /\ w[i] = s[i]
  BY <1>1
<1>3. \A i \in DOMAIN u : i + Len(s) \in DOMAIN w /\ w[i + Len(s)] = u[i]
  BY <1>1
<1>4. \A i \in DOMAIN w : \/ i \in DOMAIN s /\ w[i] = s[i]
                          \/ i > Len(s) /\ i - Len(s) \in DOMAIN u /\ w[i] = u[i - Len(s)]
  BY <1>1
<1>5. ASSUME Sorted(w) PROVE Sorted(s) /\ Sorted(u) /\ Before(Lines(s), Lines(u))
  <2>1. Sorted(s)
    BY <1>2, <1>5 DEF Sorted
  <2>2. Sorted(u)
    <3> SUFFICES ASSUME NEW i \in DOMAIN u, NEW j \in DOMAIN u,
                        NEW k \in DOMAIN u[i], NEW l \in DOMAIN u[j], i < j \/ (i = j /\ k < l)
                 PROVE  u[i][k].n < u[j][l].n
      BY DEF Sorted
    <3>1. /\ i + Len(s) \in DOMAIN w /\ w[i + Len(s)] = u[i]
          /\ j + Len(s) \in DOMAIN w /\ w[j + Len(s)] = u[j]
      BY <1>3
    <3>2. i + Len(s) < j + Len(s) \/ (i + Len(s) = j + Len(s) /\ k < l)
      BY <1>1
    <3> QED
      BY <1>5, <3>1, <3>2 DEF Sorted
  <2>3. ASSUME NEW m \in Lines(s), NEW n \in Lines(u) PROVE m < n
    <3>1. PICK i \in DOMAIN s : \E k \in DOMAIN s[i] : m = s[i][k].n
      BY InLines
    <3>2. PICK j \in DOMAIN u : \E l \in DOMAIN u[j] : n = u[j][l].n
      BY InLines
    <3>3. PICK k \in DOMAIN s[i] : m = s[i][k].n
      BY <3>1
    <3>4. PICK l \in DOMAIN u[j] : n = u[j][l].n
      BY <3>2
    <3>5. i \in DOMAIN w /\ w[i] = s[i] /\ j + Len(s) \in DOMAIN w /\ w[j + Len(s)] = u[j]
      BY <1>2, <1>3
    <3>6. i < j + Len(s)
      BY <1>1
    <3> QED
      BY <1>5, <3>3, <3>4, <3>5, <3>6 DEF Sorted
  <2> QED
    BY <2>1, <2>2, <2>3 DEF Before
<1>6. ASSUME Sorted(s), Sorted(u), Before(Lines(s), Lines(u)) PROVE Sorted(w)
  <2> SUFFICES ASSUME NEW i \in DOMAIN w, NEW j \in DOMAIN w,
                      NEW k \in DOMAIN w[i], NEW l \in DOMAIN w[j], i < j \/ (i = j /\ k < l)
               PROVE  w[i][k].n < w[j][l].n
    BY DEF Sorted
  <2>1. CASE i \in DOMAIN s /\ w[i] = s[i] /\ j \in DOMAIN s /\ w[j] = s[j]
    BY <1>6, <2>1 DEF Sorted
  <2>2. CASE /\ i > Len(s) /\ i - Len(s) \in DOMAIN u /\ w[i] = u[i - Len(s)]
             /\ j > Len(s) /\ j - Len(s) \in DOMAIN u /\ w[j] = u[j - Len(s)]
    <3>1. i - Len(s) < j - Len(s) \/ (i - Len(s) = j - Len(s) /\ k < l)
      BY <1>1
    <3> QED
      BY <1>6, <2>2, <3>1 DEF Sorted
  <2>3. CASE /\ i \in DOMAIN s /\ w[i] = s[i]
             /\ j > Len(s) /\ j - Len(s) \in DOMAIN u /\ w[j] = u[j - Len(s)]
    <3>1. w[i][k].n \in Lines(s) /\ w[j][l].n \in Lines(u)
      BY <2>3, InLines
    <3> QED
      BY <1>6, <3>1 DEF Before
  <2>4. CASE i > Len(s) /\ j \in DOMAIN s
    BY <1>1, <2>4
  <2> QED
    BY <1>4, <2>1, <2>2, <2>3, <2>4
<1> QED
  BY <1>5, <1>6 DEF w

LEMMA SortedNothing == Sorted(<<>>) /\ Sorted(<<<<>>>>)
<1>1. DOMAIN <<>> = {} /\ DOMAIN <<<<>>>> = {1} /\ <<<<>>>>[1] = <<>>
  OBVIOUS
<1> QED
  BY <1>1 DEF Sorted

LEMMA SortedAppendLine ==
  ASSUME NEW b \in Buffer, NEW line \in Line, Sorted(<<b>>), Before(Lines(<<b>>), {line.n})
  PROVE  Sorted(<<Append(b, line)>>)
<1> DEFINE c == Append(b, line)
<1>1. /\ Len(b) \in Nat /\ DOMAIN b = 1 .. Len(b) /\ DOMAIN c = 1 .. Len(b) + 1
      /\ \A k \in 1 .. Len(b) : c[k] = b[k]
      /\ c[Len(b) + 1] = line
  BY AppendProperties, LenProperties DEF Buffer
<1> HIDE DEF c
<1>2. \A k, l \in DOMAIN b : k < l => b[k].n < b[l].n
  <2>1. DOMAIN <<b>> = {1} /\ <<b>>[1] = b
    OBVIOUS
  <2> QED
    BY <2>1 DEF Sorted
<1>3. \A k \in DOMAIN b : b[k].n < line.n
  <2>1. DOMAIN <<b>> = {1} /\ <<b>>[1] = b
    OBVIOUS
  <2>2. \A k \in DOMAIN b : b[k].n \in Lines(<<b>>)
    BY <2>1, InLines
  <2> QED
    BY <2>2 DEF Before
<1>4. \A k, l \in DOMAIN c : k < l => c[k].n < c[l].n
  <2> SUFFICES ASSUME NEW k \in DOMAIN c, NEW l \in DOMAIN c, k < l PROVE c[k].n < c[l].n
    OBVIOUS
  <2>1. k \in DOMAIN b /\ c[k] = b[k]
    BY <1>1
  <2>2. CASE l \in DOMAIN b
    BY <1>1, <1>2, <2>1, <2>2
  <2>3. CASE l = Len(b) + 1
    BY <1>1, <1>3, <2>1, <2>3
  <2> QED
    BY <1>1, <2>2, <2>3
<1>5. Sorted(<<c>>)
  <2>1. DOMAIN <<c>> = {1} /\ <<c>>[1] = c
    OBVIOUS
  <2> QED
    BY <1>4, <2>1 DEF Sorted
<1> QED
  BY <1>5 DEF c

LEMMA SortedThree ==
  ASSUME NEW s \in Seq(Buffer), NEW u \in Seq(Buffer), NEW b \in Buffer
  PROVE  Sorted(s \o u \o <<b>>) <=>
           /\ Sorted(s) /\ Sorted(u) /\ Sorted(<<b>>)
           /\ Before(Lines(s), Lines(u))
           /\ Before(Lines(s), Lines(<<b>>)) /\ Before(Lines(u), Lines(<<b>>))
<1> DEFINE x == s \o u
           y == <<b>>
<1>1. x \in Seq(Buffer)
  BY ConcatProperties
<1>2. y \in Seq(Buffer)
  OBVIOUS
<1>3. /\ Sorted(x) <=> Sorted(s) /\ Sorted(u) /\ Before(Lines(s), Lines(u))
      /\ Lines(x) = Lines(s) \union Lines(u)
  BY SortedConcat, LinesConcat
<1> HIDE DEF x, y
<1>4. Sorted(x \o y) <=> Sorted(x) /\ Sorted(y) /\ Before(Lines(x), Lines(y))
  BY <1>1, <1>2, SortedConcat
<1>5. Before(Lines(x), Lines(y)) <=> Before(Lines(s), Lines(y)) /\ Before(Lines(u), Lines(y))
  BY <1>3 DEF Before
<1> QED
  BY <1>3, <1>4, <1>5 DEF x, y

\* FileOrder, part by part.
LEMMA OrderParts ==
  ASSUME TypeOK
  PROVE  FileOrder <=>
           /\ Sorted(Unwritten) /\ Sorted(buffers) /\ Sorted(<<currentBuffer>>)
           /\ Before(Lines(Unwritten), Lines(buffers))
           /\ Before(Lines(Unwritten), Lines(<<currentBuffer>>))
           /\ Before(Lines(buffers), Lines(<<currentBuffer>>))
           /\ Before(written \union dropped, Lines(Unwritten))
           /\ Before(written \union dropped, Lines(buffers))
           /\ Before(written \union dropped, Lines(<<currentBuffer>>))
           /\ written \intersect dropped = {}
<1>1. Unwritten \in Seq(Buffer) /\ buffers \in Seq(Buffer) /\ currentBuffer \in Buffer
  BY EmptySeq DEF TypeOK, Unwritten
<1>2. /\ Sorted(Pipeline) <=>
           /\ Sorted(Unwritten) /\ Sorted(buffers) /\ Sorted(<<currentBuffer>>)
           /\ Before(Lines(Unwritten), Lines(buffers))
           /\ Before(Lines(Unwritten), Lines(<<currentBuffer>>))
           /\ Before(Lines(buffers), Lines(<<currentBuffer>>))
      /\ Lines(Pipeline) = Lines(Unwritten) \union Lines(buffers) \union Lines(<<currentBuffer>>)
  BY <1>1, SortedThree, LinesOfThree DEF Pipeline
<1>3. FileOrder <=> /\ Sorted(Pipeline) /\ Before(written \union dropped, Lines(Pipeline))
                    /\ written \intersect dropped = {}
  BY DEF FileOrder, Sorted, Before
<1>4. Before(written \union dropped, Lines(Pipeline)) <=>
        /\ Before(written \union dropped, Lines(Unwritten))
        /\ Before(written \union dropped, Lines(buffers))
        /\ Before(written \union dropped, Lines(<<currentBuffer>>))
  BY <1>2 DEF Before
<1> QED
  BY <1>2, <1>3, <1>4

LEMMA InitOrder == Init => FileOrder
<1> SUFFICES ASSUME Init PROVE FileOrder
  OBVIOUS
<1>1. TypeOK
  BY InitInv DEF IInv
<1>2. /\ Unwritten = <<>> /\ buffers = <<>> /\ currentBuffer = <<>>
      /\ written = {} /\ dropped = {}
  BY DEF Init, Unwritten
<1> QED
  BY <1>1, <1>2, OrderParts, SortedNothing, LinesOfNothing DEF Before

LEMMA FileOrderStep ==
  ASSUME IInv, IInv', FileOrder, [Next]_vars PROVE FileOrder'
<1> USE DEF sharedVars, spareVars, ownerVars, fileVars
<1>0. TypeOK /\ TypeOK' /\ BuffersInv /\ NothingLost
  BY DEF IInv
<1>1. /\ Sorted(Unwritten) /\ Sorted(buffers) /\ Sorted(<<currentBuffer>>)
      /\ Before(Lines(Unwritten), Lines(buffers))
      /\ Before(Lines(Unwritten), Lines(<<currentBuffer>>))
      /\ Before(Lines(buffers), Lines(<<currentBuffer>>))
      /\ Before(written \union dropped, Lines(Unwritten))
      /\ Before(written \union dropped, Lines(buffers))
      /\ Before(written \union dropped, Lines(<<currentBuffer>>))
      /\ written \intersect dropped = {}
  BY <1>0, OrderParts
<1>2. ASSUME /\ Sorted(Unwritten)' /\ Sorted(buffers)' /\ Sorted(<<currentBuffer>>)'
             /\ Before(Lines(Unwritten)', Lines(buffers)')
             /\ Before(Lines(Unwritten)', Lines(<<currentBuffer>>)')
             /\ Before(Lines(buffers)', Lines(<<currentBuffer>>)')
             /\ Before(written' \union dropped', Lines(Unwritten)')
             /\ Before(written' \union dropped', Lines(buffers)')
             /\ Before(written' \union dropped', Lines(<<currentBuffer>>)')
             /\ written' \intersect dropped' = {}
      PROVE  FileOrder'
  <2>1. (TypeOK =>
          (FileOrder <=>
             /\ Sorted(Unwritten) /\ Sorted(buffers) /\ Sorted(<<currentBuffer>>)
             /\ Before(Lines(Unwritten), Lines(buffers))
             /\ Before(Lines(Unwritten), Lines(<<currentBuffer>>))
             /\ Before(Lines(buffers), Lines(<<currentBuffer>>))
             /\ Before(written \union dropped, Lines(Unwritten))
             /\ Before(written \union dropped, Lines(buffers))
             /\ Before(written \union dropped, Lines(<<currentBuffer>>))
             /\ written \intersect dropped = {}))'
    BY OrderParts, PTL
  <2> QED
    BY <1>0, <1>2, <2>1 DEF Before
<1>3. /\ 1 .. logged = written \union dropped \union Lines(Unwritten) \union Lines(buffers)
                          \union Lines(<<currentBuffer>>)
      /\ logged \in Nat /\ \A n \in 1 .. logged : n \in Nat /\ n < logged + 1
  <2>1. Unwritten \in Seq(Buffer)
    BY <1>0, EmptySeq DEF TypeOK, Unwritten
  <2>2. Lines(Pipeline) = Lines(Unwritten) \union Lines(buffers) \union Lines(<<currentBuffer>>)
    BY <1>0, <2>1, LinesOfThree DEF TypeOK, Pipeline
  <2>3. logged \in Nat
    BY <1>0, ConstantsAssumption DEF TypeOK
  <2> QED
    BY <1>0, <2>2, <2>3 DEF NothingLost
<1>4. /\ Lines(Append(buffers, currentBuffer)) = Lines(buffers) \union Lines(<<currentBuffer>>)
      /\ Sorted(Append(buffers, currentBuffer))
  <2>1. <<currentBuffer>> \in Seq(Buffer) /\ buffers \in Seq(Buffer)
    BY <1>0 DEF TypeOK
  <2>2. Append(buffers, currentBuffer) = buffers \o <<currentBuffer>>
    BY <1>0, <2>1, AppendIsConcat DEF TypeOK
  <2>3. Lines(buffers \o <<currentBuffer>>) = Lines(buffers) \union Lines(<<currentBuffer>>)
    BY ONLY <2>1, LinesConcat
  <2>4. Sorted(buffers \o <<currentBuffer>>)
    BY <1>1, <2>1, SortedConcat
  <2> QED
    BY ONLY <2>2, <2>3, <2>4
<1>5. ASSUME NEW len \in Lengths, AppendLine(len) PROVE FileOrder'
  <2> DEFINE line == [n |-> logged + 1, len |-> len]
  <2>1. line \in Line /\ line.n = logged + 1
    BY <1>0, <1>5, LineAppended
  <2>2. written' = written /\ dropped' = dropped /\ Unwritten' = Unwritten
    BY <1>5 DEF AppendLine, Unwritten
  <2>3. \A ns : ns \subseteq 1 .. logged => Before(ns, {line.n})
    BY <1>3, <2>1 DEF Before
  <2> HIDE DEF line
  <2>4. CASE Avail(currentBuffer) > len
    <3>1. currentBuffer' = Append(currentBuffer, line) /\ buffers' = buffers
      BY <1>5, <2>4 DEF AppendLine, line
    <3>2. Lines(<<Append(currentBuffer, line)>>) = Lines(<<currentBuffer>>) \union {line.n}
      BY <1>0, <2>1, LinesAppendLine DEF TypeOK
    <3>3. Sorted(<<Append(currentBuffer, line)>>)
      BY <1>0, <1>1, <1>3, <2>1, <2>3, SortedAppendLine DEF TypeOK
    <3>4. /\ Lines(Unwritten)' = Lines(Unwritten) /\ Lines(buffers)' = Lines(buffers)
          /\ Lines(<<currentBuffer>>)' = Lines(<<currentBuffer>>) \union {line.n}
          /\ Sorted(Unwritten)' /\ Sorted(buffers)' /\ Sorted(<<currentBuffer>>)'
      BY <1>1, <2>2, <3>1, <3>2, <3>3
    <3> QED
      BY <1>1, <1>2, <1>3, <2>2, <2>3, <3>4 DEF Before
  <2>5. CASE ~(Avail(currentBuffer) > len)
    <3>1. buffers' = Append(buffers, currentBuffer)
      BY <1>5, <2>5 DEF AppendLine
    <3>2. currentBuffer' = Append(<<>>, line)
      <4>1. <<line>> = Append(<<>>, line)
        OBVIOUS
      <4> QED
        BY <1>0, <1>5, <2>5, <4>1 DEF AppendLine, TypeOK, line
    <3>3. Lines(<<Append(<<>>, line)>>) = {line.n} /\ Sorted(<<Append(<<>>, line)>>)
      <4>1. <<>> \in Buffer /\ Before(Lines(<<<<>>>>), {line.n})
        BY EmptySeq, LinesOfNothing DEF Buffer, Before
      <4> QED
        BY <2>1, <4>1, LinesAppendLine, LinesOfNothing, SortedNothing, SortedAppendLine
    <3>4. /\ Lines(Unwritten)' = Lines(Unwritten)
          /\ Lines(buffers)' = Lines(buffers) \union Lines(<<currentBuffer>>)
          /\ Lines(<<currentBuffer>>)' = {line.n}
          /\ Sorted(Unwritten)' /\ Sorted(buffers)' /\ Sorted(<<currentBuffer>>)'
      BY <1>1, <1>4, <2>2, <3>1, <3>2, <3>3
    <3> QED
      BY <1>1, <1>2, <1>3, <2>2, <2>3, <3>4 DEF Before
  <2> QED
    BY <2>4, <2>5
<1>6. CASE Collect
  <2>1. newBuffer1 = <<>> /\ buffersToWrite = <<>> /\ backend # "write"
    BY <1>0, <1>6 DEF Collect, BuffersInv
  <2>2. Unwritten = <<>> /\ Unwritten' = Append(buffers, currentBuffer)
        /\ buffers' = <<>> /\ currentBuffer' = <<>>
        /\ UNCHANGED <<written, dropped>>
    BY <1>6, <2>1 DEF Collect, Unwritten
  <2>3. /\ Lines(Unwritten)' = Lines(buffers) \union Lines(<<currentBuffer>>)
        /\ Lines(buffers)' = {} /\ Lines(<<currentBuffer>>)' = {}
        /\ Sorted(Unwritten)' /\ Sorted(buffers)' /\ Sorted(<<currentBuffer>>)'
    BY <1>4, <2>2, LinesOfNothing, SortedNothing
  <2> QED
    BY <1>1, <1>2, <2>2, <2>3 DEF Before
<1>7. CASE Write
  <2> DEFINE size == Len(buffersToWrite)
             kept == IF size > DropLimit THEN Keep ELSE size
             first == SubSeq(buffersToWrite, 1, kept)
             rest == SubSeq(buffersToWrite, kept + 1, size)
  <2>1. size \in Nat /\ kept \in 0 .. size /\ buffersToWrite \in Seq(Buffer)
    BY <1>0, ConstantsAssumption, LenProperties DEF TypeOK
  <2>2. /\ written' = written \union Lines(first) /\ dropped' = dropped \union Lines(rest)
        /\ Unwritten = buffersToWrite /\ Unwritten' = <<>>
        /\ UNCHANGED <<buffers, currentBuffer>>
    BY <1>7 DEF Write, Unwritten
  <2>3. first \o rest = buffersToWrite /\ first \in Seq(Buffer) /\ rest \in Seq(Buffer)
    <3> HIDE DEF kept
    <3>1. /\ 1 \in 1 .. size + 1 /\ kept \in 1 - 1 .. size /\ size \in kept .. size
      BY <2>1
    <3>2. first \o rest = SubSeq(buffersToWrite, 1, size)
      BY <2>1, <3>1, ConcatAdjacentSubSeq
    <3>3. SubSeq(buffersToWrite, 1, size) = buffersToWrite
      BY <2>1, SubSeqFull
    <3>4. \A i \in 1 .. size : buffersToWrite[i] \in Buffer
      BY <2>1, ElementOfSeq
    <3>5. first \in Seq(Buffer) /\ rest \in Seq(Buffer)
      BY <2>1, <3>4, SubSeqProperties
    <3> QED
      BY <3>2, <3>3, <3>5
  <2> HIDE DEF first, rest
  <2>4. /\ Lines(Unwritten) = Lines(first) \union Lines(rest)
        /\ Before(Lines(first), Lines(rest))
    BY <1>1, <2>2, <2>3, LinesConcat, SortedConcat
  <2>5. written' \union dropped' = written \union dropped \union Lines(Unwritten)
    BY <2>2, <2>4
  <2>6. written' \intersect dropped' = {}
    <3> SUFFICES ASSUME NEW n \in written' \intersect dropped' PROVE FALSE
      OBVIOUS
    <3>1. n \in Nat /\ ~(n < n)
      BY <1>3, <2>5
    <3>2. n \in written \union Lines(first) /\ n \in dropped \union Lines(rest)
      BY <2>2
    <3> QED
      BY <1>1, <2>4, <3>1, <3>2 DEF Before
  <2>7. /\ Lines(Unwritten)' = {} /\ Lines(buffers)' = Lines(buffers)
        /\ Lines(<<currentBuffer>>)' = Lines(<<currentBuffer>>)
        /\ Sorted(Unwritten)' /\ Sorted(buffers)' /\ Sorted(<<currentBuffer>>)'
    BY <1>1, <2>2, LinesOfNothing, SortedNothing
  <2> QED
    BY <1>1, <1>2, <2>5, <2>6, <2>7 DEF Before
<1>8. ASSUME UNCHANGED <<written, dropped, buffers, currentBuffer, Unwritten>>
      PROVE  FileOrder'
  BY <1>1, <1>2, <1>8
<1>9. CASE OwnerStep
  BY <1>0, <1>8, <1>9 DEF OwnerStep, Start, Started, Stop, Joined, Unwritten, BuffersInv
<1>10. CASE Begin \/ CheckRunning \/ Wait \/ Refill
  BY <1>8, <1>10 DEF Begin, CheckRunning, Wait, Refill, Unwritten
<1>11. CASE UNCHANGED vars
  BY <1>8, <1>11 DEF vars, Unwritten
<1> QED
  BY <1>5, <1>6, <1>7, <1>9, <1>10, <1>11 DEF Next, BackendStep

\* async_logging.cpp:28-49, 64-125: the lines reach the file in the order append() gave
\* them, each once, whichever buffers were swapped, cut or reused in between.
THEOREM FileKeepsOrder == Spec => []FileOrder
  BY InitOrder, FileOrderStep, Invariance, PTL DEF Spec

-----------------------------------------------------------------------------
(* When lines are dropped. *)

\* A buffer leaves the front end when a line does not fit, or with Collect, last.
FullInv ==
  /\ \A i \in 1 .. Len(buffers) : Full(buffers[i])
  /\ backend = "write" => \A i \in 1 .. Len(buffersToWrite) - 1 : Full(buffersToWrite[i])

LEMMA FullStep ==
  ASSUME IInv, FullInv, [Next]_vars PROVE FullInv'
<1> USE DEF sharedVars, spareVars, ownerVars, fileVars
<1>0. /\ BuffersInv /\ buffers \in Seq(Buffer) /\ currentBuffer \in Buffer /\ Len(buffers) \in Nat
  BY LenProperties DEF IInv, TypeOK
<1>1. /\ Len(Append(buffers, currentBuffer)) = Len(buffers) + 1
      /\ \A i \in 1 .. Len(buffers) : Append(buffers, currentBuffer)[i] = buffers[i]
      /\ Append(buffers, currentBuffer)[Len(buffers) + 1] = currentBuffer
  BY <1>0, AppendProperties
<1>2. CASE buffers' = buffers /\ (backend' = "write" => UNCHANGED <<backend, buffersToWrite>>)
  <2>1. \A i \in 1 .. Len(buffers') : Full(buffers'[i])
    BY <1>2 DEF FullInv
  <2>2. CASE backend' # "write"
    BY <2>1, <2>2 DEF FullInv
  <2>3. CASE backend' = "write"
    <3>1. backend = "write" /\ buffersToWrite' = buffersToWrite
      BY <1>2, <2>3
    <3>2. \A i \in 1 .. Len(buffersToWrite') - 1 : Full(buffersToWrite'[i])
      BY <3>1 DEF FullInv
    <3> QED
      BY <2>1, <3>2 DEF FullInv
  <2> QED
    BY <2>2, <2>3
<1>3. ASSUME NEW len \in Lengths, AppendLine(len) PROVE FullInv'
  <2>1. UNCHANGED <<backend, buffersToWrite>>
    BY <1>3 DEF AppendLine
  <2>2. CASE Avail(currentBuffer) > len
    BY <1>2, <1>3, <2>1, <2>2 DEF AppendLine
  <2>3. CASE ~(Avail(currentBuffer) > len)
    <3>1. buffers' = Append(buffers, currentBuffer) /\ Full(currentBuffer)
      BY <1>3, <2>3 DEF AppendLine, Full
    <3>2. \A i \in 1 .. Len(buffers') : Full(buffers'[i])
      BY <1>0, <1>1, <3>1 DEF FullInv
    <3> QED
      BY <2>1, <3>2 DEF FullInv
  <2> QED
    BY <2>2, <2>3
<1>4. CASE Collect
  <2>1. buffers' = <<>> /\ Len(<<>>) = 0 /\ buffersToWrite' = Append(buffers, currentBuffer)
    BY <1>0, <1>4, EmptySeq DEF Collect, BuffersInv
  <2>2. \A i \in 1 .. Len(buffersToWrite') - 1 : Full(buffersToWrite'[i])
    BY <1>0, <1>1, <2>1 DEF FullInv
  <2> QED
    BY <2>1, <2>2 DEF FullInv
<1>5. CASE OwnerStep \/ Begin \/ CheckRunning \/ Wait \/ Write \/ Refill \/ UNCHANGED vars
  BY <1>2, <1>5
  DEF OwnerStep, Start, Started, Stop, Joined, Begin, CheckRunning, Wait, Write, Refill, vars
<1> QED
  BY <1>3, <1>4, <1>5 DEF Next, BackendStep

\* async_logging.cpp:85-93: lines are dropped only with a batch that is too long and whose
\* buffers but the last were given up for want of room.
THEOREM DropsOnlyWhenBehind == Spec => DropsOnlyBehind
<1>1. Init => FullInv
  BY EmptySeq DEF Init, FullInv
<1>2. IInv /\ FullInv /\ [Next]_vars => FullInv'
  BY FullStep
<1>3. IInv /\ FullInv /\ [Next]_vars =>
        [dropped' # dropped =>
           /\ Len(buffersToWrite) > DropLimit
           /\ \A i \in 1 .. Len(buffersToWrite) - 1 : Full(buffersToWrite[i])]_vars
  <2> SUFFICES ASSUME IInv, FullInv, [Next]_vars, dropped' # dropped
               PROVE  /\ Len(buffersToWrite) > DropLimit
                      /\ \A i \in 1 .. Len(buffersToWrite) - 1 : Full(buffersToWrite[i])
    OBVIOUS
  <2>1. Write
    BY DEF Next, AppendLine, OwnerStep, Start, Started, Stop, Joined, BackendStep, Begin,
           CheckRunning, Wait, Collect, Refill, vars, fileVars
  <2>2. Len(buffersToWrite) > DropLimit
    <3> SUFFICES ASSUME ~(Len(buffersToWrite) > DropLimit) PROVE FALSE
      OBVIOUS
    <3> DEFINE size == Len(buffersToWrite)
    <3>1. dropped' = dropped \union Lines(SubSeq(buffersToWrite, size + 1, size))
      BY <2>1 DEF Write
    <3>2. size \in Nat /\ SubSeq(buffersToWrite, size + 1, size) = <<>>
      BY LenProperties, SubSeqEmpty DEF IInv, TypeOK
    <3> QED
      BY <3>1, <3>2, LinesOfNothing
  <2> QED
    BY <2>1, <2>2 DEF FullInv, Write
<1> QED
  BY <1>1, <1>2, <1>3, Invariance, PTL DEF Spec, DropsOnlyBehind

-----------------------------------------------------------------------------
(* The handshake of start() and threadFunc(). *)

\* The latch of a logger that is started for the first time is counted down by its
\* thread and by nothing else.
LatchInv ==
  /\ starts = 0 => latch = 1 /\ backend = "none"
  /\ starts <= 1 /\ backend = "begin" => latch = 1 /\ owner = "starting" /\ running

\* async_logging.cpp:54, async_logging.h:26-35: threadFunc() finds running_ set, as it
\* asserts, the first time the logger is started.
THEOREM FirstStartWaits == Spec => []StartedRunning
<1>1. Init => LatchInv
  BY DEF Init, LatchInv
<1>2. IInv /\ LatchInv /\ [Next]_vars => LatchInv'
  <2> SUFFICES ASSUME IInv, LatchInv, [Next]_vars PROVE LatchInv'
    OBVIOUS
  <2> USE DEF LatchInv, sharedVars, spareVars, ownerVars, fileVars
  <2>1. starts \in Nat
    BY ConstantsAssumption DEF IInv, TypeOK
  <2>2. CASE Start
    <3>1. starts' = starts + 1
      BY <2>2 DEF Start
    <3>2. starts' # 0 /\ (starts' <= 1 => starts = 0)
      BY <2>1, <3>1
    <3> QED
      BY <2>2, <3>2 DEF Start
  <2>3. CASE Started
    BY <2>3 DEF Started
  <2>4. CASE Stop
    BY <2>4 DEF Stop
  <2>5. CASE Joined
    BY <2>5 DEF Joined
  <2>6. CASE Begin
    BY <2>6 DEF Begin
  <2>7. CASE CheckRunning
    BY <2>7 DEF CheckRunning
  <2>8. CASE Wait \/ Collect \/ Write \/ Refill
    BY <2>8 DEF Wait, Collect, Write, Refill
  <2>9. CASE \E len \in Lengths : AppendLine(len)
    BY <2>9 DEF AppendLine
  <2>10. CASE UNCHANGED vars
    BY <2>10 DEF vars
  <2> QED
    BY <2>2, <2>3, <2>4, <2>5, <2>6, <2>7, <2>8, <2>9, <2>10 DEF Next, OwnerStep, BackendStep
<1>3. IInv /\ LatchInv => StartedRunning
  <2>1. IInv => starts \in Nat
    BY ConstantsAssumption DEF IInv, TypeOK
  <2> QED
    BY <2>1 DEF LatchInv, StartedRunning
<1> QED
  BY <1>1, <1>2, <1>3, Invariance, PTL DEF Spec

-----------------------------------------------------------------------------
(* Log statements.  A thread that logs has a LogStream of its own, and the *)
(* lines that it makes are those that are appended above.                  *)

(* Induction, stated with sets of natural numbers. *)

LEMMA Least ==
  ASSUME NEW S \in SUBSET Nat, S # {}
  PROVE  \E n \in S : \A m \in S : n <= m
<1> DEFINE Below == OpToRel(<, Nat)
<1>1. IsWellFoundedOn(Below, Nat)
  BY NatLessThanWellFounded
<1>2. \A m, n \in Nat : m < n => <<m, n>> \in Below
  BY DEF OpToRel
<1> HIDE DEF Below
<1>3. PICK n \in S : \A m \in S : ~(<<m, n>> \in Below)
  BY <1>1, WFMin
<1>4. ASSUME NEW m \in S PROVE n <= m
  <2>1. m \in Nat /\ n \in Nat
    OBVIOUS
  <2>2. ~(m < n)
    BY <1>2, <1>3, <2>1
  <2> QED
    BY <2>1, <2>2
<1> QED
  BY <1>4

LEMMA Induction ==
  ASSUME NEW S \in SUBSET Nat, 0 \in S, \A n \in S : n + 1 \in S
  PROVE  S = Nat
<1> SUFFICES ASSUME Nat \ S # {} PROVE FALSE
  OBVIOUS
<1>1. Nat \ S \in SUBSET Nat
  OBVIOUS
<1>2. PICK n \in Nat \ S : \A m \in Nat \ S : n <= m
  BY <1>1, Least
<1>3. n - 1 \in Nat /\ n = (n - 1) + 1
  BY <1>2
<1>4. n - 1 \in S
  BY <1>2, <1>3
<1> QED
  BY <1>3, <1>4

\* What is defined from the value before exists, and is all of one type.
Steps(step, S) == step \in [Nat \X S -> S]
Iterated(f, S, s0, step) ==
  f \in [Nat -> S] /\ f[0] = s0 /\ \A n \in Nat : f[n + 1] = step[<<n, f[n]>>]

LEMMA Iterates ==
  ASSUME NEW S, NEW s0 \in S, NEW step, Steps(step, S)
  PROVE  \E f : Iterated(f, S, s0, step)
<1> USE DEF Steps, Iterated
<1> DEFINE Part(m, g) == /\ g \in [0 .. m -> S] /\ g[0] = s0
                         /\ \A n \in 0 .. m - 1 : g[n + 1] = step[<<n, g[n]>>]
           Good == {m \in Nat : \E g : Part(m, g)}
<1>1. Good = Nat
  <2>1. 0 \in Good
    <3>1. Part(0, [n \in 0 .. 0 |-> s0])
      OBVIOUS
    <3> QED
      BY <3>1
  <2>2. ASSUME NEW m \in Good PROVE m + 1 \in Good
    <3>1. m \in Nat
      OBVIOUS
    <3>2. PICK g : Part(m, g)
      OBVIOUS
    <3> DEFINE h == [n \in 0 .. m + 1 |-> IF n = m + 1 THEN step[<<m, g[m]>>] ELSE g[n]]
    <3>3. step[<<m, g[m]>>] \in S
      BY <3>1, <3>2
    <3>4. h \in [0 .. m + 1 -> S] /\ h[0] = s0
      BY <3>1, <3>2, <3>3
    <3>5. ASSUME NEW n \in 0 .. m PROVE h[n + 1] = step[<<n, h[n]>>]
      <4>1. h[n] = g[n]
        BY <3>1
      <4>2. CASE n = m
        <5>1. h[m + 1] = step[<<m, g[m]>>] /\ h[m] = g[m]
          BY <3>1
        <5> QED
          BY <4>2, <5>1
      <4>3. CASE n # m
        <5>1. n \in 0 .. m - 1 /\ n + 1 # m + 1 /\ n + 1 \in 0 .. m + 1
          BY <3>1, <4>3
        <5> QED
          BY <3>2, <4>1, <5>1
      <4> QED
        BY <4>2, <4>3
    <3>6. 0 .. (m + 1) - 1 = 0 .. m
      BY <3>1
    <3> HIDE DEF h
    <3>7. Part(m + 1, h)
      BY <3>4, <3>5, <3>6
    <3> QED
      BY <3>1, <3>7
  <2> HIDE DEF Good
  <2>3. Good \in SUBSET Nat
    BY DEF Good
  <2> QED
    BY <2>1, <2>2, <2>3, Induction
<1>2. ASSUME NEW m \in Nat, NEW k \in Nat, NEW g, Part(m, g), NEW h, Part(k, h),
             NEW n \in Nat, n <= m, n <= k
      PROVE  g[n] = h[n]
  <2> DEFINE Same == {i \in Nat : i <= m /\ i <= k => g[i] = h[i]}
  <2>1. 0 \in Same
    BY <1>2
  <2>2. ASSUME NEW i \in Same, i + 1 <= m, i + 1 <= k PROVE g[i + 1] = h[i + 1]
    <3>1. i \in 0 .. m - 1 /\ i \in 0 .. k - 1 /\ g[i] = h[i]
      BY <2>2
    <3> QED
      BY <1>2, <3>1
  <2>3. Same = Nat
    <3>1. \A i \in Same : i + 1 \in Same
      BY <2>2
    <3> HIDE DEF Same
    <3>2. Same \in SUBSET Nat
      BY DEF Same
    <3> QED
      BY <2>1, <3>1, <3>2, Induction
  <2> QED
    BY <1>2, <2>3
<1> DEFINE part(m) == CHOOSE g : Part(m, g)
           f == [n \in Nat |-> part(n)[n]]
<1>3. ASSUME NEW m \in Nat PROVE Part(m, part(m))
  <2>1. \E g : Part(m, g)
    BY <1>1
  <2> QED
    BY <2>1
<1> HIDE DEF part
<1>4. ASSUME NEW n \in Nat
      PROVE  f[n] \in S /\ f[n + 1] = step[<<n, f[n]>>]
  <2>1. Part(n, part(n)) /\ Part(n + 1, part(n + 1)) /\ n <= n + 1 /\ n + 1 \in Nat
    BY <1>3
  <2>2. part(n)[n] = part(n + 1)[n]
    <3> HIDE DEF Part
    <3> QED
      BY <1>2, <2>1
  <2>3. part(n + 1)[n + 1] = step[<<n, part(n + 1)[n]>>]
    BY <2>1
  <2> QED
    BY <2>1, <2>2, <2>3
<1>5. f[0] = s0
  BY <1>3
<1> QED
  BY <1>4, <1>5

StepsTo(step, m, S) == step \in [(1 .. m) \X S -> S]
IteratedTo(f, m, S, s0, step) ==
  f \in [0 .. m -> S] /\ f[0] = s0 /\ \A n \in 1 .. m : f[n] = step[<<n, f[n - 1]>>]

LEMMA IteratesTo ==
  ASSUME NEW m \in Nat, NEW S, NEW s0 \in S, NEW step, StepsTo(step, m, S)
  PROVE  \E f : IteratedTo(f, m, S, s0, step)
<1> USE DEF StepsTo, IteratedTo
<1> DEFINE next == [q \in Nat \X S |-> IF q[1] + 1 <= m THEN step[<<q[1] + 1, q[2]>>] ELSE s0]
<1>1. next \in [Nat \X S -> S]
  <2>1. ASSUME NEW q \in Nat \X S, q[1] + 1 <= m PROVE step[<<q[1] + 1, q[2]>>] \in S
    <3>1. <<q[1] + 1, q[2]>> \in (1 .. m) \X S
      BY <2>1
    <3> QED
      BY <3>1
  <2> QED
    BY <2>1
<1>2. \A n \in Nat, s \in S : next[<<n, s>>] = IF n + 1 <= m THEN step[<<n + 1, s>>] ELSE s0
  OBVIOUS
<1> HIDE DEF next
<1>3. PICK f \in [Nat -> S] : f[0] = s0 /\ \A n \in Nat : f[n + 1] = next[<<n, f[n]>>]
  <2>1. Steps(next, S)
    BY <1>1 DEF Steps
  <2>2. \E f : Iterated(f, S, s0, next)
    BY <2>1, Iterates
  <2> QED
    BY <2>2 DEF Iterated
<1> DEFINE g == [n \in 0 .. m |-> f[n]]
<1>4. ASSUME NEW n \in 1 .. m PROVE g[n] = step[<<n, g[n - 1]>>]
  <2>1. n - 1 \in Nat /\ n - 1 \in 0 .. m /\ n \in 0 .. m /\ (n - 1) + 1 = n /\ n <= m
    OBVIOUS
  <2>2. f[n] = next[<<n - 1, f[n - 1]>>] /\ f[n - 1] \in S
    BY <1>3, <2>1
  <2>3. f[n] = step[<<n, f[n - 1]>>]
    BY <1>2, <2>1, <2>2
  <2> QED
    BY <2>1, <2>3
<1>5. g \in [0 .. m -> S] /\ g[0] = s0
  BY <1>3
<1> QED
  BY <1>4, <1>5

-----------------------------------------------------------------------------
(* Powers. *)

LEMMA PowerUnfolds ==
  ASSUME NEW base \in Nat
  PROVE  /\ Power(base, 0) = 1
         /\ \A n \in Nat : /\ Power(base, n) \in Nat
                           /\ Power(base, n + 1) = base * Power(base, n)
<1> DEFINE p == CHOOSE f : f = [k \in Nat |-> IF k = 0 THEN 1 ELSE base * f[k - 1]]
           step == [q \in Nat \X Nat |-> base * q[2]]
<1>1. step \in [Nat \X Nat -> Nat] /\ \A n, s \in Nat : step[<<n, s>>] = base * s
  OBVIOUS
<1>2. \E f : f = [k \in Nat |-> IF k = 0 THEN 1 ELSE base * f[k - 1]]
  <2> HIDE DEF step
  <2>1. PICK f \in [Nat -> Nat] : f[0] = 1 /\ \A n \in Nat : f[n + 1] = step[<<n, f[n]>>]
    <3>1. Steps(step, Nat) /\ 1 \in Nat
      BY <1>1 DEF Steps
    <3>2. \E f : Iterated(f, Nat, 1, step)
      BY <3>1, Iterates
    <3> QED
      BY <3>2 DEF Iterated
  <2>2. ASSUME NEW k \in Nat PROVE f[k] = IF k = 0 THEN 1 ELSE base * f[k - 1]
    <3>1. CASE k = 0
      BY <2>1, <3>1
    <3>2. CASE k # 0
      <4>1. k - 1 \in Nat /\ (k - 1) + 1 = k
        BY <3>2
      <4>2. f[k] = step[<<k - 1, f[k - 1]>>] /\ f[k - 1] \in Nat
        BY <2>1, <4>1
      <4> QED
        BY <1>1, <3>2, <4>1, <4>2
    <3> QED
      BY <3>1, <3>2
  <2>3. f = [k \in Nat |-> IF k = 0 THEN 1 ELSE base * f[k - 1]]
    BY <2>1, <2>2
  <2> QED
    BY <2>3
<1>3. p = [k \in Nat |-> IF k = 0 THEN 1 ELSE base * p[k - 1]]
  BY <1>2
<1>4. \A n \in Nat : Power(base, n) = p[n]
  BY DEF Power
<1> HIDE DEF p
<1>5. p[0] = 1 /\ \A n \in Nat : p[n + 1] = base * p[n]
  BY <1>3
<1> DEFINE Good == {n \in Nat : p[n] \in Nat}
<1>6. 0 \in Good /\ \A n \in Good : n + 1 \in Good
  BY <1>5
<1>7. Good = Nat
  <2> HIDE DEF Good
  <2>1. Good \in SUBSET Nat
    BY DEF Good
  <2> QED
    BY <1>6, <2>1, Induction
<1> QED
  BY <1>4, <1>5, <1>7

Bases == {Ten, Sixteen}

LEMMA PowersOfBases ==
  ASSUME NEW base \in Bases
  PROVE  /\ base \in Nat /\ base >= 10
         /\ Power(base, 0) = 1 /\ Power(base, 1) = base
         /\ \A n \in Nat : /\ Power(base, n) \in Nat \ {0}
                           /\ Power(base, n + 1) = base * Power(base, n)
                           /\ n < Power(base, n)
<1>1. base \in Nat /\ base >= 10
  BY DEF Bases, Ten, Sixteen
<1>2. /\ Power(base, 0) = 1
      /\ \A n \in Nat : Power(base, n) \in Nat /\ Power(base, n + 1) = base * Power(base, n)
  BY <1>1, PowerUnfolds
<1>3. Power(base, 1) = base
  <2>1. Power(base, 0 + 1) = base * Power(base, 0)
    BY <1>2
  <2> QED
    BY <1>1, <1>2, <2>1
<1> DEFINE Good == {n \in Nat : n < Power(base, n)}
<1>4. 0 \in Good
  BY <1>2
<1>5. ASSUME NEW n \in Good PROVE n + 1 \in Good
  <2>1. n \in Nat /\ Power(base, n) \in Nat /\ n + 1 <= Power(base, n)
    BY <1>2
  <2>2. base * Power(base, n) > Power(base, n)
    <3> DEFINE pow == Power(base, n)
    <3>1. pow \in Nat /\ pow >= 1
      BY <2>1
    <3> HIDE DEF pow
    <3>2. base * pow > pow
      BY <1>1, <3>1 DEF Bases, Ten, Sixteen
    <3> QED
      BY <3>2 DEF pow
  <2>3. n + 1 \in Nat /\ Power(base, n + 1) = base * Power(base, n) /\ Power(base, n + 1) \in Nat
    BY <1>2, <2>1
  <2> QED
    BY <2>1, <2>2, <2>3
<1>6. Good = Nat
  <2> HIDE DEF Good
  <2>1. Good \in SUBSET Nat
    BY DEF Good
  <2> QED
    BY <1>4, <1>5, <2>1, Induction
<1>7. \A n \in Nat : n < Power(base, n) /\ Power(base, n) \in Nat \ {0}
  BY <1>2, <1>6
<1> QED
  BY <1>1, <1>2, <1>3, <1>7

LEMMA PowersGrow ==
  ASSUME NEW base \in Bases, NEW i \in Nat, NEW j \in Nat, i <= j
  PROVE  Power(base, i) <= Power(base, j)
<1> DEFINE Good == {n \in Nat : Power(base, i) <= Power(base, i + n)}
<1>1. 0 \in Good
  BY PowersOfBases
<1>2. ASSUME NEW n \in Good PROVE n + 1 \in Good
  <2> DEFINE low == Power(base, i)
             pow == Power(base, i + n)
  <2>1. /\ i + n \in Nat /\ low \in Nat /\ pow \in Nat /\ low <= pow
        /\ Power(base, (i + n) + 1) = base * pow
    BY PowersOfBases
  <2> HIDE DEF low, pow
  <2>2. base * pow \in Nat /\ low <= base * pow
    BY <2>1 DEF Bases, Ten, Sixteen
  <2>3. (i + n) + 1 = i + (n + 1)
    OBVIOUS
  <2> QED
    BY <2>1, <2>2, <2>3 DEF low
<1>3. Good = Nat
  <2> HIDE DEF Good
  <2>1. Good \in SUBSET Nat
    BY DEF Good
  <2> QED
    BY <1>1, <1>2, <2>1, Induction
<1>4. j - i \in Nat /\ i + (j - i) = j
  OBVIOUS
<1>5. Power(base, i) <= Power(base, i + (j - i))
  BY <1>3, <1>4
<1> QED
  BY <1>4, <1>5

\* What division is.
LEMMA Divided ==
  ASSUME NEW n \in Nat, NEW d \in Nat \ {0}
  PROVE  /\ n \div d \in Nat
         /\ d * (n \div d) <= n /\ n < d * (n \div d) + d
OBVIOUS

LEMMA Product ==
  ASSUME NEW d \in Nat, NEW x \in Nat, NEW y \in Nat
  PROVE  x <= y => d * x <= d * y
OBVIOUS

LEMMA QuotientIs ==
  ASSUME NEW n \in Nat, NEW d \in Nat \ {0}, NEW x \in Nat, d * x <= n, n < d * x + d
  PROVE  n \div d = x
<1> DEFINE y == n \div d
<1>1. y \in Nat /\ d * y <= n /\ n < d * y + d
  BY Divided
<1> HIDE DEF y
<1>2. d * (x + 1) = d * x + d /\ d * (y + 1) = d * y + d
  BY <1>1
<1>3. ~(x < y)
  <2> SUFFICES ASSUME x + 1 <= y PROVE FALSE
    BY <1>1
  <2>1. d * (x + 1) <= d * y
    BY <1>1, Product
  <2>2. d * x \in Nat /\ d * y \in Nat
    BY <1>1
  <2> QED
    BY <1>1, <1>2, <2>1, <2>2
<1>4. ~(y < x)
  <2> SUFFICES ASSUME y + 1 <= x PROVE FALSE
    BY <1>1
  <2>1. d * (y + 1) <= d * x
    BY <1>1, Product
  <2>2. d * x \in Nat /\ d * y \in Nat
    BY <1>1
  <2> QED
    BY <1>1, <1>2, <2>1, <2>2
<1>5. y = x
  BY <1>1, <1>3, <1>4
<1> QED
  BY <1>5 DEF y

\* The quotient and the remainder of a division by the base.
LEMMA DividedByBase ==
  ASSUME NEW base \in Bases, NEW n \in Nat
  PROVE  /\ n \div base \in Nat /\ n % base \in 0 .. base - 1
         /\ n = base * (n \div base) + (n % base)
         /\ n < base => n \div base = 0 /\ n % base = n
         /\ n >= base => n \div base > 0 /\ n \div base < n
<1>1. CASE base = 10
  BY <1>1
<1>2. CASE base = 16
  BY <1>2
<1> QED
  BY <1>1, <1>2 DEF Bases, Ten, Sixteen

\* Dividing by the base and then by a power is dividing by the next power.
LEMMA DividedTwice ==
  ASSUME NEW base \in Bases, NEW n \in Nat, NEW k \in Nat
  PROVE  n \div Power(base, k + 1) = (n \div base) \div Power(base, k)
<1> DEFINE pow == Power(base, k)
           q == n \div base
           x == q \div pow
<1>1. pow \in Nat \ {0} /\ Power(base, k + 1) = base * pow
  BY PowersOfBases
<1>2. q \in Nat /\ base * q <= n /\ n < base * q + base
  BY DividedByBase DEF Bases, Ten, Sixteen
<1>3. x \in Nat /\ pow * x <= q /\ q < pow * x + pow
  <2> HIDE DEF pow, q
  <2> QED
    BY <1>1, <1>2, Divided
<1> HIDE DEF pow, q, x
<1> DEFINE px == pow * x
<1>4. px \in Nat /\ (base * pow) * x = base * px
  BY <1>1, <1>3 DEF Bases, Ten, Sixteen
<1> HIDE DEF px
<1>5. px <= q /\ q < px + pow
  BY <1>3 DEF px
<1>6. base * px <= n /\ n < base * px + base * pow /\ base * pow \in Nat \ {0}
  BY <1>1, <1>2, <1>4, <1>5 DEF Bases, Ten, Sixteen
<1>7. n \div (base * pow) = x
  BY <1>3, <1>4, <1>6, QuotientIs
<1> QED
  BY <1>1, <1>7 DEF x, q, pow

-----------------------------------------------------------------------------
(* Numerals. *)

IsWidth(w, n, base) ==
  w \in Nat \ {0} /\ n < Power(base, w) /\ (w > 1 => n >= Power(base, w - 1))

LEMMA WidthsAgree ==
  ASSUME NEW base \in Bases, NEW n \in Nat, NEW v, NEW w,
         IsWidth(v, n, base), IsWidth(w, n, base)
  PROVE  ~(v < w)
<1> SUFFICES ASSUME v < w PROVE FALSE
  OBVIOUS
<1>1. /\ v \in Nat /\ w - 1 \in Nat /\ v <= w - 1 /\ w > 1
      /\ n < Power(base, v) /\ n >= Power(base, w - 1)
  BY DEF IsWidth
<1>2. Power(base, v) <= Power(base, w - 1)
  BY <1>1, PowersGrow
<1>3. Power(base, v) \in Nat /\ Power(base, w - 1) \in Nat
  BY <1>1, PowersOfBases
<1> QED
  BY <1>1, <1>2, <1>3

LEMMA WidthIs ==
  ASSUME NEW base \in Bases, NEW n \in Nat
  PROVE  /\ IsWidth(Width(n, base), n, base)
         /\ \A w : IsWidth(w, n, base) => Width(n, base) = w
<1> DEFINE Wide == {w \in Nat : w > 0 /\ n < Power(base, w)}
<1>1. n + 1 \in Wide
  <2>1. n + 1 \in Nat /\ n + 1 < Power(base, n + 1) /\ Power(base, n + 1) \in Nat
    BY PowersOfBases
  <2> QED
    BY <2>1
<1>2. PICK w \in Wide : \A k \in Wide : w <= k
  <2> HIDE DEF Wide
  <2>1. Wide \in SUBSET Nat
    BY DEF Wide
  <2> QED
    BY <1>1, <2>1, Least
<1>3. w \in 1 .. n + 1
  BY <1>1, <1>2
<1>4. w > 1 => n >= Power(base, w - 1)
  <2> SUFFICES ASSUME w > 1 PROVE n >= Power(base, w - 1)
    OBVIOUS
  <2>1. w - 1 \in Nat /\ w - 1 > 0 /\ w - 1 \notin Wide /\ Power(base, w - 1) \in Nat
    BY <1>2, PowersOfBases
  <2> QED
    BY <2>1
<1>5. \E u \in 1 .. n + 1 : n < Power(base, u) /\ (u > 1 => n >= Power(base, u - 1))
  BY <1>2, <1>3, <1>4
<1>6. /\ Width(n, base) \in 1 .. n + 1 /\ n < Power(base, Width(n, base))
      /\ Width(n, base) > 1 => n >= Power(base, Width(n, base) - 1)
  BY <1>5 DEF Width
<1>7. IsWidth(Width(n, base), n, base)
  BY <1>6 DEF IsWidth
<1>8. ASSUME NEW u, IsWidth(u, n, base) PROVE Width(n, base) = u
  <2>1. ~(u < Width(n, base)) /\ ~(Width(n, base) < u)
    BY <1>7, <1>8, WidthsAgree
  <2>2. u \in Nat /\ Width(n, base) \in Nat
    BY <1>6, <1>8 DEF IsWidth
  <2> QED
    BY <2>1, <2>2
<1> QED
  BY <1>7, <1>8

\* One digit more than the quotient has.
LEMMA WidthGrows ==
  ASSUME NEW base \in Bases, NEW n \in Nat
  PROVE  /\ n < base => Width(n, base) = 1
         /\ n >= base => Width(n, base) = Width(n \div base, base) + 1
<1>1. ASSUME n < base PROVE Width(n, base) = 1
  <2>1. IsWidth(1, n, base)
    BY <1>1, PowersOfBases DEF IsWidth
  <2> QED
    BY <2>1, WidthIs
<1>2. ASSUME n >= base PROVE Width(n, base) = Width(n \div base, base) + 1
  <2> DEFINE q == n \div base
             v == Width(q, base)
  <2>1. q \in Nat /\ base * q <= n /\ n < base * q + base
    BY DividedByBase DEF Bases, Ten, Sixteen
  <2>2. v \in Nat \ {0} /\ q < Power(base, v) /\ (v > 1 => q >= Power(base, v - 1))
    <3> HIDE DEF q
    <3> QED
      BY <2>1, WidthIs DEF IsWidth
  <2> HIDE DEF q, v
  <2>3. n < Power(base, v + 1)
    <3> DEFINE pow == Power(base, v)
    <3>1. pow \in Nat /\ Power(base, v + 1) = base * pow
      BY <2>2, PowersOfBases
    <3>2. q + 1 <= pow
      BY <2>1, <2>2, <3>1
    <3> HIDE DEF pow
    <3> QED
      BY <2>1, <3>1, <3>2 DEF Bases, Ten, Sixteen
  <2>4. n >= Power(base, v)
    <3>1. CASE v = 1
      BY <1>2, <3>1, PowersOfBases
    <3>2. CASE v > 1
      <4> DEFINE pow == Power(base, v - 1)
      <4>1. v - 1 \in Nat /\ (v - 1) + 1 = v
        BY <2>2
      <4>2. pow \in Nat /\ Power(base, v) = base * pow /\ pow <= q
        BY <2>2, <3>2, <4>1, PowersOfBases
      <4> HIDE DEF pow
      <4> QED
        BY <2>1, <4>2 DEF Bases, Ten, Sixteen
    <3> QED
      BY <2>2, <3>1, <3>2
  <2>5. IsWidth(v + 1, n, base)
    <3>1. v + 1 \in Nat \ {0} /\ (v + 1) - 1 = v
      BY <2>2
    <3> QED
      BY <2>3, <2>4, <3>1 DEF IsWidth
  <2>6. Width(n, base) = v + 1
    BY <2>5, WidthIs
  <2> QED
    BY <2>6 DEF v, q
<1> QED
  BY <1>1, <1>2

\* The digits in the order in which dividing gives them.
Digit(n, base, k) == (n \div Power(base, k)) % base
Backwards(n, base) ==
  [k \in 1 .. Width(n, base) |-> HexTable[1 + Digit(n, base, k - 1)]]

LEMMA DigitsAreSmall ==
  ASSUME NEW base \in Bases, NEW n \in Nat, NEW k \in Nat
  PROVE  Digit(n, base, k) \in 0 .. base - 1
<1>1. n \div Power(base, k) \in Nat
  <2> DEFINE pow == Power(base, k)
  <2>1. pow \in Nat \ {0}
    BY PowersOfBases
  <2> HIDE DEF pow
  <2>2. n \div pow \in Nat
    BY <2>1, Divided
  <2> QED
    BY <2>2 DEF pow
<1> QED
  BY <1>1, DividedByBase DEF Digit

\* The characters of a line, named so that the provers need not know what STRING is.
Char == STRING \union {HexTable[i] : i \in 1 .. 16} \union {"-", "x", NewLine}

LEMMA CharIs ==
  /\ STRING \subseteq Char /\ {"-", "0", "x", NewLine} \subseteq Char
  /\ \A i \in 1 .. 16 : HexTable[i] \in Char
<1>1. HexTable[1] = "0" /\ 1 \in 1 .. 16
  BY DEF HexTable
<1>2. HexTable[1] \in Char
  BY <1>1 DEF Char
<1>3. "0" \in Char
  BY ONLY <1>1, <1>2
<1> QED
  BY <1>3 DEF Char

LEMMA BackwardsTyped ==
  ASSUME NEW base \in Bases, NEW n \in Nat
  PROVE  /\ Backwards(n, base) \in [1 .. Width(n, base) -> Char]
         /\ Backwards(n, base) \in Seq(Char)
         /\ Len(Backwards(n, base)) = Width(n, base) /\ Width(n, base) \in Nat \ {0}
<1>1. Width(n, base) \in Nat \ {0}
  BY WidthIs DEF IsWidth
<1>2. ASSUME NEW k \in 1 .. Width(n, base) PROVE HexTable[1 + Digit(n, base, k - 1)] \in Char
  <2>1. k - 1 \in Nat
    BY <1>1
  <2>2. Digit(n, base, k - 1) \in 0 .. 15
    BY <2>1, DigitsAreSmall DEF Bases, Ten, Sixteen
  <2>3. 1 + Digit(n, base, k - 1) \in 1 .. 16
    BY <2>2
  <2> QED
    BY <2>3, CharIs
<1>3. Backwards(n, base) \in [1 .. Width(n, base) -> Char]
  BY <1>2 DEF Backwards
<1> QED
  BY <1>1, <1>3

LEMMA ConsIs ==
  ASSUME NEW S, NEW c \in S, NEW s \in Seq(S)
  PROVE  /\ <<c>> \o s \in [1 .. Len(s) + 1 -> S]
         /\ \A k \in 1 .. Len(s) + 1 : (<<c>> \o s)[k] = IF k = 1 THEN c ELSE s[k - 1]
<1>1. <<c>> \in Seq(S) /\ Len(<<c>>) = 1 /\ <<c>>[1] = c
  OBVIOUS
<1> DEFINE u == <<c>>
<1>2. u \in Seq(S) /\ Len(u) = 1 /\ u[1] = c
  BY <1>1
<1> HIDE DEF u
<1>3. /\ u \o s \in Seq(S) /\ Len(u \o s) = 1 + Len(s) /\ Len(s) \in Nat
      /\ \A k \in 1 .. 1 + Len(s) : (u \o s)[k] = IF k <= 1 THEN u[k] ELSE s[k - 1]
  <2>1. /\ u \o s \in Seq(S) /\ Len(u \o s) = Len(u) + Len(s)
        /\ \A k \in 1 .. Len(u) + Len(s) : (u \o s)[k] = IF k <= Len(u) THEN u[k] ELSE s[k - Len(u)]
    BY <1>2, ConcatProperties
  <2>2. Len(s) \in Nat
    BY LenProperties
  <2> QED
    BY <1>2, <2>1, <2>2
<1>4. u \o s \in [1 .. Len(s) + 1 -> S]
  <2>1. Len(u \o s) = Len(s) + 1
    BY <1>3
  <2> QED
    BY <1>3, <2>1, LenProperties, ElementOfSeq
<1>5. ASSUME NEW k \in 1 .. Len(s) + 1 PROVE (u \o s)[k] = IF k = 1 THEN c ELSE s[k - 1]
  <2>1. k \in 1 .. 1 + Len(s) /\ (k <= 1 <=> k = 1)
    BY <1>3
  <2> QED
    BY <1>2, <1>3, <2>1
<1> QED
  BY <1>4, <1>5 DEF u

LEMMA BackwardsUnfolds ==
  ASSUME NEW base \in Bases, NEW n \in Nat
  PROVE  Backwards(n, base) =
           <<HexTable[1 + (n % base)]>>
             \o (IF n \div base = 0 THEN <<>> ELSE Backwards(n \div base, base))
<1> DEFINE q == n \div base
           c == HexTable[1 + (n % base)]
           w == Width(n, base)
<1>1. Digit(n, base, 0) = n % base
  <2>1. Power(base, 0) = 1 /\ n \div 1 = n
    BY PowersOfBases
  <2> QED
    BY <2>1 DEF Digit
<1>2. w \in Nat \ {0} /\ q \in Nat /\ (q = 0 <=> n < base)
  <2>1. base \in Nat /\ q \in Nat /\ (n < base => q = 0) /\ (n >= base => q > 0)
    BY DividedByBase DEF Bases, Ten, Sixteen
  <2>2. w \in Nat \ {0}
    BY BackwardsTyped
  <2> HIDE DEF q, w
  <2> QED
    BY <2>1, <2>2
<1>3. CASE n < base
  <2>1. w = 1
    BY <1>3, WidthGrows
  <2>2. Backwards(n, base) = [k \in 1 .. 1 |-> HexTable[1 + Digit(n, base, k - 1)]]
    BY <2>1 DEF Backwards
  <2>3. HexTable[1 + Digit(n, base, 1 - 1)] = c
    BY <1>1
  <2>4. Backwards(n, base) = <<c>>
    BY <2>2, <2>3
  <2> HIDE DEF c, q
  <2>5. <<c>> \o <<>> = <<c>>
    OBVIOUS
  <2> QED
    BY <1>2, <1>3, <2>4, <2>5 DEF c, q
<1>4. CASE n >= base
  <2> DEFINE s == Backwards(q, base)
  <2>1. w = Width(q, base) + 1
    BY <1>4, WidthGrows
  <2>2. s \in Seq(Char) /\ Len(s) = Width(q, base) /\ Len(s) \in Nat
        /\ \A k \in 1 .. Len(s) : s[k] = HexTable[1 + Digit(q, base, k - 1)]
    <3> HIDE DEF q
    <3> QED
      BY <1>2, BackwardsTyped DEF Backwards
  <2>3. Backwards(n, base) \in [1 .. Len(s) + 1 -> Char]
    BY <2>1, <2>2, BackwardsTyped
  <2>4. Backwards(n, base)[1] = c
    <3>1. Backwards(n, base)[1] = HexTable[1 + Digit(n, base, 1 - 1)]
      BY <1>2 DEF Backwards
    <3> QED
      BY <1>1, <3>1
  <2>5. ASSUME NEW k \in 1 .. Len(s) PROVE Backwards(n, base)[k + 1] = s[k]
    <3>1. k + 1 \in 1 .. w /\ (k + 1) - 1 = k /\ k - 1 \in Nat /\ (k - 1) + 1 = k
      BY <2>1, <2>2
    <3>2. Digit(n, base, k) = Digit(q, base, k - 1)
      BY <3>1, DividedTwice DEF Digit
    <3>3. Backwards(n, base)[k + 1] = HexTable[1 + Digit(n, base, (k + 1) - 1)]
      BY <3>1 DEF Backwards
    <3> QED
      BY <2>2, <3>1, <3>2, <3>3
  <2> HIDE DEF s, c, q
  <2>6. Backwards(n, base) = <<c>> \o s
    <3> DEFINE b == Backwards(n, base)
    <3> HIDE DEF b
    <3>1. b \in [1 .. Len(s) + 1 -> Char] /\ b[1] = c /\ \A k \in 1 .. Len(s) : b[k + 1] = s[k]
      BY <2>3, <2>4, <2>5 DEF b
    <3>2. c \in Char
      BY <2>2, <3>1
    <3>3. <<c>> \o s \in [1 .. Len(s) + 1 -> Char]
          /\ \A k \in 1 .. Len(s) + 1 : (<<c>> \o s)[k] = IF k = 1 THEN c ELSE s[k - 1]
      BY <2>2, <3>2, ConsIs
    <3>4. ASSUME NEW k \in 1 .. Len(s) + 1 PROVE b[k] = IF k = 1 THEN c ELSE s[k - 1]
      <4>1. CASE k = 1
        BY <3>1, <4>1
      <4>2. CASE k # 1
        <5>1. k - 1 \in 1 .. Len(s) /\ (k - 1) + 1 = k
          BY <2>2, <4>2
        <5> QED
          BY <3>1, <4>2, <5>1
      <4> QED
        BY <4>1, <4>2
    <3>5. b = <<c>> \o s
      BY <3>1, <3>3, <3>4
    <3> QED
      BY <3>5 DEF b
  <2>7. q # 0
    BY <1>2, <1>4 DEF Bases, Ten, Sixteen
  <2> QED
    BY <2>6, <2>7 DEF s, c, q
<1> QED
  BY <1>3, <1>4 DEF Bases, Ten, Sixteen

-----------------------------------------------------------------------------
(* convert() and convertHex(). *)

LEMMA DigitTableIs ==
  ASSUME NEW d \in 0 .. 9
  PROVE  DigitTable[10 + d] = HexTable[1 + d] /\ DigitTable[10 - d] = HexTable[1 + d]
<1>1. d \in {0, 1, 2, 3, 4, 5, 6, 7, 8, 9}
  OBVIOUS
<1> QED
  BY <1>1 DEF DigitTable, HexTable

LEMMA Truncated ==
  ASSUME NEW i \in Int
  PROVE  /\ Magnitude(i) \in Nat /\ Quotient(i, Ten) \in Int
         /\ Magnitude(Quotient(i, Ten)) = Magnitude(i) \div Ten
         /\ DigitAt(Remainder(i, Ten)) = HexTable[1 + (Magnitude(i) % Ten)]
         /\ (Quotient(i, Ten) = 0) = (Magnitude(i) \div Ten = 0)
         /\ Quotient(i, Ten) # 0 => Magnitude(Quotient(i, Ten)) < Magnitude(i)
<1> DEFINE m == Magnitude(i)
           q == m \div 10
           r == m % 10
<1>1. m \in Nat /\ (i < 0 => i = -m) /\ (i >= 0 => i = m)
  BY DEF Magnitude
<1>2. q \in Nat /\ r \in 0 .. 9 /\ m = 10 * q + r /\ (q # 0 => q < m)
  <2> HIDE DEF m
  <2> QED
    BY <1>1
<1>3. Quotient(i, Ten) = IF i < 0 THEN -q ELSE q
  BY DEF Quotient, Ten, Magnitude
<1> HIDE DEF m, q, r
<1>4. CASE i < 0
  <2>1. Quotient(i, Ten) = -q /\ i = -m
    BY <1>1, <1>3, <1>4
  <2>2. Remainder(i, Ten) = -r
    BY <1>1, <1>2, <2>1 DEF Remainder, Ten
  <2>3. DigitAt(Remainder(i, Ten)) = HexTable[1 + r]
    <3>1. 10 + (-r) = 10 - r
      BY <1>2
    <3> QED
      BY <1>2, <2>2, <3>1, DigitTableIs DEF DigitAt
  <2>4. Magnitude(-q) = q /\ (-q = 0 <=> q = 0) /\ -q \in Int
    BY <1>2 DEF Magnitude
  <2> QED
    BY <1>1, <1>2, <2>1, <2>3, <2>4 DEF m, q, r, Ten
<1>5. CASE ~(i < 0)
  <2>1. Quotient(i, Ten) = q /\ i = m
    BY <1>1, <1>3, <1>5
  <2>2. Remainder(i, Ten) = r
    BY <1>1, <1>2, <2>1 DEF Remainder, Ten
  <2>3. DigitAt(Remainder(i, Ten)) = HexTable[1 + r]
    BY <1>2, <2>2, DigitTableIs DEF DigitAt
  <2>4. Magnitude(q) = q /\ q \in Int
    BY <1>2 DEF Magnitude
  <2> QED
    BY <1>1, <1>2, <2>1, <2>3, <2>4 DEF m, q, r, Ten
<1> QED
  BY <1>4, <1>5

LEMMA DigitsBackwardsIs ==
  \A i \in Int : DigitsBackwards[i] = Backwards(Magnitude(i), Ten)
<1> DEFINE tail(g, i) == IF Quotient(i, Ten) = 0 THEN <<>> ELSE g[Quotient(i, Ten)]
           next(g, i) == <<DigitAt(Remainder(i, Ten))>> \o tail(g, i)
           f == [i \in Int |-> Backwards(Magnitude(i), Ten)]
<1>1. ASSUME NEW i \in Int PROVE Backwards(Magnitude(i), Ten) = next(f, i)
  <2>1. Ten \in Bases
    BY DEF Bases
  <2>2. /\ Magnitude(i) \in Nat /\ Quotient(i, Ten) \in Int
        /\ Magnitude(Quotient(i, Ten)) = Magnitude(i) \div Ten
        /\ DigitAt(Remainder(i, Ten)) = HexTable[1 + (Magnitude(i) % Ten)]
        /\ (Quotient(i, Ten) = 0) = (Magnitude(i) \div Ten = 0)
    BY Truncated
  <2>3. Backwards(Magnitude(i), Ten) =
          <<HexTable[1 + (Magnitude(i) % Ten)]>>
            \o (IF Magnitude(i) \div Ten = 0 THEN <<>> ELSE Backwards(Magnitude(i) \div Ten, Ten))
    BY <2>1, <2>2, BackwardsUnfolds
  <2>4. tail(f, i) = IF Magnitude(i) \div Ten = 0 THEN <<>> ELSE Backwards(Magnitude(i) \div Ten, Ten)
    BY <2>2
  <2> HIDE DEF tail, f
  <2> QED
    BY <2>2, <2>3, <2>4
<1>2. f = [i \in Int |-> next(f, i)]
  <2> HIDE DEF next
  <2> QED
    BY <1>1
<1>3. DigitsBackwards = [i \in Int |-> next(DigitsBackwards, i)]
  <2>1. \E g : g = [i \in Int |-> next(g, i)]
    <3> HIDE DEF next, f
    <3> QED
      BY <1>2
  <2> QED
    BY <2>1 DEF DigitsBackwards
<1>4. \A i \in Int : f[i] = next(f, i) /\ DigitsBackwards[i] = next(DigitsBackwards, i)
  <2> HIDE DEF next, f
  <2> QED
    BY <1>2, <1>3
<1> HIDE DEF f
<1> DEFINE Good == {n \in Nat : \A i \in Int : Magnitude(i) <= n => DigitsBackwards[i] = f[i]}
<1>5. ASSUME NEW i \in Int, NEW n \in Nat, Magnitude(i) <= n,
             \A j \in Int : Magnitude(j) < n => DigitsBackwards[j] = f[j]
      PROVE  DigitsBackwards[i] = f[i]
  <2> DEFINE j == Quotient(i, Ten)
  <2>1. j \in Int /\ Magnitude(i) \in Nat /\ Magnitude(j) \in Nat /\ (j # 0 => Magnitude(j) < Magnitude(i))
    BY Truncated
  <2>2. tail(DigitsBackwards, i) = tail(f, i)
    BY <1>5, <2>1
  <2> HIDE DEF tail
  <2> QED
    BY <1>4, <2>2
<1>6. 0 \in Good
  <2>1. ASSUME NEW i \in Int, Magnitude(i) <= 0 PROVE DigitsBackwards[i] = f[i]
    <3>1. \A j \in Int : ~(Magnitude(j) < 0)
      BY Truncated
    <3> QED
      BY <1>5, <2>1, <3>1
  <2> QED
    BY <2>1
<1>7. ASSUME NEW n \in Good PROVE n + 1 \in Good
  <2>1. n \in Nat /\ \A j \in Int : Magnitude(j) < n + 1 => DigitsBackwards[j] = f[j]
    BY <1>7, Truncated
  <2>2. ASSUME NEW i \in Int, Magnitude(i) <= n + 1 PROVE DigitsBackwards[i] = f[i]
    <3> HIDE DEF Good, next
    <3> QED
      BY <1>5, <2>1, <2>2
  <2> QED
    BY <2>1, <2>2
<1>8. Good = Nat
  <2> HIDE DEF Good
  <2>1. Good \in SUBSET Nat
    BY DEF Good
  <2> QED
    BY <1>6, <1>7, <2>1, Induction
<1>9. ASSUME NEW i \in Int PROVE DigitsBackwards[i] = f[i]
  <2>1. Magnitude(i) \in Nat /\ Magnitude(i) <= Magnitude(i)
    BY Truncated
  <2>2. Magnitude(i) \in Good
    BY <1>8, <2>1
  <2> QED
    BY <2>1, <2>2
<1> QED
  BY <1>9 DEF f

LEMMA HexBackwardsIs ==
  \A i \in Nat : HexBackwards[i] = Backwards(i, Sixteen)
<1> DEFINE tail(g, i) == IF Quotient(i, Sixteen) = 0 THEN <<>> ELSE g[Quotient(i, Sixteen)]
           next(g, i) == <<HexDigitAt(Remainder(i, Sixteen))>> \o tail(g, i)
           f == [i \in Nat |-> Backwards(i, Sixteen)]
<1>0. ASSUME NEW i \in Nat
      PROVE  /\ Quotient(i, Sixteen) \in Nat /\ Quotient(i, Sixteen) = i \div Sixteen
             /\ HexDigitAt(Remainder(i, Sixteen)) = HexTable[1 + (i % Sixteen)]
             /\ Quotient(i, Sixteen) # 0 => Quotient(i, Sixteen) < i
  <2>1. i \div 16 \in Nat /\ i - 16 * (i \div 16) = i % 16 /\ (i \div 16 # 0 => i \div 16 < i)
    OBVIOUS
  <2>2. Quotient(i, Sixteen) = i \div 16
    BY DEF Quotient, Sixteen
  <2>3. Remainder(i, Sixteen) = i % 16
    BY <2>1, <2>2 DEF Remainder, Sixteen
  <2> QED
    BY <2>1, <2>2, <2>3 DEF Sixteen, HexDigitAt
<1>1. ASSUME NEW i \in Nat PROVE Backwards(i, Sixteen) = next(f, i)
  <2>1. Sixteen \in Bases
    BY DEF Bases
  <2>3. Backwards(i, Sixteen) =
          <<HexTable[1 + (i % Sixteen)]>>
            \o (IF i \div Sixteen = 0 THEN <<>> ELSE Backwards(i \div Sixteen, Sixteen))
    BY <2>1, BackwardsUnfolds
  <2>4. tail(f, i) = IF i \div Sixteen = 0 THEN <<>> ELSE Backwards(i \div Sixteen, Sixteen)
    BY <1>0
  <2> HIDE DEF tail, f
  <2> QED
    BY <1>0, <2>3, <2>4
<1>2. f = [i \in Nat |-> next(f, i)]
  <2> HIDE DEF next
  <2> QED
    BY <1>1
<1>3. HexBackwards = [i \in Nat |-> next(HexBackwards, i)]
  <2>1. \E g : g = [i \in Nat |-> next(g, i)]
    <3> HIDE DEF next, f
    <3> QED
      BY <1>2
  <2> QED
    BY <2>1 DEF HexBackwards
<1>4. \A i \in Nat : f[i] = next(f, i) /\ HexBackwards[i] = next(HexBackwards, i)
  <2> HIDE DEF next, f
  <2> QED
    BY <1>2, <1>3
<1> HIDE DEF f
<1> DEFINE Good == {n \in Nat : \A i \in Nat : i <= n => HexBackwards[i] = f[i]}
<1>5. ASSUME NEW i \in Nat, \A j \in Nat : j < i => HexBackwards[j] = f[j]
      PROVE  HexBackwards[i] = f[i]
  <2>1. tail(HexBackwards, i) = tail(f, i)
    BY <1>0, <1>5
  <2> HIDE DEF tail
  <2> QED
    BY <1>4, <2>1
<1>6. 0 \in Good
  <2>1. ASSUME NEW i \in Nat, i <= 0 PROVE HexBackwards[i] = f[i]
    <3>1. \A j \in Nat : ~(j < i)
      BY <2>1
    <3> HIDE DEF next
    <3> QED
      BY <1>5, <3>1
  <2> QED
    BY <2>1
<1>7. ASSUME NEW n \in Good PROVE n + 1 \in Good
  <2>1. n \in Nat /\ \A j \in Nat : j <= n => HexBackwards[j] = f[j]
    OBVIOUS
  <2>2. ASSUME NEW i \in Nat, i <= n + 1 PROVE HexBackwards[i] = f[i]
    <3>1. \A j \in Nat : j < i => j <= n
      BY <2>1, <2>2
    <3> HIDE DEF Good, next
    <3> QED
      BY <1>5, <2>1, <3>1
  <2> QED
    BY <2>1, <2>2
<1>8. Good = Nat
  <2> HIDE DEF Good
  <2>1. Good \in SUBSET Nat
    BY DEF Good
  <2> QED
    BY <1>6, <1>7, <2>1, Induction
<1>9. ASSUME NEW i \in Nat PROVE HexBackwards[i] = f[i]
  <2>1. i \in Good /\ i <= i
    BY <1>8
  <2> QED
    BY <2>1
<1> QED
  BY <1>9 DEF f

LEMMA NumeralIs ==
  ASSUME NEW base \in Bases, NEW n \in Nat
  PROVE  /\ Numeral(n, base) \in Seq(Char) /\ Len(Numeral(n, base)) = Width(n, base)
         /\ Numeral(n, base) = Reverse(Backwards(n, base))
<1> DEFINE w == Width(n, base)
           b == Backwards(n, base)
           s == [i \in 1 .. w |-> b[(w - i) + 1]]
<1>1. b \in [1 .. w -> Char] /\ Len(b) = w /\ w \in Nat \ {0}
  BY BackwardsTyped
<1>2. Reverse(b) = s
  BY <1>1 DEF Reverse
<1>3. ASSUME NEW i \in 1 .. w
      PROVE  /\ b[(w - i) + 1] \in Char
             /\ b[(w - i) + 1] = HexTable[1 + ((n \div Power(base, w - i)) % base)]
  <2>1. (w - i) + 1 \in 1 .. w /\ ((w - i) + 1) - 1 = w - i
    BY <1>1
  <2>2. b[(w - i) + 1] = HexTable[1 + Digit(n, base, ((w - i) + 1) - 1)]
    BY <2>1 DEF Backwards
  <2>3. b[(w - i) + 1] \in Char
    <3> HIDE DEF b, w
    <3> QED
      BY <1>1, <2>1
  <2> QED
    BY <2>1, <2>2, <2>3 DEF Digit
<1>4. Numeral(n, base) = [i \in 1 .. w |-> HexTable[1 + ((n \div Power(base, w - i)) % base)]]
  BY DEF Numeral
<1>5. Numeral(n, base) = s
  <2> HIDE DEF b, w
  <2> QED
    BY <1>3, <1>4
<1>6. s \in Seq(Char) /\ Len(s) = w
  <2> HIDE DEF b, w
  <2>1. s \in [1 .. w -> Char]
    BY <1>3
  <2> QED
    BY <1>1, <2>1
<1> HIDE DEF b, s, w
<1> QED
  BY <1>2, <1>5, <1>6 DEF b, w

LEMMA ReverseConcat ==
  ASSUME NEW S, NEW s \in Seq(S), NEW c \in S
  PROVE  Reverse(s \o <<c>>) = <<c>> \o Reverse(s)
<1> DEFINE n == Len(s)
           u == <<c>>
           t == s \o u
           r == [i \in 1 .. n |-> s[(n - i) + 1]]
<1>1. n \in Nat /\ (\A i \in 1 .. n : s[i] \in S) /\ u \in Seq(S) /\ Len(u) = 1 /\ u[1] = c
  BY LenProperties, ElementOfSeq
<1> HIDE DEF u
<1>2. /\ t \in Seq(S) /\ Len(t) = n + 1 /\ t[n + 1] = c
      /\ \A i \in 1 .. n : t[i] = s[i]
  <2>1. /\ t \in Seq(S) /\ Len(t) = n + Len(u)
        /\ \A i \in 1 .. n + Len(u) : t[i] = IF i <= n THEN s[i] ELSE u[i - n]
    BY <1>1, ConcatProperties
  <2> HIDE DEF t, n
  <2> QED
    BY <1>1, <2>1
<1>3. Reverse(s) = r /\ r \in Seq(S) /\ Len(r) = n
  <2>1. Reverse(s) = r
    BY DEF Reverse
  <2> HIDE DEF n
  <2>2. \A i \in 1 .. n : (n - i) + 1 \in 1 .. n
    BY <1>1
  <2>3. r \in [1 .. n -> S]
    BY <1>1, <2>2
  <2> HIDE DEF r
  <2> QED
    BY <1>1, <2>1, <2>3
<1>4. /\ u \o r \in [1 .. n + 1 -> S]
      /\ \A k \in 1 .. n + 1 : (u \o r)[k] = IF k = 1 THEN c ELSE r[k - 1]
  <2> HIDE DEF r, n
  <2> QED
    BY <1>3, ConsIs DEF u
<1>5. Reverse(t) = [i \in 1 .. n + 1 |-> t[((n + 1) - i) + 1]]
  <2>1. Len(t) = n + 1
    BY <1>2
  <2> HIDE DEF t, n
  <2> QED
    BY <2>1 DEF Reverse
<1>6. ASSUME NEW k \in 1 .. n + 1
      PROVE  t[((n + 1) - k) + 1] = IF k = 1 THEN c ELSE r[k - 1]
  <2> HIDE DEF t
  <2>1. CASE k = 1
    <3>1. ((n + 1) - k) + 1 = n + 1
      BY <1>1, <2>1
    <3> QED
      BY <1>2, <2>1, <3>1
  <2>2. CASE k # 1
    <3>1. /\ k - 1 \in 1 .. n /\ ((n + 1) - k) + 1 = (n - (k - 1)) + 1
          /\ (n - (k - 1)) + 1 \in 1 .. n
      BY <1>1, <2>2
    <3>2. r[k - 1] = s[(n - (k - 1)) + 1]
      BY <3>1
    <3> HIDE DEF r
    <3> QED
      BY <1>2, <2>2, <3>1, <3>2
  <2> QED
    BY <2>1, <2>2
<1>7. Reverse(t) = u \o r
  <2> DEFINE z == u \o r
  <2> HIDE DEF t, r, n, z
  <2>1. z \in [1 .. n + 1 -> S]
    BY <1>4 DEF z
  <2>2. \A k \in 1 .. n + 1 : t[((n + 1) - k) + 1] = z[k]
    BY <1>4, <1>6 DEF z
  <2>3. Reverse(t) = z
    BY <1>5, <2>1, <2>2
  <2> QED
    BY <2>3 DEF z
<1> QED
  BY <1>3, <1>7 DEF u, t

\* For every integer, however large: convert() leaves its decimal digits, with a minus
\* sign before those of a negative one, and convertHex() the hexadecimal digits of an
\* address (log_stream.cpp:4-41).  The remainders that the C++ division gives for a
\* negative number are themselves negative: the table that is read on both sides of its
\* middle makes up for it.
THEOREM ConvertIsDecimal ==
  /\ \A v \in Int : Convert(v) = Decimal(v)
  /\ \A v \in Nat : ConvertHex(v) = Numeral(v, Sixteen)
<1>1. ASSUME NEW v \in Int PROVE Convert(v) = Decimal(v)
  <2> DEFINE b == Backwards(Magnitude(v), Ten)
             s == Numeral(Magnitude(v), Ten)
  <2>1. Magnitude(v) \in Nat /\ Ten \in Bases
    BY DEF Magnitude, Bases
  <2>2. DigitsBackwards[v] = b
    BY DigitsBackwardsIs
  <2>3. b \in Seq(Char) /\ s \in Seq(Char) /\ s = Reverse(b)
    BY <2>1, BackwardsTyped, NumeralIs
  <2> HIDE DEF b, s
  <2>4. CASE v < 0
    <3>1. Convert(v) = Reverse(b \o <<"-">>)
      BY <2>2, <2>4 DEF Convert
    <3>2. Decimal(v) = <<"-">> \o s
      BY <2>4 DEF Decimal, s
    <3>3. "-" \in Char
      BY CharIs
    <3> QED
      BY <2>3, <3>1, <3>2, <3>3, ReverseConcat
  <2>5. CASE ~(v < 0)
    <3>1. Convert(v) = Reverse(b \o <<>>)
      BY <2>2, <2>5 DEF Convert
    <3>2. Decimal(v) = <<>> \o s
      BY <2>5 DEF Decimal, s
    <3> QED
      BY <2>3, <3>1, <3>2, ConcatEmptySeq
  <2> QED
    BY <2>4, <2>5
<1>2. ASSUME NEW v \in Nat PROVE ConvertHex(v) = Numeral(v, Sixteen)
  <2>1. Sixteen \in Bases
    BY DEF Bases
  <2> QED
    BY <2>1, HexBackwardsIs, NumeralIs DEF ConvertHex
<1> QED
  BY <1>1, <1>2

LEMMA WidthAtMost ==
  ASSUME NEW base \in Bases, NEW n \in Nat, NEW k \in Nat \ {0}, n < Power(base, k)
  PROVE  Width(n, base) <= k
<1> DEFINE w == Width(n, base)
<1>1. w \in Nat \ {0} /\ (w > 1 => n >= Power(base, w - 1))
  BY WidthIs DEF IsWidth
<1> HIDE DEF w
<1>2. SUFFICES ASSUME ~(w <= k) PROVE FALSE
  BY DEF w
<1>3. w - 1 \in Nat /\ k <= w - 1 /\ w > 1
  BY <1>1, <1>2
<1>4. Power(base, k) <= Power(base, w - 1)
  BY <1>3, PowersGrow
<1>5. Power(base, k) \in Nat /\ Power(base, w - 1) \in Nat
  BY <1>3, PowersOfBases
<1> QED
  BY <1>1, <1>3, <1>4, <1>5

LEMMA PowersCompare == Power(Sixteen, 16) <= Power(Ten, 20)
<1>1. \A n \in Nat : /\ Power(Sixteen, n + 1) = 16 * Power(Sixteen, n)
                     /\ Power(Ten, n + 1) = 10 * Power(Ten, n)
  BY PowersOfBases DEF Bases, Ten, Sixteen
<1>2. Power(Sixteen, 0) = 1 /\ Power(Ten, 0) = 1
  BY PowersOfBases DEF Bases
<1>3. \A n \in Nat : /\ Power(Sixteen, n) \in Nat /\ Power(Ten, n) \in Nat
                     /\ Power(Sixteen, n + 4) = 65536 * Power(Sixteen, n)
                     /\ Power(Ten, n + 5) = 100000 * Power(Ten, n)
  <2> TAKE n \in Nat
  <2>1. Power(Sixteen, n) \in Nat /\ Power(Ten, n) \in Nat
    BY PowersOfBases DEF Bases
  <2>2. /\ n + 1 \in Nat /\ n + 2 \in Nat /\ n + 3 \in Nat /\ n + 4 \in Nat
        /\ (n + 1) + 1 = n + 2 /\ (n + 2) + 1 = n + 3 /\ (n + 3) + 1 = n + 4
        /\ (n + 4) + 1 = n + 5
    OBVIOUS
  <2>3. /\ Power(Sixteen, n + 1) = 16 * Power(Sixteen, n)
        /\ Power(Sixteen, n + 2) = 16 * Power(Sixteen, n + 1)
        /\ Power(Sixteen, n + 3) = 16 * Power(Sixteen, n + 2)
        /\ Power(Sixteen, n + 4) = 16 * Power(Sixteen, n + 3)
    BY <1>1, <2>2
  <2>4. /\ Power(Ten, n + 1) = 10 * Power(Ten, n)
        /\ Power(Ten, n + 2) = 10 * Power(Ten, n + 1)
        /\ Power(Ten, n + 3) = 10 * Power(Ten, n + 2)
        /\ Power(Ten, n + 4) = 10 * Power(Ten, n + 3)
        /\ Power(Ten, n + 5) = 10 * Power(Ten, n + 4)
    BY <1>1, <2>2
  <2> QED
    BY <2>1, <2>3, <2>4
<1>4. ASSUME NEW m \in Nat, NEW n \in Nat, Power(Sixteen, m) <= Power(Ten, n)
      PROVE  Power(Sixteen, m + 4) <= Power(Ten, n + 5)
  BY <1>3, <1>4
<1>5. Power(Sixteen, 4) <= Power(Ten, 5)
  <2>1. Power(Sixteen, 0 + 4) <= Power(Ten, 0 + 5)
    BY <1>2, <1>4
  <2> QED
    BY <2>1
<1>6. Power(Sixteen, 8) <= Power(Ten, 10)
  <2>1. Power(Sixteen, 4 + 4) <= Power(Ten, 5 + 5)
    BY <1>4, <1>5
  <2> QED
    BY <2>1
<1>7. Power(Sixteen, 12) <= Power(Ten, 15)
  <2>1. Power(Sixteen, 8 + 4) <= Power(Ten, 10 + 5)
    BY <1>4, <1>6
  <2> QED
    BY <2>1
<1>8. Power(Sixteen, 12 + 4) <= Power(Ten, 15 + 5)
  BY <1>4, <1>7
<1> QED
  BY <1>8

\* kMaxNumericSize, 32, is room enough: a number of 64 bits, signed or not, has at most
\* twenty digits, an address sixteen, and with the sign, the 0x and the terminating zero
\* they need 22 characters (log_stream.h:120, log_stream.cpp:10-54,101-111).  What Sizes
\* asks of numbers and addresses is therefore true of every one that C++ has.
THEOREM NumbersHaveRoom ==
  ASSUME MaxNumeric \in Nat, 22 <= MaxNumeric
  PROVE  /\ \A v \in Int : Magnitude(v) < Power(Sixteen, 16) =>
              Printable([kind |-> "number", value |-> v])
         /\ \A v \in Nat : v < Power(Sixteen, 16) =>
              Printable([kind |-> "pointer", value |-> v])
<1>1. Ten \in Bases /\ Sixteen \in Bases
  BY DEF Bases
<1>2. /\ Power(Sixteen, 16) \in Nat /\ Power(Ten, 20) \in Nat
      /\ Power(Sixteen, 16) <= Power(Ten, 20)
  BY <1>1, PowersOfBases, PowersCompare
<1>3. ASSUME NEW v \in Int, Magnitude(v) < Power(Sixteen, 16)
      PROVE  Printable([kind |-> "number", value |-> v])
  <2> DEFINE m == Magnitude(v)
  <2>1. m \in Nat
    BY DEF Magnitude
  <2> HIDE DEF m
  <2>2. m < Power(Ten, 20)
    BY <1>2, <1>3, <2>1 DEF m
  <2>3. Width(m, Ten) <= 20 /\ Width(m, Ten) \in Nat
    BY <1>1, <2>1, <2>2, WidthAtMost, WidthIs DEF IsWidth
  <2>4. Width(m, Ten) + 2 <= MaxNumeric
    BY <2>3
  <2> QED
    BY <2>4 DEF m, Printable
<1>4. ASSUME NEW v \in Nat, v < Power(Sixteen, 16)
      PROVE  Printable([kind |-> "pointer", value |-> v])
  <2>1. Width(v, Sixteen) <= 16 /\ Width(v, Sixteen) \in Nat
    BY <1>1, <1>4, WidthAtMost, WidthIs DEF IsWidth
  <2>2. Width(v, Sixteen) + 3 <= MaxNumeric
    BY <2>1
  <2> QED
    BY <2>2 DEF Printable
<1> QED
  BY <1>3, <1>4

LEMMA ShownIsTyped ==
  ASSUME MaxNumeric \in Nat, NEW op, Printable(op)
  PROVE  /\ Shown(op) \in Seq(Char)
         /\ op.kind = "text" => Shown(op) = op.value
         /\ op.kind # "text" => Len(Shown(op)) < MaxNumeric
<1>1. /\ Seq(STRING) \subseteq Seq(Char) /\ <<"-">> \in Seq(Char) /\ <<"0", "x">> \in Seq(Char)
      /\ Len(<<"-">>) = 1 /\ Len(<<"0", "x">>) = 2
  <2>1. Seq(STRING) \subseteq Seq(Char)
    BY CharIs, SeqMonotonic
  <2>2. "-" \in Char /\ "0" \in Char /\ "x" \in Char
    BY CharIs
  <2>3. \A c, d \in Char : <<c>> \in Seq(Char) /\ <<c, d>> \in Seq(Char)
    OBVIOUS
  <2> QED
    BY <2>1, <2>2, <2>3
<1>2. CASE op \in [kind : {"text"}, value : Seq(STRING)]
  BY <1>1, <1>2 DEF Shown
<1>3. CASE op \in [kind : {"double"}, value : Seq(STRING)] /\ Len(op.value) < MaxNumeric
  BY <1>1, <1>3 DEF Shown
<1>4. CASE op \in [kind : {"number"}, value : Int]
             /\ Width(Magnitude(op.value), Ten) + 2 <= MaxNumeric
  <2> DEFINE m == Magnitude(op.value)
             s == Numeral(m, Ten)
  <2>1. m \in Nat /\ Ten \in Bases
    BY <1>4 DEF Magnitude, Bases
  <2>2. s \in Seq(Char) /\ Len(s) = Width(m, Ten) /\ Width(m, Ten) \in Nat
    <3> HIDE DEF m
    <3> QED
      BY <2>1, NumeralIs, WidthIs DEF IsWidth
  <2>3. Shown(op) = (IF op.value < 0 THEN <<"-">> ELSE <<>>) \o s /\ op.kind # "text"
    BY <1>4 DEF Shown, Decimal
  <2>4. Width(m, Ten) + 2 <= MaxNumeric
    BY <1>4
  <2> HIDE DEF m, s
  <2>5. CASE op.value < 0
    <3> DEFINE u == <<"-">>
    <3>1. u \in Seq(Char) /\ Len(u) = 1 /\ Shown(op) = u \o s
      BY <1>1, <2>3, <2>5
    <3> HIDE DEF u
    <3>2. u \o s \in Seq(Char) /\ Len(u \o s) = 1 + Len(s)
      <4>1. u \o s \in Seq(Char) /\ Len(u \o s) = Len(u) + Len(s)
        BY <2>2, <3>1, ConcatProperties
      <4> QED
        BY <3>1, <4>1
    <3>3. Len(Shown(op)) < MaxNumeric
      <4>1. Len(Shown(op)) = 1 + Width(m, Ten)
        BY <2>2, <3>1, <3>2
      <4> QED
        BY <2>2, <2>4, <4>1
    <3>4. Shown(op) \in Seq(Char)
      BY <3>1, <3>2
    <3> QED
      BY <2>3, <3>3, <3>4
  <2>6. CASE ~(op.value < 0)
    <3>1. Shown(op) = s
      BY <2>2, <2>3, <2>6, ConcatEmptySeq
    <3> QED
      BY <2>2, <2>3, <2>4, <3>1
  <2> QED
    BY <2>5, <2>6
<1>5. CASE op \in [kind : {"pointer"}, value : Nat] /\ Width(op.value, Sixteen) + 3 <= MaxNumeric
  <2> DEFINE m == op.value
             s == Numeral(m, Sixteen)
             u == <<"0", "x">>
  <2>1. m \in Nat /\ Sixteen \in Bases
    BY <1>5 DEF Bases
  <2>2. s \in Seq(Char) /\ Len(s) = Width(m, Sixteen) /\ Width(m, Sixteen) \in Nat
    <3> HIDE DEF m
    <3> QED
      BY <2>1, NumeralIs, WidthIs DEF IsWidth
  <2>3. Shown(op) = u \o s /\ op.kind # "text"
    BY <1>5 DEF Shown, Hexadecimal
  <2>4. Width(m, Sixteen) + 3 <= MaxNumeric /\ u \in Seq(Char) /\ Len(u) = 2
    BY <1>1, <1>5
  <2> HIDE DEF m, s, u
  <2>5. u \o s \in Seq(Char) /\ Len(u \o s) = 2 + Len(s)
    <3>1. u \o s \in Seq(Char) /\ Len(u \o s) = Len(u) + Len(s)
      BY <2>2, <2>4, ConcatProperties
    <3> QED
      BY <2>4, <3>1
  <2> QED
    BY <2>2, <2>3, <2>4, <2>5
<1> QED
  BY <1>2, <1>3, <1>4, <1>5 DEF Printable

-----------------------------------------------------------------------------
(* What is written. *)

GivenOps == Operands \union {Prefix[i] : i \in DOMAIN Prefix}

LEMMA SizesSay ==
  ASSUME Sizes
  PROVE  /\ Size \in Nat \ {0} /\ MaxNumeric \in Nat /\ MaxOperands \in Nat /\ MaxStatements \in Nat
         /\ Prefix \in Seq(GivenOps)
         /\ \A op \in GivenOps : Printable(op)
<1>1. /\ Size \in Nat \ {0} /\ MaxNumeric \in Nat /\ MaxOperands \in Nat /\ MaxStatements \in Nat
      /\ Prefix \in Seq({Prefix[i] : i \in DOMAIN Prefix})
      /\ \A op \in GivenOps : Printable(op)
  BY DEF Sizes, GivenOps
<1>2. {Prefix[i] : i \in DOMAIN Prefix} \subseteq GivenOps
  BY DEF GivenOps
<1>3. Prefix \in Seq(GivenOps)
  BY <1>1, <1>2, SeqMonotonic
<1> QED
  BY <1>1, <1>3

\* What an operand may leave of data_, cur_ and all that was written.
Bounded == {b \in [text : Seq(Char), top : Nat] :
              Len(b.text) < Size /\ Len(b.text) <= b.top /\ b.top <= Size}

LEMMA BoundedSays ==
  ASSUME NEW b \in Bounded
  PROVE  /\ b.text \in Seq(Char) /\ b.top \in Nat /\ Len(b.text) \in Nat
         /\ Len(b.text) < Size /\ Len(b.text) <= b.top /\ b.top <= Size
<1>1. /\ b.text \in Seq(Char) /\ b.top \in Nat
      /\ Len(b.text) < Size /\ Len(b.text) <= b.top /\ b.top <= Size
  BY DEF Bounded
<1> QED
  BY <1>1, LenProperties

LEMMA StateIsBounded ==
  ASSUME NEW s \in Seq(Char), NEW t \in Nat, Len(s) < Size, Len(s) <= t, t <= Size
  PROVE  State(s, t) \in Bounded
BY DEF State, Bounded

LEMMA AppendedIs ==
  ASSUME Size \in Nat, NEW b \in Bounded, NEW s \in Seq(Char)
  PROVE  /\ Appended(b, s) \in Bounded
         /\ Appended(b, s) = IF StreamAvail(b.text) > Len(s)
                             THEN State(b.text \o s, Higher(b.top, Len(b.text) + Len(s))) ELSE b
         /\ StreamAvail(b.text) > Len(s) => Appended(b, s).text = b.text \o s
<1> DEFINE u == b.text \o s
           t == Higher(b.top, Len(b.text) + Len(s))
<1>1. Appended(b, s) = IF StreamAvail(b.text) > Len(s) THEN State(u, t) ELSE b
  BY DEF Appended
<1>2. ASSUME StreamAvail(b.text) > Len(s) PROVE State(u, t) \in Bounded
  <2>1. /\ b.text \in Seq(Char) /\ b.top \in Nat /\ Len(b.text) \in Nat /\ b.top <= Size
        /\ Len(s) \in Nat /\ Len(b.text) + Len(s) < Size
    BY <1>2, BoundedSays, LenProperties DEF StreamAvail
  <2>2. u \in Seq(Char) /\ Len(u) = Len(b.text) + Len(s)
    BY <2>1, ConcatProperties
  <2>3. t \in Nat /\ t <= Size /\ Len(b.text) + Len(s) <= t
    BY <2>1 DEF Higher
  <2> HIDE DEF u, t
  <2> QED
    BY <2>1, <2>2, <2>3, StateIsBounded
<1>3. State(u, t).text = u
  BY DEF State
<1> HIDE DEF u, t
<1> QED
  BY <1>1, <1>2, <1>3 DEF u, t

LEMMA NumericIs ==
  ASSUME Size \in Nat, MaxNumeric \in Nat, NEW b \in Bounded, NEW s \in Seq(Char),
         Len(s) < MaxNumeric
  PROVE  /\ Numeric(b, s) \in Bounded
         /\ StreamAvail(b.text) >= MaxNumeric => Numeric(b, s).text = b.text \o s
         /\ ~(StreamAvail(b.text) >= MaxNumeric) => Numeric(b, s) = b
<1> DEFINE u == b.text \o s
           t == Higher(b.top, Len(b.text) + Len(s) + 1)
<1>1. Numeric(b, s) = IF StreamAvail(b.text) >= MaxNumeric THEN State(u, t) ELSE b
  BY DEF Numeric
<1>2. ASSUME StreamAvail(b.text) >= MaxNumeric PROVE State(u, t) \in Bounded
  <2>1. /\ b.text \in Seq(Char) /\ b.top \in Nat /\ Len(b.text) \in Nat /\ b.top <= Size
        /\ Len(s) \in Nat /\ Len(b.text) + Len(s) < Size
    BY <1>2, BoundedSays, LenProperties DEF StreamAvail
  <2>2. u \in Seq(Char) /\ Len(u) = Len(b.text) + Len(s)
    BY <2>1, ConcatProperties
  <2>3. t \in Nat /\ t <= Size /\ Len(b.text) + Len(s) <= t
    BY <2>1 DEF Higher
  <2> HIDE DEF u, t
  <2> QED
    BY <2>1, <2>2, <2>3, StateIsBounded
<1>3. State(u, t).text = u
  BY DEF State
<1> HIDE DEF u, t
<1> QED
  BY <1>1, <1>2, <1>3 DEF u, t

\* An operand is written whole where there is room for it, and not at all elsewhere.
LEMMA WrittenIs ==
  ASSUME Size \in Nat, MaxNumeric \in Nat, NEW b \in Bounded, NEW op, Printable(op)
  PROVE  /\ Written(b, op) \in Bounded
         /\ RoomFor(op, StreamAvail(b.text)) => Written(b, op).text = b.text \o Shown(op)
         /\ ~RoomFor(op, StreamAvail(b.text)) => Written(b, op) = b
<1>1. /\ Shown(op) \in Seq(Char)
      /\ op.kind = "text" => Shown(op) = op.value
      /\ op.kind # "text" => Len(Shown(op)) < MaxNumeric
  BY ShownIsTyped
<1>2. CASE op \in [kind : {"text"}, value : Seq(STRING)]
  <2>1. /\ op.kind = "text" /\ Written(b, op) = Appended(b, Shown(op))
        /\ RoomFor(op, StreamAvail(b.text)) <=> StreamAvail(b.text) > Len(Shown(op))
    BY <1>1, <1>2 DEF Written, RoomFor
  <2> QED
    BY <1>1, <2>1, AppendedIs
<1>3. CASE op.kind # "text"
  <2>1. Written(b, op) = Numeric(b, Shown(op))
    <3>1. CASE op.kind = "double"
      <4>1. Written(b, op) = Numeric(b, op.value) /\ Shown(op) = op.value
        BY <3>1 DEF Written, Shown
      <4> QED
        BY <4>1
    <3>2. CASE op.kind = "number"
      <4>1. Written(b, op) = Numeric(b, Convert(op.value)) /\ Shown(op) = Decimal(op.value)
        BY <3>2 DEF Written, Shown
      <4>2. op.value \in Int
        BY <3>2 DEF Printable
      <4> QED
        BY <4>1, <4>2, ConvertIsDecimal
    <3>3. CASE op.kind = "pointer"
      <4>1. /\ Written(b, op) = Numeric(b, <<"0", "x">> \o ConvertHex(op.value))
            /\ Shown(op) = Hexadecimal(op.value)
        BY <3>3 DEF Written, Shown
      <4>2. op.value \in Nat
        BY <3>3 DEF Printable
      <4>3. ConvertHex(op.value) = Numeral(op.value, Sixteen)
        BY <4>2, ConvertIsDecimal
      <4> QED
        BY <4>1, <4>3 DEF Hexadecimal
    <3> QED
      BY <1>3, <3>1, <3>2, <3>3 DEF Printable
  <2>2. RoomFor(op, StreamAvail(b.text)) <=> StreamAvail(b.text) >= MaxNumeric
    BY <1>3 DEF RoomFor
  <2> QED
    BY <1>1, <1>3, <2>1, <2>2, NumericIs
<1> QED
  BY <1>2, <1>3 DEF Printable

\* Operands one after the other.
LEMMA WrittenUpToIs ==
  ASSUME Sizes, NEW b \in Bounded, NEW ops \in Seq(GivenOps)
  PROVE  /\ WrittenUpTo(b, ops, 0) = b
         /\ \A i \in 0 .. Len(ops) : WrittenUpTo(b, ops, i) \in Bounded
         /\ \A i \in 1 .. Len(ops) :
              WrittenUpTo(b, ops, i) = Written(WrittenUpTo(b, ops, i - 1), ops[i])
<1> DEFINE m == Len(ops)
           next(w, i) == IF i = 0 THEN b ELSE Written(w[i - 1], ops[i])
           w == CHOOSE f : f = [i \in 0 .. m |-> next(f, i)]
           step == [q \in (1 .. m) \X Bounded |-> Written(q[2], ops[q[1]])]
<1>1. m \in Nat /\ \A i \in 1 .. m : ops[i] \in GivenOps
  BY LenProperties, ElementOfSeq
<1>2. \A i \in 1 .. m, c \in Bounded : Written(c, ops[i]) \in Bounded
  BY <1>1, SizesSay, WrittenIs
<1>3. StepsTo(step, m, Bounded) /\ \A i \in 1 .. m, c \in Bounded : step[<<i, c>>] = Written(c, ops[i])
  <2> HIDE DEF m
  <2>1. step \in [(1 .. m) \X Bounded -> Bounded]
    BY <1>2
  <2>2. \A i \in 1 .. m, c \in Bounded : <<i, c>> \in (1 .. m) \X Bounded
    OBVIOUS
  <2>3. \A i \in 1 .. m, c \in Bounded : step[<<i, c>>] = Written(c, ops[i])
    BY <2>2
  <2> QED
    BY <2>1, <2>3 DEF StepsTo
<1> HIDE DEF step, m
<1>4. PICK f : IteratedTo(f, m, Bounded, b, step)
  BY <1>1, <1>3, IteratesTo
<1>5. /\ f \in [0 .. m -> Bounded] /\ f[0] = b
      /\ \A i \in 1 .. m : f[i] = step[<<i, f[i - 1]>>]
  BY <1>4 DEF IteratedTo
<1>6. ASSUME NEW i \in 0 .. m PROVE f[i] = next(f, i)
  <2>1. CASE i = 0
    BY <1>5, <2>1
  <2>2. CASE i # 0
    <3>1. i \in 1 .. m /\ i - 1 \in 0 .. m
      BY <1>1, <2>2
    <3>2. f[i - 1] \in Bounded
      BY <1>5, <3>1
    <3> QED
      BY <1>3, <1>5, <2>2, <3>1, <3>2
  <2> QED
    BY <2>1, <2>2
<1>7. f = [i \in 0 .. m |-> next(f, i)]
  <2> HIDE DEF next
  <2> QED
    BY <1>5, <1>6
<1>8. w = [i \in 0 .. m |-> next(w, i)]
  <2>1. \E g : g = [i \in 0 .. m |-> next(g, i)]
    <3> HIDE DEF next
    <3> QED
      BY <1>7
  <2> QED
    BY <2>1
<1>9. \A i : WrittenUpTo(b, ops, i) = w[i]
  BY DEF WrittenUpTo, m
<1> HIDE DEF w
<1>10. w[0] = b
  <2>1. 0 \in 0 .. m
    BY <1>1
  <2>2. w[0] = next(w, 0)
    <3> HIDE DEF next
    <3> QED
      BY <1>8, <2>1
  <2> QED
    BY <2>2
<1>11. ASSUME NEW i \in 1 .. m PROVE w[i] = Written(w[i - 1], ops[i])
  <2>1. i \in 0 .. m /\ i # 0
    BY <1>1
  <2>2. w[i] = next(w, i)
    <3> HIDE DEF next
    <3> QED
      BY <1>8, <2>1
  <2> QED
    BY <2>1, <2>2
<1> DEFINE Good == {i \in Nat : i <= m => w[i] \in Bounded}
<1>12. Good = Nat
  <2>1. 0 \in Good
    BY <1>10
  <2>2. ASSUME NEW i \in Good PROVE i + 1 \in Good
    <3>1. i \in Nat /\ i + 1 \in Nat
      OBVIOUS
    <3>2. ASSUME i + 1 <= m PROVE w[i + 1] \in Bounded
      <4>1. i + 1 \in 1 .. m /\ (i + 1) - 1 = i /\ i <= m
        BY <1>1, <3>1, <3>2
      <4>2. w[i] \in Bounded
        BY <4>1
      <4> QED
        BY <1>2, <1>11, <4>1, <4>2
    <3> QED
      BY <3>1, <3>2
  <2> HIDE DEF Good
  <2>3. Good \in SUBSET Nat
    BY DEF Good
  <2> QED
    BY <2>1, <2>2, <2>3, Induction
<1>13. ASSUME NEW i \in 0 .. m PROVE w[i] \in Bounded
  <2>1. i \in Good /\ i <= m
    BY <1>1, <1>12
  <2> QED
    BY <2>1
<1> QED
  BY <1>9, <1>10, <1>11, <1>13 DEF m

-----------------------------------------------------------------------------
(* What a line is, of operands g. *)

LineOf(g, kept, n) ==
  LET line[i \in 0 .. Len(g)] ==
        IF i = 0 THEN <<>> ELSE line[i - 1] \o (IF i \in kept THEN Shown(g[i]) ELSE <<>>)
  IN  line[n]

IsLineOf(g, s) ==
  \E kept \in SUBSET DOMAIN g :
    /\ s = LineOf(g, kept, Len(g))
    /\ \A i \in DOMAIN g \ kept : ~RoomFor(g[i], Size - Len(LineOf(g, kept, i - 1)))

Piece(g, kept, i) == IF i \in kept THEN Shown(g[i]) ELSE <<>>

LEMMA LineOfIs ==
  ASSUME Sizes, NEW g \in Seq(GivenOps), NEW kept
  PROVE  /\ LineOf(g, kept, 0) = <<>>
         /\ \A i \in 0 .. Len(g) : LineOf(g, kept, i) \in Seq(Char)
         /\ \A i \in 1 .. Len(g) :
              LineOf(g, kept, i) = LineOf(g, kept, i - 1) \o Piece(g, kept, i)
<1> DEFINE m == Len(g)
           next(w, i) == IF i = 0 THEN <<>> ELSE w[i - 1] \o (IF i \in kept THEN Shown(g[i]) ELSE <<>>)
           w == CHOOSE f : f = [i \in 0 .. m |-> next(f, i)]
           step == [q \in (1 .. m) \X Seq(Char) |-> q[2] \o Piece(g, kept, q[1])]
<1>1. m \in Nat /\ (\A i \in 1 .. m : g[i] \in GivenOps) /\ <<>> \in Seq(Char)
  BY LenProperties, ElementOfSeq, EmptySeq
<1>2. \A i \in 1 .. m, s \in Seq(Char) : s \o Piece(g, kept, i) \in Seq(Char)
  <2>1. \A i \in 1 .. m : Piece(g, kept, i) \in Seq(Char)
    BY <1>1, SizesSay, ShownIsTyped DEF Piece
  <2> QED
    BY <2>1, ConcatProperties
<1>3. StepsTo(step, m, Seq(Char))
      /\ \A i \in 1 .. m, s \in Seq(Char) : step[<<i, s>>] = s \o Piece(g, kept, i)
  <2> HIDE DEF m
  <2>1. step \in [(1 .. m) \X Seq(Char) -> Seq(Char)]
    BY <1>2
  <2>2. \A i \in 1 .. m, s \in Seq(Char) : <<i, s>> \in (1 .. m) \X Seq(Char)
    OBVIOUS
  <2>3. \A i \in 1 .. m, s \in Seq(Char) : step[<<i, s>>] = s \o Piece(g, kept, i)
    BY <2>2
  <2> QED
    BY <2>1, <2>3 DEF StepsTo
<1> HIDE DEF step, m
<1>4. PICK f : IteratedTo(f, m, Seq(Char), <<>>, step)
  BY <1>1, <1>3, IteratesTo
<1>5. /\ f \in [0 .. m -> Seq(Char)] /\ f[0] = <<>>
      /\ \A i \in 1 .. m : f[i] = step[<<i, f[i - 1]>>]
  BY <1>4 DEF IteratedTo
<1>6. ASSUME NEW i \in 0 .. m PROVE f[i] = next(f, i)
  <2>1. CASE i = 0
    BY <1>5, <2>1
  <2>2. CASE i # 0
    <3>1. i \in 1 .. m /\ i - 1 \in 0 .. m
      BY <1>1, <2>2
    <3>2. f[i - 1] \in Seq(Char)
      BY <1>5, <3>1
    <3> QED
      BY <1>3, <1>5, <2>2, <3>1, <3>2 DEF Piece
  <2> QED
    BY <2>1, <2>2
<1>7. f = [i \in 0 .. m |-> next(f, i)]
  <2> HIDE DEF next
  <2> QED
    BY <1>5, <1>6
<1>8. w = [i \in 0 .. m |-> next(w, i)]
  <2>1. \E h : h = [i \in 0 .. m |-> next(h, i)]
    <3> HIDE DEF next
    <3> QED
      BY <1>7
  <2> QED
    BY <2>1
<1>9. \A i : LineOf(g, kept, i) = w[i]
  BY DEF LineOf, m
<1> HIDE DEF w
<1>10. w[0] = <<>>
  <2>1. 0 \in 0 .. m
    BY <1>1
  <2>2. w[0] = next(w, 0)
    <3> HIDE DEF next
    <3> QED
      BY <1>8, <2>1
  <2> QED
    BY <2>2
<1>11. ASSUME NEW i \in 1 .. m PROVE w[i] = w[i - 1] \o Piece(g, kept, i)
  <2>1. i \in 0 .. m /\ i # 0
    BY <1>1
  <2>2. w[i] = next(w, i)
    <3> HIDE DEF next
    <3> QED
      BY <1>8, <2>1
  <2> QED
    BY <2>1, <2>2 DEF Piece
<1> DEFINE Good == {i \in Nat : i <= m => w[i] \in Seq(Char)}
<1>12. Good = Nat
  <2>1. 0 \in Good
    BY <1>1, <1>10
  <2>2. ASSUME NEW i \in Good PROVE i + 1 \in Good
    <3>1. i \in Nat /\ i + 1 \in Nat
      OBVIOUS
    <3>2. ASSUME i + 1 <= m PROVE w[i + 1] \in Seq(Char)
      <4>1. i + 1 \in 1 .. m /\ (i + 1) - 1 = i /\ i <= m
        BY <1>1, <3>1, <3>2
      <4>2. w[i] \in Seq(Char)
        BY <4>1
      <4> QED
        BY <1>2, <1>11, <4>1, <4>2
    <3> QED
      BY <3>1, <3>2
  <2> HIDE DEF Good
  <2>3. Good \in SUBSET Nat
    BY DEF Good
  <2> QED
    BY <2>1, <2>2, <2>3, Induction
<1>13. ASSUME NEW i \in 0 .. m PROVE w[i] \in Seq(Char)
  <2>1. i \in Good /\ i <= m
    BY <1>1, <1>12
  <2> QED
    BY <2>1
<1> QED
  BY <1>9, <1>10, <1>11, <1>13 DEF m

\* A line up to an operand depends on the operands up to that one.
LEMMA LineOfAgrees ==
  ASSUME Sizes, NEW g \in Seq(GivenOps), NEW kept, NEW h \in Seq(GivenOps), NEW held,
         Len(g) <= Len(h), \A i \in 1 .. Len(g) : g[i] = h[i] /\ (i \in kept <=> i \in held)
  PROVE  \A i \in 0 .. Len(g) : LineOf(g, kept, i) = LineOf(h, held, i)
<1> DEFINE m == Len(g)
           Good == {i \in Nat : i <= m => LineOf(g, kept, i) = LineOf(h, held, i)}
<1>1. m \in Nat /\ Len(h) \in Nat /\ m <= Len(h)
      /\ \A i \in 1 .. m : g[i] = h[i] /\ (i \in kept <=> i \in held)
  BY LenProperties
<1> HIDE DEF m
<1>2. 0 \in Good
  BY LineOfIs
<1>3. ASSUME NEW i \in Good PROVE i + 1 \in Good
  <2>1. i \in Nat /\ i + 1 \in Nat
    OBVIOUS
  <2>2. ASSUME i + 1 <= m PROVE LineOf(g, kept, i + 1) = LineOf(h, held, i + 1)
    <3>1. /\ i + 1 \in 1 .. m /\ i + 1 \in 1 .. Len(h) /\ (i + 1) - 1 = i /\ i <= m
      BY <1>1, <2>1, <2>2
    <3>2. Piece(g, kept, i + 1) = Piece(h, held, i + 1)
      BY <1>1, <3>1 DEF Piece
    <3>3. LineOf(g, kept, i + 1) = LineOf(g, kept, i) \o Piece(g, kept, i + 1)
      BY <3>1, LineOfIs DEF m
    <3>4. LineOf(h, held, i + 1) = LineOf(h, held, i) \o Piece(h, held, i + 1)
      BY <3>1, LineOfIs
    <3>5. LineOf(g, kept, i) = LineOf(h, held, i)
      BY <3>1
    <3> QED
      BY <3>2, <3>3, <3>4, <3>5
  <2> QED
    BY <2>1, <2>2
<1>4. Good = Nat
  <2> HIDE DEF Good
  <2>1. Good \in SUBSET Nat
    BY DEF Good
  <2> QED
    BY <1>2, <1>3, <2>1, Induction
<1>5. ASSUME NEW i \in 0 .. m PROVE LineOf(g, kept, i) = LineOf(h, held, i)
  <2>1. i \in Good /\ i <= m
    BY <1>1, <1>4
  <2> QED
    BY <2>1
<1> QED
  BY <1>5 DEF m

\* Writing one more operand makes a line of one more operand.
LEMMA LineGrows ==
  ASSUME Sizes, NEW g \in Seq(GivenOps), NEW op \in GivenOps, NEW b \in Bounded,
         IsLineOf(g, b.text)
  PROVE  IsLineOf(Append(g, op), Written(b, op).text)
<1> DEFINE m == Len(g)
           h == Append(g, op)
           room == RoomFor(op, StreamAvail(b.text))
<1>1. PICK kept \in SUBSET DOMAIN g :
        /\ b.text = LineOf(g, kept, m)
        /\ \A i \in DOMAIN g \ kept : ~RoomFor(g[i], Size - Len(LineOf(g, kept, i - 1)))
  BY DEF IsLineOf
<1> DEFINE held == IF room THEN kept \union {m + 1} ELSE kept
<1>2. /\ m \in Nat /\ DOMAIN g = 1 .. m
      /\ h \in Seq(GivenOps) /\ Len(h) = m + 1 /\ h[m + 1] = op
      /\ \A i \in 1 .. m : h[i] = g[i]
  BY AppendProperties, LenProperties
<1>3. DOMAIN h = 1 .. m + 1
  BY <1>2, LenProperties
<1>4. /\ room => Written(b, op).text = b.text \o Shown(op)
      /\ ~room => Written(b, op) = b
      /\ b.text \in Seq(Char)
  BY SizesSay, WrittenIs, BoundedSays
<1> HIDE DEF m, h
<1>5. \A i \in 1 .. m : i \in kept <=> i \in held
  BY <1>2
<1>6. \A i \in 0 .. m : LineOf(g, kept, i) = LineOf(h, held, i)
  <2> HIDE DEF held
  <2> QED
    BY <1>2, <1>5, LineOfAgrees DEF m
<1>7. LineOf(h, held, m + 1) = LineOf(h, held, m) \o Piece(h, held, m + 1)
      /\ LineOf(h, held, m) = b.text
  <2>1. m + 1 \in 1 .. Len(h) /\ (m + 1) - 1 = m /\ m \in 0 .. m
    BY <1>2
  <2> HIDE DEF held
  <2> QED
    BY <1>1, <1>2, <1>6, <2>1, LineOfIs
<1>8. m + 1 \in held <=> room
  BY <1>1, <1>2
<1>9. Written(b, op).text = LineOf(h, held, m + 1)
  <2> HIDE DEF held, room
  <2>1. CASE room
    BY <1>2, <1>4, <1>7, <1>8, <2>1 DEF Piece
  <2>2. CASE ~room
    <3>1. Piece(h, held, m + 1) = <<>>
      BY <1>8, <2>2 DEF Piece
    <3> QED
      BY <1>4, <1>7, <2>2, <3>1, ConcatEmptySeq
  <2> QED
    BY <2>1, <2>2
<1>10. held \in SUBSET DOMAIN h
  BY <1>1, <1>2, <1>3
<1>11. ASSUME NEW i \in DOMAIN h \ held
       PROVE  ~RoomFor(h[i], Size - Len(LineOf(h, held, i - 1)))
  <2>1. CASE i = m + 1
    <3>1. (m + 1) - 1 = m
      BY <1>2
    <3>2. ~room
      BY <1>8, <1>11, <2>1
    <3>3. h[i] = op /\ LineOf(h, held, i - 1) = b.text
      BY <1>2, <1>7, <2>1, <3>1
    <3> HIDE DEF held
    <3> QED
      BY <3>2, <3>3 DEF StreamAvail
  <2>2. CASE i # m + 1
    <3>1. i \in 1 .. m /\ i - 1 \in 0 .. m
      BY <1>2, <1>3, <2>2
    <3>2. i \in DOMAIN g \ kept
      BY <1>2, <1>5, <1>11, <3>1
    <3>3. h[i] = g[i] /\ LineOf(h, held, i - 1) = LineOf(g, kept, i - 1)
      BY <1>2, <1>6, <3>1
    <3> HIDE DEF held
    <3> QED
      BY <1>1, <3>2, <3>3
  <2> QED
    BY <2>1, <2>2
<1> HIDE DEF held
<1>12. IsLineOf(h, Written(b, op).text)
  BY <1>2, <1>9, <1>10, <1>11 DEF IsLineOf
<1> QED
  BY <1>12 DEF h

LEMMA NothingIsALine ==
  ASSUME Sizes
  PROVE  State(<<>>, 0) \in Bounded /\ State(<<>>, 0).text = <<>> /\ IsLineOf(<<>>, <<>>)
<1>1. <<>> \in Seq(Char) /\ Len(<<>>) = 0 /\ DOMAIN <<>> = {} /\ <<>> \in Seq(GivenOps)
  OBVIOUS
<1>2. State(<<>>, 0) \in Bounded
  <2>1. Size \in Nat \ {0}
    BY SizesSay
  <2>2. 0 \in Nat /\ Len(<<>>) < Size /\ Len(<<>>) <= 0 /\ 0 <= Size
    BY <1>1, <2>1
  <2> QED
    BY <1>1, <2>2, StateIsBounded
<1>3. LineOf(<<>>, {}, Len(<<>>)) = <<>>
  BY <1>1, LineOfIs
<1>4. IsLineOf(<<>>, <<>>)
  BY <1>1, <1>3 DEF IsLineOf
<1> QED
  BY <1>2, <1>4 DEF State

LEMMA PrefixIsALine ==
  ASSUME Sizes
  PROVE  /\ WrittenAll(State(<<>>, 0), Prefix) \in Bounded
         /\ IsLineOf(Prefix, WrittenAll(State(<<>>, 0), Prefix).text)
<1> DEFINE b == State(<<>>, 0)
           m == Len(Prefix)
           w(i) == WrittenUpTo(b, Prefix, i)
           g(i) == SubSeq(Prefix, 1, i)
           Good == {i \in Nat : i <= m => IsLineOf(g(i), w(i).text)}
<1>1. b \in Bounded /\ b.text = <<>> /\ IsLineOf(<<>>, <<>>)
  BY NothingIsALine
<1> HIDE DEF b
<1>2. Prefix \in Seq(GivenOps) /\ m \in Nat /\ \A i \in 1 .. m : Prefix[i] \in GivenOps
  BY SizesSay, LenProperties, ElementOfSeq
<1>3. /\ w(0) = b
      /\ \A i \in 0 .. m : w(i) \in Bounded
      /\ \A i \in 1 .. m : w(i) = Written(w(i - 1), Prefix[i])
  BY <1>1, <1>2, WrittenUpToIs
<1>4. ASSUME NEW i \in 0 .. m
      PROVE  g(i) \in Seq(GivenOps)
  <2>1. \A j \in 1 .. i : Prefix[j] \in GivenOps
    BY <1>2
  <2> HIDE DEF m
  <2> QED
    BY <1>2, <2>1, SubSeqProperties
<1>5. ASSUME NEW i \in 1 .. m PROVE g(i) = Append(g(i - 1), Prefix[i])
  <2>1. 1 \in 1 .. Len(Prefix) /\ i \in 1 .. Len(Prefix)
    BY <1>2
  <2>3. g(i) = g(i - 1) \o <<Prefix[i]>>
    BY <1>2, <2>1, SubSeqRecursiveSecond
  <2>4. i - 1 \in 0 .. m /\ Prefix[i] \in GivenOps
    BY <1>2
  <2>5. g(i - 1) \in Seq(GivenOps)
    BY <1>4, <2>4
  <2> HIDE DEF g
  <2> QED
    BY <2>3, <2>4, <2>5, AppendIsConcat
<1> HIDE DEF w
<1>6. 0 \in Good
  <2>1. g(0) = <<>>
    BY SubSeqEmpty
  <2> HIDE DEF g
  <2> QED
    BY <1>1, <1>3, <2>1
<1>7. ASSUME NEW i \in Good PROVE i + 1 \in Good
  <2>1. i \in Nat /\ i + 1 \in Nat
    OBVIOUS
  <2>2. ASSUME i + 1 <= m PROVE IsLineOf(g(i + 1), w(i + 1).text)
    <3>1. i + 1 \in 1 .. m /\ i \in 0 .. m /\ (i + 1) - 1 = i /\ i <= m
      BY <1>2, <2>1, <2>2
    <3>2. /\ g(i + 1) = Append(g(i), Prefix[i + 1]) /\ w(i + 1) = Written(w(i), Prefix[i + 1])
          /\ g(i) \in Seq(GivenOps) /\ w(i) \in Bounded /\ Prefix[i + 1] \in GivenOps
      <4> HIDE DEF g
      <4> QED
        BY <1>2, <1>3, <1>4, <1>5, <3>1
    <3>3. IsLineOf(g(i), w(i).text)
      BY <3>1
    <3> HIDE DEF g
    <3>4. IsLineOf(Append(g(i), Prefix[i + 1]), Written(w(i), Prefix[i + 1]).text)
      BY <3>2, <3>3, LineGrows
    <3> QED
      BY <3>2, <3>4
  <2> QED
    BY <2>1, <2>2
<1>8. Good = Nat
  <2> HIDE DEF Good
  <2>1. Good \in SUBSET Nat
    BY DEF Good
  <2> QED
    BY <1>6, <1>7, <2>1, Induction
<1>9. IsLineOf(g(m), w(m).text)
  <2>1. m \in Good /\ m <= m
    BY <1>2, <1>8
  <2> QED
    BY <2>1
<1>10. g(m) = Prefix
  BY <1>2, SubSeqFull
<1>11. w(m) = WrittenAll(State(<<>>, 0), Prefix)
  BY DEF w, b, WrittenAll
<1>12. w(m) \in Bounded
  BY <1>2, <1>3
<1> QED
  BY <1>9, <1>10, <1>11, <1>12

-----------------------------------------------------------------------------
(* The inductive invariant of LogStream. *)

\* s with its newline, or without one when it fills the buffer.
Completed(s) == IF Len(s) = Size - 1 THEN s ELSE s \o <<NewLine>>

StreamIInv ==
  /\ level \in DOMAIN Levels /\ stmt \in {0} \union DOMAIN Levels
  /\ lines \in 0 .. MaxStatements /\ (stmt # 0 => lines < MaxStatements)
  /\ aborted \in BOOLEAN
  /\ State(text, top) \in Bounded
  /\ given \in Seq(GivenOps)
  /\ stmt # 0 \/ lines = 0 => IsLineOf(given, text)
  /\ lines > 0 => /\ out \in Seq(Char) /\ Len(out) < Size
                  /\ 2 <= Size => Len(out) >= 1
  /\ stmt = 0 /\ lines > 0 =>
       \E s \in Seq(Char) : IsLineOf(given, s) /\ out = Completed(s)

LEMMA LevelsAre == DOMAIN Levels = 1 .. 6
BY DEF Levels

LEMMA FinishIs ==
  ASSUME Sizes, NEW s \in Seq(Char), NEW t, State(s, t) \in Bounded
  PROVE  LET b == Appended(State(s, t), <<NewLine>>)
         IN  /\ b.text = Completed(s) /\ b.text \in Seq(Char) /\ Len(b.text) < Size
             /\ 2 <= Size => Len(b.text) >= 1
<1> DEFINE c == <<NewLine>>
           b == Appended(State(s, t), c)
<1>1. c \in Seq(Char) /\ Len(c) = 1
  <2>1. NewLine \in Char
    BY CharIs
  <2> QED
    BY <2>1
<1>2. /\ Size \in Nat \ {0} /\ State(s, t).text = s /\ Len(s) \in Nat /\ Len(s) < Size
  <2>1. State(s, t).text = s
    BY DEF State
  <2> QED
    BY <2>1, SizesSay, BoundedSays
<1> HIDE DEF c
<1>3. /\ b \in Bounded
      /\ StreamAvail(State(s, t).text) > Len(c) => b.text = s \o c
      /\ ~(StreamAvail(State(s, t).text) > Len(c)) => b = State(s, t)
  BY <1>1, <1>2, AppendedIs
<1>4. b.text \in Seq(Char) /\ Len(b.text) < Size
  BY <1>3, BoundedSays
<1> HIDE DEF b
<1>5. CASE Len(s) = Size - 1
  <2>1. ~(StreamAvail(State(s, t).text) > Len(c))
    BY <1>1, <1>2, <1>5 DEF StreamAvail
  <2>2. b.text = s /\ Completed(s) = s
    BY <1>2, <1>3, <1>5, <2>1 DEF Completed
  <2> QED
    BY <1>2, <1>4, <1>5, <2>2 DEF b, c
<1>6. CASE Len(s) # Size - 1
  <2>1. StreamAvail(State(s, t).text) > Len(c)
    BY <1>1, <1>2, <1>6 DEF StreamAvail
  <2>2. b.text = s \o c /\ Completed(s) = s \o c
    BY <1>3, <1>6, <2>1 DEF Completed, c
  <2>3. Len(s \o c) = Len(s) + Len(c)
    BY <1>1, ConcatProperties
  <2>4. Len(b.text) >= 1
    BY <1>1, <1>2, <2>2, <2>3
  <2> QED
    BY <1>4, <2>2, <2>4 DEF b, c
<1> QED
  BY <1>5, <1>6

LEMMA StreamInitHolds ==
  ASSUME Sizes, StreamInit
  PROVE  StreamIInv
<1>1. /\ level = 1 /\ stmt = 0 /\ lines = 0 /\ aborted = FALSE
      /\ text = <<>> /\ top = 0 /\ given = <<>>
  BY DEF StreamInit
<1>2. State(text, top) \in Bounded /\ IsLineOf(given, text)
  BY <1>1, NothingIsALine
<1>3. given \in Seq(GivenOps)
  BY <1>1, EmptySeq
<1>4. level \in DOMAIN Levels
  BY <1>1, LevelsAre
<1>5. lines \in 0 .. MaxStatements /\ ~(lines > 0) /\ stmt \in {0} \union DOMAIN Levels /\ ~(stmt # 0)
      /\ aborted \in BOOLEAN
  <2>1. MaxStatements \in Nat
    BY SizesSay
  <2>2. lines \in 0 .. MaxStatements /\ ~(lines > 0)
    BY ONLY <1>1, <2>1
  <2> QED
    BY ONLY <1>1, <2>2
<1> HIDE DEF GivenOps
<1> QED
  BY ONLY <1>2, <1>3, <1>4, <1>5 DEF StreamIInv

LEMMA ConstructKeeps ==
  ASSUME Sizes, StreamIInv, NEW l \in DOMAIN Levels, Construct(l)
  PROVE  StreamIInv'
<1> DEFINE b == WrittenAll(State(<<>>, 0), Prefix)
<1>1. /\ lines < MaxStatements /\ stmt' = l /\ text' = b.text /\ top' = b.top /\ given' = Prefix
      /\ level' = level /\ out' = out /\ lines' = lines /\ aborted' = aborted
  BY DEF Construct
<1>2. b \in Bounded /\ IsLineOf(Prefix, b.text)
  BY PrefixIsALine
<1> HIDE DEF b
<1>3. State(b.text, b.top) \in Bounded
  BY <1>2 DEF State, Bounded
<1>4. Prefix \in Seq(GivenOps) /\ l # 0
  BY SizesSay, LevelsAre
<1>5. (State(text, top) \in Bounded)' /\ (IsLineOf(given, text))'
  <2>1. State(text', top') \in Bounded /\ IsLineOf(given', text')
    BY <1>1, <1>2, <1>3
  <2> QED
    BY <2>1 DEF State, IsLineOf, LineOf
<1> QED
  BY <1>1, <1>4, <1>5 DEF StreamIInv

LEMMA OperandKeeps ==
  ASSUME Sizes, StreamIInv, NEW op \in Operands, Operand(op)
  PROVE  StreamIInv'
<1> DEFINE b == State(text, top)
           w == Written(b, op)
<1>1. /\ stmt # 0 /\ text' = w.text /\ top' = w.top /\ given' = Append(given, op)
      /\ level' = level /\ stmt' = stmt /\ out' = out /\ lines' = lines /\ aborted' = aborted
  BY DEF Operand
<1>2. b \in Bounded /\ given \in Seq(GivenOps) /\ op \in GivenOps /\ IsLineOf(given, b.text)
  <2>1. b.text = text
    BY DEF State
  <2> QED
    BY <1>1, <2>1 DEF StreamIInv, GivenOps
<1> HIDE DEF b
<1>3. w \in Bounded /\ IsLineOf(Append(given, op), w.text)
  BY <1>2, SizesSay, WrittenIs, LineGrows
<1> HIDE DEF w
<1>4. State(w.text, w.top) \in Bounded
  BY <1>3 DEF State, Bounded
<1>5. Append(given, op) \in Seq(GivenOps)
  BY <1>2, AppendProperties
<1>6. (State(text, top) \in Bounded)' /\ (IsLineOf(given, text))'
  <2>1. State(text', top') \in Bounded /\ IsLineOf(given', text')
    BY <1>1, <1>3, <1>4
  <2> QED
    BY <2>1 DEF State, IsLineOf, LineOf
<1> QED
  BY <1>1, <1>5, <1>6 DEF StreamIInv

LEMMA EndKeeps ==
  ASSUME Sizes, StreamIInv, End
  PROVE  StreamIInv'
<1>1. /\ stmt # 0 /\ lines' = lines + 1 /\ aborted' \in BOOLEAN
      /\ stmt' = 0 /\ text' = <<>> /\ top' = 0 /\ level' = level /\ given' = given
      /\ out' = Appended(State(text, top), <<NewLine>>).text
  BY DEF End, Finish
<1>2. text \in Seq(Char) /\ State(text, top) \in Bounded
  <2>1. State(text, top).text = text /\ State(text, top) \in Bounded
    BY DEF State, StreamIInv
  <2> QED
    BY <2>1, BoundedSays
<1>3. /\ out' = Completed(text) /\ out' \in Seq(Char) /\ Len(out') < Size
      /\ 2 <= Size => Len(out') >= 1
  BY <1>1, <1>2, FinishIs
<1>4. (State(text, top) \in Bounded)'
  <2>1. State(text', top') \in Bounded
    BY <1>1, NothingIsALine
  <2> QED
    BY <2>1 DEF State
<1>5. (\E s \in Seq(Char) : IsLineOf(given, s) /\ out = Completed(s))'
  <2>1. IsLineOf(given, text)
    BY <1>1 DEF StreamIInv
  <2>2. \E s \in Seq(Char) : IsLineOf(given', s) /\ out' = Completed(s)
    BY <1>1, <1>2, <1>3, <2>1
  <2> QED
    BY <2>2 DEF IsLineOf, LineOf, Completed
<1>6. lines' \in 0 .. MaxStatements /\ lines' # 0
  BY <1>1, SizesSay DEF StreamIInv
<1> QED
  BY <1>1, <1>3, <1>4, <1>5, <1>6 DEF StreamIInv

LEMMA StutterKeeps ==
  ASSUME StreamIInv, UNCHANGED <<stmt, text, top, given, out, lines, aborted>>,
         level' \in DOMAIN Levels
  PROVE  StreamIInv'
<1>1. /\ stmt' = stmt /\ text' = text /\ top' = top /\ given' = given /\ out' = out
      /\ lines' = lines /\ aborted' = aborted
  OBVIOUS
<1>2. (IsLineOf(given, text))' = IsLineOf(given, text)
  BY <1>1 DEF IsLineOf, LineOf
<1>3. (State(text, top) \in Bounded)' = (State(text, top) \in Bounded)
  BY <1>1 DEF State
<1>4. (\E s \in Seq(Char) : IsLineOf(given, s) /\ out = Completed(s))'
       = (\E s \in Seq(Char) : IsLineOf(given, s) /\ out = Completed(s))
  BY <1>1 DEF IsLineOf, LineOf, Completed
<1> QED
  BY <1>1, <1>2, <1>3, <1>4 DEF StreamIInv

LEMMA StreamInvariance == ASSUME Sizes PROVE StreamSpec => []StreamIInv
<1>1. Sizes /\ StreamInit => StreamIInv
  BY StreamInitHolds
<1>2. Sizes /\ StreamIInv /\ [StreamNext]_streamVars => StreamIInv'
  <2> SUFFICES ASSUME Sizes, StreamIInv, [StreamNext]_streamVars PROVE StreamIInv'
    OBVIOUS
  <2>1. level \in DOMAIN Levels
    BY DEF StreamIInv
  <2>2. ASSUME NEW l \in DOMAIN Levels, Construct(l) PROVE StreamIInv'
    BY <2>2, ConstructKeeps
  <2>3. ASSUME NEW l \in DOMAIN Levels, SetLevel(l) PROVE StreamIInv'
    BY <2>3, StutterKeeps DEF SetLevel
  <2>4. ASSUME NEW op \in Operands, Operand(op) PROVE StreamIInv'
    BY <2>4, OperandKeeps
  <2>5. CASE End
    BY <2>5, EndKeeps
  <2>6. CASE UNCHANGED streamVars
    BY <2>1, <2>6, StutterKeeps DEF streamVars
  <2> QED
    BY <2>2, <2>3, <2>4, <2>5, <2>6 DEF StreamNext
<1> QED
  BY <1>1, <1>2, PTL DEF StreamSpec

LEMMA IsLineIs == \A s : IsLine(s) <=> IsLineOf(given, s)
BY DEF IsLine, IsLineOf, LineUpTo, LineOf

\* cur_ never leaves data_, and nothing, terminating zeros included, is written behind
\* its end, whatever the operands and however many (log_stream.h:21-27,
\* log_stream.cpp:45-50,101-123).
THEOREM StreamTypeCorrect == ASSUME Sizes PROVE StreamSpec => []StreamTypeOK
<1>1. Sizes /\ StreamIInv => StreamTypeOK
  <2> SUFFICES ASSUME Sizes, StreamIInv PROVE StreamTypeOK
    OBVIOUS
  <2>1. State(text, top).text = text /\ State(text, top).top = top
    BY DEF State
  <2>2. /\ Len(text) \in Nat /\ top \in Nat /\ Len(text) < Size /\ Len(text) <= top
        /\ top <= Size
    BY <2>1, BoundedSays DEF StreamIInv
  <2>3. Size \in Nat
    BY SizesSay
  <2> QED
    BY <2>2, <2>3 DEF StreamIInv, StreamTypeOK
<1> QED
  BY <1>1, StreamInvariance, PTL

\* The line is the operands for which there was room, whole and in their order, and its
\* newline, for every size of the buffer and all operands (log_stream.cpp:10-123,
\* log_stream.h:21-27, logger.cpp:108-111).
THEOREM LinesAreOperands == ASSUME Sizes PROVE StreamSpec => []LineIsOperands
<1>1. Sizes /\ StreamIInv => LineIsOperands
  <2> SUFFICES ASSUME Sizes, StreamIInv PROVE LineIsOperands
    OBVIOUS
  <2>1. CASE stmt # 0 \/ lines = 0
    BY <2>1, IsLineIs DEF StreamIInv, LineIsOperands
  <2>2. CASE ~(stmt # 0 \/ lines = 0)
    <3>1. stmt = 0 /\ lines > 0 /\ Size \in Nat \ {0}
      BY <2>2, SizesSay DEF StreamIInv
    <3>2. PICK s \in Seq(Char) : IsLineOf(given, s) /\ out = Completed(s)
      BY <3>1 DEF StreamIInv
    <3>3. CASE Len(s) = Size - 1
      BY <2>2, <3>2, <3>3, IsLineIs DEF Completed, LineIsOperands
    <3>4. CASE Len(s) # Size - 1
      <4> DEFINE c == <<NewLine>>
      <4>1. out = s \o c /\ Len(s) \in Nat
        BY <3>2, <3>4, LenProperties DEF Completed
      <4>2. c \in Seq(Char) /\ Len(c) = 1 /\ c[1] = NewLine
        <5>1. NewLine \in Char
          BY CharIs
        <5> QED
          BY <5>1
      <4> HIDE DEF c
      <4>3. /\ out \in Seq(Char) /\ Len(out) = Len(s) + 1
            /\ \A i \in 1 .. Len(s) : out[i] = s[i]
            /\ out[Len(s) + 1] = NewLine
        <5>1. /\ out \in Seq(Char) /\ Len(out) = Len(s) + Len(c)
              /\ \A i \in 1 .. Len(s) + Len(c) : out[i] = IF i <= Len(s) THEN s[i] ELSE c[i - Len(s)]
          BY <4>1, <4>2, ConcatProperties
        <5> QED
          BY <4>1, <4>2, <5>1
      <4>4. Last(out) = NewLine
        BY <4>3 DEF Last
      <4>5. Front(out) = s
        <5> DEFINE f == Front(out)
        <5>1. f = SubSeq(out, 1, Len(s))
          BY <4>1, <4>3 DEF Front
        <5>2. \A i \in 1 .. Len(s) : out[i] \in Char
          BY <4>3, ElementOfSeq
        <5>3. f \in Seq(Char) /\ Len(f) = Len(s) /\ \A i \in 1 .. Len(s) : f[i] = out[i]
          <6> HIDE DEF f
          <6>1. /\ f \in Seq(Char)
                /\ Len(f) = IF 1 <= Len(s) THEN (Len(s) - 1) + 1 ELSE 0
                /\ \A i \in 1 .. (Len(s) - 1) + 1 : f[i] = out[(1 + i) - 1]
            BY <4>1, <5>1, <5>2, SubSeqProperties
          <6> QED
            BY <4>1, <6>1
        <5> HIDE DEF f
        <5>4. f = s
          BY <4>3, <5>3, SeqEqual
        <5> QED
          BY <5>4 DEF f
      <4> QED
        BY <2>2, <3>2, <4>4, <4>5, IsLineIs DEF LineIsOperands
    <3> QED
      BY <3>3, <3>4
  <2> QED
    BY <2>1, <2>2
<1> QED
  BY <1>1, StreamInvariance, PTL

\* No line is empty, nor longer than a buffer of AsyncLogging takes when it is empty:
\* kSmallBuffer is below kLargeBuffer (log_stream.h:7-8, async_logging.cpp:35-47).
\* The lines of LogStream are lines that AsyncLogging is specified for.
THEOREM LinesFit ==
  ASSUME Sizes, 2 <= Size, Size <= Cap
  PROVE  StreamSpec => [](lines > 0 => Len(out) \in 1 .. Cap - 1)
<1>1. Sizes /\ 2 <= Size /\ Size <= Cap /\ StreamIInv
        => (lines > 0 => Len(out) \in 1 .. Cap - 1)
  <2> SUFFICES ASSUME Sizes, 2 <= Size, Size <= Cap, StreamIInv, lines > 0
               PROVE  Len(out) \in 1 .. Cap - 1
    OBVIOUS
  <2>1. out \in Seq(Char) /\ Len(out) < Size /\ Len(out) >= 1
    BY DEF StreamIInv
  <2>2. Len(out) \in Nat /\ Size \in Nat /\ Cap \in Nat
    BY <2>1, LenProperties, SizesSay, ConstantsAssumption
  <2> QED
    BY <2>1, <2>2
<1> QED
  BY <1>1, StreamInvariance, PTL
=============================================================================
