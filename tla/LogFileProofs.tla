---------------------------- MODULE LogFileProofs ----------------------------
(***************************************************************************)
(* Proofs about LogFile.                                                   *)
(*                                                                         *)
(* What a file of a day holds, with the buffer in front of it, is its      *)
(* content: flushing, closing and opening again leave every content alone, *)
(* append() adds a line to one and a crash cuts one.  The inductive        *)
(* invariant is about the contents, about how the members of LogFile hang  *)
(* together, and about how many lines count_ lets into a file too late.    *)
(***************************************************************************)
EXTENDS LogFile, TLAPS, SequenceTheorems, FiniteSetTheorems

Disk == [Days -> Seq(Lines)]

Content(f, d, e) == d[e] \o (IF f.day = e THEN f.buffered ELSE <<>>)

Contents == [e \in Days |-> InFile(e)]

Has(F, n) == \E e \in Days : \E i \in DOMAIN F[e] : F[e][i] = n

\* In order in a file, and from one day's file to the next.
Ordered(F) ==
  /\ \A e \in Days : \A i, j \in DOMAIN F[e] : i < j => F[e][i] < F[e][j]
  /\ \A d, e \in Days : d < e => \A i \in DOMAIN F[d], j \in DOMAIN F[e] : F[d][i] < F[e][j]

\* The last day whose file has been written to, at most.
Reached == IF file.day # NoDay THEN file.day ELSE DayOf(now)

ContentInv ==
  /\ Ordered(Contents)
  /\ \A n \in Lines : Has(Contents, n) <=> n \in DOMAIN times \ lost
  /\ lost \subseteq DOMAIN times
  /\ \A e \in Days : e > Reached => Contents[e] = <<>>

MembersInv ==
  /\ \A n \in DOMAIN times : times[n] <= now
  /\ ~made => file = NoFile
  /\ file.day = NoDay => file.buffered = <<>>
  /\ file.day # NoDay =>
       /\ file.period = file.day /\ file.day = DayOf(file.lastRoll)
       /\ 0 < file.lastRoll /\ file.lastRoll <= file.lastFlush /\ file.lastFlush <= now
       /\ \A i \in DOMAIN file.buffered : times[file.buffered[i]] >= file.lastFlush

\* The places of the lines ns that were appended, at ts, after the day e.
Late(ns, ts, e) == {i \in DOMAIN ns : DayOf(ts[ns[i]]) > e}

LateInv ==
  file.day # NoDay /\ counted =>
    /\ file.count \in 0 .. CheckEveryN - 1
    /\ Cardinality(Late(Contents[file.day], times, file.day)) <= file.count

IInv == TypeOK /\ ContentInv /\ MembersInv /\ LateInv

-----------------------------------------------------------------------------
(* Days. *)

LEMMA QuotientIsMonotone ==
  ASSUME NEW a \in Nat, NEW b \in Nat, NEW c \in Nat \ {0}, a <= b
  PROVE  a \div c \in Nat /\ a \div c <= b \div c
<1> DEFINE q == a \div c
           r == b \div c
<1>1. q \in Int /\ c * q <= a /\ a < c * (q + 1)
  BY Z3
<1>2. r \in Int /\ c * r <= b /\ b < c * (r + 1)
  BY Z3
<1> HIDE DEF q, r
<1>3. c * q < c * (r + 1)
  BY <1>1, <1>2, Z3
<1>4. q < r + 1
  BY <1>1, <1>2, <1>3, Z3
<1>5. 0 < q + 1
  BY <1>1, Z3
<1>6. q \in Nat /\ q <= r
  BY ONLY <1>1, <1>2, <1>4, <1>5
<1> QED
  BY <1>6 DEF q, r

LEMMA DayFacts ==
  /\ Days \subseteq Nat /\ NoDay \notin Days
  /\ \A t \in 1 .. MaxTime : DayOf(t) \in Days
  /\ \A s, t \in 1 .. MaxTime : s <= t => DayOf(s) <= DayOf(t)
<1>1. \A t \in 1 .. MaxTime : DayOf(t) \in Nat /\ DayOf(t) <= MaxTime \div Day
  BY ConstantsAssumption, QuotientIsMonotone DEF DayOf
<1>2. \A s, t \in 1 .. MaxTime : s <= t => DayOf(s) <= DayOf(t)
  BY ConstantsAssumption, QuotientIsMonotone DEF DayOf
<1>3. MaxTime \div Day \in Nat
  BY ConstantsAssumption, QuotientIsMonotone
<1> QED
  BY <1>1, <1>2, <1>3 DEF Days, NoDay

-----------------------------------------------------------------------------
(* What an operation leaves. *)

\* The members of a LogFile that has a file, or none and nothing buffered.
Closed(f) == f.day = NoDay => f.buffered = <<>>

LEMMA FileFields ==
  ASSUME NEW f \in File
  PROVE  /\ f.day \in Days \union {NoDay} /\ f.written \in Nat /\ f.buffered \in Seq(Lines)
         /\ f.period \in Days /\ f.lastRoll \in Int /\ f.lastFlush \in Int /\ f.count \in Int
         /\ f = [day |-> f.day, written |-> f.written, buffered |-> f.buffered,
                 period |-> f.period, lastRoll |-> f.lastRoll, lastFlush |-> f.lastFlush,
                 count |-> f.count]
  BY DEF File

LEMMA ContentIsSeq ==
  ASSUME NEW f \in File, NEW d \in Disk, NEW e \in Days
  PROVE  Content(f, d, e) \in Seq(Lines)
<1>1. d[e] \in Seq(Lines) /\ f.buffered \in Seq(Lines) /\ <<>> \in Seq(Lines)
  BY FileFields, EmptySeq DEF Disk
<1> QED
  BY <1>1, ConcatProperties DEF Content

LEMMA FlushedKeeps ==
  ASSUME NEW f \in File, NEW d \in Disk, Closed(f)
  PROVE  LET r == Flushed(f, d)
         IN  /\ r.f = [f EXCEPT !.buffered = <<>>] /\ r.f \in File /\ r.d \in Disk
             /\ r.f.day = f.day /\ r.f.buffered = <<>>
             /\ \A e \in Days : r.d[e] = Content(f, d, e)
<1> DEFINE r == Flushed(f, d)
           emptied == [f EXCEPT !.buffered = <<>>]
           grown == [d EXCEPT ![f.day] = @ \o f.buffered]
<1>1. r.f = emptied /\ r.d = IF f.day = NoDay THEN d ELSE grown
  BY DEF Flushed
<1>2. emptied \in File /\ emptied.day = f.day /\ emptied.buffered = <<>>
  <2>1. <<>> \in Seq(Lines)
    BY EmptySeq
  <2> QED
    BY <2>1 DEF File
<1>3. \A e \in Days : d[e] \in Seq(Lines) /\ d[e] \o <<>> = d[e]
  BY ConcatEmptySeq DEF Disk
<1>4. CASE f.day = NoDay
  <2>1. \A e \in Days : Content(f, d, e) = d[e]
    BY <1>3, <1>4 DEF Closed, Content
  <2> QED
    BY <1>1, <1>2, <1>4, <2>1
<1>5. CASE f.day # NoDay
  <2>1. f.day \in Days /\ d[f.day] \o f.buffered \in Seq(Lines)
    BY <1>3, <1>5, FileFields, ConcatProperties
  <2>2. grown \in Disk /\ \A e \in Days : grown[e] = IF e = f.day THEN d[e] \o f.buffered ELSE d[e]
    BY <2>1 DEF Disk
  <2> HIDE DEF grown
  <2>3. \A e \in Days : grown[e] = Content(f, d, e)
    <3> TAKE e \in Days
    <3>1. CASE e = f.day
      BY <2>2, <3>1 DEF Content
    <3>2. CASE e # f.day
      BY <1>3, <2>2, <3>2 DEF Content
    <3> QED
      BY <3>1, <3>2
  <2> QED
    BY <1>1, <1>2, <1>5, <2>2, <2>3
<1> QED
  BY <1>4, <1>5

\* roll, or not: what both have in common, and what the two say.
LEMMA RollFileKeeps ==
  ASSUME NEW f \in File, NEW d \in Disk, Closed(f), now \in 1 .. MaxTime
  PROVE  LET r == RollFile(f, d)
         IN  /\ r.f \in File /\ r.d \in Disk /\ r.f.count = f.count
             /\ \A e \in Days : Content(r.f, r.d, e) = Content(f, d, e)
             /\ \/ /\ now > f.lastRoll
                   /\ r.f.day = DayOf(now) /\ r.f.period = DayOf(now) /\ r.f.buffered = <<>>
                   /\ r.f.lastRoll = now /\ r.f.lastFlush = now
                \/ ~(now > f.lastRoll) /\ r.f = f /\ r.d = d
<1> DEFINE r == RollFile(f, d)
           g == Flushed(f, d)
<1>1. CASE ~(now > f.lastRoll)
  BY <1>1 DEF RollFile
<1>2. CASE now > f.lastRoll
  <2>1. g.f = [f EXCEPT !.buffered = <<>>] /\ g.f \in File /\ g.d \in Disk
        /\ g.f.buffered = <<>> /\ \A e \in Days : g.d[e] = Content(f, d, e)
    BY FlushedKeeps
  <2>2. r.f = Opened(g.f) /\ r.d = g.d
    BY <1>2 DEF RollFile
  <2>3. DayOf(now) \in Days /\ now \in Int
    BY DayFacts
  <2>4. g.f.count = f.count
    BY <2>1, FileFields
  <2> HIDE DEF g
  <2>5. /\ Opened(g.f) \in File /\ Opened(g.f).buffered = <<>> /\ Opened(g.f).count = f.count
        /\ Opened(g.f).day = DayOf(now) /\ Opened(g.f).period = DayOf(now)
        /\ Opened(g.f).lastRoll = now /\ Opened(g.f).lastFlush = now
    BY <2>1, <2>3, <2>4 DEF Opened, File
  <2>6. \A e \in Days : Content(r.f, r.d, e) = Content(f, d, e)
    <3> TAKE e \in Days
    <3>1. r.d[e] = Content(f, d, e) /\ Content(f, d, e) \in Seq(Lines)
      BY <2>1, <2>2, ContentIsSeq
    <3>2. Content(r.f, r.d, e) = r.d[e] \o <<>>
      BY <2>2, <2>5 DEF Content
    <3> QED
      BY <3>1, <3>2, ConcatEmptySeq
  <2> QED
    BY <1>2, <2>1, <2>2, <2>5, <2>6
<1> QED
  BY <1>1, <1>2

LEMMA Regroup ==
  ASSUME NEW s \in Seq(Lines), NEW t \in Seq(Lines), NEW u \in Seq(Lines)
  PROVE  (s \o t) \o u = s \o (t \o u)
  BY ConcatAssociative

LEMMA Parts ==
  ASSUME NEW s \in Seq(Lines), NEW k \in 0 .. Len(s)
  PROVE  /\ SubSeq(s, 1, k) \in Seq(Lines) /\ SubSeq(s, k + 1, Len(s)) \in Seq(Lines)
         /\ SubSeq(s, 1, k) \o SubSeq(s, k + 1, Len(s)) = s
         /\ \A i \in DOMAIN SubSeq(s, k + 1, Len(s)) :
              \E j \in DOMAIN s : SubSeq(s, k + 1, Len(s))[i] = s[j]
<1>1. Len(s) \in Nat /\ DOMAIN s = 1 .. Len(s) /\ \A j \in 1 .. Len(s) : s[j] \in Lines
  BY LenProperties, ElementOfSeq
<1>2. SubSeq(s, 1, k) \in Seq(Lines)
  BY <1>1, SubSeqProperties
<1>3. /\ SubSeq(s, k + 1, Len(s)) \in Seq(Lines)
      /\ \A i \in DOMAIN SubSeq(s, k + 1, Len(s)) :
           i + k \in DOMAIN s /\ SubSeq(s, k + 1, Len(s))[i] = s[i + k]
  BY <1>1, SubSeqProperties, SMT
<1>4. SubSeq(s, 1, k) \o SubSeq(s, k + 1, Len(s)) = s
  <2>1. /\ 1 \in 1 .. Len(s) + 1 /\ k \in 1 - 1 .. Len(s) /\ Len(s) \in k .. Len(s)
    BY <1>1
  <2>2. SubSeq(s, 1, k) \o SubSeq(s, k + 1, Len(s)) = SubSeq(s, 1, Len(s))
    BY <2>1, ConcatAdjacentSubSeq
  <2> QED
    BY <2>2, SubSeqFull
<1> QED
  BY <1>2, <1>3, <1>4

\* A line is put behind what its file held; the kernel may have taken the first lines.
LEMMA PutAdds ==
  ASSUME NEW f \in File, NEW d \in Disk, f.day \in Days, NEW line \in Lines, NEW len \in Nat,
         NEW k \in 0 .. Len(f.buffered) + 1
  PROVE  LET r == Put(f, d, line, len, k)
         IN  /\ r.f \in File /\ r.d \in Disk
             /\ r.f.day = f.day /\ r.f.period = f.period /\ r.f.count = f.count
             /\ r.f.lastRoll = f.lastRoll /\ r.f.lastFlush = f.lastFlush
             /\ \A i \in DOMAIN r.f.buffered :
                  \/ r.f.buffered[i] = line
                  \/ \E j \in DOMAIN f.buffered : r.f.buffered[i] = f.buffered[j]
             /\ \A e \in Days : Content(r.f, r.d, e) =
                  IF e = f.day THEN Append(Content(f, d, e), line) ELSE Content(f, d, e)
<1> DEFINE r == Put(f, d, line, len, k)
           all == Append(f.buffered, line)
           front == SubSeq(all, 1, k)
           back == SubSeq(all, k + 1, Len(all))
           grown == [d EXCEPT ![f.day] = @ \o front]
<1>1. f.buffered \in Seq(Lines) /\ f.written + len \in Nat
  BY FileFields
<1>2. /\ all \in Seq(Lines) /\ Len(all) = Len(f.buffered) + 1 /\ all = f.buffered \o <<line>>
      /\ \A j \in DOMAIN all : all[j] = line \/ \E i \in DOMAIN f.buffered : all[j] = f.buffered[i]
  <2>1. /\ all \in Seq(Lines) /\ Len(all) = Len(f.buffered) + 1
        /\ \A i \in 1 .. Len(f.buffered) : all[i] = f.buffered[i]
        /\ all[Len(f.buffered) + 1] = line
    BY <1>1, AppendProperties
  <2>2. /\ Len(f.buffered) \in Nat /\ DOMAIN f.buffered = 1 .. Len(f.buffered)
        /\ DOMAIN all = 1 .. Len(all)
    BY <1>1, <2>1, LenProperties
  <2>3. all = f.buffered \o <<line>>
    BY <1>1, AppendIsConcat
  <2> HIDE DEF all
  <2> QED
    BY <2>1, <2>2, <2>3
<1> HIDE DEF all
<1>3. /\ front \in Seq(Lines) /\ back \in Seq(Lines) /\ front \o back = all
      /\ \A i \in DOMAIN back : \E j \in DOMAIN all : back[i] = all[j]
  <2>1. all \in Seq(Lines) /\ k \in 0 .. Len(all)
    BY <1>2
  <2> QED
    BY ONLY <2>1, Parts
<1>4. /\ r.f = [f EXCEPT !.buffered = back, !.written = @ + len] /\ r.d = grown
  BY DEF Put, all
<1> HIDE DEF r, front, back
<1>5. /\ r.f \in File /\ r.f.buffered = back
      /\ r.f.day = f.day /\ r.f.period = f.period /\ r.f.count = f.count
      /\ r.f.lastRoll = f.lastRoll /\ r.f.lastFlush = f.lastFlush
  BY <1>1, <1>3, <1>4 DEF File
<1>6. /\ \A e \in Days : d[e] \in Seq(Lines) /\ d[e] \o front \in Seq(Lines)
      /\ r.d \in Disk
      /\ \A e \in Days : r.d[e] = IF e = f.day THEN d[e] \o front ELSE d[e]
  <2>1. \A e \in Days : d[e] \in Seq(Lines) /\ d[e] \o front \in Seq(Lines)
    BY <1>3, ConcatProperties DEF Disk
  <2> QED
    BY <1>4, <2>1 DEF Disk
<1> HIDE DEF grown
<1>7. \A e \in Days : Content(r.f, r.d, e) =
        IF e = f.day THEN Append(Content(f, d, e), line) ELSE Content(f, d, e)
  <2> TAKE e \in Days
  <2>1. CASE e # f.day
    BY <1>5, <1>6, <2>1 DEF Content
  <2>2. CASE e = f.day
    <3>1. Content(r.f, r.d, e) = (d[e] \o front) \o back
      BY <1>5, <1>6, <2>2 DEF Content
    <3>2. (d[e] \o front) \o back = d[e] \o (front \o back)
      <4>1. d[e] \in Seq(Lines) /\ front \in Seq(Lines) /\ back \in Seq(Lines)
        BY <1>3, <1>6
      <4> QED
        BY ONLY <4>1, Regroup
    <3>3. <<line>> \in Seq(Lines)
      OBVIOUS
    <3>4. d[e] \o (f.buffered \o <<line>>) = (d[e] \o f.buffered) \o <<line>>
      <4>1. d[e] \in Seq(Lines) /\ f.buffered \in Seq(Lines)
        BY <1>1, <1>6
      <4> QED
        BY ONLY <3>3, <4>1, Regroup
    <3>5. Content(f, d, e) = d[e] \o f.buffered /\ Content(f, d, e) \in Seq(Lines)
      BY <2>2, ContentIsSeq DEF Content
    <3>6. Append(Content(f, d, e), line) = Content(f, d, e) \o <<line>>
      BY <3>5, AppendIsConcat
    <3> QED
      BY ONLY <1>2, <1>3, <2>2, <3>1, <3>2, <3>4, <3>5, <3>6
  <2> QED
    BY <2>1, <2>2
<1>8. \A i \in DOMAIN r.f.buffered :
        \/ r.f.buffered[i] = line
        \/ \E j \in DOMAIN f.buffered : r.f.buffered[i] = f.buffered[j]
  BY <1>2, <1>3, <1>5
<1> QED
  BY <1>5, <1>6, <1>7, <1>8 DEF r

\* The members of a LogFile with a file.
Members(f) ==
  /\ f.day \in Days /\ f.period = f.day /\ f.day = DayOf(f.lastRoll)
  /\ 0 < f.lastRoll /\ f.lastRoll <= f.lastFlush /\ f.lastFlush <= now

\* A LogFile that has been looked after leaves nothing too old in the buffer.
Tended(f) == f.day = DayOf(now) /\ (f.buffered = <<>> \/ now - f.lastFlush <= FlushInterval)

LEMMA RollFileTends ==
  ASSUME NEW f \in File, NEW d \in Disk, Members(f), now \in 1 .. MaxTime
  PROVE  LET r == RollFile(f, d)
         IN  /\ r.f \in File /\ r.d \in Disk /\ r.f.count = f.count
             /\ Members(r.f) /\ Tended(r.f) /\ f.day <= r.f.day
             /\ \A e \in Days : Content(r.f, r.d, e) = Content(f, d, e)
             /\ r.f.buffered = <<>> \/ (r.f.buffered = f.buffered /\ r.f.lastFlush = f.lastFlush)
<1> DEFINE r == RollFile(f, d)
<1>1. f.lastRoll \in Int /\ f.lastFlush \in Int /\ now \in Int /\ FlushInterval \in Nat /\ f.day # NoDay
  BY FileFields, ConstantsAssumption, DayFacts DEF Members
<1>2. f.lastRoll \in 1 .. MaxTime /\ f.lastRoll <= now
  BY <1>1, ConstantsAssumption DEF Members
<1>3. f.day <= DayOf(now) /\ DayOf(now) \in Days
  BY <1>2, DayFacts DEF Members
<1>4. /\ r.f \in File /\ r.d \in Disk /\ r.f.count = f.count
      /\ \A e \in Days : Content(r.f, r.d, e) = Content(f, d, e)
      /\ \/ /\ now > f.lastRoll
            /\ r.f.day = DayOf(now) /\ r.f.period = DayOf(now) /\ r.f.buffered = <<>>
            /\ r.f.lastRoll = now /\ r.f.lastFlush = now
         \/ ~(now > f.lastRoll) /\ r.f = f /\ r.d = d
  BY <1>1, RollFileKeeps DEF Closed
<1>5. CASE now > f.lastRoll
  BY <1>1, <1>3, <1>4, <1>5 DEF Members, Tended
<1>6. CASE ~(now > f.lastRoll)
  <2>1. f.lastRoll = now /\ f.lastFlush = now /\ r.f = f
    BY <1>1, <1>2, <1>4, <1>6 DEF Members
  <2>2. Tended(f) /\ f.day <= f.day
    BY <1>1, <1>3, <2>1 DEF Members, Tended
  <2> QED
    BY <1>4, <2>1, <2>2
<1> QED
  BY <1>5, <1>6

LEMMA CheckTends ==
  ASSUME NEW f \in File, NEW d \in Disk, Members(f), now \in 1 .. MaxTime
  PROVE  LET r == Check(f, d)
         IN  /\ r.f \in File /\ r.d \in Disk /\ r.f.count = f.count
             /\ Members(r.f) /\ Tended(r.f) /\ f.day <= r.f.day
             /\ \A e \in Days : Content(r.f, r.d, e) = Content(f, d, e)
             /\ r.f.buffered = <<>> \/ (r.f.buffered = f.buffered /\ r.f.lastFlush = f.lastFlush)
<1> DEFINE r == Check(f, d)
           g == [f EXCEPT !.lastFlush = now]
           h == Flushed(g, d)
<1>1. f.lastFlush \in Int /\ f.lastRoll \in Int /\ now \in Int /\ f.day \in Nat /\ f.day # NoDay
      /\ FlushInterval \in Nat
  BY FileFields, ConstantsAssumption, DayFacts DEF Members
<1>2. CASE DayOf(now) # f.period
  <2>1. r = RollFile(f, d)
    BY <1>2 DEF Check
  <2> QED
    BY <2>1, RollFileTends
<1>3. CASE DayOf(now) = f.period /\ now - f.lastFlush > FlushInterval
  <2>1. r = h
    BY <1>3 DEF Check
  <2>2. /\ g \in File /\ g.day = f.day /\ g.buffered = f.buffered /\ g.lastFlush = now
        /\ g.period = f.period /\ g.lastRoll = f.lastRoll /\ g.count = f.count
    BY <1>1 DEF File
  <2> HIDE DEF g
  <2>3. /\ h.f = [g EXCEPT !.buffered = <<>>] /\ h.f \in File /\ h.d \in Disk
        /\ h.f.day = g.day /\ h.f.buffered = <<>>
        /\ \A e \in Days : h.d[e] = Content(g, d, e)
    BY <1>1, <2>2, FlushedKeeps DEF Closed
  <2>4. /\ h.f.lastFlush = now /\ h.f.period = f.period /\ h.f.lastRoll = f.lastRoll
        /\ h.f.count = f.count
    BY <2>2, <2>3, FileFields
  <2> HIDE DEF h
  <2>5. \A e \in Days : Content(h.f, h.d, e) = Content(f, d, e)
    <3> TAKE e \in Days
    <3>1. Content(g, d, e) = Content(f, d, e)
      BY <2>2 DEF Content
    <3>2. Content(h.f, h.d, e) = h.d[e] \o <<>>
      BY <2>3 DEF Content
    <3> QED
      BY <2>3, <3>1, <3>2, ContentIsSeq, ConcatEmptySeq
  <2>6. Members(h.f) /\ Tended(h.f) /\ f.day <= h.f.day
    BY <1>1, <1>3, <2>2, <2>3, <2>4 DEF Members, Tended
  <2> QED
    BY <2>1, <2>3, <2>4, <2>5, <2>6
<1>4. CASE DayOf(now) = f.period /\ ~(now - f.lastFlush > FlushInterval)
  <2>1. r.f = f /\ r.d = d
    BY <1>4 DEF Check
  <2>2. Tended(f) /\ f.day <= f.day
    BY <1>1, <1>4 DEF Members, Tended
  <2> QED
    BY <2>1, <2>2
<1> QED
  BY <1>2, <1>3, <1>4

\* Either count_ has gone up and nothing else happened, or the LogFile is tended.
LEMMA SettledTends ==
  ASSUME NEW f \in File, NEW d \in Disk, Members(f), now \in 1 .. MaxTime
  PROVE  LET r == Settled(f, d)
         IN  /\ r.f \in File /\ r.d \in Disk /\ Members(r.f) /\ f.day <= r.f.day
             /\ \A e \in Days : Content(r.f, r.d, e) = Content(f, d, e)
             /\ r.f.buffered = <<>> \/ (r.f.buffered = f.buffered /\ r.f.lastFlush = f.lastFlush)
             /\ \/ Tended(r.f) /\ Checks(f) /\ r.f.count = 0
                \/ Tended(r.f) /\ ~Checks(f) /\ r.f.count = f.count
                \/ ~Checks(f) /\ r.f.day = f.day /\ r.f.count = f.count + 1 /\ r.f.count < CheckEveryN
<1> DEFINE r == Settled(f, d)
           g == [f EXCEPT !.count = 0]
           h == [f EXCEPT !.count = @ + 1]
<1>1. f.count \in Int /\ f.written \in Nat /\ f.day \in Nat /\ RollSize \in Nat /\ CheckEveryN \in Nat
  BY FileFields, ConstantsAssumption, DayFacts DEF Members
<1>2. CASE f.written > RollSize
  <2>1. r = RollFile(f, d) /\ ~Checks(f)
    BY <1>1, <1>2 DEF Settled, Checks
  <2> QED
    BY <2>1, RollFileTends
<1>3. CASE ~(f.written > RollSize) /\ Checks(f)
  <2>1. r = Check(g, d)
    BY <1>3 DEF Settled
  <2>2. /\ g \in File /\ g.day = f.day /\ g.buffered = f.buffered /\ g.lastFlush = f.lastFlush
        /\ g.period = f.period /\ g.lastRoll = f.lastRoll /\ g.count = 0
    BY DEF File
  <2> HIDE DEF g
  <2>3. Members(g) /\ \A e \in Days : Content(g, d, e) = Content(f, d, e)
    BY <2>2 DEF Members, Content
  <2>4. /\ r.f \in File /\ r.d \in Disk /\ r.f.count = g.count
        /\ Members(r.f) /\ Tended(r.f) /\ g.day <= r.f.day
        /\ \A e \in Days : Content(r.f, r.d, e) = Content(g, d, e)
        /\ r.f.buffered = <<>> \/ (r.f.buffered = g.buffered /\ r.f.lastFlush = g.lastFlush)
    BY <2>1, <2>2, <2>3, CheckTends
  <2> QED
    BY <1>3, <2>2, <2>3, <2>4
<1>4. CASE ~(f.written > RollSize) /\ ~Checks(f)
  <2>1. r.f = h /\ r.d = d
    BY <1>4 DEF Settled
  <2>2. /\ h \in File /\ h.day = f.day /\ h.buffered = f.buffered /\ h.lastFlush = f.lastFlush
        /\ h.period = f.period /\ h.lastRoll = f.lastRoll /\ h.count = f.count + 1
    BY <1>1 DEF File
  <2> HIDE DEF h
  <2>3. Members(h) /\ \A e \in Days : Content(h, d, e) = Content(f, d, e)
    BY <2>2 DEF Members, Content
  <2>4. h.count < CheckEveryN /\ f.day <= h.day
    BY <1>1, <1>4, <2>2 DEF Checks
  <2> QED
    BY <1>4, <2>1, <2>2, <2>3, <2>4
<1> QED
  BY <1>2, <1>3, <1>4

-----------------------------------------------------------------------------
(* Lines in order. *)

LEMMA GrowthKeepsOrder ==
  ASSUME NEW F \in Disk, NEW G, NEW day \in Days, NEW line \in Lines,
         Ordered(F), \A n \in Lines : Has(F, n) => n < line,
         \A e \in Days : e > day => F[e] = <<>>,
         \A e \in Days : G[e] = IF e = day THEN Append(F[e], line) ELSE F[e]
  PROVE  Ordered(G) /\ \A n \in Lines : Has(G, n) <=> Has(F, n) \/ n = line
<1> DEFINE last == Len(F[day]) + 1
<1>1. /\ \A e \in Days : F[e] \in Seq(Lines)
      /\ \A e \in Days : \A i \in DOMAIN F[e] : F[e][i] \in Lines
      /\ \A e \in Days : \A i \in DOMAIN F[e] : i \in Nat
      /\ Lines \subseteq Nat /\ Days \subseteq Nat
  <2>1. \A e \in Days : F[e] \in Seq(Lines)
    BY DEF Disk
  <2>2. \A e \in Days : \A i \in DOMAIN F[e] : F[e][i] \in Lines /\ i \in Nat
    BY <2>1, LenProperties, ElementOfSeq
  <2>3. Lines \subseteq Nat /\ Days \subseteq Nat
    BY ONLY DayFacts DEF Lines
  <2> QED
    BY ONLY <2>1, <2>2, <2>3
<1>2. /\ last \in Nat /\ last \notin DOMAIN F[day]
      /\ DOMAIN G[day] = DOMAIN F[day] \union {last}
      /\ G[day][last] = line /\ \A i \in DOMAIN F[day] : i < last /\ G[day][i] = F[day][i]
  <2>1. Len(F[day]) \in Nat /\ DOMAIN F[day] = 1 .. Len(F[day])
    BY <1>1, LenProperties
  <2>2. /\ Append(F[day], line) \in Seq(Lines) /\ Len(Append(F[day], line)) = last
        /\ \A i \in 1 .. Len(F[day]) : Append(F[day], line)[i] = F[day][i]
        /\ Append(F[day], line)[last] = line
    BY <1>1, AppendProperties
  <2>3. DOMAIN Append(F[day], line) = 1 .. last
    BY <2>2, LenProperties
  <2>4. 1 .. last = 1 .. Len(F[day]) \union {last}
    BY <2>1
  <2>5. G[day] = Append(F[day], line)
    OBVIOUS
  <2>6. last \in Nat /\ last \notin 1 .. Len(F[day]) /\ \A i \in 1 .. Len(F[day]) : i < last
    BY ONLY <2>1
  <2> HIDE DEF last
  <2> QED
    BY ONLY <2>1, <2>2, <2>3, <2>4, <2>5, <2>6
<1> HIDE DEF last
<1>3. \A e \in Days \ {day} : G[e] = F[e]
  OBVIOUS
<1>4. \A e \in Days : \A i \in DOMAIN F[e] : F[e][i] < line
  BY <1>1 DEF Has
<1>5. \A e \in Days : e > day => DOMAIN G[e] = {}
  <2>1. DOMAIN (<<>>) = {}
    BY EmptySeq, LenProperties
  <2> QED
    BY <1>1, <1>3, <2>1
<1>6. ASSUME NEW e \in Days, NEW i \in DOMAIN G[e], NEW j \in DOMAIN G[e], i < j
      PROVE  G[e][i] < G[e][j]
  <2>1. CASE e # day
    BY <1>3, <1>6, <2>1 DEF Ordered
  <2>2. CASE e = day /\ j = last
    <3>1. i \in DOMAIN F[day]
      BY <1>2, <1>6, <2>2
    <3> QED
      BY <1>2, <1>4, <2>2, <3>1
  <2>3. CASE e = day /\ j # last
    <3>1. i \in DOMAIN F[day] /\ j \in DOMAIN F[day]
      BY <1>1, <1>2, <1>6, <2>3
    <3>2. F[day][i] < F[day][j]
      BY <1>6, <3>1 DEF Ordered
    <3> QED
      BY <1>2, <2>3, <3>1, <3>2
  <2> QED
    BY <2>1, <2>2, <2>3
<1>7. ASSUME NEW d \in Days, NEW e \in Days, d < e,
             NEW i \in DOMAIN G[d], NEW j \in DOMAIN G[e]
      PROVE  G[d][i] < G[e][j]
  <2>1. d # day
    BY <1>1, <1>5, <1>7
  <2>2. i \in DOMAIN F[d] /\ G[d][i] = F[d][i]
    BY <1>3, <2>1
  <2>3. CASE e = day /\ j = last
    BY <1>2, <1>4, <2>2, <2>3
  <2>4. CASE ~(e = day /\ j = last)
    <3>1. j \in DOMAIN F[e] /\ G[e][j] = F[e][j]
      BY <1>2, <1>3, <2>4
    <3> QED
      BY <1>7, <2>2, <3>1 DEF Ordered
  <2> QED
    BY <2>3, <2>4
<1>8. ASSUME NEW n \in Lines PROVE Has(G, n) <=> Has(F, n) \/ n = line
  <2>1. ASSUME Has(G, n) PROVE Has(F, n) \/ n = line
    <3>1. PICK e \in Days : \E i \in DOMAIN G[e] : G[e][i] = n
      BY <2>1 DEF Has
    <3>2. PICK i \in DOMAIN G[e] : G[e][i] = n
      BY <3>1
    <3> QED
      BY <1>2, <1>3, <3>2 DEF Has
  <2>2. ASSUME Has(F, n) PROVE Has(G, n)
    <3>1. PICK e \in Days : \E i \in DOMAIN F[e] : F[e][i] = n
      BY <2>2 DEF Has
    <3>2. PICK i \in DOMAIN F[e] : F[e][i] = n
      BY <3>1
    <3>3. i \in DOMAIN G[e] /\ G[e][i] = n
      BY <1>2, <1>3, <3>2
    <3> QED
      BY <3>3 DEF Has
  <2>3. Has(G, line)
    BY <1>2 DEF Has
  <2> QED
    BY <2>1, <2>2, <2>3
<1> QED
  BY <1>6, <1>7, <1>8 DEF Ordered

\* What is cut off the last file that was written to is nowhere else.
CutTo(F, G, day, p, q) ==
  /\ F \in Disk /\ day \in Days /\ p \in Seq(Lines) /\ q \in Seq(Lines)
  /\ F[day] = p \o q
  /\ \A e \in Days : G[e] = IF e = day THEN p ELSE F[e]

LEMMA CutKeepsOrder ==
  ASSUME NEW F, NEW G, NEW day, NEW p, NEW q, Ordered(F), CutTo(F, G, day, p, q)
  PROVE  /\ Ordered(G)
         /\ \A n \in Lines : Has(G, n) <=> Has(F, n) /\ \A i \in DOMAIN q : q[i] # n
<1>0. /\ F \in Disk /\ day \in Days /\ p \in Seq(Lines) /\ q \in Seq(Lines)
      /\ F[day] = p \o q
      /\ \A e \in Days : G[e] = IF e = day THEN p ELSE F[e]
  BY DEF CutTo
<1>1. /\ Len(p) \in Nat /\ DOMAIN p = 1 .. Len(p)
      /\ Len(q) \in Nat /\ DOMAIN q = 1 .. Len(q)
      /\ Lines \subseteq Nat /\ Days \subseteq Nat
  BY <1>0, LenProperties, DayFacts DEF Lines
<1>2. /\ DOMAIN F[day] = 1 .. Len(p) + Len(q)
      /\ \A i \in DOMAIN p : F[day][i] = p[i]
      /\ \A i \in DOMAIN q : F[day][Len(p) + i] = q[i]
  <2>1. /\ p \o q \in Seq(Lines) /\ Len(p \o q) = Len(p) + Len(q)
        /\ \A i \in 1 .. Len(p) + Len(q) :
             (p \o q)[i] = IF i <= Len(p) THEN p[i] ELSE q[i - Len(p)]
    BY <1>0, ConcatProperties
  <2>2. DOMAIN (p \o q) = 1 .. Len(p) + Len(q)
    BY <1>0, <2>1, LenProperties
  <2>3. \A i \in 1 .. Len(p) : (p \o q)[i] = p[i]
    BY <1>0, <1>1, <2>1
  <2>4. \A i \in 1 .. Len(q) : (p \o q)[Len(p) + i] = q[i]
    <3> TAKE i \in 1 .. Len(q)
    <3>1. /\ Len(p) + i \in 1 .. Len(p) + Len(q) /\ ~(Len(p) + i <= Len(p))
          /\ (Len(p) + i) - Len(p) = i
      BY <1>0, <1>1
    <3> QED
      BY <1>0, <2>1, <3>1
  <2> QED
    BY <1>0, <1>1, <2>2, <2>3, <2>4
<1>3. \A i \in DOMAIN p, j \in DOMAIN q : i \in Nat /\ i < Len(p) + j /\ Len(p) + j \in DOMAIN F[day]
                                          /\ i \in DOMAIN F[day]
  BY <1>0, <1>1, <1>2
<1>4. /\ DOMAIN p \subseteq DOMAIN F[day]
      /\ \A i \in DOMAIN F[day] : i \in DOMAIN p \/ \E j \in DOMAIN q : i = Len(p) + j
  <2>1. DOMAIN p \subseteq DOMAIN F[day]
    BY <1>0, <1>1, <1>2
  <2>2. ASSUME NEW i \in DOMAIN F[day], i \notin DOMAIN p
        PROVE  i - Len(p) \in DOMAIN q /\ i = Len(p) + (i - Len(p))
    BY <1>0, <1>1, <1>2, <2>2
  <2> QED
    BY <1>0, <2>1, <2>2
<1>5. \A e \in Days : \A i \in DOMAIN G[e] : i \in DOMAIN F[e] /\ G[e][i] = F[e][i]
  BY <1>0, <1>2, <1>4
<1>6. Ordered(G)
  BY <1>0, <1>5 DEF Ordered
<1>7. ASSUME NEW n \in Lines, Has(G, n) PROVE Has(F, n) /\ \A i \in DOMAIN q : q[i] # n
  <2>1. PICK e \in Days : \E i \in DOMAIN G[e] : G[e][i] = n
    BY <1>0, <1>7 DEF Has
  <2>2. PICK i \in DOMAIN G[e] : G[e][i] = n
    BY <1>0, <2>1
  <2>3. i \in DOMAIN F[e] /\ F[e][i] = n
    BY <1>0, <1>5, <2>2
  <2>4. ASSUME NEW j \in DOMAIN q, q[j] = n PROVE FALSE
    <3>1. F[day][Len(p) + j] = n /\ Len(p) + j \in DOMAIN F[day] /\ ~(n < n)
      BY <1>0, <1>1, <1>2, <1>4, <2>4
    <3>2. CASE e = day
      <4>1. i \in DOMAIN p
        BY <1>0, <2>2, <3>2
      <4>2. F[day][i] < F[day][Len(p) + j]
        BY <1>0, <1>3, <2>3, <2>4, <3>1, <3>2, <4>1 DEF Ordered
      <4> QED
        BY <1>0, <2>3, <3>1, <3>2, <4>2
    <3>3. CASE e # day
      <4>1. e < day \/ day < e
        BY <1>0, <1>1, <3>3
      <4> QED
        BY <1>0, <2>3, <3>1, <4>1 DEF Ordered
    <3> QED
      BY <1>0, <3>2, <3>3
  <2> QED
    BY <1>0, <2>3, <2>4 DEF Has
<1>8. ASSUME NEW n \in Lines, Has(F, n), \A i \in DOMAIN q : q[i] # n PROVE Has(G, n)
  <2>1. PICK e \in Days : \E i \in DOMAIN F[e] : F[e][i] = n
    BY <1>0, <1>8 DEF Has
  <2>2. PICK i \in DOMAIN F[e] : F[e][i] = n
    BY <1>0, <2>1
  <2>3. CASE e # day
    BY <1>0, <2>2, <2>3 DEF Has
  <2>4. CASE e = day
    <3>1. i \in DOMAIN p
      BY <1>0, <1>2, <1>4, <1>8, <2>2, <2>4
    <3>2. G[day] = p /\ p[i] = n
      BY <1>0, <1>2, <2>2, <2>4, <3>1
    <3> QED
      BY <1>0, <3>1, <3>2 DEF Has
  <2> QED
    BY <1>0, <2>3, <2>4
<1> QED
  BY <1>0, <1>6, <1>7, <1>8

-----------------------------------------------------------------------------
(* The actions. *)

LEMMA StateFacts ==
  ASSUME TypeOK
  PROVE  /\ now \in 1 .. MaxTime /\ now \in Nat /\ file \in File /\ disk \in Disk
         /\ Contents \in Disk /\ \A e \in Days : Contents[e] = Content(file, disk, e)
         /\ Len(times) \in Nat /\ DOMAIN times = 1 .. Len(times) /\ DOMAIN times \subseteq Lines
         /\ \A n \in DOMAIN times : times[n] \in 1 .. MaxTime
         /\ DayOf(now) \in Days /\ Reached \in Days /\ Days \subseteq Nat
<1>1. /\ now \in 1 .. MaxTime /\ file \in File /\ disk \in Disk
      /\ times \in Seq(1 .. MaxTime) /\ Len(times) <= MaxLines
  BY DEF TypeOK, Disk
<1>2. now \in Nat /\ MaxLines \in Nat
  BY <1>1, ConstantsAssumption
<1>3. \A e \in Days : Contents[e] = Content(file, disk, e)
  BY DEF Contents, InFile, Content
<1>4. Contents \in Disk
  <2>1. \A e \in Days : InFile(e) \in Seq(Lines)
    BY <1>1, ContentIsSeq DEF InFile, Content
  <2> QED
    BY <2>1 DEF Contents, Disk
<1>5. /\ Len(times) \in Nat /\ DOMAIN times = 1 .. Len(times)
      /\ \A n \in DOMAIN times : times[n] \in 1 .. MaxTime
  BY <1>1, LenProperties, ElementOfSeq
<1>6. DOMAIN times \subseteq Lines
  BY <1>1, <1>2, <1>5 DEF Lines
<1>7. DayOf(now) \in Days /\ Reached \in Days /\ Days \subseteq Nat
  BY <1>1, DayFacts, FileFields DEF Reached
<1> QED
  BY <1>1, <1>2, <1>3, <1>4, <1>5, <1>6, <1>7

LEMMA BufferedIsContent ==
  ASSUME TypeOK, file.day # NoDay
  PROVE  \A i \in DOMAIN file.buffered :
           \E j \in DOMAIN Contents[file.day] : Contents[file.day][j] = file.buffered[i]
<1>1. file.day \in Days /\ file.buffered \in Seq(Lines) /\ disk[file.day] \in Seq(Lines)
  BY StateFacts, FileFields DEF Disk
<1>2. Contents[file.day] = disk[file.day] \o file.buffered
  BY <1>1, StateFacts DEF Content
<1> DEFINE a == disk[file.day]
           b == file.buffered
<1>3. /\ Len(a) \in Nat /\ Len(b) \in Nat /\ DOMAIN b = 1 .. Len(b)
      /\ DOMAIN (a \o b) = 1 .. Len(a) + Len(b)
      /\ \A i \in 1 .. Len(a) + Len(b) : (a \o b)[i] = IF i <= Len(a) THEN a[i] ELSE b[i - Len(a)]
  <2>1. a \o b \in Seq(Lines) /\ Len(a \o b) = Len(a) + Len(b)
    BY <1>1, ConcatProperties
  <2> QED
    BY <1>1, <2>1, ConcatProperties, LenProperties
<1> HIDE DEF a, b
<1>4. \A i \in DOMAIN b : Len(a) + i \in DOMAIN (a \o b) /\ (a \o b)[Len(a) + i] = b[i]
  <2> TAKE i \in DOMAIN b
  <2>1. /\ Len(a) + i \in 1 .. Len(a) + Len(b) /\ ~(Len(a) + i <= Len(a))
        /\ (Len(a) + i) - Len(a) = i
    BY <1>3
  <2> QED
    BY <1>3, <2>1
<1> QED
  BY <1>2, <1>4 DEF a, b

\* The lines in the files, and in the buffer in front of one, are lines that were appended.
Accounted ==
  /\ \A e \in Days : \A i \in DOMAIN Contents[e] :
       Contents[e][i] \in DOMAIN times /\ Contents[e][i] \notin lost
  /\ \A i \in DOMAIN file.buffered :
       file.day # NoDay => file.buffered[i] \in DOMAIN times

LEMMA HasContents == TypeOK /\ ContentInv => Accounted
<1> SUFFICES ASSUME TypeOK, ContentInv PROVE Accounted
  OBVIOUS
<1>1. \A e \in Days : \A i \in DOMAIN Contents[e] : Contents[e][i] \in Lines
  BY StateFacts, ElementOfSeq, LenProperties DEF Disk
<1>2. \A e \in Days : \A i \in DOMAIN Contents[e] :
        Contents[e][i] \in DOMAIN times /\ Contents[e][i] \notin lost
  BY <1>1 DEF ContentInv, Has
<1>3. file.day # NoDay => file.day \in Days
  BY StateFacts, FileFields
<1> QED
  BY <1>2, <1>3, BufferedIsContent DEF Accounted

LEMMA AppendEffect ==
  ASSUME TypeOK, MembersInv, NEW len \in Lengths, AppendLine(len)
  PROVE  LET line == Len(times) + 1
         IN  /\ file.day \in Days /\ line \in Lines
             /\ times' = Append(times, now) /\ UNCHANGED <<now, made, lost>>
             /\ file' \in File /\ disk' \in Disk /\ counted' \in BOOLEAN
             /\ Members(file') /\ file.day <= file'.day
             /\ \A e \in Days : Content(file', disk', e) =
                  IF e = file.day THEN Append(Content(file, disk, e), line)
                  ELSE Content(file, disk, e)
             /\ \/ file'.buffered = <<>>
                \/ /\ file'.lastFlush = file.lastFlush
                   /\ \A i \in DOMAIN file'.buffered :
                        \/ file'.buffered[i] = line
                        \/ \E j \in DOMAIN file.buffered : file'.buffered[i] = file.buffered[j]
             /\ \/ Tended(file') /\ counted' = TRUE /\ file'.count = 0
                \/ Tended(file') /\ counted' = counted /\ file'.count = file.count
                \/ /\ counted' = counted /\ file'.day = file.day
                   /\ file'.count = file.count + 1 /\ file'.count < CheckEveryN
<1> DEFINE line == Len(times) + 1
<1>1. file.day # NoDay /\ line <= MaxLines /\ times' = Append(times, now)
      /\ UNCHANGED <<now, made, lost>>
  BY DEF AppendLine
<1>2. line \in Lines
  BY <1>1, StateFacts, ConstantsAssumption DEF Lines
<1>3. file \in File /\ disk \in Disk /\ file.day \in Days /\ now \in 1 .. MaxTime /\ len \in Nat
  BY <1>1, StateFacts, FileFields, ConstantsAssumption
<1>4. Members(file)
  BY <1>1, <1>3 DEF MembersInv, Members
<1>5. PICK k \in 0 .. Len(file.buffered) + 1 :
        LET put == Put(file, disk, line, len, k)
            end == Settled(put.f, put.d)
        IN  file' = end.f /\ disk' = end.d /\ counted' = (counted \/ Checks(put.f))
  BY DEF AppendLine
<1> DEFINE put == Put(file, disk, line, len, k)
           end == Settled(put.f, put.d)
<1> HIDE DEF line
<1>6. /\ put.f \in File /\ put.d \in Disk
      /\ put.f.day = file.day /\ put.f.period = file.period /\ put.f.count = file.count
      /\ put.f.lastRoll = file.lastRoll /\ put.f.lastFlush = file.lastFlush
      /\ \A i \in DOMAIN put.f.buffered :
           \/ put.f.buffered[i] = line
           \/ \E j \in DOMAIN file.buffered : put.f.buffered[i] = file.buffered[j]
      /\ \A e \in Days : Content(put.f, put.d, e) =
           IF e = file.day THEN Append(Content(file, disk, e), line) ELSE Content(file, disk, e)
  BY <1>2, <1>3, PutAdds
<1>7. /\ file' = end.f /\ disk' = end.d /\ counted' = (counted \/ Checks(put.f))
  BY <1>5
<1> HIDE DEF put
<1>8. Members(put.f)
  BY <1>4, <1>6 DEF Members
<1>9. /\ end.f \in File /\ end.d \in Disk /\ Members(end.f) /\ put.f.day <= end.f.day
      /\ \A e \in Days : Content(end.f, end.d, e) = Content(put.f, put.d, e)
      /\ end.f.buffered = <<>>
         \/ (end.f.buffered = put.f.buffered /\ end.f.lastFlush = put.f.lastFlush)
      /\ \/ Tended(end.f) /\ Checks(put.f) /\ end.f.count = 0
         \/ Tended(end.f) /\ ~Checks(put.f) /\ end.f.count = put.f.count
         \/ /\ ~Checks(put.f) /\ end.f.day = put.f.day /\ end.f.count = put.f.count + 1
            /\ end.f.count < CheckEveryN
  BY <1>3, <1>6, <1>8, SettledTends
<1> HIDE DEF end
<1>10. counted \in BOOLEAN /\ Checks(put.f) \in BOOLEAN
  BY DEF TypeOK, Checks
<1>11. \/ Tended(file') /\ counted' = TRUE /\ file'.count = 0
       \/ Tended(file') /\ counted' = counted /\ file'.count = file.count
       \/ /\ counted' = counted /\ file'.day = file.day
          /\ file'.count = file.count + 1 /\ file'.count < CheckEveryN
  <2>1. CASE Checks(put.f)
    BY <1>7, <1>9, <1>10, <2>1
  <2>2. CASE ~Checks(put.f)
    BY <1>6, <1>7, <1>9, <1>10, <2>2
  <2> QED
    BY <2>1, <2>2
<1>12. counted' \in BOOLEAN
  BY <1>7, <1>10
<1>13. /\ file' \in File /\ disk' \in Disk /\ Members(file') /\ file.day <= file'.day
       /\ \A e \in Days : Content(file', disk', e) =
            IF e = file.day THEN Append(Content(file, disk, e), line) ELSE Content(file, disk, e)
  BY <1>6, <1>7, <1>9
<1>14. \/ file'.buffered = <<>>
       \/ /\ file'.lastFlush = file.lastFlush
          /\ \A i \in DOMAIN file'.buffered :
               \/ file'.buffered[i] = line
               \/ \E j \in DOMAIN file.buffered : file'.buffered[i] = file.buffered[j]
  BY <1>6, <1>7, <1>9
<1> QED
  BY <1>1, <1>2, <1>3, <1>11, <1>12, <1>13, <1>14 DEF line

LEMMA NoFileIsFile == NoFile \in File
<1>1. 0 \in Days
  BY ConstantsAssumption, QuotientIsMonotone DEF Days
<1>2. <<>> \in Seq(Lines)
  BY EmptySeq
<1> QED
  BY <1>1, <1>2 DEF NoFile, File

LEMMA ConstructEffect ==
  ASSUME TypeOK, MembersInv, Construct
  PROVE  /\ UNCHANGED <<now, disk, times, lost>> /\ counted' = FALSE /\ made' = TRUE
         /\ file' \in File /\ file.day = NoDay
         /\ \A e \in Days : Content(file', disk', e) = Content(file, disk, e)
         /\ file'.buffered = <<>>
         /\ file'.day = NoDay \/ (Members(file') /\ file'.day = DayOf(now))
<1>1. file = NoFile /\ disk \in Disk /\ now \in 1 .. MaxTime /\ now \in Nat /\ DayOf(now) \in Days
  BY StateFacts DEF Construct, MembersInv
<1>2. PICK roll \in OldRolls, count \in OldCounts :
        file' = RollFile([NoFile EXCEPT !.lastRoll = roll, !.count = count], disk).f
  BY DEF Construct
<1> DEFINE f == [NoFile EXCEPT !.lastRoll = roll, !.count = count]
           r == RollFile(f, disk)
<1>3. /\ f \in File /\ f.day = NoDay /\ f.buffered = <<>>
  BY NoFileIsFile, ConstantsAssumption DEF File, NoFile
<1> HIDE DEF f
<1>4. /\ r.f \in File
      /\ \A e \in Days : Content(r.f, r.d, e) = Content(f, disk, e)
      /\ \/ /\ now > f.lastRoll
            /\ r.f.day = DayOf(now) /\ r.f.period = DayOf(now) /\ r.f.buffered = <<>>
            /\ r.f.lastRoll = now /\ r.f.lastFlush = now
         \/ ~(now > f.lastRoll) /\ r.f = f /\ r.d = disk
  BY <1>1, <1>3, RollFileKeeps DEF Closed
<1>5. r.d = disk
  BY <1>3 DEF RollFile, Flushed
<1>6. file' = r.f
  BY <1>2 DEF f
<1>7. \A e \in Days : Content(f, disk, e) = Content(file, disk, e)
  BY <1>1, <1>3 DEF Content, NoFile
<1>8. UNCHANGED <<now, disk, times, lost>> /\ counted' = FALSE /\ made' = TRUE /\ file.day = NoDay
  BY <1>1 DEF Construct, NoFile
<1> HIDE DEF r
<1>9. file'.buffered = <<>> /\ (file'.day = NoDay \/ (Members(file') /\ file'.day = DayOf(now)))
  BY <1>1, <1>3, <1>4, <1>6 DEF Members
<1> QED
  BY <1>4, <1>5, <1>6, <1>7, <1>8, <1>9

LEMMA FlushEffect ==
  ASSUME TypeOK, MembersInv, Flush \/ Destroy
  PROVE  /\ UNCHANGED <<now, times, lost, counted>> /\ disk' \in Disk /\ made' \in BOOLEAN
         /\ \A e \in Days : disk'[e] = Content(file, disk, e)
         /\ Flush => /\ made' = made /\ file.day # NoDay
                     /\ file' = [file EXCEPT !.buffered = <<>>] /\ file' \in File
         /\ Destroy => file' = NoFile
<1>1. file \in File /\ disk \in Disk /\ Closed(file)
  BY StateFacts DEF MembersInv, Closed
<1>2. LET r == Flushed(file, disk)
      IN  /\ r.f = [file EXCEPT !.buffered = <<>>] /\ r.f \in File /\ r.d \in Disk
          /\ \A e \in Days : r.d[e] = Content(file, disk, e)
  BY <1>1, FlushedKeeps
<1>3. UNCHANGED <<now, times, lost, counted>> /\ disk' = Flushed(file, disk).d /\ made' \in BOOLEAN
  BY DEF Flush, Destroy, TypeOK
<1>4. Flush => made' = made /\ file' = Flushed(file, disk).f /\ file.day # NoDay
  BY DEF Flush
<1>5. Destroy => file' = NoFile
  BY DEF Destroy
<1> QED
  BY <1>2, <1>3, <1>4, <1>5

LEMMA TypeStep ==
  ASSUME IInv, [Next]_vars PROVE TypeOK'
<1>0. TypeOK /\ ContentInv /\ MembersInv
  BY DEF IInv
<1>1. /\ now \in 1 .. MaxTime /\ made \in BOOLEAN /\ file \in File /\ disk \in [Days -> Seq(Lines)]
      /\ times \in Seq(1 .. MaxTime) /\ Len(times) <= MaxLines
      /\ lost \subseteq Lines /\ counted \in BOOLEAN
  BY <1>0 DEF TypeOK
<1>2. CASE Construct
  BY <1>0, <1>1, <1>2, ConstructEffect DEF TypeOK
<1>3. ASSUME NEW len \in Lengths, AppendLine(len) PROVE TypeOK'
  <2>1. Append(times, now) \in Seq(1 .. MaxTime) /\ Len(Append(times, now)) = Len(times) + 1
    BY <1>1, AppendProperties
  <2>2. Len(times) + 1 <= MaxLines
    BY <1>3 DEF AppendLine
  <2> QED
    BY <1>0, <1>1, <1>3, <2>1, <2>2, AppendEffect DEF TypeOK, Disk
<1>4. CASE Flush \/ Destroy
  BY <1>0, <1>1, <1>4, FlushEffect, NoFileIsFile DEF TypeOK, Disk
<1>5. CASE Crash
  <2>1. {file.buffered[i] : i \in DOMAIN file.buffered} \subseteq Lines
    BY <1>1, FileFields, ElementOfSeq, LenProperties
  <2> QED
    BY <1>1, <1>5, <2>1, NoFileIsFile DEF Crash, TypeOK
<1>6. CASE Tick
  BY <1>1, <1>6, ConstantsAssumption DEF Tick, TypeOK
<1>7. CASE UNCHANGED vars
  BY <1>1, <1>7 DEF vars, TypeOK
<1> QED
  BY <1>2, <1>3, <1>4, <1>5, <1>6, <1>7 DEF Next

\* The contents after a step, whatever the step.
LEMMA NextContents ==
  ASSUME TypeOK, TypeOK'
  PROVE  /\ Contents' \in Disk /\ \A e \in Days : Contents'[e] = Content(file', disk', e)
         /\ (\A e \in Days : Content(file', disk', e) = Content(file, disk, e)) => Contents' = Contents
<1>1. Contents' \in Disk /\ \A e \in Days : Contents'[e] = Content(file', disk', e)
  <2>1. \A e \in Days : Contents'[e] = Content(file', disk', e)
    BY DEF Contents, InFile, Content
  <2>2. \A e \in Days : Content(file', disk', e) \in Seq(Lines)
    <3>1. file' \in File /\ disk' \in Disk
      BY DEF TypeOK, Disk
    <3> QED
      BY <3>1, ContentIsSeq
  <2>3. Contents' = [e \in Days |-> Contents'[e]]
    BY DEF Contents
  <2> QED
    BY <2>1, <2>2, <2>3 DEF Disk
<1>2. ASSUME \A e \in Days : Content(file', disk', e) = Content(file, disk, e)
      PROVE  Contents' = Contents
  <2>1. \A e \in Days : Contents'[e] = Contents[e]
    BY <1>1, <1>2, StateFacts
  <2>2. Contents = [e \in Days |-> Contents[e]] /\ Contents' = [e \in Days |-> Contents'[e]]
    BY DEF Contents
  <2> QED
    BY <2>1, <2>2
<1> QED
  BY <1>1, <1>2

\* Flushing, closing, opening and the clock leave every content as it is.
LEMMA ContentsStay ==
  ASSUME TypeOK, MembersInv, Construct \/ Flush \/ Destroy \/ Tick \/ UNCHANGED vars
  PROVE  /\ \A e \in Days : Content(file', disk', e) = Content(file, disk, e)
         /\ UNCHANGED <<times, lost>>
<1>1. CASE Construct
  BY <1>1, ConstructEffect
<1>2. CASE Flush \/ Destroy
  <2>1. UNCHANGED <<times, lost>> /\ disk' \in Disk /\ \A e \in Days : disk'[e] = Content(file, disk, e)
    BY <1>2, FlushEffect
  <2>2. \A e \in Days : Content(file', disk', e) = disk'[e] \o <<>>
    <3>1. CASE Flush
      <4>1. file'.buffered = <<>>
        BY <3>1, FlushEffect, StateFacts, FileFields
      <4> QED
        BY <4>1 DEF Content
    <3>2. CASE Destroy
      <4>1. file'.buffered = <<>>
        BY <3>2, FlushEffect DEF NoFile
      <4> QED
        BY <4>1 DEF Content
    <3> QED
      BY <1>2, <3>1, <3>2
  <2>3. \A e \in Days : disk'[e] \in Seq(Lines)
    BY <2>1 DEF Disk
  <2> QED
    BY <2>1, <2>2, <2>3, ConcatEmptySeq
<1>3. CASE Tick \/ UNCHANGED vars
  BY <1>3 DEF Tick, vars
<1> QED
  BY <1>1, <1>2, <1>3

LEMMA ReachedGrows ==
  ASSUME TypeOK, MembersInv, TypeOK', [Next]_vars
  PROVE  Reached <= Reached'
<1>1. /\ now \in 1 .. MaxTime /\ now' \in 1 .. MaxTime /\ DayOf(now) \in Nat /\ file \in File
      /\ now <= now' => DayOf(now) <= DayOf(now')
  BY DayFacts DEF TypeOK
<1>2. file.day # NoDay => file.day \in Nat /\ file.day <= DayOf(now)
  <2> SUFFICES ASSUME file.day # NoDay PROVE file.day \in Nat /\ file.day <= DayOf(now)
    OBVIOUS
  <2>1. /\ file.day = DayOf(file.lastRoll) /\ 0 < file.lastRoll
        /\ file.lastRoll <= file.lastFlush /\ file.lastFlush <= now
    BY DEF MembersInv
  <2>2. file.lastRoll \in Int /\ file.lastFlush \in Int
    BY <1>1, FileFields
  <2>3. file.lastRoll \in 1 .. MaxTime /\ file.lastRoll <= now
    BY <1>1, <2>1, <2>2, ConstantsAssumption
  <2> QED
    BY <1>1, <2>1, <2>3, DayFacts
<1>3. CASE Construct
  BY <1>1, <1>3, ConstructEffect DEF Reached
<1>4. ASSUME NEW len \in Lengths, AppendLine(len) PROVE Reached <= Reached'
  <2>1. file.day \in Days /\ file'.day \in Days /\ file.day <= file'.day /\ NoDay \notin Days
    BY <1>4, AppendEffect, DayFacts DEF Members
  <2> QED
    BY <2>1 DEF Reached
<1>5. CASE Flush
  <2>1. file'.day = file.day /\ now' = now
    BY <1>1, <1>5, FlushEffect, FileFields
  <2> QED
    BY <1>1, <1>2, <2>1 DEF Reached
<1>6. CASE Destroy \/ Crash
  <2>1. file'.day = NoDay /\ now' = now
    BY <1>6 DEF Destroy, Crash, NoFile
  <2> QED
    BY <1>1, <1>2, <2>1 DEF Reached
<1>7. CASE Tick \/ UNCHANGED vars
  <2>1. file' = file /\ now <= now'
    BY <1>1, <1>7 DEF Tick, vars
  <2> QED
    BY <1>1, <1>2, <2>1 DEF Reached
<1> QED
  BY <1>3, <1>4, <1>5, <1>6, <1>7 DEF Next

LEMMA ContentStep ==
  ASSUME IInv, TypeOK', [Next]_vars PROVE ContentInv'
<1>0. TypeOK /\ ContentInv /\ MembersInv
  BY DEF IInv
<1>1. /\ Contents \in Disk /\ \A e \in Days : Contents[e] = Content(file, disk, e)
      /\ Days \subseteq Nat /\ Reached \in Days /\ Reached' \in Days /\ Reached <= Reached'
      /\ Contents' \in Disk /\ \A e \in Days : Contents'[e] = Content(file', disk', e)
  <2>1. Reached' \in Days
    BY DayFacts, FileFields DEF TypeOK, Reached
  <2> QED
    BY <1>0, <2>1, StateFacts, NextContents, ReachedGrows
<1>2. \A e \in Days : e > Reached' => e > Reached
  BY <1>1
<1>2a. Reached \in Nat
  BY <1>1
<1>3. CASE Construct \/ Flush \/ Destroy \/ Tick \/ UNCHANGED vars
  <2>1. Contents' = Contents /\ UNCHANGED <<times, lost>>
    BY <1>0, <1>3, ContentsStay, NextContents
  <2> QED
    BY <1>0, <1>2, <2>1 DEF ContentInv
<1>4. ASSUME NEW len \in Lengths, AppendLine(len) PROVE ContentInv'
  <2> DEFINE line == Len(times) + 1
  <2>1. /\ file.day \in Days /\ line \in Lines /\ times' = Append(times, now) /\ lost' = lost
        /\ \A e \in Days : Content(file', disk', e) =
             IF e = file.day THEN Append(Content(file, disk, e), line) ELSE Content(file, disk, e)
    BY <1>0, <1>4, AppendEffect
  <2>2. /\ Len(times) \in Nat /\ DOMAIN times = 1 .. Len(times) /\ DOMAIN times' = 1 .. line
    <3>1. times \in Seq(1 .. MaxTime) /\ now \in 1 .. MaxTime
      BY <1>0 DEF TypeOK
    <3>2. Append(times, now) \in Seq(1 .. MaxTime) /\ Len(Append(times, now)) = line
      BY <3>1, AppendProperties
    <3> QED
      BY <1>0, <2>1, <3>2, StateFacts, LenProperties
  <2>3. line \notin DOMAIN times /\ DOMAIN times' = DOMAIN times \union {line}
        /\ \A n \in DOMAIN times : n < line
    BY <2>2
  <2> HIDE DEF line
  <2>4. \A n \in Lines : Has(Contents, n) => n < line
    BY <1>0, <2>3 DEF ContentInv
  <2>5. Reached = file.day
    BY <2>1, DayFacts DEF Reached
  <2>6. \A e \in Days : e > file.day => Contents[e] = <<>>
    BY <1>0, <2>5 DEF ContentInv
  <2>7. \A e \in Days : Contents'[e] = IF e = file.day THEN Append(Contents[e], line) ELSE Contents[e]
    BY <1>1, <2>1
  <2>8. Ordered(Contents') /\ \A n \in Lines : Has(Contents', n) <=> Has(Contents, n) \/ n = line
    <3>1. Ordered(Contents)
      BY <1>0 DEF ContentInv
    <3>2. Contents \in Disk /\ file.day \in Days /\ line \in Lines
      BY <1>1, <2>1
    <3> QED
      BY ONLY <2>4, <2>6, <2>7, <3>1, <3>2, GrowthKeepsOrder
  <2>9. \A n \in Lines : Has(Contents', n) <=> n \in DOMAIN times' \ lost'
    BY <1>0, <2>1, <2>3, <2>8 DEF ContentInv
  <2>10. lost' \subseteq DOMAIN times'
    BY <1>0, <2>1, <2>3 DEF ContentInv
  <2>11. \A e \in Days : e > Reached' => Contents'[e] = <<>>
    <3>1. \A e \in Days : e > Reached' => e > Reached /\ e # file.day
      BY ONLY <1>2, <1>2a, <2>5
    <3> QED
      BY <2>5, <2>6, <2>7, <3>1
  <2> QED
    BY <2>8, <2>9, <2>10, <2>11 DEF ContentInv
<1>5. CASE Crash
  <2> DEFINE q == file.buffered
             gone == {q[i] : i \in DOMAIN q}
  <2>1. file' = NoFile /\ disk' = disk /\ times' = times /\ lost' = lost \union gone
    BY <1>5 DEF Crash
  <2>2. file \in File /\ disk \in Disk /\ q \in Seq(Lines) /\ \A e \in Days : disk[e] \in Seq(Lines)
    BY <1>0, StateFacts, FileFields DEF Disk
  <2>3. \A e \in Days : Contents'[e] = disk[e]
    <3>1. \A e \in Days : Contents'[e] = disk[e] \o <<>>
      BY <1>1, <2>1 DEF Content, NoFile
    <3> QED
      BY <2>2, <3>1, ConcatEmptySeq
  <2>4. CASE file.day = NoDay
    <3>1. q = <<>> /\ gone = {}
      <4>1. q = <<>>
        BY <1>0, <2>4 DEF MembersInv
      <4>2. DOMAIN q = {}
        BY <4>1, EmptySeq, LenProperties
      <4> QED
        BY <4>1, <4>2
    <3>2. \A e \in Days : Content(file', disk', e) = Content(file, disk, e)
      BY <2>1, <2>4, <3>1 DEF Content, NoFile
    <3>3. Contents' = Contents /\ UNCHANGED <<times, lost>>
      BY <1>0, <2>1, <3>1, <3>2, NextContents
    <3> QED
      BY <1>0, <1>2, <3>3 DEF ContentInv
  <2>5. CASE file.day # NoDay
    <3>1. file.day \in Days /\ disk[file.day] \in Seq(Lines)
          /\ Contents[file.day] = disk[file.day] \o q
      BY <1>1, <2>2, <2>5, FileFields DEF Content
    <3>2. \A e \in Days : e # file.day => Contents[e] = disk[e]
      <4>1. \A e \in Days : e # file.day => Contents[e] = disk[e] \o <<>>
        BY <1>1, <2>5 DEF Content
      <4> QED
        BY <2>2, <4>1, ConcatEmptySeq
    <3>3. \A e \in Days : Contents'[e] = IF e = file.day THEN disk[file.day] ELSE Contents[e]
      BY <2>3, <3>2
    <3>4. /\ Ordered(Contents')
          /\ \A n \in Lines : Has(Contents', n) <=> Has(Contents, n) /\ n \notin gone
      <4>1. Ordered(Contents)
        BY <1>0 DEF ContentInv
      <4> DEFINE p == disk[file.day]
                 day == file.day
      <4>2. /\ Contents \in Disk /\ day \in Days /\ p \in Seq(Lines) /\ q \in Seq(Lines)
            /\ Contents[day] = p \o q
            /\ \A e \in Days : Contents'[e] = IF e = day THEN p ELSE Contents[e]
        BY <1>1, <2>2, <3>1, <3>3
      <4> HIDE DEF q, p, day
      <4>3. CutTo(Contents, Contents', day, p, q)
        BY <4>2 DEF CutTo
      <4>4. /\ Ordered(Contents')
            /\ \A n \in Lines :
                 Has(Contents', n) <=> Has(Contents, n) /\ \A i \in DOMAIN q : q[i] # n
        BY ONLY <4>1, <4>3, CutKeepsOrder
      <4>5. \A n : n \notin gone <=> \A i \in DOMAIN q : q[i] # n
        OBVIOUS
      <4> QED
        BY ONLY <4>4, <4>5
    <3>5. gone \subseteq DOMAIN times
      BY <1>0, <2>5, HasContents DEF Accounted
    <3> HIDE DEF gone
    <3>6. \A n \in Lines : Has(Contents', n) <=> n \in DOMAIN times' \ lost'
      BY <1>0, <2>1, <3>4 DEF ContentInv
    <3>7. lost' \subseteq DOMAIN times'
      BY <1>0, <2>1, <3>5 DEF ContentInv
    <3>8. \A e \in Days : e > Reached' => Contents'[e] = <<>>
      <4>1. \A e \in Days : e > Reached' => e > Reached /\ e # file.day
        <5>1. Reached = file.day
          BY <2>5 DEF Reached
        <5> QED
          BY ONLY <1>2, <1>2a, <5>1
      <4> QED
        BY <1>0, <3>3, <4>1 DEF ContentInv
    <3> QED
      BY <3>4, <3>6, <3>7, <3>8 DEF ContentInv
  <2> QED
    BY <2>4, <2>5
<1> QED
  BY <1>3, <1>4, <1>5 DEF Next

LEMMA AppendedTimes ==
  ASSUME TypeOK, times' = Append(times, now)
  PROVE  LET line == Len(times) + 1
         IN  /\ line \notin DOMAIN times /\ DOMAIN times' = DOMAIN times \union {line}
             /\ times'[line] = now /\ \A n \in DOMAIN times : times'[n] = times[n]
<1> DEFINE line == Len(times) + 1
<1>1. times \in Seq(1 .. MaxTime) /\ now \in 1 .. MaxTime
  BY DEF TypeOK
<1>2. /\ Append(times, now) \in Seq(1 .. MaxTime) /\ Len(Append(times, now)) = line
      /\ \A i \in 1 .. Len(times) : Append(times, now)[i] = times[i]
      /\ Append(times, now)[line] = now
  BY <1>1, AppendProperties
<1>3. Len(times) \in Nat /\ DOMAIN times = 1 .. Len(times) /\ DOMAIN times' = 1 .. line
  BY <1>1, <1>2, LenProperties
<1>4. line \notin 1 .. Len(times) /\ 1 .. line = 1 .. Len(times) \union {line}
  BY <1>3
<1> QED
  BY <1>2, <1>3, <1>4

LEMMA MembersStep ==
  ASSUME IInv, TypeOK', [Next]_vars PROVE MembersInv'
<1>0. TypeOK /\ ContentInv /\ MembersInv
  BY DEF IInv
<1>1. now \in Nat /\ file \in File /\ DOMAIN (<<>>) = {}
  BY <1>0, StateFacts, EmptySeq, LenProperties
<1>2. CASE Construct
  BY <1>0, <1>1, <1>2, ConstructEffect DEF MembersInv, Members
<1>3. ASSUME NEW len \in Lengths, AppendLine(len) PROVE MembersInv'
  <2> DEFINE line == Len(times) + 1
  <2>1. /\ file.day \in Days /\ times' = Append(times, now) /\ UNCHANGED <<now, made>>
        /\ file' \in File /\ Members(file')
        /\ \/ file'.buffered = <<>>
           \/ /\ file'.lastFlush = file.lastFlush
              /\ \A i \in DOMAIN file'.buffered :
                   \/ file'.buffered[i] = line
                   \/ \E j \in DOMAIN file.buffered : file'.buffered[i] = file.buffered[j]
    BY <1>0, <1>3, AppendEffect
  <2>2. /\ DOMAIN times' = DOMAIN times \union {line}
        /\ times'[line] = now /\ \A n \in DOMAIN times : times'[n] = times[n]
    BY <1>0, <2>1, AppendedTimes
  <2> HIDE DEF line
  <2>3. file.day # NoDay /\ file'.day # NoDay
    BY <2>1, DayFacts DEF Members
  <2>4. /\ made /\ file'.lastFlush <= now
        /\ \A i \in DOMAIN file.buffered :
             times[file.buffered[i]] >= file.lastFlush /\ file.buffered[i] \in DOMAIN times
    BY <1>0, <2>1, <2>3, HasContents DEF MembersInv, Members, NoFile, Accounted
  <2>5. file'.lastFlush \in Int
    BY <2>1, FileFields
  <2>6. \A i \in DOMAIN file'.buffered : times'[file'.buffered[i]] >= file'.lastFlush
    <3>1. CASE file'.buffered = <<>>
      BY <1>1, <3>1
    <3>2. CASE file'.buffered # <<>>
      <4> TAKE i \in DOMAIN file'.buffered
      <4>1. CASE file'.buffered[i] = line
        BY <1>1, <2>2, <2>4, <2>5, <4>1
      <4>2. CASE file'.buffered[i] # line
        <5>1. PICK j \in DOMAIN file.buffered : file'.buffered[i] = file.buffered[j]
          BY <2>1, <3>2, <4>2
        <5> QED
          BY <2>1, <2>2, <2>4, <3>2, <5>1
      <4> QED
        BY <4>1, <4>2
    <3> QED
      BY <3>1, <3>2
  <2>7. \A n \in DOMAIN times' : times'[n] <= now
    BY <1>0, <1>1, <2>2 DEF MembersInv
  <2> QED
    BY <2>1, <2>3, <2>4, <2>6, <2>7 DEF MembersInv, Members
<1>4. CASE Flush
  <2>1. /\ UNCHANGED <<now, times, made>> /\ file.day # NoDay
        /\ file' = [file EXCEPT !.buffered = <<>>] /\ file' \in File
    BY <1>0, <1>4, FlushEffect
  <2>2. /\ file'.buffered = <<>> /\ file'.day = file.day /\ file'.period = file.period
        /\ file'.lastRoll = file.lastRoll /\ file'.lastFlush = file.lastFlush
    BY <1>1, <2>1, FileFields
  <2>3. made
    BY <1>0, <2>1 DEF MembersInv, NoFile
  <2> QED
    BY <1>0, <1>1, <2>1, <2>2, <2>3 DEF MembersInv
<1>5. CASE Destroy \/ Crash
  <2>1. file' = NoFile /\ UNCHANGED <<now, times>>
    BY <1>5 DEF Destroy, Crash
  <2> QED
    BY <1>0, <2>1 DEF MembersInv, NoFile
<1>6. CASE Tick
  <2>1. now' = now + 1 /\ UNCHANGED <<made, file, times>>
    BY <1>6 DEF Tick
  <2>2. \A x \in Int : x <= now => x <= now'
    BY <1>1, <2>1
  <2>3. \A n \in DOMAIN times : times[n] \in Int
    BY <1>0, StateFacts
  <2>4. file.lastFlush \in Int
    BY <1>1, FileFields
  <2> QED
    BY <1>0, <2>1, <2>2, <2>3, <2>4 DEF MembersInv
<1>7. CASE UNCHANGED vars
  BY <1>0, <1>7 DEF vars, MembersInv
<1> QED
  BY <1>2, <1>3, <1>4, <1>5, <1>6, <1>7 DEF Next

LEMMA LateIsFinite ==
  ASSUME NEW ns \in Seq(Lines), NEW ts, NEW e
  PROVE  IsFiniteSet(Late(ns, ts, e)) /\ Cardinality(Late(ns, ts, e)) \in Nat
<1>1. Len(ns) \in Nat /\ DOMAIN ns = 1 .. Len(ns)
  BY LenProperties
<1>2. IsFiniteSet(DOMAIN ns)
  BY <1>1, FS_Interval
<1>3. Late(ns, ts, e) \in SUBSET (DOMAIN ns)
  BY DEF Late
<1>4. IsFiniteSet(Late(ns, ts, e))
  BY <1>2, <1>3, FS_Subset
<1> QED
  BY <1>4, FS_CardinalityType

LEMMA OneMoreIsLate ==
  ASSUME NEW ns \in Seq(Lines), NEW line \in Lines, NEW ts, NEW us, NEW e,
         \A i \in DOMAIN ns : us[ns[i]] = ts[ns[i]]
  PROVE  Cardinality(Late(Append(ns, line), us, e)) <= Cardinality(Late(ns, ts, e)) + 1
<1> DEFINE more == Append(ns, line)
           last == Len(ns) + 1
           bound == Late(ns, ts, e) \union {last}
<1>1. /\ more \in Seq(Lines) /\ Len(more) = last
      /\ \A i \in 1 .. Len(ns) : more[i] = ns[i]
  BY AppendProperties
<1>2. Len(ns) \in Nat /\ DOMAIN ns = 1 .. Len(ns) /\ DOMAIN more = 1 .. last
  BY <1>1, LenProperties
<1>3. \A i \in DOMAIN more : i # last => i \in DOMAIN ns /\ more[i] = ns[i]
  BY <1>1, <1>2
<1> HIDE DEF more, last
<1>4. Late(more, us, e) \in SUBSET bound
  BY <1>3 DEF Late
<1>5. IsFiniteSet(Late(ns, ts, e)) /\ Cardinality(Late(ns, ts, e)) \in Nat
      /\ Cardinality(Late(more, us, e)) \in Nat
  BY <1>1, LateIsFinite
<1>6. IsFiniteSet(bound) /\ Cardinality(bound) <= Cardinality(Late(ns, ts, e)) + 1
      /\ Cardinality(bound) \in Nat
  <2>1. IsFiniteSet(bound) /\ Cardinality(bound) = IF last \in Late(ns, ts, e)
          THEN Cardinality(Late(ns, ts, e)) ELSE Cardinality(Late(ns, ts, e)) + 1
    BY <1>5, FS_AddElement
  <2> QED
    BY ONLY <1>5, <2>1
<1> HIDE DEF bound
<1>7. Cardinality(Late(more, us, e)) <= Cardinality(bound)
  BY <1>4, <1>6, FS_Subset
<1> QED
  BY <1>5, <1>6, <1>7 DEF more

LEMMA LateStep ==
  ASSUME IInv, TypeOK', ContentInv', MembersInv', [Next]_vars PROVE LateInv'
<1>0. TypeOK /\ ContentInv /\ MembersInv /\ LateInv
  BY DEF IInv
<1>1. CASE Construct \/ Destroy \/ Crash
  <2>1. CASE Construct
    <3>1. counted' = FALSE
      BY <2>1 DEF Construct
    <3> QED
      BY <3>1 DEF LateInv
  <2>2. CASE Destroy \/ Crash
    <3>1. file'.day = NoDay
      BY <2>2 DEF Destroy, Crash, NoFile
    <3> QED
      BY <3>1 DEF LateInv
  <2> QED
    BY <1>1, <2>1, <2>2
<1>2. ASSUME UNCHANGED <<times, counted>>, Contents' = Contents,
             file'.day = file.day, file'.count = file.count
      PROVE  LateInv'
  BY <1>0, <1>2 DEF LateInv
<1>3. CASE Flush \/ Tick \/ UNCHANGED vars
  <2>1. UNCHANGED <<times, counted>> /\ Contents' = Contents
    BY <1>0, <1>3, ContentsStay, NextContents, FlushEffect DEF Tick, vars
  <2>2. CASE Flush
    <3>1. file'.day = file.day /\ file'.count = file.count
      BY <1>0, <2>2, FlushEffect, StateFacts, FileFields
    <3> QED
      BY <1>2, <2>1, <3>1
  <2>3. CASE Tick \/ UNCHANGED vars
    BY <1>2, <2>1, <2>3 DEF Tick, vars
  <2> QED
    BY <1>3, <2>2, <2>3
<1>4. ASSUME NEW len \in Lengths, AppendLine(len) PROVE LateInv'
  <2> DEFINE line == Len(times) + 1
             ns == Contents[file.day]
  <2>1. /\ file.day \in Days /\ line \in Lines /\ times' = Append(times, now) /\ now' = now
        /\ file' \in File /\ file'.day \in Days
        /\ \A e \in Days : Content(file', disk', e) =
             IF e = file.day THEN Append(Content(file, disk, e), line) ELSE Content(file, disk, e)
        /\ \/ Tended(file') /\ counted' = TRUE /\ file'.count = 0
           \/ Tended(file') /\ counted' = counted /\ file'.count = file.count
           \/ /\ counted' = counted /\ file'.day = file.day
              /\ file'.count = file.count + 1 /\ file'.count < CheckEveryN
    BY <1>0, <1>4, AppendEffect DEF Members
  <2>2. CheckEveryN \in Nat \ {0} /\ file.count \in Int /\ file'.count \in Int /\ file.day # NoDay
    BY <1>0, <2>1, StateFacts, FileFields, ConstantsAssumption, DayFacts
  <2>3. CASE Tended(file') /\ (file'.count = 0 \/ (counted' = counted /\ file'.count = file.count))
    <3>1. Tended(file')
      BY <2>3
    <3>2. counted' => file'.count \in 0 .. CheckEveryN - 1
      <4>1. CASE file'.count = 0
        BY <2>2, <4>1
      <4>2. CASE counted' = counted /\ file'.count = file.count
        BY <1>0, <2>2, <4>2 DEF LateInv
      <4> QED
        BY <2>3, <4>1, <4>2
    <3>3. Late(Contents'[file'.day], times', file'.day) = {}
      <4>1. \A i \in DOMAIN Contents'[file'.day] : Contents'[file'.day][i] \in DOMAIN times'
        <5>1. (TypeOK /\ ContentInv => Accounted)'
          BY HasContents, PTL
        <5> QED
          BY <2>1, <5>1 DEF Accounted
      <4>2. \A n \in DOMAIN times' : times'[n] \in 1 .. MaxTime /\ times'[n] <= now
        <5>1. \A n \in DOMAIN times' : times'[n] \in 1 .. MaxTime
          BY ElementOfSeq, LenProperties DEF TypeOK
        <5> QED
          BY <2>1, <5>1 DEF MembersInv
      <4>3. now \in 1 .. MaxTime /\ file'.day = DayOf(now) /\ DayOf(now) \in Nat
        BY <1>0, <3>1, StateFacts DEF Tended
      <4>4. \A n \in DOMAIN times' : DayOf(times'[n]) \in Nat /\ DayOf(times'[n]) <= DayOf(now)
        BY <4>2, <4>3, DayFacts
      <4>5. \A n \in DOMAIN times' : ~(DayOf(times'[n]) > file'.day)
        BY <4>3, <4>4
      <4> QED
        BY <4>1, <4>5 DEF Late
    <3>4. Cardinality(Late(Contents'[file'.day], times', file'.day)) = 0
      BY <3>3, FS_EmptySet
    <3> QED
      BY <3>2, <3>4 DEF LateInv
  <2>4. CASE /\ counted' = counted /\ file'.day = file.day
             /\ file'.count = file.count + 1 /\ file'.count < CheckEveryN
    <3>1. /\ counted' = counted /\ file'.day = file.day
          /\ file'.count = file.count + 1 /\ file'.count < CheckEveryN
      BY <2>4
    <3>2. SUFFICES ASSUME counted'
                   PROVE  /\ file'.count \in 0 .. CheckEveryN - 1
                          /\ Cardinality(Late(Contents'[file'.day], times', file'.day)) <= file'.count
      BY DEF LateInv
    <3>3. /\ file.count \in 0 .. CheckEveryN - 1
          /\ Cardinality(Late(ns, times, file.day)) <= file.count
      BY <1>0, <2>2, <3>1, <3>2 DEF LateInv
    <3>4. Contents'[file.day] = Append(ns, line) /\ ns \in Seq(Lines)
      BY <1>0, <2>1, StateFacts, NextContents DEF Disk
    <3>5. \A i \in DOMAIN ns : times'[ns[i]] = times[ns[i]]
      BY <1>0, <2>1, HasContents, AppendedTimes DEF Accounted
    <3> HIDE DEF ns, line
    <3>6. Cardinality(Late(Append(ns, line), times', file.day)) <=
            Cardinality(Late(ns, times, file.day)) + 1
      BY <2>1, <3>4, <3>5, OneMoreIsLate
    <3>7. /\ Cardinality(Late(ns, times, file.day)) \in Nat
          /\ Cardinality(Late(Append(ns, line), times', file.day)) \in Nat
      <4>1. Append(ns, line) \in Seq(Lines)
        BY <2>1, <3>4, AppendProperties
      <4> QED
        BY <3>4, <4>1, LateIsFinite
    <3> QED
      BY <2>2, <3>1, <3>3, <3>4, <3>6, <3>7
  <2> QED
    BY <2>1, <2>3, <2>4
<1> QED
  BY <1>1, <1>3, <1>4 DEF Next

LEMMA InitInv == Init => IInv
<1> SUFFICES ASSUME Init PROVE IInv
  OBVIOUS
<1>1. Len(<<>>) = 0 /\ DOMAIN (<<>>) = {} /\ <<>> \in Seq(Lines) /\ <<>> \in Seq(1 .. MaxTime)
  BY EmptySeq, LenProperties
<1>2. now = 1 /\ file = NoFile /\ made = FALSE /\ times = <<>> /\ lost = {} /\ counted = FALSE
      /\ \A e \in Days : disk[e] = <<>>
  BY DEF Init
<1>3. TypeOK
  <2>1. disk \in [Days -> Seq(Lines)]
    BY <1>1 DEF Init
  <2>2. now \in 1 .. MaxTime /\ Len(times) <= MaxLines
    BY <1>1, <1>2, ConstantsAssumption
  <2> QED
    BY <1>1, <1>2, <2>1, <2>2, NoFileIsFile DEF TypeOK
<1>4. \A e \in Days : Contents[e] = <<>>
  <2>1. \A e \in Days : Contents[e] = <<>> \o <<>>
    BY <1>2, <1>3, StateFacts DEF Content, NoFile
  <2> QED
    BY <1>1, <2>1, ConcatEmptySeq
<1>5. \A n : ~Has(Contents, n)
  BY <1>1, <1>4 DEF Has
<1>6. ContentInv
  BY <1>1, <1>2, <1>4, <1>5 DEF ContentInv, Ordered
<1>7. MembersInv /\ LateInv
  BY <1>1, <1>2 DEF MembersInv, LateInv, NoFile
<1> QED
  BY <1>3, <1>6, <1>7 DEF IInv

LEMMA StepInv == IInv /\ [Next]_vars => IInv'
<1> SUFFICES ASSUME IInv, [Next]_vars PROVE IInv'
  OBVIOUS
<1>1. TypeOK'
  BY TypeStep
<1>2. ContentInv' /\ MembersInv'
  BY <1>1, ContentStep, MembersStep
<1>3. LateInv'
  BY <1>1, <1>2, LateStep
<1> QED
  BY <1>1, <1>2, <1>3 DEF IInv

\* The strengthened invariant of LogFile: what the files hold, how the members hang
\* together, and how many lines count_ lets into the file of a day that is over.
THEOREM Invariance == Spec => []IInv
  BY InitInv, StepInv, PTL DEF Spec

\* log_file.h:20-47, file_util.h: the members of LogFile and AppendFile, and the files.
THEOREM TypeCorrect == Spec => []TypeOK
<1>1. IInv => TypeOK
  BY DEF IInv
<1> QED
  BY <1>1, Invariance, PTL

-----------------------------------------------------------------------------
(* Where the lines are. *)

\* A file holds no more lines than there are.
LEMMA ContentFits ==
  ASSUME TypeOK, ContentInv, NEW e \in Days
  PROVE  DOMAIN Contents[e] \subseteq Lines
<1> DEFINE ns == Contents[e]
<1>1. ns \in Seq(Lines)
  BY StateFacts DEF Disk
<1>2. Len(ns) \in Nat /\ DOMAIN ns = 1 .. Len(ns) /\ ns \in [1 .. Len(ns) -> Lines]
  BY <1>1, LenProperties
<1>3. \A i, j \in DOMAIN ns : i < j => ns[i] < ns[j]
  BY DEF ContentInv, Ordered
<1> HIDE DEF ns
<1>4. \A i, j \in 1 .. Len(ns) : ns[i] = ns[j] => i = j
  <2> SUFFICES ASSUME NEW i \in 1 .. Len(ns), NEW j \in 1 .. Len(ns), ns[i] = ns[j], i # j
               PROVE  FALSE
    OBVIOUS
  <2>1. i < j \/ j < i
    BY <1>2
  <2>2. ns[i] \in Int /\ ns[j] \in Int
    BY <1>2 DEF Lines
  <2> QED
    BY <1>2, <1>3, <2>1, <2>2
<1>5. MaxLines \in Nat
  BY ConstantsAssumption
<1>6. Len(ns) <= MaxLines
  <2> SUFFICES ASSUME Len(ns) > MaxLines PROVE FALSE
    BY <1>2, <1>5
  <2>1. /\ IsFiniteSet(1 .. Len(ns)) /\ Cardinality(1 .. Len(ns)) = Len(ns)
        /\ IsFiniteSet(Lines) /\ Cardinality(Lines) = MaxLines
    <3>1. IsFiniteSet(1 .. Len(ns)) /\ Cardinality(1 .. Len(ns)) =
            IF 1 > Len(ns) THEN 0 ELSE Len(ns) - 1 + 1
      BY <1>2, FS_Interval
    <3>2. IsFiniteSet(Lines) /\ Cardinality(Lines) = IF 1 > MaxLines THEN 0 ELSE MaxLines - 1 + 1
      BY <1>5, FS_Interval DEF Lines
    <3> QED
      BY <1>2, <1>5, <3>1, <3>2
  <2>2. \E i, j \in 1 .. Len(ns) : i # j /\ ns[i] = ns[j]
    BY <1>2, <2>1, FS_PigeonHole
  <2> QED
    BY <1>4, <2>2
<1> QED
  BY <1>2, <1>5, <1>6 DEF Lines, ns

LEMMA InvPlaces == IInv => PlacedInOrder
<1> SUFFICES ASSUME IInv PROVE PlacedInOrder
  OBVIOUS
<1>0. TypeOK /\ ContentInv /\ LateInv
  BY DEF IInv
<1>1. Ordered(Contents) /\ DOMAIN times \subseteq Lines
      /\ \A n \in DOMAIN times : Has(Contents, n) <=> n \notin lost
  BY <1>0, StateFacts DEF ContentInv
<1>2. \A e \in Days : InFile(e) = Contents[e]
  BY DEF Contents
<1>3. /\ Days \subseteq Nat /\ Lines \subseteq Nat
      /\ \A e \in Days : \A i \in DOMAIN Contents[e] : i \in Lines /\ i \in Nat
  BY <1>0, ContentFits, DayFacts DEF Lines
\* Which places a line has.
<1>4. \A n : \A p : p \in Placed(n) <=>
        /\ p \in Days \X Lines /\ p[1] \in Days /\ p[2] \in DOMAIN Contents[p[1]]
        /\ Contents[p[1]][p[2]] = n
  BY <1>2 DEF Placed
<1>5. ASSUME NEW m \in DOMAIN times, NEW n \in DOMAIN times, m < n,
             NEW p \in Placed(m), NEW q \in Placed(n)
      PROVE  p[1] < q[1] \/ (p[1] = q[1] /\ p[2] < q[2])
  <2>1. /\ p[1] \in Days /\ p[2] \in DOMAIN Contents[p[1]] /\ Contents[p[1]][p[2]] = m
        /\ q[1] \in Days /\ q[2] \in DOMAIN Contents[q[1]] /\ Contents[q[1]][q[2]] = n
    BY <1>4
  <2>2. m \in Nat /\ n \in Nat /\ p[1] \in Nat /\ q[1] \in Nat /\ p[2] \in Nat /\ q[2] \in Nat
    BY <1>1, <1>3, <2>1
  <2>3. ~(n < m) /\ m # n
    BY <1>5, <2>2
  <2>4. ~(q[1] < p[1])
    BY <1>1, <2>1, <2>3 DEF Ordered
  <2>5. p[1] = q[1] => p[2] # q[2] /\ ~(q[2] < p[2])
    BY <1>1, <2>1, <2>3 DEF Ordered
  <2> QED
    BY <2>2, <2>4, <2>5
<1>6. ASSUME NEW n \in DOMAIN times, n \in lost PROVE Cardinality(Placed(n)) = 0
  <2>1. Placed(n) = {}
    BY <1>1, <1>4, <1>6 DEF Has
  <2> QED
    BY <2>1, FS_EmptySet
<1>7. ASSUME NEW n \in DOMAIN times, n \notin lost PROVE Cardinality(Placed(n)) = 1
  <2>1. PICK e \in Days : \E i \in DOMAIN Contents[e] : Contents[e][i] = n
    BY <1>1, <1>7 DEF Has
  <2>2. PICK i \in DOMAIN Contents[e] : Contents[e][i] = n
    BY <2>1
  <2>3. <<e, i>> \in Placed(n)
    BY <1>3, <1>4, <2>2
  <2>4. ASSUME NEW p \in Placed(n) PROVE p = <<e, i>>
    <3>1. /\ p \in Days \X Lines
          /\ p[1] \in Days /\ p[2] \in DOMAIN Contents[p[1]] /\ Contents[p[1]][p[2]] = n
      BY <1>4
    <3>2. n \in Nat /\ ~(n < n) /\ e \in Nat /\ p[1] \in Nat /\ i \in Nat /\ p[2] \in Nat
      <4>1. n \in Nat /\ e \in Nat /\ p[1] \in Nat /\ i \in Nat /\ p[2] \in Nat
        BY <1>1, <1>3, <2>2, <3>1
      <4> QED
        BY ONLY <4>1
    <3>3. ~(e < p[1]) /\ ~(p[1] < e)
      BY <1>1, <2>2, <3>1, <3>2 DEF Ordered
    <3>4. p[1] = e
      BY <3>2, <3>3
    <3>5. ~(i < p[2]) /\ ~(p[2] < i)
      BY <1>1, <2>2, <3>1, <3>2, <3>4 DEF Ordered
    <3>6. p[2] = i
      BY <3>2, <3>5
    <3> QED
      BY <3>1, <3>4, <3>6
  <2>5. Placed(n) = {<<e, i>>}
    BY <2>3, <2>4
  <2> QED
    BY <2>5, FS_Singleton
<1>8. ASSUME file.day # NoDay, counted
      PROVE  Cardinality({i \in DOMAIN InFile(file.day) :
                            DayOf(times[InFile(file.day)[i]]) > file.day}) < CheckEveryN
  <2>1. file.day \in Days /\ CheckEveryN \in Nat
    BY <1>0, <1>8, StateFacts, FileFields, ConstantsAssumption
  <2>2. {i \in DOMAIN InFile(file.day) : DayOf(times[InFile(file.day)[i]]) > file.day}
          = Late(Contents[file.day], times, file.day)
    BY <1>2, <2>1 DEF Late
  <2>3. Cardinality(Late(Contents[file.day], times, file.day)) \in Nat
    <3>1. Contents[file.day] \in Seq(Lines)
      BY <1>0, <2>1, StateFacts DEF Disk
    <3> QED
      BY <3>1, LateIsFinite
  <2>4. /\ file.count \in 0 .. CheckEveryN - 1
        /\ Cardinality(Late(Contents[file.day], times, file.day)) <= file.count
    BY <1>0, <1>8 DEF LateInv
  <2> QED
    BY <2>1, <2>2, <2>3, <2>4
<1> QED
  BY <1>5, <1>6, <1>7, <1>8 DEF PlacedInOrder

\* log_file.cpp:24-48, 61-90, file_util.cpp:7-37: every line is in one place of one file,
\* or in the buffer in front of it, unless a crash lost it; they are in order; and fewer
\* than checkEveryN_ of them get into the file of a day that is over.
THEOREM LinesArePlaced == Spec => []PlacedInOrder
  BY InvPlaces, Invariance, PTL

\* log_file.cpp:77-80: when count_ is looked at, no line that has waited longer than
\* flushInterval_ stays in the buffer.
THEOREM LinesAreFlushed == Spec => FlushedInTime
<1>1. IInv /\ IInv' /\ [Next]_vars =>
        [times' # times /\ file'.count = 0 /\ counted' =>
           \A i \in DOMAIN file'.buffered : now - times'[file'.buffered[i]] <= FlushInterval]_vars
  <2> SUFFICES ASSUME IInv, IInv', [Next]_vars, times' # times, file'.count = 0, counted',
                      NEW k \in DOMAIN file'.buffered
               PROVE  now - times'[file'.buffered[k]] <= FlushInterval
    OBVIOUS
  <2>0. TypeOK /\ MembersInv /\ LateInv /\ TypeOK' /\ ContentInv' /\ MembersInv'
    BY DEF IInv
  <2>1. PICK len \in Lengths : AppendLine(len)
    BY DEF Next, vars, Construct, Flush, Destroy, Crash, Tick
  <2>2. /\ now' = now /\ file' \in File /\ Members(file') /\ file.day \in Days
        /\ \/ Tended(file')
           \/ counted' = counted /\ file'.count = file.count + 1
    BY <2>0, <2>1, AppendEffect
  <2>3. Tended(file')
    <3> SUFFICES ASSUME counted' = counted, file'.count = file.count + 1 PROVE FALSE
      BY <2>2
    <3>1. file.count \in Nat
      BY <2>0, <2>2, DayFacts, ConstantsAssumption DEF LateInv
    <3> QED
      BY <3>1
  <2>4. DOMAIN (<<>>) = {}
    BY EmptySeq, LenProperties
  <2>5. now - file'.lastFlush <= FlushInterval
    BY <2>3, <2>4 DEF Tended
  <2>6. file'.day # NoDay /\ times'[file'.buffered[k]] >= file'.lastFlush
    BY <2>0, <2>2, DayFacts DEF Members, MembersInv
  <2>7. times'[file'.buffered[k]] \in Int /\ file'.lastFlush \in Int /\ now \in Int
        /\ FlushInterval \in Int
    <3>1. (TypeOK /\ ContentInv => Accounted)'
      BY HasContents, PTL
    <3>2. file'.buffered[k] \in DOMAIN times'
      BY <2>0, <2>6, <3>1 DEF Accounted
    <3>3. \A n \in DOMAIN times' : times'[n] \in 1 .. MaxTime
      BY <2>0, ElementOfSeq, LenProperties DEF TypeOK
    <3> QED
      BY <2>0, <2>2, <3>2, <3>3, FileFields, StateFacts, ConstantsAssumption
  <2> QED
    BY ONLY <2>5, <2>6, <2>7
<1> QED
  BY <1>1, Invariance, PTL DEF Spec, FlushedInTime
=============================================================================
