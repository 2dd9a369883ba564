---------------------------- MODULE BufferProofs ----------------------------
(***************************************************************************)
(* For any bytes, inputs and sizes: what each operation of Buffer does to  *)
(* the readable bytes, that its assertions hold, and that it implements    *)
(* ByteQueue.                                                              *)
(***************************************************************************)
EXTENDS Buffer, SequenceTheorems, TLAPS

-----------------------------------------------------------------------------
(* The readable bytes. *)

\* They are a sequence of Readable(b) bytes, found from index reader on.
LEMMA ContentOf ==
  ASSUME NEW b, IsBuffer(b)
  PROVE  /\ Content(b) \in Seq(Byte)
         /\ Len(Content(b)) = Readable(b)
         /\ Readable(b) \in Nat /\ Writable(b) \in Nat /\ Size(b) \in Nat
         /\ \A i \in 1 .. Readable(b) : Content(b)[i] = b.data[b.reader + i]
<1>1. /\ b.data \in Seq(Byte) /\ Len(b.data) \in Nat
      /\ b.reader \in Nat /\ b.writer \in Nat
      /\ b.reader <= b.writer /\ b.writer <= Len(b.data)
  BY LenProperties DEF IsBuffer, Size
<1>2. \A i \in b.reader + 1 .. b.writer : b.data[i] \in Byte
  BY <1>1, ElementOfSeq
<1> DEFINE m == b.reader + 1
<1>3. m \in Int /\ b.writer \in Int
  BY <1>1
<1> HIDE DEF m
<1>4. /\ SubSeq(b.data, m, b.writer) \in Seq(Byte)
      /\ Len(SubSeq(b.data, m, b.writer)) = IF m <= b.writer THEN b.writer - m + 1 ELSE 0
      /\ \A i \in 1 .. b.writer - m + 1 : SubSeq(b.data, m, b.writer)[i] = b.data[m + i - 1]
  BY <1>2, <1>3, SubSeqProperties DEF m
<1>5. b.writer - m + 1 = Readable(b) /\ Readable(b) \in Nat
      /\ (IF m <= b.writer THEN b.writer - m + 1 ELSE 0) = Readable(b)
  BY <1>1 DEF Readable, m
<1>6. Writable(b) \in Nat /\ Size(b) \in Nat
  BY <1>1 DEF Writable, Size
<1>7. Content(b) = SubSeq(b.data, m, b.writer)
  BY DEF Content, m
<1>8. ASSUME NEW i \in 1 .. Readable(b)
      PROVE  Content(b)[i] = b.data[b.reader + i]
  <2>1. m + i - 1 = b.reader + i
    BY <1>1, <1>5 DEF m
  <2> QED
    BY <1>4, <1>5, <1>7, <2>1
<1> QED
  BY <1>4, <1>5, <1>6, <1>7, <1>8

\* Two buffers with the same readable bytes have the same contents.
LEMMA SameContent ==
  ASSUME NEW b, IsBuffer(b), NEW c, IsBuffer(c),
         Readable(b) = Readable(c),
         \A i \in 1 .. Readable(b) : b.data[b.reader + i] = c.data[c.reader + i]
  PROVE  Content(b) = Content(c)
<1>1. /\ Content(b) \in Seq(Byte) /\ Content(c) \in Seq(Byte)
      /\ Len(Content(b)) = Len(Content(c))
      /\ \A i \in 1 .. Len(Content(b)) : Content(b)[i] = Content(c)[i]
  BY ContentOf
<1> QED
  BY <1>1, SeqEqual

\* What has the length and the bytes of the contents is the contents.
LEMMA ContentIs ==
  ASSUME NEW b, IsBuffer(b), NEW c \in Seq(Byte), Len(c) = Readable(b),
         \A i \in 1 .. Readable(b) : c[i] = b.data[b.reader + i]
  PROVE  Content(b) = c
<1>1. /\ Content(b) \in Seq(Byte) /\ Len(Content(b)) = Len(c)
      /\ \A i \in 1 .. Len(Content(b)) : Content(b)[i] = c[i]
  BY ContentOf
<1> QED
  BY <1>1, SeqEqual

\* What is left of a sequence without its first len, and of one cut at n.
LEMMA SuffixIsSeq ==
  ASSUME NEW c \in Seq(Byte), NEW len \in 0 .. Len(c)
  PROVE  /\ SubSeq(c, len + 1, Len(c)) \in Seq(Byte)
         /\ Len(SubSeq(c, len + 1, Len(c))) = Len(c) - len
         /\ \A i \in 1 .. Len(c) - len : SubSeq(c, len + 1, Len(c))[i] = c[len + i]
<1> DEFINE m == len + 1
           n == Len(c)
<1>1. n \in Nat /\ m \in Int /\ n \in Int /\ \A i \in m .. n : c[i] \in Byte
  BY LenProperties, ElementOfSeq
<1>2. /\ n - m + 1 = n - len
      /\ (IF m <= n THEN n - m + 1 ELSE 0) = n - len
      /\ \A i \in 1 .. n - len : m + i - 1 = len + i
  BY <1>1
<1> HIDE DEF m, n
<1>3. /\ SubSeq(c, m, n) \in Seq(Byte)
      /\ Len(SubSeq(c, m, n)) = IF m <= n THEN n - m + 1 ELSE 0
      /\ \A i \in 1 .. n - m + 1 : SubSeq(c, m, n)[i] = c[m + i - 1]
  BY <1>1, SubSeqProperties
<1> QED
  BY <1>2, <1>3 DEF m, n

LEMMA PrefixIsSeq ==
  ASSUME NEW c \in Seq(Byte), NEW n \in 0 .. Len(c)
  PROVE  /\ SubSeq(c, 1, n) \in Seq(Byte)
         /\ Len(SubSeq(c, 1, n)) = n
         /\ \A i \in 1 .. n : SubSeq(c, 1, n)[i] = c[i]
<1>1. Len(c) \in Nat /\ 1 \in Int /\ n \in Int /\ \A i \in 1 .. n : c[i] \in Byte
  BY LenProperties, ElementOfSeq
<1>2. /\ SubSeq(c, 1, n) \in Seq(Byte)
      /\ Len(SubSeq(c, 1, n)) = IF 1 <= n THEN n - 1 + 1 ELSE 0
      /\ \A i \in 1 .. n - 1 + 1 : SubSeq(c, 1, n)[i] = c[1 + i - 1]
  BY <1>1, SubSeqProperties
<1> QED
  BY <1>1, <1>2

\* A function on 1 .. n is a sequence of length n.
LEMMA FunctionIsSeq ==
  ASSUME NEW n \in Nat, NEW f \in [1 .. n -> Byte]
  PROVE  f \in Seq(Byte) /\ Len(f) = n /\ DOMAIN f = 1 .. n
<1>1. f \in Seq(Byte)
  BY SeqDef
<1> QED
  BY <1>1, LenProperties

\* A copy keeps the length, and changes the bytes it covers and no others.
LEMMA CopiedIsSeq ==
  ASSUME NEW data \in Seq(Byte), NEW s \in Seq(Byte), NEW at \in Nat,
         at + Len(s) <= Len(data)
  PROVE  /\ Copied(data, s, at) \in Seq(Byte)
         /\ Len(Copied(data, s, at)) = Len(data)
         /\ \A i \in 1 .. Len(data) :
              Copied(data, s, at)[i] = IF at < i /\ i <= at + Len(s) THEN s[i - at] ELSE data[i]
<1>1. Len(data) \in Nat /\ Len(s) \in Nat /\ DOMAIN data = 1 .. Len(data)
  BY LenProperties
<1>2. ASSUME NEW i \in 1 .. Len(data)
      PROVE  (IF at < i /\ i <= at + Len(s) THEN s[i - at] ELSE data[i]) \in Byte
  <2>1. CASE at < i /\ i <= at + Len(s)
    <3>1. i - at \in 1 .. Len(s)
      BY <1>1, <2>1
    <3> QED
      BY <2>1, <3>1, ElementOfSeq
  <2>2. CASE ~(at < i /\ i <= at + Len(s))
    BY <2>2, ElementOfSeq
  <2> QED
    BY <2>1, <2>2
<1>3. Copied(data, s, at) \in [1 .. Len(data) -> Byte]
  BY <1>1, <1>2 DEF Copied
<1> QED
  BY <1>1, <1>3, FunctionIsSeq DEF Copied

-----------------------------------------------------------------------------
(* Making space. *)

\* Both ways of making space leave the readable bytes alone, ...
LEMMA GrownKeeps ==
  ASSUME NEW b, IsBuffer(b), NEW len \in Nat, Writable(b) < len
  PROVE  /\ IsBuffer(Grown(b, len))
         /\ Writable(Grown(b, len)) = len
         /\ Content(Grown(b, len)) = Content(b)
<1> DEFINE n == b.writer + len
           d == [i \in 1 .. n |-> IF i <= Size(b) THEN b.data[i] ELSE Zero]
           g == Grown(b, len)
<1>1. /\ b \in [data : Seq(Byte), reader : Nat, writer : Nat]
      /\ b.data \in Seq(Byte) /\ b.reader \in Nat /\ b.writer \in Nat
      /\ b.reader <= b.writer /\ b.writer <= Size(b) /\ Size(b) = Len(b.data)
      /\ Size(b) \in Nat /\ n \in Nat
      /\ CheapPrepend <= Size(b) /\ CheapPrepend \in Nat
  BY LenProperties, ConstantsAssumption DEF IsBuffer, Size
<1>2. d \in [1 .. n -> Byte]
  <2>1. ASSUME NEW i \in 1 .. n, i <= Size(b)
        PROVE  b.data[i] \in Byte
    BY <1>1, <2>1, ElementOfSeq
  <2> QED
    BY <2>1, ConstantsAssumption
<1>3. d \in Seq(Byte) /\ Len(d) = n
  BY <1>1, <1>2, FunctionIsSeq
<1>4. /\ g \in [data : Seq(Byte), reader : Nat, writer : Nat]
      /\ g.data = d /\ g.reader = b.reader /\ g.writer = b.writer
  BY <1>1, <1>3 DEF Grown
<1>5. IsBuffer(g) /\ Writable(g) = len /\ Readable(g) = Readable(b)
  BY <1>1, <1>3, <1>4 DEF IsBuffer, Writable, Readable, Size
<1>6. ASSUME NEW i \in 1 .. Readable(b)
      PROVE  g.data[g.reader + i] = b.data[b.reader + i]
  <2>1. b.reader + i \in 1 .. n /\ b.reader + i <= Size(b)
    BY <1>1 DEF Readable
  <2> QED
    BY <1>4, <2>1
<1> QED
  BY <1>5, <1>6, SameContent

LEMMA MovedKeeps ==
  ASSUME NEW b, IsBuffer(b), NEW len \in Nat, ~MustGrow(b, len)
  PROVE  /\ IsBuffer(Moved(b))
         /\ Writable(Moved(b)) >= len
         /\ Content(Moved(b)) = Content(b)
<1> DEFINE m == Moved(b)
<1>1. /\ b.data \in Seq(Byte) /\ b.reader \in Nat /\ b.writer \in Nat
      /\ b.reader <= b.writer /\ b.writer <= Size(b) /\ Size(b) = Len(b.data)
      /\ Size(b) \in Nat /\ CheapPrepend \in Nat
  BY LenProperties, ConstantsAssumption DEF IsBuffer, Size
<1>2. /\ Content(b) \in Seq(Byte) /\ Len(Content(b)) = Readable(b)
      /\ Readable(b) \in Nat
      /\ \A i \in 1 .. Readable(b) : Content(b)[i] = b.data[b.reader + i]
  BY ContentOf
<1>3. CheapPrepend + Readable(b) + len <= Size(b)
  BY <1>1 DEF MustGrow, Writable, Prependable, Readable
<1>4. /\ m.data = Copied(b.data, Content(b), CheapPrepend)
      /\ m.reader = CheapPrepend /\ m.writer = CheapPrepend + Readable(b)
      /\ m.data \in Seq(Byte) /\ Len(m.data) = Size(b)
      /\ \A i \in 1 .. Size(b) : CheapPrepend < i /\ i <= CheapPrepend + Readable(b)
                                   => m.data[i] = Content(b)[i - CheapPrepend]
  <2> DEFINE c == Content(b)
             d == Copied(b.data, c, CheapPrepend)
  <2>1. CheapPrepend + Len(c) <= Len(b.data) /\ c \in Seq(Byte)
    BY <1>1, <1>2, <1>3
  <2>2. m.data = d /\ m.reader = CheapPrepend /\ m.writer = CheapPrepend + Readable(b)
    BY <1>1 DEF Moved
  <2> HIDE DEF c, m
  <2>3. /\ d \in Seq(Byte) /\ Len(d) = Len(b.data)
        /\ \A i \in 1 .. Len(b.data) :
             d[i] = IF CheapPrepend < i /\ i <= CheapPrepend + Len(c)
                      THEN c[i - CheapPrepend] ELSE b.data[i]
    BY <1>1, <2>1, CopiedIsSeq
  <2> HIDE DEF d
  <2>4. Len(c) = Readable(b)
    BY <1>2 DEF c
  <2>5. \A i \in 1 .. Size(b) : CheapPrepend < i /\ i <= CheapPrepend + Readable(b)
                                   => m.data[i] = c[i - CheapPrepend]
    BY <1>1, <2>2, <2>3, <2>4
  <2> QED
    BY <1>1, <2>2, <2>3, <2>5 DEF c, d
<1>5. m \in [data : Seq(Byte), reader : Nat, writer : Nat]
  BY <1>1, <1>2, <1>4 DEF Moved
<1>6. IsBuffer(m) /\ Writable(m) >= len /\ Readable(m) = Readable(b)
  BY <1>1, <1>2, <1>3, <1>4, <1>5 DEF IsBuffer, Writable, Readable, Size
<1>7. ASSUME NEW i \in 1 .. Readable(b)
      PROVE  m.data[m.reader + i] = b.data[b.reader + i]
  <2> DEFINE k == CheapPrepend + i
  <2>1. /\ k \in 1 .. Size(b) /\ CheapPrepend < k /\ k <= CheapPrepend + Readable(b)
        /\ k - CheapPrepend = i
    BY <1>1, <1>2, <1>3
  <2>2. m.data[k] = Content(b)[k - CheapPrepend]
    BY <1>4, <2>1
  <2> QED
    BY <1>2, <1>4, <2>1, <2>2
<1> QED
  BY <1>6, <1>7, SameContent

\* ... so that ensureWritableBytes() makes the space asked for and nothing else:
\* buffer.h:138, assert(writableBytes() >= len).
LEMMA EnsureWritableKeeps ==
  ASSUME NEW b, IsBuffer(b), NEW len \in Nat
  PROVE  /\ IsBuffer(EnsureWritable(b, len))
         /\ Writable(EnsureWritable(b, len)) >= len
         /\ Content(EnsureWritable(b, len)) = Content(b)
<1>1. Writable(b) \in Nat
  BY ContentOf
<1>2. CASE Writable(b) < len /\ MustGrow(b, len)
  BY <1>2, GrownKeeps DEF EnsureWritable, MakeSpace
<1>3. CASE Writable(b) < len /\ ~MustGrow(b, len)
  BY <1>3, MovedKeeps DEF EnsureWritable, MakeSpace
<1>4. CASE ~(Writable(b) < len)
  BY <1>1, <1>4 DEF EnsureWritable
<1> QED
  BY <1>2, <1>3, <1>4

-----------------------------------------------------------------------------
(* The operations. *)

\* Bytes that fit come after the readable ones.
LEMMA WrittenAdds ==
  ASSUME NEW b, IsBuffer(b), NEW s \in Seq(Byte), Len(s) <= Writable(b)
  PROVE  /\ IsBuffer(Written(b, s))
         /\ Content(Written(b, s)) = Content(b) \o s
<1> DEFINE w == Written(b, s)
           c == Content(b)
<1>1. /\ b \in [data : Seq(Byte), reader : Nat, writer : Nat]
      /\ b.data \in Seq(Byte) /\ b.reader \in Nat /\ b.writer \in Nat
      /\ b.reader <= b.writer /\ b.writer <= Size(b) /\ Size(b) = Len(b.data)
      /\ Size(b) \in Nat /\ Len(s) \in Nat /\ b.writer + Len(s) <= Size(b)
  BY LenProperties DEF IsBuffer, Size, Writable
<1>2. /\ c \in Seq(Byte) /\ Len(c) = Readable(b) /\ Readable(b) \in Nat
      /\ \A i \in 1 .. Readable(b) : c[i] = b.data[b.reader + i]
  BY ContentOf
<1> DEFINE d == Copied(b.data, s, b.writer)
<1>3. /\ d \in Seq(Byte) /\ Len(d) = Size(b)
      /\ \A i \in 1 .. Size(b) :
           d[i] = IF b.writer < i /\ i <= b.writer + Len(s) THEN s[i - b.writer] ELSE b.data[i]
  BY <1>1, CopiedIsSeq
<1> HIDE DEF d
<1>4. w = [b EXCEPT !.data = d, !.writer = @ + Len(s)]
  BY DEF Written, d
<1>5. /\ w \in [data : Seq(Byte), reader : Nat, writer : Nat]
      /\ w.data = d /\ w.reader = b.reader /\ w.writer = b.writer + Len(s)
  <2>1. w = [data |-> d, reader |-> b.reader, writer |-> b.writer + Len(s)]
    BY <1>1, <1>4
  <2>2. b.writer + Len(s) \in Nat
    BY <1>1
  <2> QED
    BY <1>1, <1>3, <2>1, <2>2
<1> HIDE DEF w
<1>6. IsBuffer(w) /\ Readable(w) = Readable(b) + Len(s)
  BY <1>1, <1>3, <1>5 DEF IsBuffer, Readable, Size
<1>7. /\ Content(w) \in Seq(Byte) /\ Len(Content(w)) = Readable(w)
      /\ \A i \in 1 .. Readable(w) : Content(w)[i] = w.data[w.reader + i]
  BY <1>6, ContentOf
<1>8. /\ c \o s \in Seq(Byte) /\ Len(c \o s) = Readable(w)
      /\ \A i \in 1 .. Readable(w) : (c \o s)[i] = IF i <= Len(c) THEN c[i] ELSE s[i - Len(c)]
  <2>1. c \in Seq(Byte) /\ Len(c) + Len(s) = Readable(w)
    BY <1>2, <1>6
  <2> HIDE DEF c
  <2>2. /\ c \o s \in Seq(Byte)
        /\ Len(c \o s) = Len(c) + Len(s)
        /\ \A i \in 1 .. Len(c) + Len(s) :
             (c \o s)[i] = IF i <= Len(c) THEN c[i] ELSE s[i - Len(c)]
    BY <2>1, ConcatProperties
  <2> QED
    BY <2>1, <2>2
<1>9. ASSUME NEW i \in 1 .. Readable(w)
      PROVE  Content(w)[i] = (c \o s)[i]
  <2> DEFINE k == b.reader + i
  <2>1. k \in 1 .. Size(b) /\ Content(w)[i] = d[k]
    BY <1>1, <1>2, <1>5, <1>6, <1>7 DEF Readable
  <2>2. CASE i <= Len(c)
    <3>1. ~(b.writer < k) /\ i \in 1 .. Readable(b)
      BY <1>1, <1>2, <1>6, <2>2 DEF Readable
    <3>2. d[k] = b.data[k]
      BY <1>3, <2>1, <3>1
    <3> QED
      BY <1>2, <1>8, <2>1, <2>2, <3>1, <3>2
  <2>3. CASE ~(i <= Len(c))
    <3>1. b.writer < k /\ k <= b.writer + Len(s) /\ k - b.writer = i - Len(c)
      BY <1>1, <1>2, <1>6, <2>3 DEF Readable
    <3>2. d[k] = s[k - b.writer]
      BY <1>3, <2>1, <3>1
    <3> QED
      BY <1>8, <2>1, <2>3, <3>1, <3>2
  <2> QED
    BY <2>2, <2>3
<1>10. Content(w) = c \o s
  BY <1>7, <1>8, <1>9, SeqEqual
<1> QED
  BY <1>6, <1>10 DEF w

\* append(), whatever the length.
LEMMA AppendedAdds ==
  ASSUME NEW b, IsBuffer(b), NEW s \in Seq(Byte)
  PROVE  /\ IsBuffer(Appended(b, s))
         /\ Content(Appended(b, s)) = Content(b) \o s
<1>1. Len(s) \in Nat
  BY LenProperties
<1> DEFINE e == EnsureWritable(b, Len(s))
<1>2. IsBuffer(e) /\ Writable(e) >= Len(s) /\ Content(e) = Content(b)
  BY <1>1, EnsureWritableKeeps
<1>3. Writable(e) \in Nat
  BY <1>2, ContentOf
<1> HIDE DEF e
<1>4. IsBuffer(Written(e, s)) /\ Content(Written(e, s)) = Content(e) \o s
  BY <1>1, <1>2, <1>3, WrittenAdds
<1> QED
  BY <1>2, <1>4 DEF Appended, e

\* Pieces that are joined one after the other.
LEMMA JoinsAssociate ==
  ASSUME NEW c \in Seq(Byte), NEW u \in Seq(Byte), NEW v \in Seq(Byte)
  PROVE  (c \o u) \o v = c \o (u \o v)
BY ConcatAssociative

\* readFd(), the detour through extrabuf included.
LEMMA ReadFdAdds ==
  ASSUME NEW b, IsBuffer(b), NEW s \in Seq(Byte)
  PROVE  /\ IsBuffer(ReadFd(b, s))
         /\ Content(ReadFd(b, s)) = Content(b) \o s
<1>1. Len(s) \in Nat /\ Writable(b) \in Nat /\ Content(b) \in Seq(Byte)
  BY LenProperties, ContentOf
<1>2. CASE Len(s) <= Writable(b)
  BY <1>2, WrittenAdds DEF ReadFd
<1>3. CASE ~(Len(s) <= Writable(b))
  <2> DEFINE k == Writable(b)
             u == SubSeq(s, 1, k)
             v == SubSeq(s, k + 1, Len(s))
             w == Written(b, u)
  <2>1. /\ u \in Seq(Byte) /\ Len(u) = k
        /\ v \in Seq(Byte)
    <3>1. /\ 1 \in Int /\ k \in Int /\ k + 1 \in Int /\ Len(s) \in Int
          /\ (IF 1 <= k THEN k - 1 + 1 ELSE 0) = k
      BY <1>1
    <3>2. /\ \A i \in 1 .. k : s[i] \in Byte
          /\ \A i \in k + 1 .. Len(s) : s[i] \in Byte
      BY <1>1, <1>3, ElementOfSeq
    <3> HIDE DEF k
    <3>3. u \in Seq(Byte) /\ Len(u) = IF 1 <= k THEN k - 1 + 1 ELSE 0
      BY <3>1, <3>2, SubSeqProperties
    <3>4. v \in Seq(Byte)
      BY <3>1, <3>2, SubSeqProperties
    <3> QED
      BY <3>1, <3>3, <3>4
  <2>2. u \o v = s
    <3>1. /\ 1 \in 1 .. Len(s) + 1 /\ k \in 1 - 1 .. Len(s) /\ Len(s) \in k .. Len(s)
      BY <1>1, <1>3
    <3>2. SubSeq(s, 1, k) \o SubSeq(s, k + 1, Len(s)) = SubSeq(s, 1, Len(s))
      BY <3>1, ConcatAdjacentSubSeq
    <3> QED
      BY <3>2, SubSeqFull
  <2> HIDE DEF u, v
  <2>3. IsBuffer(w) /\ Content(w) = Content(b) \o u
    BY <1>1, <2>1, WrittenAdds
  <2> HIDE DEF w
  <2>4. IsBuffer(Appended(w, v)) /\ Content(Appended(w, v)) = Content(w) \o v
    BY <2>1, <2>3, AppendedAdds
  <2>5. (Content(b) \o u) \o v = Content(b) \o s
    <3> DEFINE c == Content(b)
    <3>1. c \in Seq(Byte)
      BY <1>1
    <3> HIDE DEF c
    <3>2. u \in Seq(Byte) /\ v \in Seq(Byte)
      BY <2>1
    <3>3. (c \o u) \o v = c \o (u \o v)
      BY <3>1, <3>2, JoinsAssociate
    <3> QED
      BY <2>2, <3>3 DEF c
  <2>6. ReadFd(b, s) = Appended(w, v)
    BY <1>3 DEF ReadFd, u, v, w
  <2> QED
    BY <2>3, <2>4, <2>5, <2>6
<1> QED
  BY <1>2, <1>3

\* retrieve() takes bytes off the front.
LEMMA RetrieveDrops ==
  ASSUME NEW b, IsBuffer(b), NEW len \in 0 .. Readable(b)
  PROVE  /\ IsBuffer(Retrieve(b, len))
         /\ Content(Retrieve(b, len)) = SubSeq(Content(b), len + 1, Readable(b))
<1> DEFINE r == Retrieve(b, len)
           c == Content(b)
           t == SubSeq(c, len + 1, Readable(b))
<1>1. /\ b \in [data : Seq(Byte), reader : Nat, writer : Nat]
      /\ b.data \in Seq(Byte) /\ b.reader \in Nat /\ b.writer \in Nat
      /\ b.reader <= b.writer /\ b.writer <= Size(b) /\ CheapPrepend <= Size(b)
      /\ Size(b) \in Nat /\ len \in Nat /\ CheapPrepend \in Nat
  BY ContentOf, ConstantsAssumption DEF IsBuffer
<1>2. /\ c \in Seq(Byte) /\ Len(c) = Readable(b) /\ Readable(b) \in Nat
      /\ \A i \in 1 .. Readable(b) : c[i] = b.data[b.reader + i]
  BY ContentOf
<1>3. /\ t \in Seq(Byte) /\ Len(t) = Readable(b) - len
      /\ \A i \in 1 .. Readable(b) - len : t[i] = c[len + i]
  BY <1>1, <1>2, SuffixIsSeq
<1> HIDE DEF t
<1>4. CASE len < Readable(b)
  <2>1. r = [data |-> b.data, reader |-> b.reader + len, writer |-> b.writer]
    BY <1>1, <1>4 DEF Retrieve
  <2> HIDE DEF r
  <2>2. IsBuffer(r) /\ Readable(r) = Readable(b) - len
    BY <1>1, <1>4, <2>1 DEF IsBuffer, Readable, Size
  <2>3. \A i \in 1 .. Readable(r) : t[i] = r.data[r.reader + i]
    <3> TAKE i \in 1 .. Readable(r)
    <3>1. /\ len + i \in 1 .. Readable(b) /\ b.reader + (len + i) = (b.reader + len) + i
          /\ i \in 1 .. Readable(b) - len
      BY <1>1, <1>2, <2>2
    <3> QED
      BY <1>2, <1>3, <2>1, <3>1
  <2>4. Content(r) = t
    BY <1>3, <2>2, <2>3, ContentIs
  <2> QED
    BY <2>2, <2>4 DEF r, t
<1>5. CASE ~(len < Readable(b))
  <2>1. r = [data |-> b.data, reader |-> CheapPrepend, writer |-> CheapPrepend]
    BY <1>1, <1>5 DEF Retrieve
  <2> HIDE DEF r
  <2>2. IsBuffer(r) /\ Readable(r) = 0 /\ Readable(b) - len = 0
    BY <1>1, <1>2, <1>5, <2>1 DEF IsBuffer, Readable, Size
  <2>3. Content(r) = t
    BY <1>3, <2>2, ContentIs
  <2> QED
    BY <2>2, <2>3 DEF r, t
<1> QED
  BY <1>4, <1>5

\* unwrite() takes bytes off the end.
LEMMA UnwriteDrops ==
  ASSUME NEW b, IsBuffer(b), NEW len \in 0 .. Readable(b)
  PROVE  /\ IsBuffer(Unwrite(b, len))
         /\ Content(Unwrite(b, len)) = SubSeq(Content(b), 1, Readable(b) - len)
<1> DEFINE u == Unwrite(b, len)
           c == Content(b)
           n == Readable(b) - len
           t == SubSeq(c, 1, n)
<1>1. /\ b \in [data : Seq(Byte), reader : Nat, writer : Nat]
      /\ b.data \in Seq(Byte) /\ b.reader \in Nat /\ b.writer \in Nat
      /\ b.reader <= b.writer /\ b.writer <= Size(b) /\ CheapPrepend <= Size(b)
      /\ Size(b) \in Nat /\ len \in Nat
  BY ContentOf DEF IsBuffer
<1>2. /\ c \in Seq(Byte) /\ Len(c) = Readable(b) /\ Readable(b) \in Nat
      /\ \A i \in 1 .. Readable(b) : c[i] = b.data[b.reader + i]
      /\ n \in 0 .. Readable(b)
  BY ContentOf
<1>3. /\ t \in Seq(Byte) /\ Len(t) = n
      /\ \A i \in 1 .. n : t[i] = c[i]
  BY <1>2, PrefixIsSeq
<1>4. u = [data |-> b.data, reader |-> b.reader, writer |-> b.writer - len]
  BY <1>1 DEF Unwrite
<1> HIDE DEF t, u
<1>5. IsBuffer(u) /\ Readable(u) = n
  BY <1>1, <1>2, <1>4 DEF IsBuffer, Readable, Size
<1>6. \A i \in 1 .. Readable(u) : t[i] = u.data[u.reader + i]
  BY <1>2, <1>3, <1>4, <1>5
<1>7. Content(u) = t
  BY <1>3, <1>5, <1>6, ContentIs
<1> QED
  BY <1>5, <1>7 DEF t, u

\* prepend() puts bytes that fit in front.
LEMMA PrependAdds ==
  ASSUME NEW b, IsBuffer(b), NEW s \in Seq(Byte), Len(s) <= Prependable(b)
  PROVE  /\ IsBuffer(Prepend(b, s))
         /\ Content(Prepend(b, s)) = s \o Content(b)
<1> DEFINE p == Prepend(b, s)
           c == Content(b)
           at == b.reader - Len(s)
           d == Copied(b.data, s, at)
<1>1. /\ b \in [data : Seq(Byte), reader : Nat, writer : Nat]
      /\ b.data \in Seq(Byte) /\ b.reader \in Nat /\ b.writer \in Nat
      /\ b.reader <= b.writer /\ b.writer <= Size(b) /\ Size(b) = Len(b.data)
      /\ CheapPrepend <= Size(b)
      /\ Size(b) \in Nat /\ Len(s) \in Nat /\ at \in Nat /\ at + Len(s) = b.reader
  BY LenProperties DEF IsBuffer, Size, Prependable
<1>2. /\ c \in Seq(Byte) /\ Len(c) = Readable(b) /\ Readable(b) \in Nat
      /\ \A i \in 1 .. Readable(b) : c[i] = b.data[b.reader + i]
  BY ContentOf
<1>3. /\ d \in Seq(Byte) /\ Len(d) = Size(b)
      /\ \A i \in 1 .. Size(b) :
           d[i] = IF at < i /\ i <= at + Len(s) THEN s[i - at] ELSE b.data[i]
  <2>1. at + Len(s) <= Len(b.data)
    BY <1>1
  <2> HIDE DEF at
  <2> QED
    BY <1>1, <2>1, CopiedIsSeq
<1> HIDE DEF d
<1>4. p = [data |-> d, reader |-> at, writer |-> b.writer]
  <2>1. p = [b EXCEPT !.data = d, !.reader = at]
    BY DEF Prepend, d
  <2> HIDE DEF p, at
  <2> QED
    BY <1>1, <2>1
<1> HIDE DEF p, at
<1>5. IsBuffer(p) /\ Readable(p) = Len(s) + Readable(b)
  BY <1>1, <1>3, <1>4 DEF IsBuffer, Readable, Size
<1>6. /\ s \o c \in Seq(Byte) /\ Len(s \o c) = Readable(p)
      /\ \A i \in 1 .. Readable(p) : (s \o c)[i] = IF i <= Len(s) THEN s[i] ELSE c[i - Len(s)]
  BY <1>1, <1>2, <1>5, ConcatProperties
<1>7. ASSUME NEW i \in 1 .. Readable(p)
      PROVE  (s \o c)[i] = p.data[p.reader + i]
  <2> DEFINE k == at + i
  <2>1. k \in 1 .. Size(b) /\ p.data[p.reader + i] = d[k]
    BY <1>1, <1>2, <1>4, <1>5 DEF Readable
  <2>2. CASE i <= Len(s)
    <3>1. at < k /\ k <= at + Len(s) /\ k - at = i
      BY <1>1, <1>2, <1>5, <2>2
    <3>2. d[k] = s[k - at]
      BY <1>3, <2>1, <3>1
    <3> QED
      BY <1>6, <2>1, <2>2, <3>1, <3>2
  <2>3. CASE ~(i <= Len(s))
    <3>1. ~(k <= at + Len(s)) /\ i - Len(s) \in 1 .. Readable(b)
          /\ k = b.reader + (i - Len(s))
      BY <1>1, <1>2, <1>5, <2>3
    <3>2. d[k] = b.data[k]
      BY <1>3, <2>1, <3>1
    <3> QED
      BY <1>2, <1>6, <2>1, <2>3, <3>1, <3>2
  <2> QED
    BY <2>2, <2>3
<1>8. Content(p) = s \o c
  BY <1>5, <1>6, <1>7, ContentIs
<1> QED
  BY <1>5, <1>8 DEF p

\* A new buffer is empty.
LEMMA EmptyIsBuffer == IsBuffer(Empty) /\ Content(Empty) = <<>>
<1> DEFINE n == CheapPrepend + InitialSize
           d == [i \in 1 .. n |-> Zero]
<1>1. n \in Nat /\ CheapPrepend \in Nat /\ CheapPrepend <= n /\ Zero \in Byte
  BY ConstantsAssumption
<1>2. d \in Seq(Byte) /\ Len(d) = n
  BY <1>1, FunctionIsSeq
<1>3. Empty = [data |-> d, reader |-> CheapPrepend, writer |-> CheapPrepend]
  BY DEF Empty
<1> HIDE DEF n, d
<1>4. IsBuffer(Empty) /\ Readable(Empty) = 0
  BY <1>1, <1>2, <1>3 DEF IsBuffer, Readable, Size
<1>5. Content(Empty) \in Seq(Byte) /\ Len(Content(Empty)) = 0
  BY <1>4, ContentOf
<1> QED
  BY <1>4, <1>5, EmptySeq

\* shrink() keeps the contents.
LEMMA ShrinkKeeps ==
  ASSUME NEW b, IsBuffer(b), NEW reserve \in Nat
  PROVE  /\ IsBuffer(Shrink(b, reserve))
         /\ Content(Shrink(b, reserve)) = Content(b)
<1> DEFINE e == EnsureWritable(Empty, Readable(b) + reserve)
           c == Content(b)
<1>1. c \in Seq(Byte) /\ Readable(b) + reserve \in Nat
  BY ContentOf
<1>2. IsBuffer(e) /\ Content(e) = <<>>
  BY <1>1, EmptyIsBuffer, EnsureWritableKeeps
<1> HIDE DEF e, c
<1>3. IsBuffer(Appended(e, c)) /\ Content(Appended(e, c)) = <<>> \o c
  BY <1>1, <1>2, AppendedAdds
<1>4. <<>> \o c = c
  BY <1>1, ConcatEmptySeq
<1> QED
  BY <1>3, <1>4 DEF Shrink, e, c

-----------------------------------------------------------------------------
(* When the vector grows. *)

\* makeSpace() enlarges it only when moving the bytes would not do.
LEMMA EnsureWritableGrows ==
  ASSUME NEW b, IsBuffer(b), NEW len \in Nat,
         Size(EnsureWritable(b, len)) > Size(b)
  PROVE  CheapPrepend + Readable(b) + len > Size(b)
<1>1. /\ b.reader \in Nat /\ b.writer \in Nat /\ Size(b) \in Nat
      /\ CheapPrepend \in Nat /\ b.data \in Seq(Byte)
  BY ContentOf, ConstantsAssumption DEF IsBuffer
<1>2. CASE Writable(b) < len /\ MustGrow(b, len)
  BY <1>1, <1>2 DEF MustGrow, Writable, Prependable, Readable
<1>3. CASE Writable(b) < len /\ ~MustGrow(b, len)
  <2>1. EnsureWritable(b, len) = Moved(b)
    BY <1>3 DEF EnsureWritable, MakeSpace
  <2>2. Moved(b).data = Copied(b.data, Content(b), CheapPrepend)
    BY DEF Moved
  <2>3. Content(b) \in Seq(Byte) /\ CheapPrepend + Len(Content(b)) <= Len(b.data)
    <3>1. CheapPrepend + Readable(b) <= Size(b)
      BY <1>1, <1>3 DEF MustGrow, Writable, Prependable, Readable
    <3> QED
      BY <3>1, ContentOf DEF Size
  <2>4. Len(Copied(b.data, Content(b), CheapPrepend)) = Len(b.data)
    BY <1>1, <2>3, CopiedIsSeq
  <2>5. Size(EnsureWritable(b, len)) = Size(b)
    BY <2>1, <2>2, <2>4 DEF Size
  <2> QED
    BY <1>1, <2>5
<1>4. CASE ~(Writable(b) < len)
  BY <1>1, <1>4 DEF EnsureWritable
<1> QED
  BY <1>2, <1>3, <1>4

\* What is written into the space there is leaves the size alone.
LEMMA WrittenSize ==
  ASSUME NEW b, IsBuffer(b), NEW s \in Seq(Byte), Len(s) <= Writable(b)
  PROVE  Size(Written(b, s)) = Size(b)
<1>1. b.writer \in Nat /\ b.data \in Seq(Byte) /\ b.writer + Len(s) <= Len(b.data)
  BY LenProperties DEF IsBuffer, Writable, Size
<1>2. Written(b, s).data = Copied(b.data, s, b.writer)
  BY DEF Written, IsBuffer
<1> QED
  BY <1>1, <1>2, CopiedIsSeq DEF Size

\* append() grows only by what would not fit after the reserved bytes.
LEMMA AppendedGrows ==
  ASSUME NEW b, IsBuffer(b), NEW s \in Seq(Byte), Size(Appended(b, s)) > Size(b)
  PROVE  CheapPrepend + Readable(b) + Len(s) > Size(b)
<1> DEFINE e == EnsureWritable(b, Len(s))
<1>1. Len(s) \in Nat
  BY LenProperties
<1>2. IsBuffer(e) /\ Len(s) <= Writable(e)
  <2>1. IsBuffer(e) /\ Writable(e) >= Len(s)
    BY <1>1, EnsureWritableKeeps
  <2> QED
    BY <1>1, <2>1, ContentOf
<1> HIDE DEF e
<1>3. Size(Appended(b, s)) = Size(e)
  BY <1>2, WrittenSize DEF Appended, e
<1> QED
  BY <1>1, <1>3, EnsureWritableGrows DEF e

\* What the operations add to the number of readable bytes.
LEMMA Longer ==
  ASSUME NEW b, IsBuffer(b), NEW c, IsBuffer(c), NEW s \in Seq(Byte),
         Content(c) = Content(b) \o s
  PROVE  Readable(c) = Readable(b) + Len(s)
<1>1. /\ Content(b) \in Seq(Byte) /\ Len(Content(b)) = Readable(b)
      /\ Len(Content(c)) = Readable(c)
  BY ContentOf
<1>2. Len(Content(b) \o s) = Len(Content(b)) + Len(s)
  BY <1>1, ConcatProperties
<1> QED
  BY <1>1, <1>2

LEMMA ReadFdGrows ==
  ASSUME NEW b, IsBuffer(b), NEW s \in Seq(Byte), Size(ReadFd(b, s)) > Size(b)
  PROVE  CheapPrepend + Readable(b) + Len(s) > Size(b)
<1> DEFINE k == Writable(b)
           u == SubSeq(s, 1, k)
           v == SubSeq(s, k + 1, Len(s))
           w == Written(b, u)
<1>1. Len(s) \in Nat /\ k \in Nat /\ Size(b) \in Nat
  BY LenProperties, ContentOf
<1>2. CASE Len(s) <= Writable(b)
  BY <1>1, <1>2, WrittenSize DEF ReadFd
<1>3. CASE ~(Len(s) <= Writable(b))
  <2>1. k \in 0 .. Len(s)
    BY <1>1, <1>3
  <2>2. u \in Seq(Byte) /\ Len(u) = k /\ v \in Seq(Byte) /\ Len(v) = Len(s) - k
    BY <2>1, PrefixIsSeq, SuffixIsSeq
  <2>3. ReadFd(b, s) = Appended(w, v)
    BY <1>3 DEF ReadFd
  <2> HIDE DEF u, v
  <2>4. IsBuffer(w) /\ Size(w) = Size(b) /\ Readable(w) = Readable(b) + k
    BY <1>1, <2>2, WrittenAdds, WrittenSize, Longer
  <2> HIDE DEF w
  <2>5. CheapPrepend + Readable(w) + Len(v) > Size(b)
    BY <2>2, <2>3, <2>4, AppendedGrows
  <2> QED
    BY <1>1, <2>2, <2>4, <2>5, ContentOf, ConstantsAssumption
<1> QED
  BY <1>2, <1>3

-----------------------------------------------------------------------------
(* The state machine. *)

\* What a step does to the contents, and when the vector grows in it.
Step ==
  /\ TypeOK'
  /\ BQ!Next \/ Content(buf') = Content(buf)
  /\ Size(buf') > Size(buf) /\ Readable(buf') > Readable(buf)
       => CheapPrepend + Readable(buf') > Size(buf)

\* What is appended and prepended, integers included, is bytes.
LEMMA NetworkOrderOf ==
  ASSUME NEW w \in Nat, NEW x \in Ints(w)
  PROVE  /\ NetworkOrder(x) \in Seq(Byte) /\ Len(NetworkOrder(x)) = w
         /\ NetworkOrder(NetworkOrder(x)) = x
<1> DEFINE n == NetworkOrder(x)
<1>1. x \in Seq(Byte) /\ Len(x) = w /\ DOMAIN x = 1 .. w
  BY FunctionIsSeq DEF Ints
<1>2. n = [i \in 1 .. w |-> x[w + 1 - i]]
  BY <1>1 DEF NetworkOrder
<1>3. \A i \in 1 .. w : w + 1 - i \in 1 .. w /\ x[w + 1 - i] \in Byte
  BY DEF Ints
<1>4. n \in [1 .. w -> Byte]
  BY <1>2, <1>3
<1> HIDE DEF n
<1>5. n \in Seq(Byte) /\ Len(n) = w
  BY <1>4, FunctionIsSeq
<1>6. NetworkOrder(n) = [i \in 1 .. w |-> n[w + 1 - i]]
  BY <1>5 DEF NetworkOrder
<1>7. \A i \in 1 .. w : n[w + 1 - i] = x[i]
  <2> SUFFICES ASSUME NEW i \in 1 .. w
               PROVE  n[w + 1 - i] = x[i]
    OBVIOUS
  <2>1. w + 1 - i \in 1 .. w /\ w + 1 - (w + 1 - i) = i
    OBVIOUS
  <2> QED
    BY <1>2, <2>1
<1>8. NetworkOrder(n) = x
  BY <1>6, <1>7 DEF Ints
<1> QED
  BY <1>5, <1>8 DEF n

LEMMA AddedAreBytes == Added \subseteq Seq(Byte)
<1> SUFFICES ASSUME NEW s \in Added
             PROVE  s \in Seq(Byte)
  OBVIOUS
<1>1. CASE s \in Inputs
  BY <1>1, ConstantsAssumption
<1>2. CASE \E w \in Widths : \E x \in Ints(w) : s = NetworkOrder(x)
  BY <1>2, NetworkOrderOf, ConstantsAssumption
<1> QED
  BY <1>1, <1>2 DEF Added

\* append() with whatever argument.
LEMMA AppendStep ==
  ASSUME TypeOK, NEW s \in Added, buf' = Appended(buf, s)
  PROVE  Step
<1>1. IsBuffer(buf) /\ s \in Seq(Byte)
  BY AddedAreBytes DEF TypeOK
<1>2. Readable(buf) \in Nat /\ Size(buf) \in Nat
  BY <1>1, ContentOf
<1>3. IsBuffer(buf') /\ Content(buf') = Content(buf) \o s
  BY <1>1, AppendedAdds
<1>4. Readable(buf') = Readable(buf) + Len(s)
  BY <1>1, <1>3, Longer
<1>5. Size(buf') > Size(buf) => CheapPrepend + Readable(buf) + Len(s) > Size(buf)
  BY <1>1, AppendedGrows
<1>6. Size(buf') > Size(buf) => CheapPrepend + Readable(buf') > Size(buf)
  <2>1. Len(s) \in Nat /\ CheapPrepend \in Nat
    BY <1>1, LenProperties, ConstantsAssumption
  <2> QED
    BY <1>2, <1>4, <1>5, <2>1
<1> QED
  BY <1>3, <1>6 DEF Step, TypeOK, BQ!Next, BQ!PushBack

\* prepend() with whatever argument.
LEMMA PrependStep ==
  ASSUME TypeOK, NEW s \in Added, Len(s) <= Prependable(buf), buf' = Prepend(buf, s)
  PROVE  Step
<1>1. IsBuffer(buf) /\ s \in Seq(Byte)
  BY AddedAreBytes DEF TypeOK
<1>2. IsBuffer(buf') /\ Content(buf') = s \o Content(buf)
  BY <1>1, PrependAdds
<1>3. Size(buf') = Size(buf) /\ Size(buf) \in Nat
  <2>1. buf'.data = Copied(buf.data, s, buf.reader - Len(s))
    BY <1>1 DEF Prepend, IsBuffer
  <2>2. /\ buf.data \in Seq(Byte) /\ buf.reader - Len(s) \in Nat
        /\ (buf.reader - Len(s)) + Len(s) <= Len(buf.data)
    BY <1>1, LenProperties DEF IsBuffer, Prependable, Size
  <2> QED
    BY <1>1, <2>1, <2>2, CopiedIsSeq, ContentOf DEF Size
<1>4. BQ!PushFront
  BY <1>2 DEF BQ!PushFront
<1> QED
  BY <1>2, <1>3, <1>4 DEF Step, TypeOK, BQ!Next

\* retrieve(), by itself or to read an integer.
LEMMA RetrieveStep ==
  ASSUME TypeOK, NEW len \in 0 .. Readable(buf), buf' = Retrieve(buf, len)
  PROVE  Step
<1>1. IsBuffer(buf)
  BY DEF TypeOK
<1>2. Len(Content(buf)) = Readable(buf) /\ Size(buf) \in Nat
  BY <1>1, ContentOf
<1>3. /\ IsBuffer(buf')
      /\ Content(buf') = SubSeq(Content(buf), len + 1, Len(Content(buf)))
  BY <1>1, <1>2, RetrieveDrops
<1>4. Size(buf') = Size(buf)
  BY <1>1 DEF Retrieve, Size, IsBuffer
<1>5. BQ!PopFront
  BY <1>2, <1>3 DEF BQ!PopFront
<1> QED
  BY <1>2, <1>3, <1>4, <1>5 DEF Step, TypeOK, BQ!Next

LEMMA StepOf ==
  ASSUME TypeOK, Next
  PROVE  Step
<1>1. IsBuffer(buf)
  BY DEF TypeOK
<1>2. /\ Content(buf) \in Seq(Byte) /\ Len(Content(buf)) = Readable(buf)
      /\ Readable(buf) \in Nat /\ Size(buf) \in Nat
  BY <1>1, ContentOf
<1>3. CASE DoAppend
  BY <1>3, AppendStep DEF DoAppend, Becomes, Added
<1>4. CASE DoReadFd
  <2>1. PICK s \in Inputs : buf' = ReadFd(buf, s)
    BY <1>4 DEF DoReadFd, Becomes
  <2>2. IsBuffer(buf') /\ Content(buf') = Content(buf) \o s
    BY <1>1, <2>1, ReadFdAdds, ConstantsAssumption
  <2>3. Readable(buf') = Readable(buf) + Len(s)
    BY <1>1, <2>2, Longer, ConstantsAssumption
  <2>4. Size(buf') > Size(buf) => CheapPrepend + Readable(buf) + Len(s) > Size(buf)
    BY <1>1, <2>1, ReadFdGrows, ConstantsAssumption
  <2>5. Size(buf') > Size(buf) => CheapPrepend + Readable(buf') > Size(buf)
    <3>1. Len(s) \in Nat /\ CheapPrepend \in Nat
      BY <1>1, LenProperties, ConstantsAssumption
    <3> QED
      BY <1>2, <2>3, <2>4, <3>1
  <2> QED
    BY <2>2, <2>5 DEF Step, TypeOK, BQ!Next, BQ!PushBack, Added
<1>5. CASE DoEnsureWritable
  <2>1. PICK len \in 0 .. MaxSize : buf' = EnsureWritable(buf, len)
    BY <1>5 DEF DoEnsureWritable, Becomes
  <2>2. len \in Nat
    BY ConstantsAssumption
  <2>3. IsBuffer(buf') /\ Content(buf') = Content(buf)
    BY <1>1, <2>1, <2>2, EnsureWritableKeeps
  <2>4. Readable(buf') = Readable(buf)
    BY <1>2, <2>3, ContentOf
  <2> QED
    BY <1>2, <2>3, <2>4 DEF Step, TypeOK
<1>6. CASE DoRetrieve
  BY <1>6, RetrieveStep DEF DoRetrieve, Becomes
<1>7. CASE DoUnwrite
  <2>1. PICK len \in 0 .. Readable(buf) : buf' = Unwrite(buf, len)
    BY <1>7 DEF DoUnwrite, Becomes
  <2>2. /\ IsBuffer(buf')
        /\ Content(buf') = SubSeq(Content(buf), 1, Len(Content(buf)) - len)
    BY <1>1, <1>2, <2>1, UnwriteDrops
  <2>3. Size(buf') = Size(buf)
    BY <1>1, <2>1 DEF Unwrite, Size, IsBuffer
  <2>4. BQ!PopBack
    BY <1>2, <2>2 DEF BQ!PopBack
  <2> QED
    BY <1>2, <2>2, <2>3, <2>4 DEF Step, TypeOK, BQ!Next
<1>8. CASE DoPrepend
  BY <1>8, PrependStep DEF DoPrepend, Becomes, Added
<1>9. CASE DoShrink
  <2>1. PICK reserve \in 0 .. MaxSize : buf' = Shrink(buf, reserve)
    BY <1>9 DEF DoShrink, Becomes
  <2>2. reserve \in Nat
    BY ConstantsAssumption
  <2>3. IsBuffer(buf') /\ Content(buf') = Content(buf)
    BY <1>1, <2>1, <2>2, ShrinkKeeps
  <2>4. Readable(buf') = Readable(buf)
    BY <1>2, <2>3, ContentOf
  <2> QED
    BY <1>2, <2>3, <2>4 DEF Step, TypeOK
<1>10. CASE DoAppendInt
  <2>1. PICK w \in Widths : \E x \in Ints(w) : buf' = AppendInt(buf, x)
    BY <1>10 DEF DoAppendInt, Becomes
  <2>2. PICK x \in Ints(w) : buf' = Appended(buf, NetworkOrder(x))
    BY <2>1 DEF AppendInt
  <2> QED
    BY <2>2, AppendStep DEF Added
<1>11. CASE DoPrependInt
  <2>1. PICK w \in Widths :
          w <= Prependable(buf) /\ \E x \in Ints(w) : buf' = PrependInt(buf, x)
    BY <1>11 DEF DoPrependInt, Becomes
  <2>2. PICK x \in Ints(w) : buf' = Prepend(buf, NetworkOrder(x))
    BY <2>1 DEF PrependInt
  <2>3. Len(NetworkOrder(x)) = w
    BY <2>2, NetworkOrderOf, ConstantsAssumption
  <2> QED
    BY <2>1, <2>2, <2>3, PrependStep DEF Added
<1>12. CASE DoReadInt
  <2>1. PICK w \in Widths : w <= Readable(buf) /\ buf' = Retrieve(buf, w)
    BY <1>12 DEF DoReadInt, Becomes, AfterReadInt
  <2>2. w \in 0 .. Readable(buf)
    BY <1>2, <2>1, ConstantsAssumption
  <2> QED
    BY <2>1, <2>2, RetrieveStep
<1> QED
  BY <1>3, <1>4, <1>5, <1>6, <1>7, <1>8, <1>9, <1>10, <1>11, <1>12 DEF Next

\* buffer.h:36-44: whatever operations come one after another, the indices stay in
\* order and inside the vector.
THEOREM TypeCorrect == Spec => []TypeOK
<1>1. Init => TypeOK
  BY EmptyIsBuffer DEF Init, TypeOK
<1>2. TypeOK /\ [Next]_buf => TypeOK'
  <2> SUFFICES ASSUME TypeOK, [Next]_buf
               PROVE  TypeOK'
    OBVIOUS
  <2>1. CASE Next
    BY <2>1, StepOf DEF Step
  <2>2. CASE UNCHANGED buf
    BY <2>2 DEF TypeOK
  <2> QED
    BY <2>1, <2>2
<1> QED
  BY <1>1, <1>2, PTL DEF Spec

\* buffer.h:325: makeSpace() never moves bytes onto themselves.
THEOREM AssertHolds == Spec => []MoveAssert
<1>1. TypeOK => MoveAssert
  <2> SUFFICES ASSUME TypeOK, NEW len \in 0 .. MaxSize,
                      Writable(buf) < len, ~MustGrow(buf, len)
               PROVE  CheapPrepend < buf.reader
    BY DEF MoveAssert
  <2>1. /\ buf.reader \in Nat /\ Writable(buf) \in Nat
        /\ CheapPrepend \in Nat /\ len \in Nat
    BY ContentOf, ConstantsAssumption DEF TypeOK, IsBuffer
  <2> QED
    BY <2>1 DEF MustGrow, Prependable
<1> QED
  BY <1>1, TypeCorrect, PTL

\* buffer.h:318-334: input enlarges the vector only if it would not fit.
THEOREM GrowthIsNeeded == Spec => GrowsWhenFull
<1>1. TypeOK /\ [Next]_buf
        => [Size(buf') > Size(buf) /\ Readable(buf') > Readable(buf)
              => CheapPrepend + Readable(buf') > Size(buf)]_buf
  BY StepOf DEF Step
<1> QED
  BY <1>1, TypeCorrect, PTL DEF Spec, GrowsWhenFull

\* buffer.{h,cpp}: the operations of the buffer are those of a queue of bytes.
THEOREM BufferIsAByteQueue == Spec => ImplementsByteQueue
<1>1. Init => BQ!Init
  BY EmptyIsBuffer DEF Init, BQ!Init
<1>2. TypeOK /\ [Next]_buf => [BQ!Next]_(Content(buf))
  BY StepOf DEF Step
<1> QED
  BY <1>1, <1>2, TypeCorrect, PTL DEF Spec, ImplementsByteQueue, BQ!Spec

-----------------------------------------------------------------------------
(* Integers. *)

\* What memcpy() takes from peek() is the beginning of the contents.
LEMMA PeekIs ==
  ASSUME NEW b, IsBuffer(b), NEW n \in Seq(Byte), Len(n) <= Readable(b),
         \A i \in 1 .. Len(n) : Content(b)[i] = n[i]
  PROVE  SubSeq(b.data, b.reader + 1, b.reader + Len(n)) = n
<1> DEFINE w == Len(n)
           m == b.reader + 1
           k == b.reader + w
<1>1. /\ b.data \in Seq(Byte) /\ Len(b.data) \in Nat /\ w \in Nat
      /\ b.reader \in Nat /\ b.writer \in Nat /\ b.writer <= Len(b.data)
      /\ k <= b.writer
  BY LenProperties DEF IsBuffer, Size, Readable
<1>2. \A i \in m .. k : b.data[i] \in Byte
  BY <1>1, ElementOfSeq
<1>3. m \in Int /\ k \in Int /\ k - m + 1 = w /\ (IF m <= k THEN k - m + 1 ELSE 0) = w
  BY <1>1
<1>4. \A i \in 1 .. w : m + i - 1 = b.reader + i /\ i \in 1 .. Readable(b)
  BY <1>1 DEF Readable
<1>5. \A i \in 1 .. w : b.data[b.reader + i] = n[i]
  BY <1>4, ContentOf
<1> HIDE DEF m, k
<1>6. /\ SubSeq(b.data, m, k) \in Seq(Byte)
      /\ Len(SubSeq(b.data, m, k)) = IF m <= k THEN k - m + 1 ELSE 0
      /\ \A i \in 1 .. k - m + 1 : SubSeq(b.data, m, k)[i] = b.data[m + i - 1]
  BY <1>2, <1>3, SubSeqProperties
<1>7. \A i \in 1 .. w : SubSeq(b.data, m, k)[i] = n[i]
  BY <1>3, <1>4, <1>5, <1>6
<1>8. SubSeq(b.data, m, k) = n
  BY <1>3, <1>6, <1>7, SeqEqual
<1> QED
  BY <1>8 DEF m, k

\* One of two joined pieces, when the other has been taken off.
LEMMA SuffixOfJoin ==
  ASSUME NEW c \in Seq(Byte), NEW n \in Seq(Byte)
  PROVE  SubSeq(c \o n, Len(c) + 1, Len(c \o n)) = n
<1> DEFINE j == c \o n
           t == SubSeq(j, Len(c) + 1, Len(j))
<1>1. /\ j \in Seq(Byte) /\ Len(j) = Len(c) + Len(n)
      /\ \A i \in 1 .. Len(j) : j[i] = IF i <= Len(c) THEN c[i] ELSE n[i - Len(c)]
  BY ConcatProperties
<1>2. Len(c) \in Nat /\ Len(n) \in Nat
  BY LenProperties
<1> HIDE DEF j
<1>3. Len(c) \in 0 .. Len(j) /\ Len(j) - Len(c) = Len(n)
  BY <1>1, <1>2
<1>4. /\ t \in Seq(Byte) /\ Len(t) = Len(n)
      /\ \A i \in 1 .. Len(n) : t[i] = j[Len(c) + i]
  BY <1>1, <1>3, SuffixIsSeq
<1>5. \A i \in 1 .. Len(n) : /\ Len(c) + i \in 1 .. Len(j) /\ ~(Len(c) + i <= Len(c))
                            /\ Len(c) + i - Len(c) = i
  BY <1>1, <1>2
<1>6. \A i \in 1 .. Len(n) : t[i] = n[i]
  BY <1>1, <1>4, <1>5
<1> HIDE DEF t
<1>7. t = n
  BY <1>4, <1>6, SeqEqual
<1> QED
  BY <1>7 DEF j, t

\* An integer behind the contents is found when the contents are retrieved.
LEMMA AppendedIntComesBack ==
  ASSUME NEW b, IsBuffer(b), NEW w \in Nat, NEW x \in Ints(w)
  PROVE  PeekInt(Retrieve(AppendInt(b, x), Readable(b)), w) = x
<1> DEFINE n == NetworkOrder(x)
           a == Appended(b, n)
           c == Content(b)
           r == Retrieve(a, Readable(b))
<1>1. n \in Seq(Byte) /\ Len(n) = w /\ NetworkOrder(n) = x
  BY NetworkOrderOf
<1>2. c \in Seq(Byte) /\ Len(c) = Readable(b) /\ Readable(b) \in Nat
  BY ContentOf
<1>3. IsBuffer(a) /\ Content(a) = c \o n /\ Readable(a) = Readable(b) + w
  BY <1>1, AppendedAdds, Longer
<1>4. Len(c \o n) = Readable(a)
  BY <1>3, ContentOf
<1> HIDE DEF n, a, c
<1>5. Readable(b) \in 0 .. Readable(a)
  BY <1>2, <1>3
<1>6. IsBuffer(r) /\ Content(r) = n
  <2>1. IsBuffer(r) /\ Content(r) = SubSeq(Content(a), Readable(b) + 1, Readable(a))
    BY <1>3, <1>5, RetrieveDrops
  <2>2. SubSeq(c \o n, Len(c) + 1, Len(c \o n)) = n
    BY <1>1, <1>2, SuffixOfJoin
  <2> QED
    BY <1>2, <1>3, <1>4, <2>1, <2>2
<1> HIDE DEF r
<1>7. Readable(r) = w
  BY <1>1, <1>6, ContentOf
<1>8. SubSeq(r.data, r.reader + 1, r.reader + w) = n
  BY <1>1, <1>6, <1>7, PeekIs
<1>9. PeekInt(r, w) = x
  BY <1>1, <1>8 DEF PeekInt
<1> QED
  BY <1>9 DEF AppendInt, n, a, r

\* An integer in front of the contents is found there, and they are behind it.
LEMMA PrependedIntComesBack ==
  ASSUME NEW b, IsBuffer(b), NEW w \in Nat, NEW x \in Ints(w), w <= Prependable(b)
  PROVE  /\ PeekInt(PrependInt(b, x), w) = x
         /\ Content(AfterReadInt(PrependInt(b, x), w)) = Content(b)
<1> DEFINE n == NetworkOrder(x)
           p == Prepend(b, n)
           c == Content(b)
<1>1. n \in Seq(Byte) /\ Len(n) = w /\ NetworkOrder(n) = x
  BY NetworkOrderOf
<1>2. c \in Seq(Byte) /\ Len(c) \in Nat
  BY ContentOf, LenProperties
<1> HIDE DEF n
<1>3. IsBuffer(p) /\ Content(p) = n \o c
  BY <1>1, PrependAdds
<1> HIDE DEF p, c
<1>4. Len(n \o c) = Readable(p)
  BY <1>3, ContentOf
<1>5. /\ Len(n \o c) = w + Len(c)
      /\ \A i \in 1 .. w + Len(c) : (n \o c)[i] = IF i <= w THEN n[i] ELSE c[i - w]
  BY <1>1, <1>2, ConcatProperties
<1>6. w <= Readable(p) /\ w \in 0 .. Readable(p)
  BY <1>2, <1>4, <1>5
<1>7. \A i \in 1 .. w : Content(p)[i] = n[i]
  BY <1>2, <1>3, <1>5
<1>8. SubSeq(p.data, p.reader + 1, p.reader + w) = n
  BY <1>1, <1>3, <1>6, <1>7, PeekIs
<1>9. PeekInt(p, w) = x
  BY <1>1, <1>8 DEF PeekInt
<1>10. Content(Retrieve(p, w)) = c
  <2>1. Content(Retrieve(p, w)) = SubSeq(Content(p), w + 1, Readable(p))
    BY <1>3, <1>6, RetrieveDrops
  <2>2. SubSeq(n \o c, Len(n) + 1, Len(n \o c)) = c
    BY <1>1, <1>2, SuffixOfJoin
  <2> QED
    BY <1>1, <1>3, <1>4, <2>1, <2>2
<1> QED
  BY <1>9, <1>10 DEF PrependInt, AfterReadInt, n, p, c

\* buffer.h:157-284: integers of any width come back, wherever the indices are and
\* however the space was made.
THEOREM IntegersRoundTrip == Spec => []IntegersComeBack
<1>1. TypeOK => IntegersComeBack
  <2> SUFFICES ASSUME TypeOK, NEW w \in Widths, NEW x \in Ints(w)
               PROVE  /\ PeekInt(Retrieve(AppendInt(buf, x), Readable(buf)), w) = x
                      /\ w <= Prependable(buf) =>
                           /\ PeekInt(PrependInt(buf, x), w) = x
                           /\ Content(AfterReadInt(PrependInt(buf, x), w)) = Content(buf)
    BY DEF IntegersComeBack
  <2>1. IsBuffer(buf) /\ w \in Nat
    BY ConstantsAssumption DEF TypeOK
  <2> QED
    BY <2>1, AppendedIntComesBack, PrependedIntComesBack
<1> QED
  BY <1>1, TypeCorrect, PTL
=============================================================================
