------------------------------- MODULE Buffer -------------------------------
(***************************************************************************)
(* The byte buffer of net/buffer.{h,cpp}, the input and the output buffer  *)
(* of every connection:                                                    *)
(*                                                                         *)
(*    | prependable bytes |  readable bytes  |  writable bytes  |          *)
(*    0        <=      reader      <=      writer      <=      size        *)
(*                                                                         *)
(* A buffer is a value, an operation a function from buffers to buffers,   *)
(* and the state machine performs one operation after another on the same  *)
(* buffer.  data[i] is the byte the code has at index i - 1.               *)
(***************************************************************************)
EXTENDS Integers, Sequences

CONSTANTS
  Byte,
  Zero,           \* what vector::resize() fills up with
  CheapPrepend,   \* kCheapPrepend
  InitialSize,    \* kInitialSize
  ExtraSize,      \* sizeof extrabuf
  Inputs,         \* what is appended, read or prepended at a time
  Widths,         \* bytes of the types of integers
  MaxSize         \* bound: size of the vector

ASSUME ConstantsAssumption ==
  /\ Zero \in Byte
  /\ CheapPrepend \in Nat /\ InitialSize \in Nat /\ ExtraSize \in Nat
  /\ Inputs \subseteq Seq(Byte)
  /\ Widths \subseteq Nat
  /\ MaxSize \in Nat

VARIABLE buf

-----------------------------------------------------------------------------
(* Sizes and contents. *)

Empty ==
  [data   |-> [i \in 1 .. CheapPrepend + InitialSize |-> Zero],
   reader |-> CheapPrepend,
   writer |-> CheapPrepend]

Size(b) == Len(b.data)
Readable(b) == b.writer - b.reader
Writable(b) == Size(b) - b.writer
Prependable(b) == b.reader

\* The readable bytes.
Content(b) == SubSeq(b.data, b.reader + 1, b.writer)

\* std::copy() of s to index at.
Copied(data, s, at) ==
  [i \in DOMAIN data |-> IF at < i /\ i <= at + Len(s) THEN s[i - at] ELSE data[i]]

-----------------------------------------------------------------------------
(* Making space. *)

\* Mutant: the reserved bytes are not counted.
MustGrowUnreserved(b, len) == Writable(b) + Prependable(b) < len

\* makeSpace() enlarges the vector, when moving the readable bytes would not do, ...
MustGrow(b, len) == Writable(b) + Prependable(b) < len + CheapPrepend

\* Mutant: the new size does not count what is in front of the writable bytes.
GrownTooLittle(b, len) ==
  [b EXCEPT !.data = [i \in 1 .. Readable(b) + len |->
                        IF i <= Size(b) THEN b.data[i] ELSE Zero]]

Grown(b, len) ==
  [b EXCEPT !.data = [i \in 1 .. b.writer + len |->
                        IF i <= Size(b) THEN b.data[i] ELSE Zero]]

\* Mutant: bytes are moved to the very front.
MovedTooFar(b) ==
  [data   |-> Copied(b.data, Content(b), 0),
   reader |-> CheapPrepend,
   writer |-> CheapPrepend + Readable(b)]

\* ... or moves them to the front.
Moved(b) ==
  [data   |-> Copied(b.data, Content(b), CheapPrepend),
   reader |-> CheapPrepend,
   writer |-> CheapPrepend + Readable(b)]

MakeSpace(b, len) == IF MustGrow(b, len) THEN Grown(b, len) ELSE Moved(b)

EnsureWritable(b, len) == IF Writable(b) < len THEN MakeSpace(b, len) ELSE b

-----------------------------------------------------------------------------
(* The operations. *)

\* What append() and readv() write at the end of the readable bytes.
Written(b, s) ==
  [b EXCEPT !.data = Copied(@, s, b.writer), !.writer = @ + Len(s)]

Appended(b, s) == Written(EnsureWritable(b, Len(s)), s)

\* readFd(): what does not fit comes by way of extrabuf.
ReadFd(b, s) ==
  IF Len(s) <= Writable(b)
  THEN Written(b, s)
  ELSE Appended(Written(b, SubSeq(s, 1, Writable(b))), SubSeq(s, Writable(b) + 1, Len(s)))

Retrieve(b, len) ==
  IF len < Readable(b)
  THEN [b EXCEPT !.reader = @ + len]
  ELSE [b EXCEPT !.reader = CheapPrepend, !.writer = CheapPrepend]

Unwrite(b, len) == [b EXCEPT !.writer = @ - len]

Prepend(b, s) ==
  [b EXCEPT !.data = Copied(@, s, b.reader - Len(s)), !.reader = @ - Len(s)]

\* shrink(): a new buffer with the same contents.
Shrink(b, reserve) == Appended(EnsureWritable(Empty, Readable(b) + reserve), Content(b))

-----------------------------------------------------------------------------
(* Integers.  One is its bytes in memory, the least significant one first  *)
(* as on the machines the code is built for.                               *)

Ints(w) == [1 .. w -> Byte]

\* htobe64(), htonl(), htons() and back: the order of the bytes is reversed.
NetworkOrder(x) == [i \in 1 .. Len(x) |-> x[Len(x) + 1 - i]]

AppendInt(b, x) == Appended(b, NetworkOrder(x))
PrependInt(b, x) == Prepend(b, NetworkOrder(x))

\* memcpy() from peek(), whatever the length of the readable bytes.
PeekInt(b, w) == NetworkOrder(SubSeq(b.data, b.reader + 1, b.reader + w))

\* Mutant: the width of another type.
AfterReadNarrow(b, w) == Retrieve(b, w - 1)

\* What readInt64() and the others leave.
AfterReadInt(b, w) == Retrieve(b, w)

-----------------------------------------------------------------------------
(* The state machine. *)

Init == buf = Empty

Becomes(b) == Size(b) <= MaxSize /\ buf' = b

DoAppend == \E s \in Inputs : Becomes(Appended(buf, s))
DoReadFd ==
  \E s \in Inputs :
    /\ Len(s) <= Writable(buf) + (IF Writable(buf) < ExtraSize THEN ExtraSize ELSE 0)
    /\ Becomes(ReadFd(buf, s))
DoEnsureWritable == \E len \in 0 .. MaxSize : Becomes(EnsureWritable(buf, len))
DoRetrieve == \E len \in 0 .. Readable(buf) : Becomes(Retrieve(buf, len))
DoUnwrite == \E len \in 0 .. Readable(buf) : Becomes(Unwrite(buf, len))
DoPrepend == \E s \in Inputs : Len(s) <= Prependable(buf) /\ Becomes(Prepend(buf, s))
DoShrink == \E reserve \in 0 .. MaxSize : Becomes(Shrink(buf, reserve))
DoAppendInt == \E w \in Widths : \E x \in Ints(w) : Becomes(AppendInt(buf, x))
DoPrependInt ==
  \E w \in Widths : w <= Prependable(buf) /\ \E x \in Ints(w) : Becomes(PrependInt(buf, x))
DoReadInt == \E w \in Widths : w <= Readable(buf) /\ Becomes(AfterReadInt(buf, w))

Next ==
  \/ DoAppend \/ DoReadFd \/ DoEnsureWritable
  \/ DoRetrieve \/ DoUnwrite \/ DoPrepend \/ DoShrink
  \/ DoAppendInt \/ DoPrependInt \/ DoReadInt

Spec == Init /\ [][Next]_buf

-----------------------------------------------------------------------------
(* Properties. *)

\* buffer.h:36-44: the indices are in order, whatever operations came before, so
\* that no size is negative (the code's are unsigned) and no byte out of range.
IsBuffer(b) ==
  /\ b \in [data : Seq(Byte), reader : Nat, writer : Nat]
  /\ b.reader <= b.writer /\ b.writer <= Size(b) /\ CheapPrepend <= Size(b)

TypeOK == IsBuffer(buf)

\* buffer.h:325, assert(kCheapPrepend < readerIndex_): bytes are moved only to the
\* front, never onto themselves.
MoveAssert ==
  \A len \in 0 .. MaxSize :
    Writable(buf) < len /\ ~MustGrow(buf, len) => CheapPrepend < buf.reader

\* buffer.h:318-334: the vector is enlarged only by input that would not fit after
\* the reserved and the readable bytes.
GrowsWhenFull ==
  [][Size(buf') > Size(buf) /\ Readable(buf') > Readable(buf)
       => CheapPrepend + Readable(buf') > Size(buf)]_buf

\* buffer.h:157-284: an integer that is appended comes back when what was before it
\* has been retrieved, one that is prepended comes back at once, however the space
\* for it was made, and reading it leaves what is behind it.
IntegersComeBack ==
  \A w \in Widths : \A x \in Ints(w) :
    /\ PeekInt(Retrieve(AppendInt(buf, x), Readable(buf)), w) = x
    /\ w <= Prependable(buf) =>
         /\ PeekInt(PrependInt(buf, x), w) = x
         /\ Content(AfterReadInt(PrependInt(buf, x), w)) = Content(buf)

\* buffer.{h,cpp}: growing, moving, the detour through extrabuf and shrinking leave
\* the bytes and their order alone: a queue of bytes, open at both ends.
Added == Inputs \union {NetworkOrder(x) : x \in UNION {Ints(w) : w \in Widths}}
BQ == INSTANCE ByteQueue WITH content <- Content(buf), Inputs <- Added
ImplementsByteQueue == BQ!Spec
=============================================================================
