----------------------------- MODULE ByteQueue -----------------------------
(***************************************************************************)
(* What net/buffer.h promises: a sequence of bytes that grows and shrinks  *)
(* at both ends, one operation at a time.                                  *)
(***************************************************************************)
EXTENDS Naturals, Sequences

CONSTANT Inputs   \* what is added at a time

VARIABLE content

Init == content = <<>>

PushBack == \E s \in Inputs : content' = content \o s
PushFront == \E s \in Inputs : content' = s \o content
PopFront == \E k \in 0 .. Len(content) : content' = SubSeq(content, k + 1, Len(content))
PopBack == \E k \in 0 .. Len(content) : content' = SubSeq(content, 1, Len(content) - k)

Next == PushBack \/ PushFront \/ PopFront \/ PopBack

Spec == Init /\ [][Next]_content
=============================================================================
