----------------------------- MODULE MCLogStream -----------------------------
(* Model checking of LogStream: a buffer of 16 characters and integers of  *)
(* eight bits, the most negative one among them.                           *)
EXTENDS LogStream

SomeTexts == {<<>>, <<"a">>, <<"(", "n", "u", "l", "l", ")">>}
SomeNumbers == {-128, 0, 105}
SomeAddresses == {0, 255}
SomeDoubles == {<<"-", "0", ".", "5">>}
TimeAndLine == <<Text(<<"T">>), [kind |-> "number", value |-> 8]>>
=============================================================================
