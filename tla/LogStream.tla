------------------------------ MODULE LogStream ------------------------------
(***************************************************************************)
(* A log statement: the Logger of base/logger.{h,cpp} that LOG_INFO and    *)
(* its like make, and the LogStream of base/log_stream.{h,cpp} it writes   *)
(* its operands to.  The text goes into a FixedBuffer, where an operand    *)
(* without room is left out, numbers are converted in place, and the line  *)
(* is given to g_output at the end of the statement.                       *)
(*                                                                         *)
(* A Logger is on the stack of the thread that logs: nothing is shared but *)
(* the level.  A character is a string of length one.                      *)
(***************************************************************************)
EXTENDS Integers, SequencesExt

CONSTANTS
  Size,            \* kSmallBuffer
  MaxNumeric,      \* kMaxNumericSize
  Texts,           \* operands that are text
  Numbers,         \* operands that are numbers, of whatever type of integer
  Addresses,       \* operands that are pointers
  Doubles,         \* what snprintf() makes of operands that are doubles
  Prefix,          \* what every statement begins with: time, level, file, line
  MaxOperands,     \* bound: operands of a statement
  MaxStatements    \* bound: statements

Ten == 10
Sixteen == 16

Power(base, n) == LET p[k \in Nat] == IF k = 0 THEN 1 ELSE base * p[k - 1] IN p[n]

\* The number of digits of a natural number.
Width(n, base) ==
  CHOOSE w \in 1 .. n + 1 : n < Power(base, w) /\ (w > 1 => n >= Power(base, w - 1))

Magnitude(v) == IF v < 0 THEN -v ELSE v

Text(s) == [kind |-> "text", value |-> s]
Operands ==
  {Text(s) : s \in Texts} \union {[kind |-> "double", value |-> s] : s \in Doubles}
    \union {[kind |-> "number", value |-> v] : v \in Numbers}
    \union {[kind |-> "pointer", value |-> v] : v \in Addresses}

\* kMaxNumericSize allows for any number and its terminating zero.
Printable(op) ==
  \/ op \in [kind : {"text"}, value : Seq(STRING)]
  \/ op \in [kind : {"double"}, value : Seq(STRING)] /\ Len(op.value) < MaxNumeric
  \/ op \in [kind : {"number"}, value : Int]
       /\ Width(Magnitude(op.value), Ten) + 2 <= MaxNumeric
  \/ op \in [kind : {"pointer"}, value : Nat] /\ Width(op.value, Sixteen) + 3 <= MaxNumeric

Sizes ==
  /\ Size \in Nat \ {0} /\ MaxNumeric \in Nat /\ MaxOperands \in Nat /\ MaxStatements \in Nat
  /\ Prefix \in Seq({Prefix[i] : i \in DOMAIN Prefix})
  /\ \A op \in Operands \union {Prefix[i] : i \in DOMAIN Prefix} : Printable(op)

ASSUME SizesAssumption == Sizes

NewLine == "\n"
Levels == <<"TRACE", "DEBUG", "INFO", "WARN", "ERROR", "FATAL">>
Filtered == 1 .. 3      \* LOG_WARN, LOG_ERROR and LOG_FATAL do not look at the level
Fatal == 6

VARIABLES
  level,      \* g_logLevel
  stmt,       \* the level of the statement under way, 0 without one
  text,       \* data_ up to cur_
  top,        \* how far data_ has been written to
  given,      \* history: the statement's operands
  out,        \* history: the last line given to g_output
  lines,      \* history: how many were
  aborted

streamVars == <<level, stmt, text, top, given, out, lines, aborted>>

StreamAvail(s) == Size - Len(s)

\* cur_ never leaves data_, and nothing is written past its end.
StreamTypeOK ==
  /\ level \in DOMAIN Levels /\ stmt \in {0} \union DOMAIN Levels
  /\ Len(text) < Size
  /\ top \in Len(text) .. Size
  /\ lines \in 0 .. MaxStatements
  /\ aborted \in BOOLEAN

-----------------------------------------------------------------------------
(* convert() and convertHex(), on integers whose division truncates, as    *)
(* that of C++ does: the remainder of a negative number is not positive.   *)

DigitTable == <<"9", "8", "7", "6", "5", "4", "3", "2", "1", "0",
                "1", "2", "3", "4", "5", "6", "7", "8", "9">>
DigitAt(lsd) == DigitTable[10 + lsd]      \* zero[lsd]
HexTable == <<"0", "1", "2", "3", "4", "5", "6", "7", "8", "9", "A", "B", "C", "D", "E", "F">>
HexDigitAt(lsd) == HexTable[1 + lsd]

Quotient(i, base) == IF i < 0 THEN -((-i) \div base) ELSE i \div base
Remainder(i, base) == i - base * Quotient(i, base)

DigitsBackwards[i \in Int] ==
  <<DigitAt(Remainder(i, Ten))>>
    \o (IF Quotient(i, Ten) = 0 THEN <<>> ELSE DigitsBackwards[Quotient(i, Ten)])

HexBackwards[i \in Nat] ==
  <<HexDigitAt(Remainder(i, Sixteen))>>
    \o (IF Quotient(i, Sixteen) = 0 THEN <<>> ELSE HexBackwards[Quotient(i, Sixteen)])

\* Mutant: the remainder of a division that rounds down.
ConvertRoundingDown(v) ==
  LET digits[i \in Int] == <<DigitAt(i % Ten)>>
                             \o (IF Quotient(i, Ten) = 0 THEN <<>> ELSE digits[Quotient(i, Ten)])
  IN  Reverse(digits[v] \o (IF v < 0 THEN <<"-">> ELSE <<>>))

Convert(v) == Reverse(DigitsBackwards[v] \o (IF v < 0 THEN <<"-">> ELSE <<>>))

ConvertHex(v) == Reverse(HexBackwards[v])

-----------------------------------------------------------------------------
(* LogStream: what an operand leaves of the buffer, as [text, top].        *)

State(s, t) == [text |-> s, top |-> t]
Higher(a, b) == IF a > b THEN a ELSE b

\* FixedBuffer::append()
Appended(b, s) ==
  IF StreamAvail(b.text) > Len(s)
  THEN State(b.text \o s, Higher(b.top, Len(b.text) + Len(s)))
  ELSE b

\* Mutant: any room will do.
NumericAnyway(b, s) ==
  IF StreamAvail(b.text) > 0 THEN State(b.text \o s, Higher(b.top, Len(b.text) + Len(s) + 1)) ELSE b

\* formatInteger() and the operators for pointers and doubles write in place, with a
\* terminating zero, where there is room for any number.
Numeric(b, s) ==
  IF StreamAvail(b.text) >= MaxNumeric
  THEN State(b.text \o s, Higher(b.top, Len(b.text) + Len(s) + 1))
  ELSE b

\* operator<<
Written(b, op) ==
  CASE op.kind = "text" -> Appended(b, op.value)
    [] op.kind = "number" -> Numeric(b, Convert(op.value))
    [] op.kind = "pointer" -> Numeric(b, <<"0", "x">> \o ConvertHex(op.value))
    [] op.kind = "double" -> Numeric(b, op.value)

\* One operand after the other.
WrittenUpTo(b, ops, n) ==
  LET w[i \in 0 .. Len(ops)] == IF i = 0 THEN b ELSE Written(w[i - 1], ops[i]) IN w[n]

WrittenAll(b, ops) == WrittenUpTo(b, ops, Len(ops))

-----------------------------------------------------------------------------
(* Logger.                                                                 *)

StreamInit ==
  /\ level = 1
  /\ stmt = 0
  /\ text = <<>> /\ top = 0 /\ given = <<>>
  /\ out = <<>> /\ lines = 0
  /\ aborted = FALSE

\* Logger::Logger(), unless the macro leaves it out.
Construct(l) ==
  /\ stmt = 0 /\ ~aborted /\ lines < MaxStatements
  /\ l \in Filtered => level <= l
  /\ stmt' = l
  /\ LET b == WrittenAll(State(<<>>, 0), Prefix) IN text' = b.text /\ top' = b.top
  /\ given' = Prefix
  /\ UNCHANGED <<level, out, lines, aborted>>

Operand(op) ==
  /\ stmt # 0 /\ Len(given) < Len(Prefix) + MaxOperands
  /\ LET b == Written(State(text, top), op) IN text' = b.text /\ top' = b.top
  /\ given' = Append(given, op)
  /\ UNCHANGED <<level, stmt, out, lines, aborted>>

\* finish() and g_output.
Finish == LET b == Appended(State(text, top), <<NewLine>>) IN out' = b.text

\* Logger::~Logger()
End ==
  /\ stmt # 0
  /\ Finish
  /\ lines' = lines + 1
  /\ aborted' = (stmt = Fatal)
  /\ stmt' = 0 /\ text' = <<>> /\ top' = 0
  /\ UNCHANGED <<level, given>>

\* setLogLevel()
SetLevel(l) ==
  /\ ~aborted /\ l # level
  /\ level' = l
  /\ UNCHANGED <<stmt, text, top, given, out, lines, aborted>>

StreamNext ==
  \/ (\E l \in DOMAIN Levels : Construct(l) \/ SetLevel(l))
  \/ (\E op \in Operands : Operand(op))
  \/ End

StreamSpec == StreamInit /\ [][StreamNext]_streamVars

-----------------------------------------------------------------------------
(* Properties.                                                             *)

\* A natural number as it is written on paper, from its first digit to its last.
Numeral(n, base) ==
  LET w == Width(n, base)
  IN  [i \in 1 .. w |-> HexTable[1 + ((n \div Power(base, w - i)) % base)]]

Decimal(v) == (IF v < 0 THEN <<"-">> ELSE <<>>) \o Numeral(Magnitude(v), Ten)
Hexadecimal(v) == <<"0", "x">> \o Numeral(v, Sixteen)

Shown(op) ==
  CASE op.kind \in {"text", "double"} -> op.value
    [] op.kind = "number" -> Decimal(op.value)
    [] op.kind = "pointer" -> Hexadecimal(op.value)

\* What the first n operands look like one after the other, those at the positions in
\* kept, a set.
LineUpTo(kept, n) ==
  LET line[i \in 0 .. Len(given)] ==
        IF i = 0 THEN <<>> ELSE line[i - 1] \o (IF i \in kept THEN Shown(given[i]) ELSE <<>>)
  IN  line[n]

RoomFor(op, room) ==
  IF op.kind = "text" THEN room > Len(op.value) ELSE room >= MaxNumeric

\* s is whole operands in their order, and has every one there was room for.
IsLine(s) ==
  \E kept \in SUBSET DOMAIN given :
    /\ s = LineUpTo(kept, Len(given))
    /\ \A i \in DOMAIN given \ kept : ~RoomFor(given[i], Size - Len(LineUpTo(kept, i - 1)))

\* log_stream.cpp:10-111, log_stream.h:21-27, logger.cpp:108-111: an operand is in the
\* line whole or not at all, a number as its decimal or hexadecimal digits, and is
\* left out only when the buffer is nearly full, and a line ends with a newline
\* unless exactly one character was left.
LineIsOperands ==
  IF stmt # 0 \/ lines = 0
  THEN IsLine(text)
  ELSE \/ IsLine(out) /\ Len(out) = Size - 1
       \/ IsLine(Front(out)) /\ Last(out) = NewLine
=============================================================================
