------------------------------- MODULE LogFile -------------------------------
(***************************************************************************)
(* LogFile of base/log_file.cpp with the AppendFile it writes to: lines go *)
(* through stdio's buffer to a file of the day; the file is opened again   *)
(* when it has grown too long or the day is over.                          *)
(*                                                                         *)
(* AsyncLogging makes a LogFile on its thread's stack: no other thread     *)
(* uses it, and lastRoll_ and count_ start with what the stack held.       *)
(* A line is known by its number.                                          *)
(***************************************************************************)
EXTENDS Integers, Sequences, FiniteSets

CONSTANTS
  RollSize,        \* rollSize_
  CheckEveryN,     \* checkEveryN_
  FlushInterval,   \* flushInterval_, in seconds
  Day,             \* kRollPerSeconds_
  Lengths,         \* lengths of lines
  OldRolls,        \* what lastRoll_ may hold at first
  OldCounts,       \* what count_ may hold at first
  MaxTime,         \* bound: the clock
  MaxLines         \* bound: lines

ASSUME ConstantsAssumption ==
  /\ RollSize \in Nat /\ FlushInterval \in Nat /\ MaxLines \in Nat
  /\ CheckEveryN \in Nat \ {0} /\ Day \in Nat \ {0} /\ MaxTime \in Nat \ {0}
  /\ Lengths \subseteq Nat /\ OldRolls \subseteq Int /\ OldCounts \subseteq Int

NoDay == -1
Days == 0 .. MaxTime \div Day
Lines == 1 .. MaxLines

\* now / kRollPerSeconds_ * kRollPerSeconds_, and the date in getLogFileName().
DayOf(t) == t \div Day

VARIABLES
  now,       \* time(), which does not go back
  made,      \* there is a LogFile
  file,      \* its members
  disk,      \* the file of a day, as the kernel has it
  times,     \* history: when a line was appended
  lost,      \* history: lines that a crash has thrown away
  counted    \* history: count_ has been set since the LogFile was made

vars == <<now, made, file, disk, times, lost, counted>>

\* day: of file_, NoDay without one; buffered: lines in stdio's buffer.
File == [day : Days \union {NoDay}, written : Nat, buffered : Seq(Lines), period : Days,
         lastRoll : Int, lastFlush : Int, count : Int]
NoFile == [day |-> NoDay, written |-> 0, buffered |-> <<>>, period |-> 0,
           lastRoll |-> 0, lastFlush |-> 0, count |-> 0]

TypeOK ==
  /\ now \in 1 .. MaxTime
  /\ made \in BOOLEAN
  /\ file \in File
  /\ disk \in [Days -> Seq(Lines)]
  /\ times \in Seq(1 .. MaxTime) /\ Len(times) <= MaxLines
  /\ lost \subseteq Lines
  /\ counted \in BOOLEAN

Init ==
  /\ now = 1
  /\ made = FALSE /\ file = NoFile
  /\ disk = [d \in Days |-> <<>>]
  /\ times = <<>> /\ lost = {} /\ counted = FALSE

-----------------------------------------------------------------------------
(* What an operation leaves: the LogFile and the disk.                     *)

Flushed(f, d) == [f |-> [f EXCEPT !.buffered = <<>>],
                  d |-> IF f.day = NoDay THEN d ELSE [d EXCEPT ![f.day] = @ \o f.buffered]]

\* The new file is opened before the destructor of the old closes that.
Opened(f) == [f EXCEPT !.day = DayOf(now), !.written = 0, !.period = DayOf(now),
                       !.lastRoll = now, !.lastFlush = now]

\* Mutant: the old file is never closed, and what it buffers not written.
RollFileOpen(f, d) ==
  IF now > f.lastRoll THEN [f |-> [Opened(f) EXCEPT !.buffered = <<>>], d |-> d]
  ELSE [f |-> f, d |-> d]

\* rollFile(): at most once a second.
RollFile(f, d) ==
  LET g == Flushed(f, d)
  IN  IF now > f.lastRoll THEN [f |-> Opened(g.f), d |-> g.d] ELSE [f |-> f, d |-> d]

\* AppendFile::append(): fwrite() hands the first k buffered lines to the kernel.
Put(f, d, line, len, k) ==
  LET all == Append(f.buffered, line)
  IN  [f |-> [f EXCEPT !.buffered = SubSeq(all, k + 1, Len(all)), !.written = @ + len],
       d |-> [d EXCEPT ![f.day] = @ \o SubSeq(all, 1, k)]]

\* Mutant: lastFlush_ is set, and nothing flushed.
CheckForgetful(f, d) ==
  IF DayOf(now) # f.period THEN RollFile(f, d)
  ELSE IF now - f.lastFlush > FlushInterval
       THEN [f |-> [f EXCEPT !.lastFlush = now], d |-> d]
       ELSE [f |-> f, d |-> d]

\* Every checkEveryN_ lines.
Check(f, d) ==
  IF DayOf(now) # f.period THEN RollFile(f, d)
  ELSE IF now - f.lastFlush > FlushInterval THEN Flushed([f EXCEPT !.lastFlush = now], d)
  ELSE [f |-> f, d |-> d]

Checks(f) == f.written <= RollSize /\ f.count + 1 >= CheckEveryN

\* append_unlocked(), after the line has been put into the file.
Settled(f, d) ==
  IF f.written > RollSize THEN RollFile(f, d)
  ELSE IF Checks(f) THEN Check([f EXCEPT !.count = 0], d)
  ELSE [f |-> [f EXCEPT !.count = @ + 1], d |-> d]

-----------------------------------------------------------------------------
(* Actions. *)

\* LogFile::LogFile()
Construct ==
  /\ ~made
  /\ made' = TRUE
  /\ \E roll \in OldRolls, count \in OldCounts :
       file' = RollFile([NoFile EXCEPT !.lastRoll = roll, !.count = count], disk).f
  /\ counted' = FALSE
  /\ UNCHANGED <<now, disk, times, lost>>

AppendLine(len) ==
  LET line == Len(times) + 1
  IN  /\ file.day # NoDay
      /\ line <= MaxLines
      /\ times' = Append(times, now)
      /\ \E k \in 0 .. Len(file.buffered) + 1 :
           LET put == Put(file, disk, line, len, k)
               end == Settled(put.f, put.d)
           IN  file' = end.f /\ disk' = end.d /\ counted' = (counted \/ Checks(put.f))
      /\ UNCHANGED <<now, made, lost>>

Flush ==
  /\ file.day # NoDay
  /\ file' = Flushed(file, disk).f /\ disk' = Flushed(file, disk).d
  /\ UNCHANGED <<now, made, times, lost, counted>>

\* ~LogFile(), which closes the file.
Destroy ==
  /\ made
  /\ made' = FALSE /\ file' = NoFile
  /\ disk' = Flushed(file, disk).d
  /\ UNCHANGED <<now, times, lost, counted>>

\* The process ends in any place, and certainly where file_ is null and used; it
\* may be started again.
Crash ==
  /\ made
  /\ made' = FALSE /\ file' = NoFile
  /\ lost' = lost \union {file.buffered[i] : i \in DOMAIN file.buffered}
  /\ UNCHANGED <<now, disk, times, counted>>

Tick ==
  /\ now < MaxTime
  /\ now' = now + 1
  /\ UNCHANGED <<made, file, disk, times, lost, counted>>

Next ==
  \/ Construct \/ (\E len \in Lengths : AppendLine(len)) \/ Flush \/ Destroy
  \/ Crash \/ Tick

Spec == Init /\ [][Next]_vars

-----------------------------------------------------------------------------
(* Properties. *)

InFile(d) == disk[d] \o (IF file.day = d THEN file.buffered ELSE <<>>)

Placed(n) ==
  {p \in Days \X Lines : p[2] \in DOMAIN InFile(p[1]) /\ InFile(p[1])[p[2]] = n}

\* log_file.cpp:24-48, file_util.cpp:7-37: whatever is rolled, and opened again for
\* appending on the same day, every line is in one place of one file, or in the
\* buffer in front of it, unless a crash lost it, and the lines are in order, in a
\* file and from one day's file to the next; log_file.cpp:69-76: once count_ has a
\* value, fewer than checkEveryN_ lines get into the file of a day that is over.
PlacedInOrder ==
  /\ \A n \in DOMAIN times : Cardinality(Placed(n)) = (IF n \in lost THEN 0 ELSE 1)
  /\ \A m, n \in DOMAIN times : m < n =>
       \A p \in Placed(m), q \in Placed(n) :
         p[1] < q[1] \/ (p[1] = q[1] /\ p[2] < q[2])
  /\ file.day # NoDay /\ counted =>
       Cardinality({i \in DOMAIN InFile(file.day) : DayOf(times[InFile(file.day)[i]]) > file.day})
         < CheckEveryN

\* log_file.cpp:77-80: when count_ is looked at, no line that has waited longer than
\* flushInterval_ stays in the buffer.
FlushedInTime ==
  [][times' # times /\ file'.count = 0 /\ counted' =>
       \A i \in DOMAIN file'.buffered : now - times'[file'.buffered[i]] <= FlushInterval]_vars
=============================================================================
