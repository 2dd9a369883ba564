---------------------------- MODULE AsyncLogging ----------------------------
(***************************************************************************)
(* The asynchronous logger of base/async_logging.{h,cpp}.  Threads that    *)
(* log append lines, under a mutex, to the current one of a set of fixed   *)
(* buffers; a backend thread takes all filled buffers and the current one, *)
(* gives the front end fresh buffers, and writes what it took to the file. *)
(* An owner starts and stops the backend, possibly again and again.        *)
(*                                                                         *)
(* A line is a record of its number in the order the mutex gave and its    *)
(* length.  Lines come from a LogStream, whose own buffer is far smaller   *)
(* than the logger's, so that no line is longer than a buffer.             *)
(***************************************************************************)
EXTENDS Integers, Sequences, SequencesExt

CONSTANTS Null,        \* a unique_ptr that holds nothing
          Cap,         \* kLargeBuffer
          Lengths,     \* lengths of the lines that are logged
          DropLimit,   \* a longer batch is cut ...
          Keep,        \* ... to this many buffers
          MaxLines,    \* bound: lines logged
          MaxStarts    \* bound: calls of start()

ASSUME ConstantsAssumption ==
  /\ Cap \in Nat
  /\ Lengths \subseteq 1 .. (Cap - 1)
  /\ DropLimit \in Nat /\ Keep \in Nat /\ 2 <= Keep /\ Keep <= DropLimit
  /\ MaxLines \in Nat /\ MaxStarts \in Nat

Line == [n : Nat \ {0}, len : Lengths]

ASSUME NullAssumption == Null \notin Seq(Line)

VARIABLES
  currentBuffer, nextBuffer, buffers,           \* shared, guarded by mutex_
  newBuffer1, newBuffer2, buffersToWrite,       \* the backend's own
  running,                                      \* running_
  latch,                                        \* latch_'s count
  backend,                                      \* where the backend thread is
  owner,                                        \* where the owner thread is
  starts,                                       \* calls of start() so far
  logged,                                       \* lines appended so far
  written,                                      \* history: the file's lines
  dropped                                       \* history: lines thrown away

sharedVars == <<currentBuffer, nextBuffer, buffers>>
spareVars == <<newBuffer1, newBuffer2>>
ownerVars == <<running, owner, starts>>
fileVars == <<written, dropped>>
vars == <<sharedVars, spareVars, buffersToWrite, ownerVars, latch, backend,
          logged, fileVars>>

Buffer == Seq(Line)
BufferPtr == Buffer \union {Null}

TypeOK ==
  /\ currentBuffer \in Buffer
  /\ nextBuffer \in {Null, <<>>}
  /\ buffers \in Seq(Buffer)
  /\ newBuffer1 \in {Null, <<>>} /\ newBuffer2 \in {Null, <<>>}
  /\ buffersToWrite \in Seq(Buffer)
  /\ running \in BOOLEAN
  /\ latch \in Int
  /\ backend \in {"none", "begin", "top", "lock", "wait", "write", "refill", "done"}
  /\ owner \in {"off", "starting", "on", "stopping"}
  /\ starts \in 0 .. MaxStarts
  /\ logged \in 0 .. MaxLines
  /\ written \subseteq Nat /\ dropped \subseteq Nat

Init ==
  /\ currentBuffer = <<>> /\ nextBuffer = <<>> /\ buffers = <<>>
  /\ newBuffer1 = Null /\ newBuffer2 = Null /\ buffersToWrite = <<>>
  /\ running = FALSE
  /\ latch = 1
  /\ backend = "none"
  /\ owner = "off"
  /\ starts = 0
  /\ logged = 0
  /\ written = {} /\ dropped = {}

\* FixedBuffer: how much of a buffer is used, and what is left of it.
Length(b) == FoldLeft(LAMBDA sum, line : sum + line.len, 0, b)
Avail(b) == Cap - Length(b)

\* The numbers of the lines in some buffers.
Lines(bs) == UNION {{bs[i][k].n : k \in DOMAIN bs[i]} : i \in DOMAIN bs}

-----------------------------------------------------------------------------
(* The threads that log. *)

\* Mutant: a line goes to a buffer of its own.
AppendLineAlone(len) ==
  LET line == [n |-> logged + 1, len |-> len]
  IN  /\ logged < MaxLines
      /\ logged' = logged + 1
      /\ buffers' = Append(buffers, currentBuffer)
      /\ currentBuffer' = IF nextBuffer # Null THEN Append(nextBuffer, line) ELSE <<line>>
      /\ nextBuffer' = Null
      /\ UNCHANGED <<spareVars, buffersToWrite, ownerVars, latch, backend, fileVars>>

\* append(): the current buffer, or the next one, or a new one.
AppendLine(len) ==
  LET line == [n |-> logged + 1, len |-> len]
  IN  /\ logged < MaxLines
      /\ logged' = logged + 1
      /\ IF Avail(currentBuffer) > len
         THEN /\ currentBuffer' = Append(currentBuffer, line)
              /\ UNCHANGED <<nextBuffer, buffers>>
         ELSE /\ buffers' = Append(buffers, currentBuffer)
              /\ currentBuffer' = IF nextBuffer # Null
                                  THEN Append(nextBuffer, line) ELSE <<line>>
              /\ nextBuffer' = Null
      /\ UNCHANGED <<spareVars, buffersToWrite, ownerVars, latch, backend, fileVars>>

-----------------------------------------------------------------------------
(* The owner. *)

\* start() creates the thread ...
Start ==
  /\ owner = "off"
  /\ starts < MaxStarts
  /\ starts' = starts + 1
  /\ running' = TRUE
  /\ backend' = "begin"
  /\ owner' = "starting"
  /\ UNCHANGED <<sharedVars, spareVars, buffersToWrite, latch, logged, fileVars>>

\* Mutant: start() does not wait.
StartedAtOnce ==
  /\ owner = "starting"
  /\ owner' = "on"
  /\ UNCHANGED <<sharedVars, spareVars, buffersToWrite, running, starts, latch,
                 backend, logged, fileVars>>

\* ... and waits on the latch.
Started ==
  /\ owner = "starting"
  /\ latch <= 0
  /\ owner' = "on"
  /\ UNCHANGED <<sharedVars, spareVars, buffersToWrite, running, starts, latch,
                 backend, logged, fileVars>>

\* stop() clears the flag and notifies ...
Stop ==
  /\ owner = "on"
  /\ running' = FALSE
  /\ owner' = "stopping"
  /\ UNCHANGED <<sharedVars, spareVars, buffersToWrite, starts, latch, backend,
                 logged, fileVars>>

\* ... and joins the thread.
Joined ==
  /\ owner = "stopping"
  /\ backend = "done"
  /\ backend' = "none"
  /\ owner' = "off"
  /\ UNCHANGED <<sharedVars, spareVars, buffersToWrite, running, starts, latch,
                 logged, fileVars>>

-----------------------------------------------------------------------------
(* The backend thread. *)

\* Mutant: the backend counts the latch down before it is set to one.
BeginWithoutLatch ==
  /\ backend = "begin"
  /\ newBuffer1' = <<>> /\ newBuffer2' = <<>>
  /\ backend' = "top"
  /\ UNCHANGED <<sharedVars, buffersToWrite, ownerVars, latch, logged, fileVars>>

\* threadFunc() up to its loop.
Begin ==
  /\ backend = "begin"
  /\ newBuffer1' = <<>> /\ newBuffer2' = <<>>
  /\ latch' = latch - 1
  /\ backend' = "top"
  /\ UNCHANGED <<sharedVars, buffersToWrite, ownerVars, logged, fileVars>>

\* while (running_); the buffers of a thread that ends are freed with it.
CheckRunning ==
  /\ backend = "top"
  /\ IF running
     THEN backend' = "lock" /\ UNCHANGED spareVars
     ELSE backend' = "done" /\ newBuffer1' = Null /\ newBuffer2' = Null
  /\ UNCHANGED <<sharedVars, buffersToWrite, ownerVars, latch, logged, fileVars>>

\* Under the mutex: nothing filled, so wait_for() gives the mutex up.
Wait ==
  /\ backend = "lock"
  /\ buffers = <<>>
  /\ backend' = "wait"
  /\ UNCHANGED <<sharedVars, spareVars, buffersToWrite, ownerVars, latch, logged,
                 fileVars>>

\* Mutant: the usual loop around a wait, which goes on until a buffer is filled.
CollectFilled ==
  /\ backend \in {"wait", "lock"} /\ buffers # <<>>
  /\ buffersToWrite' = Append(buffers, currentBuffer)
  /\ buffers' = buffersToWrite
  /\ currentBuffer' = newBuffer1
  /\ newBuffer1' = Null
  /\ IF nextBuffer = Null
     THEN nextBuffer' = newBuffer2 /\ newBuffer2' = Null
     ELSE UNCHANGED <<nextBuffer, newBuffer2>>
  /\ backend' = "write"
  /\ UNCHANGED <<ownerVars, latch, logged, fileVars>>

\* Under the mutex, at once or after the wait, which a timeout, a notification
\* or nothing at all may have ended: the filled buffers and the current one
\* against the new ones.
Collect ==
  /\ backend = "wait" \/ (backend = "lock" /\ buffers # <<>>)
  /\ buffersToWrite' = Append(buffers, currentBuffer)
  /\ buffers' = buffersToWrite
  /\ currentBuffer' = newBuffer1
  /\ newBuffer1' = Null
  /\ IF nextBuffer = Null
     THEN nextBuffer' = newBuffer2 /\ newBuffer2' = Null
     ELSE UNCHANGED <<nextBuffer, newBuffer2>>
  /\ backend' = "write"
  /\ UNCHANGED <<ownerVars, latch, logged, fileVars>>

\* Mutant: the batch is cut before the check of its size.
WriteTwo ==
  LET size == Len(buffersToWrite)
      kept == IF size > 2 THEN 2 ELSE size
  IN  /\ backend = "write"
      /\ written' = written \union Lines(SubSeq(buffersToWrite, 1, kept))
      /\ buffersToWrite' = SubSeq(buffersToWrite, 1, kept)
      /\ backend' = "refill"
      /\ UNCHANGED <<sharedVars, spareVars, ownerVars, latch, logged, dropped>>

\* Mutant: one buffer only is kept for reuse.
WriteKeepingOne ==
  LET size == Len(buffersToWrite)
      kept == IF size > DropLimit THEN Keep ELSE size
  IN  /\ backend = "write"
      /\ written' = written \union Lines(SubSeq(buffersToWrite, 1, kept))
      /\ dropped' = dropped \union Lines(SubSeq(buffersToWrite, kept + 1, size))
      /\ buffersToWrite' = SubSeq(buffersToWrite, 1, 1)
      /\ backend' = "refill"
      /\ UNCHANGED <<sharedVars, spareVars, ownerVars, latch, logged>>

\* What Collect took goes to the file, the end of a long batch excepted; at
\* most two buffers are kept for reuse.
Write ==
  LET size == Len(buffersToWrite)
      kept == IF size > DropLimit THEN Keep ELSE size
  IN  /\ backend = "write"
      /\ written' = written \union Lines(SubSeq(buffersToWrite, 1, kept))
      /\ dropped' = dropped \union Lines(SubSeq(buffersToWrite, kept + 1, size))
      /\ buffersToWrite' = SubSeq(buffersToWrite, 1, IF kept > 2 THEN 2 ELSE kept)
      /\ backend' = "refill"
      /\ UNCHANGED <<sharedVars, spareVars, ownerVars, latch, logged>>

\* How many of its two spare buffers the backend gave away.
Taken == (IF newBuffer1 = Null THEN 1 ELSE 0) + (IF newBuffer2 = Null THEN 1 ELSE 0)

\* Mutant: the buffers are reused without reset().
RefillUnreset ==
  LET size == Len(buffersToWrite)
  IN  /\ backend = "refill"
      /\ newBuffer1' = IF newBuffer1 = Null THEN buffersToWrite[size] ELSE newBuffer1
      /\ newBuffer2' = <<>>
      /\ buffersToWrite' = <<>>
      /\ backend' = "top"
      /\ UNCHANGED <<sharedVars, ownerVars, latch, logged, fileVars>>

\* Emptied buffers replace the ones Collect gave away, the last one first.
Refill ==
  /\ backend = "refill"
  /\ Len(buffersToWrite) >= Taken
  /\ newBuffer1' = <<>> /\ newBuffer2' = <<>>
  /\ buffersToWrite' = <<>>
  /\ backend' = "top"
  /\ UNCHANGED <<sharedVars, ownerVars, latch, logged, fileVars>>

-----------------------------------------------------------------------------
OwnerStep == Start \/ Started \/ Stop \/ Joined
BackendStep == Begin \/ CheckRunning \/ Wait \/ Collect \/ Write \/ Refill

Next == (\E len \in Lengths : AppendLine(len)) \/ OwnerStep \/ BackendStep

Spec == Init /\ [][Next]_vars

(***************************************************************************)
(* Fairness: the backend thread runs whenever it can go on, its wait ends  *)
(* at the latest after the flush interval, and start() and stop() return   *)
(* once what they wait for is there.  Nobody has to log, start or stop.    *)
(***************************************************************************)
FairSpec == Spec /\ WF_vars(BackendStep) /\ WF_vars(Started) /\ WF_vars(Joined)

-----------------------------------------------------------------------------
(* Safety. *)

\* The batch while it is to be written; after that its buffers are only reused.
Unwritten == IF backend = "write" THEN buffersToWrite ELSE <<>>

\* Every buffer whose lines are still to be written, from the oldest on.
Pipeline == Unwritten \o buffers \o <<currentBuffer>>

\* async_logging.cpp:28-49, 64-125: a line that append() took is in the file, or
\* was dropped with the end of a long batch, or is in a buffer still to be
\* collected or written, wherever the swap, a stop or a restart caught it.
NothingLost == 1 .. logged = written \union dropped \union Lines(Pipeline)

\* The order of append() is the order of the file: the buffers to be written
\* hold their lines in that order, each once, and all of them come after every
\* line written or dropped before.
FileOrder ==
  /\ \A i, j \in DOMAIN Pipeline :
       \A k \in DOMAIN Pipeline[i], l \in DOMAIN Pipeline[j] :
         i < j \/ (i = j /\ k < l) => Pipeline[i][k].n < Pipeline[j][l].n
  /\ \A m \in written \union dropped, n \in Lines(Pipeline) : m < n
  /\ written \intersect dropped = {}

\* async_logging.cpp:65-67, 83, 107-121: the assertions of threadFunc().  After
\* every batch, cut or not, there are enough buffers to make up for those
\* given to the front end.
BackendAsserts ==
  /\ backend = "lock" => newBuffer1 = <<>> /\ newBuffer2 = <<>> /\ buffersToWrite = <<>>
  /\ backend = "write" => buffersToWrite # <<>>
  /\ backend = "refill" => Len(buffersToWrite) >= Taken

\* async_logging.cpp:54, async_logging.h:26-35: threadFunc() begins with
\* assert(running_ == true), which start() keeps true by waiting for the thread.  It waits
\* the first time that it is called: nothing sets the latch again, and a stop() right
\* after another start() may come before the thread has begun.
StartedRunning == backend = "begin" => running \/ starts > 1

\* async_logging.cpp:85-93: lines are dropped only when more than DropLimit
\* buffers wait to be written and all but the last of them are full, whatever
\* the wait for a notification or the flush interval did.
Full(b) == \E len \in Lengths : ~(Avail(b) > len)
DropsOnlyBehind ==
  [][dropped' # dropped =>
       /\ Len(buffersToWrite) > DropLimit
       /\ \A i \in 1 .. Len(buffersToWrite) - 1 : Full(buffersToWrite[i])]_vars

-----------------------------------------------------------------------------
(* Liveness. *)

\* async_logging.cpp:64-125: a line reaches the file (or is dropped) without
\* further logging, unless the logger is stopped first.
LinesWritten ==
  \A n \in 1 .. MaxLines :
    (owner = "on" /\ n <= logged)
      ~> (owner # "on" \/ n \in written \union dropped)

\* async_logging.h:26-35: start() and stop() return.
CallsReturn ==
  /\ owner = "starting" ~> owner = "on"
  /\ owner = "stopping" ~> owner = "off"
=============================================================================
