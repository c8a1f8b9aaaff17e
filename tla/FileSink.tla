------------------------------ MODULE FileSink ------------------------------
(***************************************************************************)
(* FileSink: NDJSON appended to one file through a buffered C stream, with *)
(* a rollback after a failed write, a repair of the tail when an existing  *)
(* file is opened, and a permanent failure when neither can be completed.  *)
(*                                                                         *)
(* A line is two cells, its text and its newline, so that it can be torn.  *)
(* The content of the file is in three places: the stream's buffer, the    *)
(* operating system, and the disk.  A crash of the process loses the first,*)
(* a loss of power everything since the last sync.  Every call of the C    *)
(* library may fail.  A flush that fails writes a part of the buffer and   *)
(* drops the rest.                                                         *)
(***************************************************************************)
EXTENDS Integers, Sequences, FiniteSetsExt

CONSTANTS
    BatchSize,      \* Config::batch_size
    MaxEvent,       \* bound: events to write
    kBlock,         \* how much of the file is read at a time
    MaxSetbacks     \* bound: ends of the process, failed acknowledgments

ASSUME FileSinkAssumption ==
    /\ kBlock \in Nat \ {0}
    /\ BatchSize \in Nat \ {0}
    /\ MaxEvent \in Nat
    /\ MaxSetbacks \in Nat

VARIABLES
    durableSync, \* durable_sync_, which the application does not change
    buffer,     \* the stream's buffer
    file,       \* the file as the operating system has it
    disk,       \* what a loss of power leaves
    opened,     \* file_ is set
    failure,    \* failure_ is set
    cancelled,  \* cancelled_
    pc,         \* where write() is; "ok" once it has returned Ok
    todo,       \* the next event of the batch
    start,      \* write's rollback point
    next,       \* the worker's oldest event not acknowledged
    setbacks,   \* ends of the process and failed acknowledgments so far
    written,    \* history: events for which write() returned Ok
    before,     \* history: the file when the batch was begun
    emptied     \* history: opening has emptied a file that had lines

streamVars == <<durableSync, opened, failure, cancelled>>
historyVars == <<written, before, emptied>>
vars == <<buffer, file, disk, streamVars, pc, todo, start, next, setbacks,
          historyVars>>

Cell == [event : 1..MaxEvent, newline : BOOLEAN]
Text(e) == [event |-> e, newline |-> FALSE]
Newline(e) == [event |-> e, newline |-> TRUE]

LastOfBatch ==
    IF next + BatchSize - 1 < MaxEvent THEN next + BatchSize - 1 ELSE MaxEvent

SinkTypeOK ==
    /\ buffer \in Seq(Cell) /\ file \in Seq(Cell) /\ disk \in Seq(Cell)
    /\ {durableSync, opened, failure, cancelled} \subseteq BOOLEAN
    /\ pc \in {"idle", "open", "repair", "repairSync", "seek", "append",
               "flush", "sync", "rollBack", "rollSync", "ok"}
    /\ todo \in 1..(MaxEvent + 1) /\ next \in 1..(MaxEvent + 1)
    /\ start \in 0..Len(file)
    /\ setbacks \in 0..MaxSetbacks
    /\ written \subseteq 1..MaxEvent
    /\ before \in Seq(Cell)
    /\ emptied \in BOOLEAN

SinkInit ==
    /\ buffer = <<>> /\ file = <<>> /\ disk = <<>>
    /\ durableSync \in BOOLEAN
    /\ opened = FALSE /\ failure = FALSE /\ cancelled = FALSE
    /\ pc = "idle" /\ todo = 1 /\ start = 0 /\ next = 1 /\ setbacks = 0
    /\ written = {} /\ before = <<>> /\ emptied = FALSE

Cut(s, n) == SubSeq(s, 1, n)

\* The end of the last complete line.
LastLineEnd(s) ==
    CHOOSE n \in 0..Len(s) :
      /\ n = 0 \/ s[n].newline
      /\ \A m \in (n + 1)..Len(s) : ~s[m].newline

\* Variant: the loop ends after the last block.
ScanLastBlock(s, block) ==
    LET chunk == IF Len(s) < block THEN Len(s) ELSE block
        ends == {i \in (Len(s) - chunk + 1)..Len(s) : s[i].newline}
    IN  IF ends # {} THEN Max(ends) ELSE 0

\* Reads backwards in blocks until one has a newline.
find_last_complete_line_end(s, block) ==
    LET From[pos \in 0..Len(s)] ==
          LET chunk == IF pos < block THEN pos ELSE block
              ends == {i \in (pos - chunk + 1)..pos : s[i].newline}
          IN  IF pos = 0 THEN 0
              ELSE IF ends # {} THEN Max(ends) ELSE From[pos - chunk]
    IN  From[Len(s)]

-----------------------------------------------------------------------------
\* fail_hard: closing the stream flushes what it can, and the sink stays failed.
FailHard ==
    /\ failure' = TRUE /\ opened' = FALSE
    /\ \E n \in 0..Len(buffer) : file' = file \o Cut(buffer, n)
    /\ buffer' = <<>>
    /\ pc' = "idle" /\ start' = 0
    /\ UNCHANGED <<durableSync, cancelled, todo, next, setbacks, historyVars>>

\* write(), up to ensure_open; a cancelled or failed sink refuses it.
Write ==
    /\ pc = "idle"
    /\ ~cancelled /\ ~failure
    /\ next <= MaxEvent
    /\ pc' = IF opened THEN "seek" ELSE "open"
    /\ todo' = next
    /\ UNCHANGED <<buffer, file, disk, streamVars, start, next, setbacks, historyVars>>

\* ensure_open: for update, and when that fails, for whatever reason, anew and
\* empty.
Open ==
    /\ pc = "open"
    /\ \/ /\ opened' = TRUE /\ pc' = "repair"
          /\ UNCHANGED <<file, emptied>>
       \/ /\ opened' = TRUE /\ pc' = "repair"
          /\ file' = <<>>
          /\ emptied' = (emptied \/ file # <<>>)
       \/ pc' = "idle" /\ UNCHANGED <<opened, file, emptied>>
    /\ start' = 0
    /\ UNCHANGED <<buffer, disk, durableSync, failure, cancelled, todo, next,
                   setbacks, written, before>>

\* repair_tail cuts an incomplete last line ...
Repair ==
    /\ pc = "repair"
    /\ LET end == find_last_complete_line_end(file, kBlock)
       IN  IF end = Len(file)
           THEN pc' = "seek" /\ UNCHANGED file
           ELSE pc' = "repairSync" /\ file' = Cut(file, end)
    /\ UNCHANGED <<buffer, disk, streamVars, todo, start, next, setbacks,
                   historyVars>>

\* ... and syncs.
RepairSync ==
    /\ pc = "repairSync"
    /\ disk' = file
    /\ pc' = "seek"
    /\ UNCHANGED <<buffer, file, streamVars, todo, start, next, setbacks,
                   historyVars>>

\* Variant: the position of a stream that was just opened for appending.
PositionOfFreshStream == IF todo = 1 THEN Len(file) ELSE 0

\* seek_to_end gives the rollback point.
EndOfFile == Len(file)

SeekToEnd ==
    /\ pc = "seek"
    /\ start' = EndOfFile
    /\ before' = file
    /\ pc' = "append"
    /\ UNCHANGED <<buffer, file, disk, streamVars, todo, next, setbacks, written,
                   emptied>>

\* One event of the batch goes into the stream, whole or in part.
Append1 ==
    /\ pc = "append"
    /\ IF todo > LastOfBatch
       THEN pc' = "flush" /\ UNCHANGED <<buffer, todo>>
       ELSE \/ /\ buffer' = buffer \o <<Text(todo), Newline(todo)>>
               /\ todo' = todo + 1
               /\ UNCHANGED pc
            \/ /\ buffer' \in {buffer, Append(buffer, Text(todo))}
               /\ pc' = "rollBack"
               /\ UNCHANGED todo
    /\ UNCHANGED <<file, disk, streamVars, start, next, setbacks, historyVars>>

\* The stream writes from its buffer whenever it is full.
Spill ==
    /\ pc = "append"
    /\ buffer # <<>>
    /\ file' = Append(file, Head(buffer))
    /\ buffer' = Tail(buffer)
    /\ UNCHANGED <<disk, streamVars, pc, todo, start, next, setbacks, historyVars>>

WriteReturnsOk == pc' = "ok" /\ written' = written \cup next..LastOfBatch

\* Variant: Ok without the sync.
FlushOnly ==
    /\ pc = "flush"
    /\ buffer' = <<>>
    /\ file' = file \o buffer
    /\ WriteReturnsOk
    /\ UNCHANGED <<disk, streamVars, todo, start, next, setbacks, before, emptied>>

Flush ==
    /\ pc = "flush"
    /\ buffer' = <<>>
    /\ \/ /\ file' = file \o buffer
          /\ IF durableSync
             THEN pc' = "sync" /\ UNCHANGED written
             ELSE WriteReturnsOk
       \/ /\ \E n \in 0..Len(buffer) : file' = file \o Cut(buffer, n)
          /\ pc' = "rollBack" /\ UNCHANGED written
    /\ UNCHANGED <<disk, streamVars, todo, start, next, setbacks, before, emptied>>

Sync ==
    /\ pc = "sync"
    /\ \/ disk' = file /\ WriteReturnsOk
       \/ pc' = "rollBack" /\ UNCHANGED <<disk, written>>
    /\ UNCHANGED <<buffer, file, streamVars, todo, start, next, setbacks, before, emptied>>

\* Variant: the buffer is not emptied before the file is cut.
RollBackUnflushed ==
    /\ pc = "rollBack"
    /\ file' = Cut(file, start)
    /\ pc' = "rollSync"
    /\ UNCHANGED <<buffer, disk, streamVars, todo, start, next, setbacks, historyVars>>

\* Variant: only the incomplete line is cut.
RollBackLine ==
    /\ pc = "rollBack"
    /\ buffer' = <<>>
    /\ file' = Cut(file, LastLineEnd(file))
    /\ pc' = "rollSync"
    /\ UNCHANGED <<disk, streamVars, todo, start, next, setbacks, historyVars>>

\* roll_back empties the buffer, cuts the file ...
RollBack ==
    /\ pc = "rollBack"
    /\ buffer' = <<>>
    /\ file' = Cut(file, start)
    /\ pc' = "rollSync"
    /\ UNCHANGED <<disk, streamVars, todo, start, next, setbacks, historyVars>>

\* ... and syncs; then write() returns SinkError.
RollSync ==
    /\ pc = "rollSync"
    /\ disk' = file
    /\ pc' = "idle"
    /\ UNCHANGED <<buffer, file, streamVars, todo, start, next, setbacks,
                   historyVars>>

\* A repair, a seek or a rollback that cannot be completed; the last call of a
\* repair and of a rollback is a seek, after the sync.
GiveUp ==
    \/ /\ pc \in {"repair", "seek", "rollBack"}
       /\ UNCHANGED disk
       /\ FailHard
    \/ /\ pc \in {"repairSync", "rollSync"}
       /\ disk' \in {disk, file}
       /\ FailHard

\* flush_now.
FlushNow ==
    /\ pc = "idle" /\ opened /\ durableSync
    /\ disk' = file
    /\ UNCHANGED <<buffer, file, streamVars, pc, todo, start, next, setbacks,
                   historyVars>>

RequestCancel ==
    /\ cancelled' = TRUE
    /\ UNCHANGED <<buffer, file, disk, durableSync, opened, failure, pc, todo,
                   start, next, setbacks, historyVars>>

-----------------------------------------------------------------------------
(* The worker and the machine *)

\* The worker acknowledges a batch that the sink has taken, or fails to, and
\* will hand it to the sink again.
Acknowledge ==
    /\ pc = "ok"
    /\ \/ next' = LastOfBatch + 1 /\ UNCHANGED setbacks
       \/ setbacks < MaxSetbacks /\ setbacks' = setbacks + 1 /\ UNCHANGED next
    /\ pc' = "idle"
    /\ UNCHANGED <<buffer, file, disk, streamVars, todo, start, historyVars>>

\* What a loss of power can leave: the last synced content, or what the system
\* has written of the present one beyond what the two share.
Survivors ==
    LET shared == Max({n \in 0..Len(disk) : n <= Len(file) /\ Cut(disk, n) = Cut(file, n)})
    IN  {disk} \cup {Cut(file, n) : n \in shared..Len(file)}

\* The process ends, perhaps with the power, and another opens a FileSink on the
\* same path.  Without durable sync nothing is promised about a loss of power.
Crash ==
    /\ setbacks < MaxSetbacks
    /\ setbacks' = setbacks + 1
    /\ \/ UNCHANGED <<file, disk>>
       \/ /\ durableSync
          /\ file' \in Survivors
          /\ disk' = file'
    /\ buffer' = <<>>
    /\ opened' = FALSE /\ failure' = FALSE /\ cancelled' = FALSE
    /\ pc' = "idle" /\ start' = 0
    /\ UNCHANGED <<durableSync, todo, next, historyVars>>

SinkNext ==
    \/ Write \/ Open \/ Repair \/ RepairSync \/ SeekToEnd \/ Append1 \/ Spill
    \/ Flush \/ Sync \/ RollBack \/ RollSync \/ GiveUp \/ FlushNow
    \/ RequestCancel \/ Acknowledge \/ Crash

SinkSpec == SinkInit /\ [][SinkNext]_vars

-----------------------------------------------------------------------------
(* Properties *)

\* A fragment is never followed by other text.
WellFormed(s) ==
    \A i \in 1..Len(s) :
      /\ ~s[i].newline /\ i < Len(s) => s[i + 1] = Newline(s[i].event)
      /\ s[i].newline => i > 1 /\ s[i - 1] = Text(s[i].event)

\* Every completed line is one record, across failed writes, failed rollbacks,
\* crashes and reopening, so every line that ends in a newline is valid JSON
\* (repair_tail, roll_back, fail_hard); and all state has its type.
LinesWellFormed == SinkTypeOK /\ WellFormed(file)

LineOf(e, s) == \E i \in 1..Len(s) : s[i] = Newline(e)

\* An event for which write() returned Ok is in the file for good: no later
\* rollback, repair, crash or, with durable sync, loss of power removes it; only
\* the fallback of ensure_open does, when it empties a file that has lines.
OkSurvives ==
    emptied \/ \A e \in written : LineOf(e, file) /\ (durableSync => LineOf(e, disk))

\* A failed write leaves the file exactly as the batch found it (roll_back).
RolledBackExactly == pc = "rollSync" => file = before

\* The first line of an event comes after a line of every earlier one.
Ordered(s) ==
    \A i \in 1..Len(s) : \A e \in 1..(s[i].event - 1) : LineOf(e, Cut(s, i))

\* The file never has a gap, however often batches are repeated.
OutputOrdered == emptied \/ Ordered(file)

\* Reading backwards in blocks finds the end of the last complete line in every
\* file that the sink or a crash leaves, with blocks of every size up to kBlock
\* and so wherever their boundaries fall, a last line longer than a block
\* included (find_last_complete_line_end).
TailScanExact ==
    \A block \in 1..kBlock :
      find_last_complete_line_end(file, block) = LastLineEnd(file)

-----------------------------------------------------------------------------
(* The inductive invariant behind the properties *)

Prefix(s, t) == Len(s) <= Len(t) /\ \A i \in 1..Len(s) : s[i] = t[i]

\* Complete lines and nothing else.
Whole(s) == WellFormed(s) /\ (s # <<>> => s[Len(s)].newline)

\* While write() may still roll back, the batch counts for nothing.
Tentative == {"append", "flush", "sync", "rollBack"}
Kept == IF pc \in Tentative THEN before ELSE file

\* What has left the application.
Stream == file \o buffer

\* The line of e is out of the reach of a rollback and, with durable sync, of
\* a loss of power: up to it the disk has what the file has.
Secured(e) ==
    \E i \in 1..Len(Kept) :
      /\ Kept[i] = Newline(e)
      /\ durableSync => i <= Len(disk) /\ \A j \in 1..i : disk[j] = Kept[j]

\* What goes with the place write() is at.
PlaceInv ==
    /\ buffer # <<>> => pc \in {"append", "flush", "rollBack"}
    /\ pc = "open" => ~opened
    /\ pc \in {"repair", "repairSync"} => start = 0
    /\ pc \in Tentative => start = Len(before) /\ Prefix(before, file) /\ Whole(before)
    /\ pc = "rollSync" => file = before
    /\ pc \in {"open", "repair", "repairSync", "seek"} => todo = next
    /\ pc = "append" => todo \in next..(LastOfBatch + 1)
    /\ pc \in {"flush", "sync"} => todo = LastOfBatch + 1

\* Where there are whole lines only.
LinesInv ==
    /\ WellFormed(Stream) /\ WellFormed(disk)
    /\ \/ pc \in {"repairSync", "seek", "append", "flush", "sync", "ok", "rollSync"}
       \/ pc = "idle" /\ opened
       => Whole(Stream)

\* What has been written, and what is about to be.
WrittenInv ==
    /\ 1..(next - 1) \subseteq written
    /\ pc = "ok" => next..LastOfBatch \subseteq written
    /\ pc \in {"append", "flush", "sync"} =>
         \A e \in next..(todo - 1) : LineOf(e, Stream)
    /\ emptied \/ \A e \in written : Secured(e)
    /\ emptied \/ (Ordered(Stream) /\ Ordered(disk))

SinkInv ==
    /\ SinkTypeOK
    /\ PlaceInv
    /\ LinesInv
    /\ WrittenInv
=============================================================================
