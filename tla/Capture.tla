------------------------------ MODULE Capture ------------------------------
(***************************************************************************)
(* Trade capture: TradeRecorder and TradeReader (capture.rs) and the       *)
(* `capture` tool's loop around them, through runs that end by Ctrl-C, by  *)
(* an error, or by being killed, and are started again on the same file.   *)
(*                                                                         *)
(* A file is a sequence of cells; a cell is part p of record t, and record *)
(* 0 is the header.  HeaderSize and RecordSize count cells, enough of them *)
(* to tear a header or a record.  What reached the file stays there.       *)
(***************************************************************************)
EXTENDS Naturals, Sequences, FiniteSets, SequencesExt

CONSTANTS
  HeaderSize,   \* HEADER_SIZE, in cells
  RecordSize,   \* RECORD_SIZE, in cells
  BufCapacity,  \* capacity of the BufWriter, in cells
  FlushEvery,   \* --flush-every
  MaxTrades,    \* bound: trades received over all runs
  MaxRuns       \* bound: runs of the tool

ASSUME CaptureAssumption ==
  /\ HeaderSize \in Nat \ {0}
  /\ RecordSize \in Nat \ {0}
  /\ BufCapacity \in Nat /\ BufCapacity >= RecordSize
  /\ FlushEvery \in Nat
  /\ MaxTrades \in Nat
  /\ MaxRuns \in Nat

VARIABLES
  running,      \* the tool is in its loop
  file,         \* the capture file
  buf,          \* the BufWriter's buffer
  since_flush,  \* the tool's counter
  received,     \* history: trades received over all runs
  durable,      \* history: trades a flush reported as written
  runs,         \* history: runs started
  torn          \* history: the run that first left part of a record, 0 if none

vars == <<running, file, buf, since_flush, received, durable, runs, torn>>

Cells == [record : Nat, part : Nat]
CellsOf(t, size) == [p \in 1..size |-> [record |-> t, part |-> p]]
Header == CellsOf(0, HeaderSize)
Record(t) == CellsOf(t, RecordSize)

TypeOK ==
  /\ running \in BOOLEAN
  /\ file \in Seq(Cells)
  /\ buf \in Seq(Cells) /\ Len(buf) <= BufCapacity
  /\ since_flush \in Nat
  /\ received \in 0..MaxTrades
  /\ durable \subseteq 1..received
  /\ runs \in 0..MaxRuns
  /\ torn \in 0..runs

Init ==
  /\ running = FALSE
  /\ file = <<>>
  /\ buf = <<>>
  /\ since_flush = 0
  /\ received = 0
  /\ durable = {}
  /\ runs = 0
  /\ torn = 0

-----------------------------------------------------------------------------
(* TradeReader *)

HeaderValid(f) == Len(f) >= HeaderSize /\ SubSeq(f, 1, HeaderSize) = Header

Chunk(f, i) == SubSeq(f, HeaderSize + (i - 1) * RecordSize + 1,
                         HeaderSize + i * RecordSize)
WholeChunks(f) == (Len(f) - HeaderSize) \div RecordSize

\* What iterating over the file yields: the trade of an aligned record, 0 for a
\* record pieced together from two (a made-up trade, or an error if a
\* discriminant is out of range), and one more element, the error, if the last
\* record is cut short.
Replay(f) ==
  [i \in 1..WholeChunks(f) |->
     LET t == Chunk(f, i)[1].record IN IF Chunk(f, i) = Record(t) THEN t ELSE 0]
Truncated(f) == (Len(f) - HeaderSize) % RecordSize # 0

\* The trades in a sequence of cells
Trades(s) == {s[i].record : i \in DOMAIN s} \ {0}

-----------------------------------------------------------------------------
(* Writing *)

WriteAll(b) ==
  /\ file' = file \o b
  /\ durable' = durable \cup Trades(b)

\* A write is not reported as done: the disk is full, or the tool is killed in
\* it.  The BufWriter tries the rest again when it is dropped, so any part of
\* it, even all, may have reached the file.
WritePart(b) ==
  /\ \E k \in 0..Len(b) :
       /\ file' = file \o SubSeq(b, 1, k)
       /\ torn' = IF torn # 0 \/ k % RecordSize = 0 THEN torn ELSE runs
  /\ UNCHANGED durable

Stop ==
  /\ running' = FALSE
  /\ buf' = <<>>
  /\ since_flush' = 0

-----------------------------------------------------------------------------
(* The tool *)

\* TradeRecorder::create on a new, empty file writes the header ...
StartNew ==
  /\ ~running
  /\ runs < MaxRuns
  /\ runs' = runs + 1
  /\ file = <<>>
  /\ file' = Header
  /\ running' = TRUE
  /\ UNCHANGED <<buf, since_flush, received, durable, torn>>

\* ... and fails if it cannot; part of the header may be there.
StartNewFails ==
  /\ ~running
  /\ runs < MaxRuns
  /\ runs' = runs + 1
  /\ file = <<>>
  /\ \E k \in 1..(HeaderSize - 1) : file' = SubSeq(Header, 1, k)
  /\ UNCHANGED <<running, buf, since_flush, received, durable, torn>>

\* Plausible bug: an existing file is taken as it is.
StartExistingUnchecked ==
  /\ ~running
  /\ runs < MaxRuns
  /\ runs' = runs + 1
  /\ file # <<>>
  /\ running' = TRUE
  /\ UNCHANGED <<file, buf, since_flush, received, durable, torn>>

\* Plausible bug: the file is opened for writing and truncated.
StartExistingTruncates ==
  /\ ~running
  /\ runs < MaxRuns
  /\ runs' = runs + 1
  /\ file # <<>>
  /\ running' = HeaderValid(file)
  /\ file' = Header
  /\ UNCHANGED <<buf, since_flush, received, durable, torn>>

\* On an existing file, create checks the header and appends.
StartExisting ==
  /\ ~running
  /\ runs < MaxRuns
  /\ runs' = runs + 1
  /\ file # <<>>
  /\ running' = HeaderValid(file)
  /\ UNCHANGED <<file, buf, since_flush, received, durable, torn>>

\* Plausible bug: one trade too many between flushes.
FlushDueLate == since_flush + 1 > FlushEvery

FlushDue == since_flush + 1 >= FlushEvery

\* Plausible bug: the buffer is written out only once it is over its capacity.
SpillsLate == Len(buf) > BufCapacity

\* External: BufWriter makes room first if a record does not fit.
Spills == Len(buf) + RecordSize > BufCapacity

\* A trade is recorded, and the tool flushes after FlushEvery trades.
RecordTrade ==
  LET rec == Record(received + 1)
      spilled == IF Spills THEN buf ELSE <<>>
      kept == IF Spills THEN rec ELSE buf \o rec
      written == IF FlushDue THEN spilled \o kept ELSE spilled
  IN
  /\ running
  /\ received < MaxTrades
  /\ received' = received + 1
  /\ \/ /\ WriteAll(written)
        /\ buf' = IF FlushDue THEN <<>> ELSE kept
        /\ since_flush' = IF FlushDue THEN 0 ELSE since_flush + 1
        /\ UNCHANGED <<running, torn>>
     \/ written # <<>> /\ WritePart(written) /\ Stop
  /\ UNCHANGED runs

\* The 5 s timer: flush if anything was recorded since the last flush.
PeriodicFlush ==
  /\ running
  /\ since_flush > 0
  /\ \/ WriteAll(buf) /\ buf' = <<>> /\ since_flush' = 0
        /\ UNCHANGED <<running, torn>>
     \/ WritePart(buf) /\ Stop
  /\ UNCHANGED <<received, runs>>

\* Ctrl-C, or the adapter task is gone: a last flush, then the tool returns.
Finish ==
  /\ running
  /\ Stop
  /\ (WriteAll(buf) /\ UNCHANGED torn) \/ WritePart(buf)
  /\ UNCHANGED <<received, runs>>

\* Killed outside a write: the buffer is gone.
Kill ==
  /\ running
  /\ Stop
  /\ UNCHANGED <<file, received, durable, runs, torn>>

Next ==
  \/ StartNew \/ StartNewFails \/ StartExisting
  \/ RecordTrade \/ PeriodicFlush \/ Finish \/ Kill

Spec == Init /\ [][Next]_vars

-----------------------------------------------------------------------------
(* Properties *)

Increasing(s) == \A i, j \in DOMAIN s : i < j => s[i] < s[j]

\* capture.rs:13-16, main.rs:150-154: as long as no record was cut short in an
\* earlier run, whatever ended the runs and however often the tool was started
\* again, the file replays as trades in the order they came, nothing made up,
\* nothing twice, every trade a flush reported among them, and a cut tail is
\* an error instead of a silent end.
ReplaysWhatWasFlushed ==
  HeaderValid(file) /\ (torn = 0 \/ torn = runs) =>
    /\ 0 \notin Range(Replay(file))
    /\ Increasing(Replay(file))
    /\ durable \subseteq Range(Replay(file))
    /\ Truncated(file) <=> torn # 0

\* main.rs:11-15: a kill costs less than FlushEvery trades: what was received
\* in this run and is not in the file yet is in the buffer and counted.
KillCostsLessThanFlushEvery ==
  running =>
    LET pending == Trades(buf) IN
    /\ Cardinality(pending) <= since_flush
    /\ since_flush < FlushEvery \/ since_flush = 0
    /\ pending \cap Trades(file) = {}

\* A header is never followed by a second one, and nothing is ever recorded in
\* a file that lacks one, although any run may stop at any point of writing it.
RecordsFollowHeader ==
  \A i \in DOMAIN file :
    /\ i > HeaderSize => file[i].record # 0
    /\ i <= HeaderSize => file[i] = Header[i]

\* main.rs:17-20 says that running the tool again on the same output file
\* "resumes the same tape": what a flush reported as written is replayed.
ResumesTheTape ==
  HeaderValid(file) => durable \subseteq Range(Replay(file))
=============================================================================
