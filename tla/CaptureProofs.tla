---------------------------- MODULE CaptureProofs ----------------------------
(***************************************************************************)
(* Proofs about Capture, for every size of header, record and buffer, every *)
(* flush interval and every number of runs.                                *)
(*                                                                         *)
(* CellInv is about single cells and holds whatever happened to the file;  *)
(* the loss bound and the header's place follow from it.  TapeInv is about *)
(* whole records: they stand one behind the other after the header, and at *)
(* most the last run left a cut one at the end.                            *)
(***************************************************************************)
EXTENDS Capture, TLAPS, SequenceTheorems, FiniteSetTheorems

-----------------------------------------------------------------------------
(* Cells *)

\* A header or a record, as the cells write_header and write_record write.
LEMMA CellsOfIs ==
  ASSUME NEW t \in Nat, NEW n \in Nat
  PROVE  /\ CellsOf(t, n) \in Seq(Cells)
         /\ Len(CellsOf(t, n)) = n
         /\ \A p \in 1..n : CellsOf(t, n)[p] = [record |-> t, part |-> p]
<1>1. \A p \in 1..n : [record |-> t, part |-> p] \in Cells
  BY DEF Cells
<1> QED
  BY <1>1 DEF CellsOf

\* The first k cells of a write.
LEMMA PrefixIs ==
  ASSUME NEW s \in Seq(Cells), NEW k \in 0..Len(s)
  PROVE  /\ SubSeq(s, 1, k) \in Seq(Cells)
         /\ Len(SubSeq(s, 1, k)) = k
         /\ DOMAIN SubSeq(s, 1, k) = 1..k
         /\ \A i \in 1..k : SubSeq(s, 1, k)[i] = s[i] /\ i \in DOMAIN s
<1>1. Len(s) \in Nat /\ DOMAIN s = 1..Len(s) /\ k \in Nat
  OBVIOUS
<1>2. \A i \in 1..k : i \in DOMAIN s /\ s[i] \in Cells
  BY <1>1, ElementOfSeq
<1>3. SubSeq(s, 1, k) \in Seq(Cells)
  BY <1>1, <1>2, SubSeqProperties
<1>4. Len(SubSeq(s, 1, k)) = k
  BY <1>1, <1>2, SubSeqProperties
<1>5. \A i \in 1..k : SubSeq(s, 1, k)[i] = s[i]
  <2>1. \A i \in 1..(k - 1 + 1) : SubSeq(s, 1, k)[i] = s[1 + i - 1]
    BY <1>1, <1>2, SubSeqProperties
  <2> QED
    BY <1>1, <2>1
<1>6. DOMAIN SubSeq(s, 1, k) = 1..k
  BY <1>3, <1>4, LenProperties
<1> QED
  BY <1>2, <1>3, <1>4, <1>5, <1>6

\* A cell of one write after another is a cell of one of them.
LEMMA ConcatIs ==
  ASSUME NEW s \in Seq(Cells), NEW u \in Seq(Cells)
  PROVE  /\ s \o u \in Seq(Cells)
         /\ Len(s) \in Nat /\ Len(u) \in Nat
         /\ Len(s \o u) = Len(s) + Len(u)
         /\ DOMAIN s = 1..Len(s) /\ DOMAIN u = 1..Len(u)
         /\ DOMAIN (s \o u) = 1..(Len(s) + Len(u))
         /\ \A i \in DOMAIN s : i \in DOMAIN (s \o u) /\ (s \o u)[i] = s[i]
         /\ \A i \in DOMAIN u : /\ Len(s) + i \in DOMAIN (s \o u)
                                /\ (s \o u)[Len(s) + i] = u[i]
         /\ \A i \in DOMAIN (s \o u) :
              \/ i \in DOMAIN s /\ (s \o u)[i] = s[i]
              \/ /\ i > Len(s) /\ i - Len(s) \in DOMAIN u
                 /\ (s \o u)[i] = u[i - Len(s)]
<1>1. /\ Len(s) \in Nat /\ Len(u) \in Nat
      /\ DOMAIN s = 1..Len(s) /\ DOMAIN u = 1..Len(u)
  OBVIOUS
<1>2. s \o u \in Seq(Cells)
  BY ConcatProperties
<1>3. Len(s \o u) = Len(s) + Len(u)
  BY ConcatProperties
<1>4. \A i \in 1..(Len(s) + Len(u)) :
        (s \o u)[i] = IF i <= Len(s) THEN s[i] ELSE u[i - Len(s)]
  BY ConcatProperties
<1>5. DOMAIN (s \o u) = 1..(Len(s) + Len(u))
  BY <1>2, <1>3, LenProperties
<1> DEFINE v == s \o u
<1> HIDE DEF v
<1>6. /\ DOMAIN v = 1..(Len(s) + Len(u))
      /\ \A i \in 1..(Len(s) + Len(u)) : v[i] = IF i <= Len(s) THEN s[i] ELSE u[i - Len(s)]
  BY <1>4, <1>5 DEF v
<1>7. \A i \in DOMAIN s : i \in DOMAIN v /\ v[i] = s[i]
  BY <1>1, <1>6
<1>8. \A i \in DOMAIN u : Len(s) + i \in DOMAIN v /\ v[Len(s) + i] = u[i]
  <2> SUFFICES ASSUME NEW i \in DOMAIN u
               PROVE  Len(s) + i \in DOMAIN v /\ v[Len(s) + i] = u[i]
    OBVIOUS
  <2>1. Len(s) + i \in 1..(Len(s) + Len(u)) /\ ~(Len(s) + i <= Len(s))
        /\ (Len(s) + i) - Len(s) = i
    BY <1>1
  <2> QED
    BY <1>6, <2>1
<1>9. \A i \in DOMAIN v : \/ i \in DOMAIN s /\ v[i] = s[i]
                          \/ i > Len(s) /\ i - Len(s) \in DOMAIN u /\ v[i] = u[i - Len(s)]
  BY <1>1, <1>6
<1> QED
  BY <1>1, <1>2, <1>3, <1>5, <1>7, <1>8, <1>9 DEF v

-----------------------------------------------------------------------------
(* What a step of the running tool does to the file and the buffer *)

NextRecord == Record(received + 1)

\* A write is reported as done.
Done(w) ==
  /\ file' = file \o w
  /\ durable' = durable \cup Trades(w)
  /\ torn' = torn

\* A write is cut short, and the tool stops.
Cut(w) == WritePart(w) /\ Stop

\* record: the buffer is written out, or kept, and the trade goes with it, or
\* waits behind it.
LEMMA RecordTradeOutcome ==
  ASSUME TypeOK, RecordTrade
  PROVE  /\ running /\ received < MaxTrades /\ received' = received + 1 /\ runs' = runs
         /\ \/ Done(buf \o NextRecord) /\ running' = running /\ buf' = <<>> /\ since_flush' = 0
            \/ /\ since_flush + 1 < FlushEvery /\ since_flush' = since_flush + 1
               /\ running' = running
               /\ \/ Done(buf) /\ buf' = NextRecord
                  \/ /\ Done(<<>>) /\ buf' = buf \o NextRecord
                     /\ Len(buf) + RecordSize <= BufCapacity
            \/ Cut(buf) \/ Cut(buf \o NextRecord)
<1> DEFINE rec == Record(received + 1)
           spilled == IF Spills THEN buf ELSE <<>>
           kept == IF Spills THEN rec ELSE buf \o rec
           written == IF FlushDue THEN spilled \o kept ELSE spilled
<1>1. /\ received \in Nat /\ Len(buf) \in Nat /\ since_flush \in Nat
      /\ buf \in Seq(Cells) /\ rec \in Seq(Cells)
      /\ RecordSize \in Nat /\ BufCapacity \in Nat /\ FlushEvery \in Nat
  BY CellsOfIs, CaptureAssumption DEF TypeOK, Record
<1>2. running /\ received < MaxTrades /\ received' = received + 1 /\ runs' = runs
  BY DEF RecordTrade
<1>3. \/ /\ WriteAll(written)
         /\ buf' = IF FlushDue THEN <<>> ELSE kept
         /\ since_flush' = IF FlushDue THEN 0 ELSE since_flush + 1
         /\ UNCHANGED <<running, torn>>
      \/ written # <<>> /\ Cut(written)
  BY DEF RecordTrade, Cut
<1>4. <<>> \o (buf \o rec) = buf \o rec
  <2>1. buf \o rec \in Seq(Cells)
    BY <1>1, ConcatIs
  <2> QED
    BY <2>1
<1>5. NextRecord = rec
  BY DEF NextRecord
<1>6. CASE FlushDue
  <2>1. written = buf \o rec
    BY <1>4, <1>6
  <2> HIDE DEF rec, written
  <2> QED
    BY <1>2, <1>3, <1>5, <1>6, <2>1 DEF Done, WriteAll
<1>7. CASE ~FlushDue /\ Spills
  <2>1. written = buf /\ kept = rec /\ since_flush + 1 < FlushEvery
    BY <1>1, <1>7 DEF FlushDue
  <2> HIDE DEF rec, written, kept
  <2> QED
    BY <1>2, <1>3, <1>5, <1>7, <2>1 DEF Done, WriteAll
<1>8. CASE ~FlushDue /\ ~Spills
  <2>1. /\ written = <<>> /\ kept = buf \o rec /\ since_flush + 1 < FlushEvery
        /\ Len(buf) + RecordSize <= BufCapacity
    BY <1>1, <1>8 DEF FlushDue, Spills
  <2> HIDE DEF rec, written, kept
  <2> QED
    BY <1>2, <1>3, <1>5, <1>8, <2>1 DEF Done, WriteAll
<1> QED
  BY <1>6, <1>7, <1>8

\* The flush of the timer, and the last one.
LEMMA FlushOutcome ==
  ASSUME PeriodicFlush \/ Finish
  PROVE  /\ running /\ received' = received /\ runs' = runs
         /\ \/ Done(buf) /\ running' = running /\ buf' = <<>> /\ since_flush' = 0
            \/ Done(buf) /\ Stop
            \/ Cut(buf)
BY DEF PeriodicFlush, Finish, Done, Cut, WriteAll

-----------------------------------------------------------------------------
(* The invariant of single cells *)

\* What is in the buffer came after everything in the file, and within the
\* trades counted since the last flush.
Buffered ==
  /\ \A j \in DOMAIN buf : /\ buf[j].record \in 1..received
                           /\ received < buf[j].record + since_flush
  /\ \A i \in DOMAIN file, j \in DOMAIN buf : file[i].record < buf[j].record
  /\ since_flush < FlushEvery \/ since_flush = 0
  /\ ~running => buf = <<>>

\* What is in the file was received, behind a header.
Written ==
  /\ \A i \in DOMAIN file : file[i].record <= received
  /\ running => Len(file) >= HeaderSize
  /\ RecordsFollowHeader

CellInv == TypeOK /\ Buffered /\ Written

\* The cells of the buffer and the file, as the next lemmas use them.
LEMMA CellFacts ==
  ASSUME CellInv
  PROVE  /\ file \in Seq(Cells) /\ DOMAIN file = 1..Len(file) /\ Len(file) \in Nat
         /\ buf \in Seq(Cells) /\ DOMAIN buf = 1..Len(buf) /\ Len(buf) \in Nat
         /\ \A i \in DOMAIN file : file[i].record \in Nat
         /\ \A j \in DOMAIN buf : buf[j].record \in Nat
         /\ received \in Nat /\ since_flush \in Nat
         /\ NextRecord \in Seq(Cells) /\ DOMAIN NextRecord = 1..RecordSize
         /\ Len(NextRecord) = RecordSize
         /\ \A p \in 1..RecordSize : NextRecord[p] = [record |-> received + 1, part |-> p]
         /\ HeaderSize \in Nat /\ RecordSize \in Nat
<1>1. /\ file \in Seq(Cells) /\ buf \in Seq(Cells)
      /\ received \in Nat /\ since_flush \in Nat
      /\ HeaderSize \in Nat /\ RecordSize \in Nat
  BY CaptureAssumption DEF CellInv, TypeOK
<1>2. /\ DOMAIN file = 1..Len(file) /\ Len(file) \in Nat
      /\ DOMAIN buf = 1..Len(buf) /\ Len(buf) \in Nat
  BY <1>1
<1>3. /\ \A i \in DOMAIN file : file[i] \in Cells
      /\ \A j \in DOMAIN buf : buf[j] \in Cells
  BY <1>1, <1>2, ElementOfSeq
<1>4. /\ \A i \in DOMAIN file : file[i].record \in Nat
      /\ \A j \in DOMAIN buf : buf[j].record \in Nat
  BY <1>3 DEF Cells
<1>5. /\ NextRecord \in Seq(Cells) /\ Len(NextRecord) = RecordSize
      /\ \A p \in 1..RecordSize : NextRecord[p] = [record |-> received + 1, part |-> p]
  <2>1. received + 1 \in Nat
    BY <1>1
  <2>2. NextRecord = CellsOf(received + 1, RecordSize)
    BY DEF NextRecord, Record
  <2> HIDE DEF NextRecord
  <2> QED
    BY <1>1, <2>1, <2>2, CellsOfIs
<1>6. DOMAIN NextRecord = 1..RecordSize
  BY <1>5, LenProperties
<1> QED
  BY <1>1, <1>2, <1>4, <1>5, <1>6

\* The records whose cells are in a sequence were received.
LEMMA TradesReceived ==
  ASSUME NEW w \in Seq(Cells), NEW n \in Nat,
         \A i \in DOMAIN w : w[i].record \in 1..n
  PROVE  Trades(w) \subseteq 1..n
BY DEF Trades

\* The cells of a write: the buffer, and behind it perhaps the next record.
LEMMA WriteCells ==
  ASSUME CellInv, running, NEW w \in {<<>>, buf, buf \o NextRecord}
  PROVE  /\ w \in Seq(Cells)
         /\ \A i \in DOMAIN w : w[i].record \in 1..(received + 1)
         /\ w # buf \o NextRecord => \A i \in DOMAIN w : w[i].record \in 1..received
<1>1. CASE w = <<>>
  BY <1>1
<1>2. CASE w = buf
  BY <1>2, CellFacts DEF CellInv, Buffered
<1>3. CASE w = buf \o NextRecord
  <2>1. w \in Seq(Cells)
    BY <1>3, CellFacts, ConcatIs
  <2>2. \A i \in DOMAIN w :
          \/ i \in DOMAIN buf /\ w[i] = buf[i]
          \/ i - Len(buf) \in DOMAIN NextRecord /\ w[i] = NextRecord[i - Len(buf)]
    BY <1>3, CellFacts, ConcatIs
  <2>3. \A i \in DOMAIN w : w[i].record \in 1..received \/ w[i].record = received + 1
    <3>1. \A j \in DOMAIN buf : buf[j].record \in 1..received
      BY DEF CellInv, Buffered
    <3>2. \A j \in DOMAIN NextRecord : NextRecord[j].record = received + 1
      BY CellFacts
    <3> QED
      BY <2>2, <3>1, <3>2
  <2>4. received \in Nat
    BY CellFacts
  <2> QED
    BY <1>3, <2>1, <2>3, <2>4
<1> QED
  BY <1>1, <1>2, <1>3

\* RecordsFollowHeader, of any file
HeaderIn(f) ==
  \A i \in DOMAIN f : /\ i > HeaderSize => f[i].record # 0
                      /\ i <= HeaderSize => f[i] = Header[i]

\* Appending to a file that has its header leaves the header in its place.
LEMMA HeaderStays ==
  ASSUME NEW f \in Seq(Cells), NEW p \in Seq(Cells), Len(f) >= HeaderSize,
         \A i \in DOMAIN p : p[i].record # 0,
         HeaderIn(f)
  PROVE  HeaderIn(f \o p)
<1> SUFFICES ASSUME NEW i \in DOMAIN (f \o p)
             PROVE  /\ i > HeaderSize => (f \o p)[i].record # 0
                    /\ i <= HeaderSize => (f \o p)[i] = Header[i]
  BY DEF HeaderIn
<1> DEFINE g == f \o p
           H == Header
<1>1. \/ i \in DOMAIN f /\ g[i] = f[i]
      \/ i > Len(f) /\ i - Len(f) \in DOMAIN p /\ g[i] = p[i - Len(f)]
  BY ConcatIs
<1>2. Len(f) \in Nat /\ HeaderSize \in Nat /\ i \in Nat
  BY CaptureAssumption, ConcatIs
<1> HIDE DEF g, H
<1>3. /\ i > HeaderSize => g[i].record # 0
      /\ i <= HeaderSize => g[i] = H[i]
  <2>1. CASE i \in DOMAIN f /\ g[i] = f[i]
    BY <2>1, Zenon DEF H, HeaderIn
  <2>2. CASE i > Len(f) /\ i - Len(f) \in DOMAIN p /\ g[i] = p[i - Len(f)]
    BY <1>2, <2>2
  <2> QED
    BY <1>1, <2>1, <2>2
<1> QED
  BY <1>3, Zenon DEF g, H

\* BufWriter appends: whatever part of a write reaches the file, it stands
\* behind a complete header and holds trades that were received.
LEMMA AppendKeepsWritten ==
  ASSUME CellInv, running, NEW p \in Seq(Cells), file' = file \o p,
         received' \in Nat, received' >= received,
         \A i \in DOMAIN p : p[i].record \in 1..received'
  PROVE  Written' /\ file' \in Seq(Cells)
<1>1. /\ file \in Seq(Cells) /\ Len(file) \in Nat /\ HeaderSize \in Nat
      /\ received \in Nat /\ DOMAIN file = 1..Len(file)
      /\ \A i \in DOMAIN file : file[i].record \in Nat /\ file[i].record <= received
      /\ Len(file) >= HeaderSize
  BY CellFacts DEF CellInv, Written
<1>2. /\ file' \in Seq(Cells) /\ Len(p) \in Nat /\ Len(file') = Len(file) + Len(p)
      /\ \A i \in DOMAIN file' :
           \/ i \in DOMAIN file /\ file'[i] = file[i]
           \/ i > Len(file) /\ i - Len(file) \in DOMAIN p /\ file'[i] = p[i - Len(file)]
  BY <1>1, ConcatIs
<1>3. DOMAIN file' \subseteq Nat
  BY <1>2, LenProperties
<1>4. HeaderIn(file)
  BY DEF CellInv, Written, RecordsFollowHeader, HeaderIn
<1>5. \A i \in DOMAIN file' : file'[i].record <= received'
  BY <1>1, <1>2
<1>6. RecordsFollowHeader'
  <2>1. \A i \in DOMAIN p : p[i].record # 0
    BY <1>1
  <2>2. file \in Seq(Cells) /\ Len(file) >= HeaderSize
    BY <1>1, Zenon
  <2>3. HeaderIn(file \o p)
    BY <1>4, <2>1, <2>2, HeaderStays, Zenon
  <2> QED
    BY <2>3, Zenon DEF RecordsFollowHeader, HeaderIn
<1>7. (running => Len(file) >= HeaderSize)'
  BY <1>1, <1>2
<1> QED
  BY <1>2, <1>5, <1>6, <1>7 DEF Written

\* Whatever is left of the buffer, it came after what a write put in the file.
LEMMA DoneKeepsCells ==
  ASSUME CellInv, running, NEW w \in {<<>>, buf, buf \o NextRecord}, Done(w),
         received' \in {received, received + 1}, received' \in 0..MaxTrades,
         w = buf \o NextRecord => received' = received + 1,
         runs' = runs, running' \in BOOLEAN, since_flush' \in Nat,
         since_flush' < FlushEvery \/ since_flush' = 0,
         \/ buf' = <<>>
         \/ /\ buf' = NextRecord /\ w = buf /\ received' = received + 1
            /\ since_flush' = since_flush + 1 /\ running'
         \/ /\ buf' = buf \o NextRecord /\ w = <<>> /\ received' = received + 1
            /\ since_flush' = since_flush + 1 /\ running'
            /\ Len(buf) + RecordSize <= BufCapacity
  PROVE  CellInv'
<1>1. /\ w \in Seq(Cells) /\ received \in Nat /\ received' \in Nat /\ received' >= received
      /\ \A i \in DOMAIN w : w[i].record \in 1..received'
      /\ file' = file \o w /\ file \in Seq(Cells)
  <2>1. received \in Nat /\ received' \in Nat /\ received' >= received /\ file \in Seq(Cells)
    <3>1. received \in Nat /\ file \in Seq(Cells)
      BY CellFacts, Zenon
    <3> QED
      BY <3>1
  <2>2. /\ w \in Seq(Cells)
        /\ \A i \in DOMAIN w : w[i].record \in 1..(received + 1)
        /\ w # buf \o NextRecord => \A i \in DOMAIN w : w[i].record \in 1..received
    BY WriteCells, Zenon
  <2>3. \A i \in DOMAIN w : w[i].record \in 1..received'
    <3>1. CASE received' = received + 1
      BY <2>2, <3>1, Zenon
    <3>2. CASE received' = received
      <4>1. received # received + 1
        BY <2>1
      <4>2. w # buf \o NextRecord
        BY <3>2, <4>1, Zenon
      <4> QED
        BY <2>2, <3>2, <4>2, Zenon
    <3> QED
      BY <3>1, <3>2
  <2>4. file' = file \o w
    BY Zenon DEF Done
  <2> QED
    BY <2>1, <2>2, <2>3, <2>4, Zenon
<1>2. Written' /\ file' \in Seq(Cells)
  BY <1>1, AppendKeepsWritten
<1>3. durable' \subseteq 1..received'
  <2>1. durable' = durable \cup Trades(w) /\ durable \subseteq 1..received
    BY DEF Done, CellInv, TypeOK
  <2>2. Trades(w) \subseteq 1..received'
    BY <1>1, TradesReceived
  <2>3. 1..received \subseteq 1..received'
    <3>1. received \in Nat /\ received' \in Nat /\ received' >= received
      BY <1>1, Zenon
    <3> QED
      BY <3>1
  <2> QED
    BY <2>1, <2>2, <2>3, Zenon
<1>4. torn' \in 0..runs' /\ runs' \in 0..MaxRuns
  BY DEF Done, CellInv, TypeOK
<1>5. \A i \in DOMAIN file' :
        \/ i \in DOMAIN file /\ file'[i] = file[i]
        \/ i - Len(file) \in DOMAIN w /\ file'[i] = w[i - Len(file)]
  BY SMTT(30), <1>1, ConcatIs
<1>6. ASSUME buf' \in Seq(Cells), Len(buf') <= BufCapacity,
             \A j \in DOMAIN buf' : /\ buf'[j].record \in 1..received'
                                   /\ received' < buf'[j].record + since_flush',
             \A i \in DOMAIN file', j \in DOMAIN buf' : file'[i].record < buf'[j].record,
             ~running' => buf' = <<>>
      PROVE  CellInv'
  <2>1. TypeOK'
    BY <1>1, <1>2, <1>3, <1>4, <1>6 DEF TypeOK
  <2>2. Buffered'
    BY <1>6 DEF Buffered
  <2> QED
    BY <1>2, <2>1, <2>2 DEF CellInv
<1>7. BufCapacity \in Nat /\ RecordSize <= BufCapacity /\ RecordSize \in Nat
  BY CaptureAssumption
<1>8. CASE buf' = <<>>
  BY <1>6, <1>7, <1>8
<1>9. CASE /\ buf' = NextRecord /\ w = buf /\ received' = received + 1
           /\ since_flush' = since_flush + 1 /\ running'
  <2>1. /\ buf' \in Seq(Cells) /\ Len(buf') <= BufCapacity
        /\ \A j \in DOMAIN buf' : buf'[j].record = received + 1
    BY <1>7, <1>9, CellFacts
  <2>2. \A i \in DOMAIN file' : file'[i].record < received + 1
    <3>1. \A i \in DOMAIN file : file[i].record \in Nat /\ file[i].record <= received
      BY CellFacts DEF CellInv, Written
    <3>2. \A i \in DOMAIN w : w[i].record \in 1..received
      BY <1>9 DEF CellInv, Buffered
    <3> QED
      BY <1>1, <1>5, <3>1, <3>2
  <2>3. \A j \in DOMAIN buf' : /\ buf'[j].record \in 1..received'
                               /\ received' < buf'[j].record + since_flush'
    BY <1>1, <1>9, <2>1, CellFacts
  <2> QED
    BY <1>6, <1>9, <2>1, <2>2, <2>3
<1>10. CASE /\ buf' = buf \o NextRecord /\ w = <<>> /\ received' = received + 1
            /\ since_flush' = since_flush + 1 /\ running'
            /\ Len(buf) + RecordSize <= BufCapacity
  <2>1. /\ buf' \in Seq(Cells) /\ Len(buf') <= BufCapacity
        /\ \A j \in DOMAIN buf' :
             \/ j \in DOMAIN buf /\ buf'[j] = buf[j]
             \/ j - Len(buf) \in DOMAIN NextRecord /\ buf'[j] = NextRecord[j - Len(buf)]
    <3>1. buf \in Seq(Cells) /\ NextRecord \in Seq(Cells) /\ Len(NextRecord) = RecordSize
          /\ Len(buf) + RecordSize <= BufCapacity
      BY <1>10, CellFacts, Zenon
    <3>2. /\ buf \o NextRecord \in Seq(Cells)
          /\ Len(buf \o NextRecord) = Len(buf) + Len(NextRecord)
          /\ \A j \in DOMAIN (buf \o NextRecord) :
               \/ j \in DOMAIN buf /\ (buf \o NextRecord)[j] = buf[j]
               \/ /\ j - Len(buf) \in DOMAIN NextRecord
                  /\ (buf \o NextRecord)[j] = NextRecord[j - Len(buf)]
      BY <3>1, ConcatIs, Zenon
    <3>3. buf' = buf \o NextRecord
      BY <1>10
    <3> QED
      BY <3>1, <3>2, <3>3, Zenon
  <2>2. \A j \in DOMAIN buf' : \/ j \in DOMAIN buf /\ buf'[j] = buf[j]
                               \/ buf'[j].record = received + 1
    <3>1. \A j \in DOMAIN NextRecord : NextRecord[j].record = received + 1
      BY CellFacts
    <3> QED
      BY <2>1, <3>1
  <2>3. \A j \in DOMAIN buf : /\ buf[j].record \in 1..received
                              /\ received < buf[j].record + since_flush
    BY DEF CellInv, Buffered
  <2>4. \A j \in DOMAIN buf' : /\ buf'[j].record \in 1..received'
                               /\ received' < buf'[j].record + since_flush'
    BY SMTT(30), <1>1, <1>10, <2>2, <2>3, CellFacts
  <2>5. file' = file
    BY <1>1, <1>10
  <2>6. \A i \in DOMAIN file', j \in DOMAIN buf' : file'[i].record < buf'[j].record
    <3>1. \A i \in DOMAIN file : /\ file[i].record \in Nat /\ file[i].record <= received
                                /\ \A j \in DOMAIN buf : file[i].record < buf[j].record
      BY CellFacts DEF CellInv, Written, Buffered
    <3> QED
      <4> SUFFICES ASSUME NEW i \in DOMAIN file, NEW j \in DOMAIN buf'
                   PROVE  file[i].record < buf'[j].record
        BY <2>5, Zenon
      <4>1. received \in Nat /\ file[i].record \in Nat /\ file[i].record <= received
        BY <3>1, CellFacts, Zenon
      <4>2. CASE j \in DOMAIN buf /\ buf'[j] = buf[j]
        BY <3>1, <4>2, Zenon
      <4>3. CASE buf'[j].record = received + 1
        BY <4>1, <4>3
      <4> QED
        BY <2>2, <4>2, <4>3, Zenon
  <2> QED
    BY <1>6, <1>10, <2>1, <2>4, <2>6
<1> QED
  BY <1>8, <1>9, <1>10

\* A write that is cut short leaves part of it in the file, and the buffer is
\* gone with the tool.
LEMMA CutKeepsCells ==
  ASSUME CellInv, running, NEW w \in {<<>>, buf, buf \o NextRecord}, Cut(w),
         received' \in {received, received + 1}, received' \in 0..MaxTrades,
         w = buf \o NextRecord => received' = received + 1,
         runs' = runs
  PROVE  CellInv'
<1>1. /\ running' = FALSE /\ buf' = <<>> /\ since_flush' = 0
      /\ durable' = durable
  BY DEF Cut, WritePart, Stop
<1>2. PICK k \in 0..Len(w) :
        /\ file' = file \o SubSeq(w, 1, k)
        /\ torn' = IF torn # 0 \/ k % RecordSize = 0 THEN torn ELSE runs
  BY DEF Cut, WritePart
<1>3. /\ w \in Seq(Cells) /\ received \in Nat /\ received' \in Nat /\ received' >= received
      /\ \A i \in DOMAIN w : w[i].record \in 1..received'
  <2>1. received \in Nat /\ received' \in Nat /\ received' >= received
    <3>1. received \in Nat
      BY CellFacts, Zenon
    <3> QED
      BY <3>1
  <2>2. /\ w \in Seq(Cells)
        /\ \A i \in DOMAIN w : w[i].record \in 1..(received + 1)
        /\ w # buf \o NextRecord => \A i \in DOMAIN w : w[i].record \in 1..received
    BY WriteCells, Zenon
  <2>3. \A i \in DOMAIN w : w[i].record \in 1..received'
    <3>1. CASE received' = received + 1
      BY <2>2, <3>1, Zenon
    <3>2. CASE received' = received
      <4>1. received # received + 1
        BY <2>1
      <4>2. w # buf \o NextRecord
        BY <3>2, <4>1, Zenon
      <4> QED
        BY <2>2, <3>2, <4>2, Zenon
    <3> QED
      BY <3>1, <3>2
  <2> QED
    BY <2>1, <2>2, <2>3, Zenon
<1> DEFINE p == SubSeq(w, 1, k)
<1>4. p \in Seq(Cells) /\ \A i \in DOMAIN p : p[i] = w[i] /\ i \in DOMAIN w
  BY <1>3, PrefixIs
<1>5. file' = file \o p
  BY <1>2
<1> HIDE DEF p
<1>6. \A i \in DOMAIN p : p[i].record \in 1..received'
  BY <1>3, <1>4
<1>7. Written' /\ file' \in Seq(Cells)
  BY <1>3, <1>4, <1>5, <1>6, AppendKeepsWritten
<1>8. /\ torn \in 0..runs /\ runs \in 0..MaxRuns /\ durable \subseteq 1..received
      /\ BufCapacity \in Nat
  BY CaptureAssumption DEF CellInv, TypeOK
<1>9. TypeOK'
  <2>1. torn' \in 0..runs'
    BY <1>2, <1>8
  <2>2. durable' \subseteq 1..received'
    BY <1>1, <1>3, <1>8
  <2>3. running' \in BOOLEAN
    BY <1>1, Zenon
  <2>4. buf' \in Seq(Cells) /\ Len(buf') <= BufCapacity /\ since_flush' \in Nat
    BY <1>1, <1>8
  <2>5. runs' \in 0..MaxRuns
    BY <1>8
  <2> QED
    BY <1>7, <2>1, <2>2, <2>3, <2>4, <2>5, Zenon DEF TypeOK
<1>10. Buffered'
  BY <1>1 DEF Buffered
<1> QED
  BY <1>7, <1>9, <1>10 DEF CellInv

-----------------------------------------------------------------------------
(* The steps *)

\* TradeRecorder::create: a new file gets its header before a trade, and an
\* existing one is appended to only behind a complete header.
LEMMA StartKeepsCells ==
  ASSUME CellInv, StartNew \/ StartNewFails \/ StartExisting
  PROVE  CellInv'
<1>1. /\ HeaderSize \in Nat /\ received \in Nat /\ BufCapacity \in Nat
      /\ Header \in Seq(Cells) /\ Len(Header) = HeaderSize
      /\ \A i \in 1..HeaderSize : Header[i].record = 0
  <2>1. HeaderSize \in Nat /\ received \in Nat /\ BufCapacity \in Nat
    BY CaptureAssumption, CellFacts
  <2>2. /\ Header \in Seq(Cells) /\ Len(Header) = HeaderSize
        /\ \A i \in 1..HeaderSize : Header[i] = [record |-> 0, part |-> i]
    BY <2>1, CellsOfIs, Zenon DEF Header
  <2> QED
    BY <2>1, <2>2
<1>2. /\ buf' = buf /\ since_flush' = since_flush /\ received' = received
      /\ durable' = durable /\ torn' = torn /\ runs' \in 0..MaxRuns /\ torn' \in 0..runs'
      /\ buf = <<>>
  BY CaptureAssumption
  DEF StartNew, StartNewFails, StartExisting, CellInv, TypeOK, Buffered
<1>3. running' \in BOOLEAN
  <2>1. running \in BOOLEAN /\ HeaderValid(file) \in BOOLEAN
    BY DEF CellInv, TypeOK, HeaderValid
  <2> QED
    BY <2>1, Zenon DEF StartNew, StartNewFails, StartExisting
<1>4. \/ file' = file
      \/ \E k \in 0..HeaderSize : file' = SubSeq(Header, 1, k) /\ (running' => k = HeaderSize)
  <2>1. CASE StartNew
    <3>1. SubSeq(Header, 1, HeaderSize) = Header
      BY <1>1
    <3>2. file' = Header
      BY <2>1, Zenon DEF StartNew
    <3> QED
      BY <1>1, <3>1, <3>2
  <2>2. CASE StartNewFails
    <3>1. PICK k \in 1..(HeaderSize - 1) : file' = SubSeq(Header, 1, k)
      BY <2>2 DEF StartNewFails
    <3>2. ~running'
      BY <2>2, Zenon DEF StartNewFails
    <3>3. k \in 0..HeaderSize
      BY <1>1
    <3> QED
      BY <3>1, <3>2, <3>3, Zenon
  <2>3. CASE StartExisting
    BY <2>3, Zenon DEF StartExisting
  <2> QED
    BY <2>1, <2>2, <2>3
<1>5. Written' /\ file' \in Seq(Cells)
  <2>1. CASE file' = file
    <3>1. running' => Len(file) >= HeaderSize
      <4>1. CASE StartExisting
        BY <4>1, Zenon DEF StartExisting, HeaderValid
      <4>2. CASE StartNew
        <5>1. file = Header
          BY <2>1, <4>2, Zenon DEF StartNew
        <5> QED
          BY <1>1, <5>1
      <4>3. CASE StartNewFails
        BY <4>3, Zenon DEF StartNewFails
      <4> QED
        BY <4>1, <4>2, <4>3
    <3>2. /\ \A i \in DOMAIN file : file[i].record <= received
          /\ RecordsFollowHeader /\ file \in Seq(Cells)
      BY DEF CellInv, Written, TypeOK
    <3>3. RecordsFollowHeader'
      BY <2>1, <3>2, Zenon DEF RecordsFollowHeader
    <3> QED
      BY <1>2, <2>1, <3>1, <3>2, <3>3, Zenon DEF Written
  <2>2. CASE \E k \in 0..HeaderSize :
               file' = SubSeq(Header, 1, k) /\ (running' => k = HeaderSize)
    <3>1. PICK k \in 0..HeaderSize :
                 file' = SubSeq(Header, 1, k) /\ (running' => k = HeaderSize)
      BY <2>2
    <3> DEFINE p == SubSeq(Header, 1, k)
    <3>2. /\ p \in Seq(Cells) /\ Len(p) = k /\ DOMAIN p = 1..k
          /\ \A i \in 1..k : p[i] = Header[i] /\ i \in 1..HeaderSize
      BY <1>1, PrefixIs
    <3> HIDE DEF p
    <3>3. file' = p
      BY <3>1 DEF p
    <3>4. \A i \in DOMAIN p : p[i].record <= received /\ ~(i > HeaderSize)
                              /\ p[i] = Header[i]
      BY <1>1, <3>2
    <3>5. RecordsFollowHeader'
      BY <3>3, <3>4, Zenon DEF RecordsFollowHeader
    <3>6. running' => Len(p) >= HeaderSize
      BY <1>1, <3>1, <3>2
    <3> QED
      BY <1>2, <3>2, <3>3, <3>4, <3>5, <3>6, Zenon DEF Written
  <2> QED
    BY <1>4, <2>1, <2>2
<1>6. TypeOK'
  BY <1>1, <1>2, <1>3, <1>5, Zenon DEF CellInv, TypeOK
<1>7. Buffered'
  BY <1>2 DEF CellInv, Buffered
<1> QED
  BY <1>5, <1>6, <1>7 DEF CellInv

\* recorder.record and the flush after flush_every trades.
LEMMA TradeKeepsCells ==
  ASSUME CellInv, RecordTrade
  PROVE  CellInv'
<1>1. /\ running /\ received < MaxTrades /\ received' = received + 1 /\ runs' = runs
      /\ \/ Done(buf \o NextRecord) /\ running' = running /\ buf' = <<>> /\ since_flush' = 0
         \/ /\ since_flush + 1 < FlushEvery /\ since_flush' = since_flush + 1
            /\ running' = running
            /\ \/ Done(buf) /\ buf' = NextRecord
               \/ /\ Done(<<>>) /\ buf' = buf \o NextRecord
                  /\ Len(buf) + RecordSize <= BufCapacity
         \/ Cut(buf) \/ Cut(buf \o NextRecord)
  BY RecordTradeOutcome DEF CellInv
<1>2. /\ received' \in {received, received + 1} /\ received' \in 0..MaxTrades
      /\ since_flush \in Nat /\ since_flush + 1 \in Nat
  <2>1. received \in Nat /\ since_flush \in Nat /\ MaxTrades \in Nat
    BY CellFacts, CaptureAssumption
  <2>2. received < MaxTrades /\ received' = received + 1
    BY <1>1, Zenon
  <2> QED
    BY <2>1, <2>2
<1>3. running \in BOOLEAN
  BY DEF CellInv, TypeOK
<1>4. CASE Done(buf \o NextRecord) /\ running' = running /\ buf' = <<>> /\ since_flush' = 0
  <2>1. running' \in BOOLEAN
    BY <1>3, <1>4, Zenon
  <2>2. since_flush' \in Nat
    BY <1>4
  <2> QED
    BY <1>1, <1>2, <1>4, <2>1, <2>2, DoneKeepsCells, Zenon
<1>5. CASE /\ since_flush + 1 < FlushEvery /\ since_flush' = since_flush + 1
           /\ running' = running
           /\ \/ Done(buf) /\ buf' = NextRecord
              \/ /\ Done(<<>>) /\ buf' = buf \o NextRecord
                 /\ Len(buf) + RecordSize <= BufCapacity
  <2>1. running' \in BOOLEAN /\ running'
    BY <1>1, <1>3, <1>5, Zenon
  <2>2. since_flush' \in Nat /\ since_flush' < FlushEvery
    BY <1>2, <1>5, Zenon
  <2>3. CASE Done(buf) /\ buf' = NextRecord
    BY <1>1, <1>2, <1>5, <2>1, <2>2, <2>3, DoneKeepsCells, Zenon
  <2>4. CASE /\ Done(<<>>) /\ buf' = buf \o NextRecord
             /\ Len(buf) + RecordSize <= BufCapacity
    BY <1>1, <1>2, <1>5, <2>1, <2>2, <2>4, DoneKeepsCells, Zenon
  <2> QED
    BY <1>5, <2>3, <2>4
<1>6. CASE Cut(buf) \/ Cut(buf \o NextRecord)
  BY <1>1, <1>2, <1>6, CutKeepsCells, Zenon
<1> QED
  BY <1>1, <1>4, <1>5, <1>6, Zenon

\* The flush of the timer, and the last one before the tool returns.
LEMMA FlushKeepsCells ==
  ASSUME CellInv, PeriodicFlush \/ Finish
  PROVE  CellInv'
<1>1. /\ running /\ received' = received /\ runs' = runs
      /\ \/ Done(buf) /\ running' = running /\ buf' = <<>> /\ since_flush' = 0
         \/ Done(buf) /\ Stop
         \/ Cut(buf)
  BY FlushOutcome
<1>2. /\ received' \in {received, received + 1} /\ received' \in 0..MaxTrades
      /\ running \in BOOLEAN
  <2>1. received \in 0..MaxTrades /\ running \in BOOLEAN
    BY DEF CellInv, TypeOK
  <2> QED
    BY <1>1, <2>1, Zenon
<1>3. buf = buf \o NextRecord => FALSE
  <2>1. buf \in Seq(Cells) /\ NextRecord \in Seq(Cells) /\ Len(NextRecord) = RecordSize
        /\ Len(buf) \in Nat /\ RecordSize \in Nat /\ RecordSize # 0
    BY CellFacts, CaptureAssumption
  <2>2. Len(buf \o NextRecord) = Len(buf) + RecordSize
    BY <2>1, ConcatIs, Zenon
  <2>3. Len(buf) + RecordSize # Len(buf)
    BY <2>1
  <2> QED
    BY <2>2, <2>3, Zenon
<1>4. CASE Done(buf) /\ (running' = running \/ running' = FALSE)
           /\ buf' = <<>> /\ since_flush' = 0
  <2>1. running' \in BOOLEAN
    BY <1>2, <1>4, Zenon
  <2>2. since_flush' \in Nat
    BY <1>4
  <2> QED
    BY <1>1, <1>2, <1>3, <1>4, <2>1, <2>2, DoneKeepsCells, Zenon
<1>5. CASE Cut(buf)
  BY <1>1, <1>2, <1>3, <1>5, CutKeepsCells, Zenon
<1> QED
  BY <1>1, <1>4, <1>5, Zenon DEF Stop

\* Killed outside a write, the tool loses its buffer and nothing else.
LEMMA KillKeepsCells ==
  ASSUME CellInv, Kill
  PROVE  CellInv'
<1>1. /\ file' = file /\ buf' = <<>> /\ since_flush' = 0 /\ received' = received
      /\ durable' = durable /\ runs' = runs /\ torn' = torn
  BY DEF Kill, Stop
<1>2. ~running' /\ running' \in BOOLEAN
  BY Zenon DEF Kill, Stop
<1>3. buf' \in Seq(Cells) /\ Len(buf') <= BufCapacity /\ since_flush' \in Nat
  BY <1>1, CaptureAssumption
<1>4. TypeOK'
  BY <1>1, <1>2, <1>3, Zenon DEF CellInv, TypeOK
<1>5. Buffered'
  BY <1>1 DEF Buffered
<1>6. Written'
  BY <1>1, <1>2, Zenon DEF CellInv, Written, RecordsFollowHeader
<1> QED
  BY <1>4, <1>5, <1>6 DEF CellInv

\* CellInv is inductive: through runs that end in any way, and start again on
\* the same file.
THEOREM CellInductive == Spec => []CellInv
<1>1. Init => CellInv
  <2> SUFFICES ASSUME Init PROVE CellInv
    OBVIOUS
  <2>1. running \in BOOLEAN /\ ~running
    BY Zenon DEF Init
  <2>2. /\ file = <<>> /\ buf = <<>> /\ since_flush = 0 /\ received = 0 /\ durable = {}
        /\ runs = 0 /\ torn = 0
    BY DEF Init
  <2>3. TypeOK
    BY <2>1, <2>2, CaptureAssumption DEF TypeOK
  <2>4. Buffered
    BY <2>2 DEF Buffered
  <2>5. Written
    BY <2>1, <2>2 DEF Written, RecordsFollowHeader
  <2> QED
    BY <2>3, <2>4, <2>5 DEF CellInv
<1>2. CellInv /\ [Next]_vars => CellInv'
  <2> SUFFICES ASSUME CellInv, [Next]_vars PROVE CellInv'
    OBVIOUS
  <2>1. CASE StartNew \/ StartNewFails \/ StartExisting
    BY <2>1, StartKeepsCells
  <2>2. CASE RecordTrade
    BY <2>2, TradeKeepsCells
  <2>3. CASE PeriodicFlush \/ Finish
    BY <2>3, FlushKeepsCells
  <2>4. CASE Kill
    BY <2>4, KillKeepsCells
  <2>5. CASE UNCHANGED vars
    BY <2>5, Zenon
    DEF vars, CellInv, TypeOK, Buffered, Written, RecordsFollowHeader
  <2> QED
    BY <2>1, <2>2, <2>3, <2>4, <2>5 DEF Next
<1> QED
  BY <1>1, <1>2, PTL DEF Spec

\* The tool's state is well typed: the buffer never outgrows the BufWriter's
\* capacity, and only trades that were received are reported as written.
THEOREM CaptureTypeCorrect == Spec => []TypeOK
<1>1. CellInv => TypeOK
  BY DEF CellInv
<1> QED
  BY <1>1, CellInductive, PTL

\* TradeRecorder::create: never a second header, never a record without one.
THEOREM HeaderComesFirst == Spec => []RecordsFollowHeader
<1>1. CellInv => RecordsFollowHeader
  BY DEF CellInv, Written
<1> QED
  BY <1>1, CellInductive, PTL

\* main.rs:11-15: a kill costs less than flush_every trades, those still in
\* the buffer, whatever its capacity.
THEOREM KillCostsLittle == Spec => []KillCostsLessThanFlushEvery
<1>1. CellInv => KillCostsLessThanFlushEvery
  <2> SUFFICES ASSUME CellInv
               PROVE  /\ Cardinality(Trades(buf)) <= since_flush
                      /\ since_flush < FlushEvery \/ since_flush = 0
                      /\ Trades(buf) \cap Trades(file) = {}
    BY DEF KillCostsLessThanFlushEvery
  <2>1. since_flush \in Nat /\ received \in Nat
    BY CellFacts
  <2> DEFINE counted == (received - since_flush + 1)..received
  <2>2. Trades(buf) \subseteq counted
    <3>1. \A j \in DOMAIN buf : buf[j].record \in counted
      BY <2>1 DEF CellInv, Buffered
    <3> HIDE DEF counted
    <3> QED
      BY <3>1 DEF Trades
  <2>3. IsFiniteSet(counted) /\ Cardinality(counted) = since_flush
    BY <2>1, FS_Interval
  <2>4. Cardinality(Trades(buf)) <= since_flush
    <3> HIDE DEF counted
    <3> QED
      BY <2>2, <2>3, FS_Subset
  <2>5. since_flush < FlushEvery \/ since_flush = 0
    BY DEF CellInv, Buffered
  <2>6. Trades(buf) \cap Trades(file) = {}
    <3> SUFFICES ASSUME NEW t \in Trades(buf), t \in Trades(file) PROVE FALSE
      OBVIOUS
    <3>1. PICK j \in DOMAIN buf : t = buf[j].record
      BY DEF Trades
    <3>2. PICK i \in DOMAIN file : t = file[i].record
      BY DEF Trades
    <3>3. file[i].record < buf[j].record /\ buf[j].record \in Nat
      BY CellFacts DEF CellInv, Buffered
    <3> QED
      BY <3>1, <3>2, <3>3
  <2> QED
    BY <2>4, <2>5, <2>6
<1> QED
  BY <1>1, CellInductive, PTL

-----------------------------------------------------------------------------
(* Offsets *)

\* The cells of n records
Off(n) == n * RecordSize

\* Offsets add up, and the records they separate do not overlap.
LEMMA OffFacts ==
  /\ RecordSize \in Nat /\ RecordSize >= 1
  /\ Off(0) = 0
  /\ \A n \in Nat : Off(n) \in Nat /\ Off(n + 1) = Off(n) + RecordSize
  /\ \A m, n \in Nat : Off(m + n) = Off(m) + Off(n)
  /\ \A m, n \in Nat : m < n => Off(m) + RecordSize <= Off(n)
<1>1. RecordSize \in Nat /\ RecordSize >= 1
  BY CaptureAssumption
<1>2. Off(0) = 0
  BY <1>1 DEF Off
<1>3. \A n \in Nat : Off(n) \in Nat /\ Off(n + 1) = Off(n) + RecordSize
  BY <1>1 DEF Off
<1>4. \A m, n \in Nat : Off(m + n) = Off(m) + Off(n)
  BY <1>1 DEF Off
<1>5. ASSUME NEW m \in Nat, NEW n \in Nat, m < n
      PROVE  Off(m) + RecordSize <= Off(n)
  <2>1. n = (m + 1) + (n - (m + 1)) /\ m + 1 \in Nat /\ n - (m + 1) \in Nat
    BY <1>5
  <2>2. Off(n) = Off(m + 1) + Off(n - (m + 1))
    BY <1>4, <2>1
  <2>3. Off(n - (m + 1)) \in Nat /\ Off(m + 1) = Off(m) + RecordSize /\ Off(m) \in Nat
    BY <1>3, <2>1
  <2> QED
    BY <1>1, <2>2, <2>3
<1> QED
  BY <1>1, <1>2, <1>3, <1>4, <1>5

\* Dividing a number of cells by the size of a record.
LEMMA DivideCells ==
  ASSUME NEW k \in Nat
  PROVE  /\ k \div RecordSize \in Nat
         /\ k % RecordSize \in 0..(RecordSize - 1)
         /\ k = Off(k \div RecordSize) + (k % RecordSize)
<1> DEFINE R == RecordSize
<1>1. R \in Nat /\ R >= 1
  BY CaptureAssumption
<1> HIDE DEF R
<1>2. k \div R \in Nat /\ k % R \in 0..(R - 1) /\ k = (k \div R) * R + (k % R)
  BY <1>1
<1> QED
  BY <1>2 DEF Off, R

\* ... and there is only one way to divide.
LEMMA DivideIs ==
  ASSUME NEW q \in Nat, NEW r \in 0..(RecordSize - 1)
  PROVE  /\ (Off(q) + r) \div RecordSize = q
         /\ (Off(q) + r) % RecordSize = r
<1> DEFINE k == Off(q) + r
           d == k \div RecordSize
           m == k % RecordSize
<1>1. k \in Nat /\ r \in Nat /\ RecordSize \in Nat /\ Off(q) \in Nat
  <2>1. RecordSize \in Nat /\ Off(q) \in Nat
    BY OffFacts, Zenon
  <2> QED
    BY <2>1
<1>2. d \in Nat /\ m \in 0..(RecordSize - 1) /\ k = Off(d) + m
  <2> HIDE DEF k
  <2> QED
    BY <1>1, DivideCells, Zenon
<1>3. k = Off(q) + r
  OBVIOUS
<1> HIDE DEF k, d, m
<1>4. ~(d < q)
  <2>1. d < q => Off(d) + RecordSize <= Off(q)
    BY <1>2, OffFacts
  <2>2. Off(d) \in Nat
    BY <1>2, OffFacts
  <2> QED
    BY <1>1, <1>2, <1>3, <2>1, <2>2
<1>5. ~(q < d)
  <2>1. q < d => Off(q) + RecordSize <= Off(d)
    BY <1>2, OffFacts
  <2>2. Off(d) \in Nat
    BY <1>2, OffFacts
  <2> QED
    BY <1>1, <1>2, <1>3, <2>1, <2>2
<1>6. d = q
  BY <1>2, <1>4, <1>5
<1>7. m = r
  BY <1>1, <1>2, <1>3, <1>6
<1> QED
  BY <1>3, <1>6, <1>7 DEF k, d, m

-----------------------------------------------------------------------------
(* Tapes: the trades whose whole records stand from an offset on *)

TapeAt(s, o, T) ==
  /\ o + Off(Len(T)) <= Len(s)
  /\ \A n \in 1..Len(T), p \in 1..RecordSize :
       s[o + Off(n - 1) + p] = [record |-> T[n], part |-> p]

\* Part p of record n lies within the first N records.
LEMMA CellOfPart ==
  ASSUME NEW N \in Nat, NEW n \in 1..N, NEW p \in 1..RecordSize
  PROVE  n - 1 \in Nat /\ Off(n - 1) \in Nat /\ Off(n - 1) + p \in 1..Off(N)
<1>1. n - 1 \in Nat /\ n - 1 < N /\ RecordSize \in Nat
  BY OffFacts
<1>2. Off(n - 1) \in Nat /\ Off(N) \in Nat /\ Off(n - 1) + RecordSize <= Off(N)
  BY <1>1, OffFacts
<1> QED
  BY <1>1, <1>2

\* A cell of the first N records is a part of one of them.
LEMMA PartOfCell ==
  ASSUME NEW N \in Nat, NEW i \in 1..Off(N)
  PROVE  \E n \in 1..N, p \in 1..RecordSize : i = Off(n - 1) + p
<1> DEFINE q == (i - 1) \div RecordSize
           r == (i - 1) % RecordSize
<1>1. Off(N) \in Nat /\ RecordSize \in Nat
  BY OffFacts
<1>2. i - 1 \in Nat
  BY <1>1
<1>3. q \in Nat /\ r \in 0..(RecordSize - 1) /\ i - 1 = Off(q) + r
  BY <1>2, DivideCells
<1> HIDE DEF q, r
<1>4. Off(q) \in Nat
  BY <1>3, OffFacts
<1>5. q < N
  <2>1. N < q => Off(N) + RecordSize <= Off(q)
    BY <1>3, OffFacts
  <2>2. Off(q) < Off(N)
    BY <1>1, <1>3, <1>4
  <2>3. N # q
    BY <1>1, <2>2
  <2> QED
    BY <1>1, <1>3, <1>4, <2>1, <2>2, <2>3
<1>6. q + 1 \in 1..N /\ r + 1 \in 1..RecordSize /\ (q + 1) - 1 = q /\ i = Off(q) + (r + 1)
  BY <1>1, <1>3, <1>4, <1>5
<1> QED
  BY <1>6, Zenon

\* ConcatIs, for trades
LEMMA TradesConcat ==
  ASSUME NEW T \in Seq(Nat), NEW U \in Seq(Nat)
  PROVE  /\ T \o U \in Seq(Nat)
         /\ Len(T) \in Nat /\ Len(U) \in Nat
         /\ Len(T \o U) = Len(T) + Len(U)
         /\ \A n \in 1..Len(T) : (T \o U)[n] = T[n]
         /\ \A n \in 1..Len(U) : (T \o U)[Len(T) + n] = U[n]
<1>1. Len(T) \in Nat /\ Len(U) \in Nat
  OBVIOUS
<1>2. T \o U \in Seq(Nat)
  BY ConcatProperties
<1>3. Len(T \o U) = Len(T) + Len(U)
  BY ConcatProperties
<1>4. \A i \in 1..(Len(T) + Len(U)) :
        (T \o U)[i] = IF i <= Len(T) THEN T[i] ELSE U[i - Len(T)]
  BY ConcatProperties
<1> DEFINE v == T \o U
<1> HIDE DEF v
<1>5. \A i \in 1..(Len(T) + Len(U)) : v[i] = IF i <= Len(T) THEN T[i] ELSE U[i - Len(T)]
  BY <1>4 DEF v
<1>6. \A n \in 1..Len(T) : v[n] = T[n]
  BY SMTT(30), <1>1, <1>5
<1>7. \A n \in 1..Len(U) : v[Len(T) + n] = U[n]
  <2> SUFFICES ASSUME NEW n \in 1..Len(U)
               PROVE  v[Len(T) + n] = U[n]
    OBVIOUS
  <2>1. /\ Len(T) + n \in 1..(Len(T) + Len(U)) /\ ~(Len(T) + n <= Len(T))
        /\ (Len(T) + n) - Len(T) = n
    BY <1>1
  <2> QED
    BY <1>5, <2>1
<1> QED
  BY <1>1, <1>2, <1>3, <1>6, <1>7 DEF v

\* A tape written behind a tape continues it.
LEMMA TapeJoin ==
  ASSUME NEW s \in Seq(Cells), NEW u \in Seq(Cells), NEW o \in Nat,
         NEW T \in Seq(Nat), NEW U \in Seq(Nat),
         TapeAt(s, o, T), Len(s) = o + Off(Len(T)), TapeAt(u, 0, U)
  PROVE  /\ TapeAt(s \o u, o, T \o U)
         /\ Len(s \o u) = (o + Off(Len(T))) + Len(u)
         /\ Off(Len(T \o U)) = Off(Len(T)) + Off(Len(U))
<1> DEFINE v == s \o u
           V == T \o U
<1>1. /\ v \in Seq(Cells) /\ Len(s) \in Nat /\ Len(u) \in Nat /\ Len(v) = Len(s) + Len(u)
      /\ DOMAIN s = 1..Len(s) /\ DOMAIN u = 1..Len(u)
      /\ \A i \in DOMAIN s : v[i] = s[i]
      /\ \A i \in DOMAIN u : v[Len(s) + i] = u[i]
  BY ConcatIs
<1>2. /\ V \in Seq(Nat) /\ Len(T) \in Nat /\ Len(U) \in Nat
      /\ Len(V) = Len(T) + Len(U)
      /\ \A n \in 1..Len(T) : V[n] = T[n]
      /\ \A n \in 1..Len(U) : V[Len(T) + n] = U[n]
  BY TradesConcat
<1> HIDE DEF v, V
<1>3. /\ Off(Len(V)) = Off(Len(T)) + Off(Len(U))
      /\ Off(Len(T)) \in Nat /\ Off(Len(U)) \in Nat /\ RecordSize \in Nat
  BY <1>2, OffFacts
<1>4. Off(Len(U)) <= Len(u)
  BY <1>1, <1>3 DEF TapeAt
<1>5. o + Off(Len(V)) <= Len(v)
  BY <1>1, <1>3, <1>4
<1>6. ASSUME NEW n \in 1..Len(V), NEW p \in 1..RecordSize
      PROVE  v[o + Off(n - 1) + p] = [record |-> V[n], part |-> p]
  <2>1. CASE n <= Len(T)
    <3>1. n \in 1..Len(T)
      BY <1>2, <2>1
    <3>2. Off(n - 1) \in Nat /\ Off(n - 1) + p \in 1..Off(Len(T))
      BY <1>2, <3>1, CellOfPart
    <3>3. o + Off(n - 1) + p \in 1..Len(s)
      BY SMTT(30), <1>3, <3>2
    <3>4. s[o + Off(n - 1) + p] = [record |-> T[n], part |-> p]
      BY <3>1 DEF TapeAt
    <3> QED
      BY <1>1, <1>2, <3>1, <3>3, <3>4, Zenon
  <2>2. CASE ~(n <= Len(T))
    <3> DEFINE m == n - Len(T)
    <3>1. m \in 1..Len(U) /\ n = Len(T) + m /\ m - 1 \in Nat
          /\ n - 1 = Len(T) + (m - 1)
      BY <1>2, <2>2
    <3> HIDE DEF m
    <3>2. Off(m - 1) \in Nat /\ Off(m - 1) + p \in 1..Off(Len(U))
      BY <1>2, <3>1, CellOfPart
    <3>3. Off(n - 1) = Off(Len(T)) + Off(m - 1)
      BY <1>2, <3>1, OffFacts
    <3>4. Off(m - 1) + p \in 1..Len(u)
      BY <1>1, <1>3, <1>4, <3>2
    <3>5. o + Off(n - 1) + p = Len(s) + (Off(m - 1) + p)
      <4>1. p \in Nat /\ Len(s) = o + Off(Len(T))
        BY <1>3
      <4> QED
        BY SMTT(30), <1>3, <3>2, <3>3, <4>1
    <3>6. u[Off(m - 1) + p] = [record |-> U[m], part |-> p]
      <4>1. u[0 + Off(m - 1) + p] = [record |-> U[m], part |-> p]
        BY <3>1 DEF TapeAt
      <4>2. 0 + Off(m - 1) + p = Off(m - 1) + p
        BY <1>3, <3>2
      <4> QED
        BY <4>1, <4>2
    <3>7. v[Len(s) + (Off(m - 1) + p)] = u[Off(m - 1) + p]
      BY <1>1, <3>4, Zenon
    <3>8. V[n] = U[m]
      BY <1>2, <3>1, Zenon
    <3> QED
      BY <3>5, <3>6, <3>7, <3>8, Zenon
  <2> QED
    BY <2>1, <2>2
<1>7. TapeAt(v, o, V)
  BY <1>5, <1>6 DEF TapeAt
<1> QED
  BY <1>1, <1>3, <1>7 DEF v, V

\* The first k cells of a tape are the whole records among them and, if k does
\* not divide, part of the next one.
LEMMA TapePrefix ==
  ASSUME NEW u \in Seq(Cells), NEW U \in Seq(Nat), TapeAt(u, 0, U),
         Len(u) = Off(Len(U)), NEW k \in 0..Len(u)
  PROVE  LET q == k \div RecordSize
             p == SubSeq(u, 1, k)
             P == SubSeq(U, 1, q)
         IN /\ q \in 0..Len(U) /\ p \in Seq(Cells) /\ Len(p) = k
            /\ P \in Seq(Nat) /\ Len(P) = q
            /\ \A n \in 1..q : P[n] = U[n]
            /\ TapeAt(p, 0, P)
            /\ k = Len(u) => q = Len(U)
<1> DEFINE q == k \div RecordSize
           p == SubSeq(u, 1, k)
           P == SubSeq(U, 1, q)
<1>1. Len(u) \in Nat /\ Len(U) \in Nat /\ k \in Nat
  OBVIOUS
<1>2. q \in Nat /\ k % RecordSize \in 0..(RecordSize - 1)
      /\ k = Off(q) + (k % RecordSize)
  BY <1>1, DivideCells, Zenon
<1>3. p \in Seq(Cells) /\ Len(p) = k /\ \A i \in 1..k : p[i] = u[i]
  BY PrefixIs
<1>4. q \in Nat /\ Off(q) \in Nat /\ Off(q) <= k /\ k < Off(q) + RecordSize
      /\ RecordSize \in Nat /\ Off(Len(U)) \in Nat
  <2>1. q \in Nat /\ Off(q) \in Nat /\ RecordSize \in Nat /\ Off(Len(U)) \in Nat
    BY <1>1, <1>2, OffFacts, Zenon
  <2> QED
    BY <1>2, <2>1
<1> HIDE DEF q
<1>5. q <= Len(U)
  <2>1. Len(U) < q => Off(Len(U)) + RecordSize <= Off(q)
    BY <1>1, <1>4, OffFacts, Zenon
  <2>2. Off(q) <= Off(Len(U))
    BY <1>1, <1>4
  <2>3. RecordSize >= 1
    BY OffFacts, Zenon
  <2> QED
    BY <1>1, <1>4, <2>1, <2>2, <2>3
<1>6. P \in Seq(Nat) /\ Len(P) = q /\ \A n \in 1..q : P[n] = U[n]
  <2>1. \A n \in 1..q : U[n] \in Nat
    BY <1>1, <1>4, <1>5, ElementOfSeq
  <2>2. P \in Seq(Nat)
    BY <1>1, <1>4, <1>5, <2>1, SubSeqProperties
  <2>3. Len(P) = q
    BY <1>1, <1>4, <1>5, <2>1, SubSeqProperties
  <2>4. \A n \in 1..(q - 1 + 1) : P[n] = U[1 + n - 1]
    BY <1>1, <1>4, <1>5, <2>1, SubSeqProperties
  <2>5. \A n \in 1..q : P[n] = U[n]
    BY <1>4, <2>4
  <2> QED
    BY <2>2, <2>3, <2>5
<1> HIDE DEF p, P
<1>7. 0 + Off(Len(P)) <= Len(p)
  BY <1>3, <1>4, <1>6
<1>8. ASSUME NEW n \in 1..q, NEW i \in 1..RecordSize
      PROVE  p[0 + Off(n - 1) + i] = [record |-> P[n], part |-> i]
  <2>1. n \in 1..Len(U)
    BY <1>1, <1>4, <1>5
  <2>2. u[0 + Off(n - 1) + i] = [record |-> U[n], part |-> i]
    BY <2>1, Zenon DEF TapeAt
  <2>3. Off(n - 1) \in Nat /\ Off(n - 1) + i \in 1..Off(q)
    BY <1>4, CellOfPart
  <2>4. 0 + Off(n - 1) + i \in 1..k
    BY <1>1, <1>4, <2>3
  <2> QED
    BY <1>3, <1>6, <2>2, <2>4, Zenon
<1>9. TapeAt(p, 0, P)
  BY <1>6, <1>7, <1>8, Zenon DEF TapeAt
<1>10. k = Len(u) => q = Len(U)
  <2> SUFFICES ASSUME k = Len(u) PROVE q = Len(U)
    OBVIOUS
  <2>1. Off(Len(U)) < Off(q) + RecordSize
    BY <1>1, <1>4
  <2>2. q < Len(U) => Off(q) + RecordSize <= Off(Len(U))
    BY <1>1, <1>4, OffFacts, Zenon
  <2> QED
    BY <1>1, <1>4, <1>5, <2>1, <2>2
<1> QED
  <2>1. q \in 0..Len(U)
    BY <1>1, <1>4, <1>5
  <2> QED
    BY <1>3, <1>6, <1>9, <1>10, <2>1, Zenon DEF q, p, P

\* The trades of the cells of a tape are those on the tape.
LEMMA TapeTrades ==
  ASSUME NEW u \in Seq(Cells), NEW U \in Seq(Nat), TapeAt(u, 0, U),
         Len(u) = Off(Len(U)), NEW t \in Trades(u)
  PROVE  \E n \in 1..Len(U) : U[n] = t
<1>1. PICK i \in DOMAIN u : t = u[i].record
  BY DEF Trades
<1>2. i \in 1..Off(Len(U)) /\ Len(U) \in Nat
  OBVIOUS
<1>3. PICK n \in 1..Len(U), p \in 1..RecordSize : i = Off(n - 1) + p
  BY <1>2, PartOfCell
<1>4. Off(n - 1) \in Nat /\ p \in Nat
  BY <1>2, CellOfPart
<1>5. u[0 + Off(n - 1) + p] = [record |-> U[n], part |-> p]
  BY Zenon DEF TapeAt
<1>6. 0 + Off(n - 1) + p = i
  BY <1>3, <1>4
<1> QED
  BY <1>1, <1>5, <1>6

\* Every trade on a tape has its cells in the file.
LEMMA TapeInFile ==
  ASSUME NEW s \in Seq(Cells), NEW o \in Nat, NEW T \in Seq(Nat), TapeAt(s, o, T),
         NEW n \in 1..Len(T)
  PROVE  \E i \in DOMAIN s : i > o /\ s[i].record = T[n]
<1>1. 1 \in 1..RecordSize /\ Len(T) \in Nat /\ Len(s) \in Nat /\ DOMAIN s = 1..Len(s)
  <2>1. RecordSize \in Nat /\ RecordSize >= 1
    BY OffFacts, Zenon
  <2> QED
    BY <2>1
<1>2. Off(n - 1) \in Nat /\ Off(n - 1) + 1 \in 1..Off(Len(T)) /\ Off(Len(T)) \in Nat
  BY <1>1, CellOfPart, OffFacts
<1>3. s[o + Off(n - 1) + 1] = [record |-> T[n], part |-> 1]
  BY <1>1, Zenon DEF TapeAt
<1>4. o + Off(Len(T)) <= Len(s)
  BY DEF TapeAt
<1>5. o + Off(n - 1) + 1 \in 1..Len(s) /\ o + Off(n - 1) + 1 > o
  BY <1>1, <1>2, <1>4
<1>6. s[o + Off(n - 1) + 1].record = T[n]
  BY <1>3
<1> QED
  BY <1>1, <1>5, <1>6, Zenon

\* Reading a file that holds a tape behind its header, and at most part of one
\* more record, yields the tape.
LEMMA ReplayIs ==
  ASSUME NEW f \in Seq(Cells), NEW T \in Seq(Nat), TapeAt(f, HeaderSize, T),
         NEW r \in 0..(RecordSize - 1), Len(f) = HeaderSize + Off(Len(T)) + r
  PROVE  /\ Replay(f) = [n \in 1..Len(T) |-> T[n]]
         /\ Truncated(f) <=> r # 0
<1>1. /\ HeaderSize \in Nat /\ RecordSize \in Nat /\ Len(T) \in Nat /\ r \in Nat
      /\ RecordSize >= 1 /\ Len(f) \in Nat
  BY CaptureAssumption
<1>2. Off(Len(T)) \in Nat
  BY <1>1, OffFacts, Zenon
<1>3. Len(f) - HeaderSize = Off(Len(T)) + r
  BY <1>1, <1>2
<1>4. WholeChunks(f) = Len(T) /\ (Truncated(f) <=> r # 0)
  <2>1. (Off(Len(T)) + r) \div RecordSize = Len(T) /\ (Off(Len(T)) + r) % RecordSize = r
    BY <1>1, DivideIs, Zenon
  <2>2. WholeChunks(f) = Len(T)
    BY <1>3, <2>1, Zenon DEF WholeChunks
  <2>3. Truncated(f) <=> r # 0
    BY <1>3, <2>1, Zenon DEF Truncated
  <2> QED
    BY <2>2, <2>3, Zenon
<1>5. ASSUME NEW n \in 1..Len(T)
      PROVE  Chunk(f, n) = Record(T[n]) /\ Chunk(f, n)[1].record = T[n]
  <2> DEFINE a == HeaderSize + Off(n - 1) + 1
             b == HeaderSize + Off(n)
             c == SubSeq(f, a, b)
  <2>1. /\ n - 1 \in Nat /\ n \in Nat /\ n = (n - 1) + 1
    BY <1>1
  <2>2. Off(n - 1) \in Nat /\ Off(n) \in Nat /\ Off(n) = Off(n - 1) + RecordSize
    <3>1. Off((n - 1) + 1) = Off(n - 1) + RecordSize
      BY <2>1, OffFacts, Zenon
    <3>2. Off(n - 1) \in Nat /\ Off(n) \in Nat
      BY <2>1, OffFacts, Zenon
    <3> QED
      BY <2>1, <3>1, <3>2, Zenon
  <2>3. T[n] \in Nat
    BY <1>1, ElementOfSeq
  <2>4. Off(n) <= Off(Len(T))
    <3>1. Off(n - 1) + RecordSize <= Off(Len(T))
      BY <1>1, <2>1, OffFacts
    <3> QED
      BY <2>2, <3>1
  <2>5. a \in 1..(b + 1) /\ b \in 0..Len(f) /\ (b - a) + 1 = RecordSize /\ a \in Nat /\ b \in Nat
    <3> DEFINE x == Off(n - 1)
               y == Off(n)
               z == Off(Len(T))
    <3>1. /\ x \in Nat /\ y \in Nat /\ y = x + RecordSize /\ y <= z /\ z \in Nat
          /\ Len(f) = HeaderSize + z + r
      BY <1>2, <2>2, <2>4, Zenon
    <3> HIDE DEF x, y, z
    <3>2. a = HeaderSize + x + 1 /\ b = HeaderSize + y
      BY Zenon DEF x, y
    <3> HIDE DEF a, b
    <3> QED
      BY <1>1, <3>1, <3>2
  <2>6. Chunk(f, n) = c
    <3>1. (n - 1) * RecordSize = Off(n - 1) /\ n * RecordSize = Off(n)
      BY DEF Off
    <3> QED
      BY <3>1, Zenon DEF Chunk
  <2> HIDE DEF a, b, c
  <2>7. \A i \in a..b : f[i] \in Cells
    BY <1>1, <2>5, ElementOfSeq
  <2>8. c \in Seq(Cells) /\ Len(c) = RecordSize
    BY <1>1, <2>5, <2>7, SubSeqProperties DEF c
  <2>9. \A i \in 1..RecordSize : c[i] = [record |-> T[n], part |-> i]
    <3>1. \A i \in 1..(b - a + 1) : c[i] = f[a + i - 1]
      BY <1>1, <2>5, <2>7, SubSeqProperties DEF c
    <3> SUFFICES ASSUME NEW i \in 1..RecordSize
                 PROVE  c[i] = [record |-> T[n], part |-> i]
      OBVIOUS
    <3>2. i \in 1..(b - a + 1)
      BY <2>5
    <3>3. a + i - 1 = HeaderSize + Off(n - 1) + i
      BY <1>1, <2>2 DEF a
    <3>4. f[HeaderSize + Off(n - 1) + i] = [record |-> T[n], part |-> i]
      BY Zenon DEF TapeAt
    <3> QED
      BY <3>1, <3>2, <3>3, <3>4, Zenon
  <2>10. /\ Record(T[n]) \in Seq(Cells) /\ Len(Record(T[n])) = RecordSize
         /\ \A i \in 1..RecordSize : Record(T[n])[i] = [record |-> T[n], part |-> i]
    BY <1>1, <2>3, CellsOfIs, Zenon DEF Record
  <2> DEFINE rec == Record(T[n])
  <2> HIDE DEF rec
  <2>11. c = rec
    <3>1. rec \in Seq(Cells) /\ Len(rec) = RecordSize
          /\ \A i \in 1..RecordSize : rec[i] = [record |-> T[n], part |-> i]
      BY <2>10, Zenon DEF rec
    <3> QED
      BY <2>8, <2>9, <3>1, SeqEqual
  <2>12. c[1].record = T[n]
    <3>1. c[1] = [record |-> T[n], part |-> 1]
      BY <1>1, <2>9
    <3> QED
      BY <3>1
  <2> QED
    BY <2>6, <2>11, <2>12, Zenon DEF rec
<1>6. Replay(f) = [n \in 1..Len(T) |-> T[n]]
  BY <1>4, <1>5, Zenon DEF Replay
<1> QED
  BY <1>4, <1>6

-----------------------------------------------------------------------------
(* Writes *)

Rising(T) == \A m, n \in 1..Len(T) : m < n => T[m] < T[n]

\* u is the tape U and nothing else.
Exactly(u, U) == TapeAt(u, 0, U) /\ Len(u) = Off(Len(U)) /\ Rising(U)

\* The trades of T come before those of U.
Before(T, U) == \A m \in 1..Len(T), n \in 1..Len(U) : T[m] < U[n]

Holds(V, T) == \A n \in 1..Len(T) : \E i \in 1..Len(V) : V[i] = T[n]

\* Later trades behind a rising tape keep it rising.
LEMMA RisingJoin ==
  ASSUME NEW T \in Seq(Nat), NEW U \in Seq(Nat), Rising(T), Rising(U), Before(T, U)
  PROVE  Rising(T \o U) /\ Holds(T \o U, T) /\ Holds(T \o U, U)
<1> DEFINE V == T \o U
<1>1. /\ V \in Seq(Nat) /\ Len(T) \in Nat /\ Len(U) \in Nat
      /\ Len(V) = Len(T) + Len(U)
      /\ \A n \in 1..Len(T) : V[n] = T[n]
      /\ \A n \in 1..Len(U) : V[Len(T) + n] = U[n]
  BY TradesConcat
<1> HIDE DEF V
<1>2. \A n \in 1..Len(V) : n \in 1..Len(T) \/ (n - Len(T) \in 1..Len(U)
                                               /\ V[n] = U[n - Len(T)])
  <2> SUFFICES ASSUME NEW n \in 1..Len(V), ~(n \in 1..Len(T))
               PROVE  n - Len(T) \in 1..Len(U) /\ V[n] = U[n - Len(T)]
    OBVIOUS
  <2> DEFINE m == n - Len(T)
  <2>1. m \in 1..Len(U) /\ Len(T) + m = n
    BY <1>1
  <2> HIDE DEF m
  <2>2. V[Len(T) + m] = U[m]
    BY <1>1, <2>1
  <2> QED
    BY <2>1, <2>2 DEF m
<1>3. Rising(V)
  <2> SUFFICES ASSUME NEW m \in 1..Len(V), NEW n \in 1..Len(V), m < n
               PROVE  V[m] < V[n]
    BY DEF Rising
  <2>1. CASE m \in 1..Len(T) /\ n \in 1..Len(T)
    BY <1>1, <2>1, Zenon DEF Rising
  <2>2. CASE m \in 1..Len(T) /\ n - Len(T) \in 1..Len(U) /\ V[n] = U[n - Len(T)]
    BY <1>1, <2>2, Zenon DEF Before
  <2>3. CASE /\ m - Len(T) \in 1..Len(U) /\ V[m] = U[m - Len(T)]
             /\ n - Len(T) \in 1..Len(U) /\ V[n] = U[n - Len(T)]
    <3>1. m - Len(T) < n - Len(T)
      BY <1>1
    <3> QED
      BY <2>3, <3>1, Zenon DEF Rising
  <2>4. ~(m - Len(T) \in 1..Len(U) /\ n \in 1..Len(T))
    BY <1>1
  <2> QED
    BY <1>2, <2>1, <2>2, <2>3, <2>4, Zenon
<1>4. Holds(V, T)
  <2>1. \A n \in 1..Len(T) : n \in 1..Len(V) /\ V[n] = T[n]
    BY <1>1
  <2> QED
    BY <2>1, Zenon DEF Holds
<1>5. Holds(V, U)
  <2>1. \A n \in 1..Len(U) : Len(T) + n \in 1..Len(V) /\ V[Len(T) + n] = U[n]
    BY <1>1
  <2> QED
    BY <2>1, Zenon DEF Holds
<1> QED
  BY <1>3, <1>4, <1>5 DEF V

\* A write of which k cells reach the file continues the file's tape by the
\* records that are whole.
LEMMA WriteContinues ==
  ASSUME NEW f \in Seq(Cells), NEW T \in Seq(Nat), TapeAt(f, HeaderSize, T),
         Len(f) = HeaderSize + Off(Len(T)), Rising(T),
         NEW w \in Seq(Cells), NEW W \in Seq(Nat), Exactly(w, W), Before(T, W),
         NEW k \in 0..Len(w)
  PROVE  \E V \in Seq(Nat) :
           LET g == f \o SubSeq(w, 1, k) IN
           /\ TapeAt(g, HeaderSize, V)
           /\ Len(g) = HeaderSize + Off(Len(V)) + (k % RecordSize)
           /\ Rising(V) /\ Holds(V, T)
           /\ k = Len(w) => Holds(V, W) /\ k % RecordSize = 0
<1> DEFINE q == k \div RecordSize
           r == k % RecordSize
           p == SubSeq(w, 1, k)
           P == SubSeq(W, 1, q)
           g == f \o p
           V == T \o P
<1>1. k \in Nat /\ Len(w) \in Nat /\ Len(W) \in Nat /\ HeaderSize \in Nat
      /\ Len(w) = Off(Len(W)) /\ Len(T) \in Nat
  BY CaptureAssumption DEF Exactly
<1>2. q \in Nat /\ r \in 0..(RecordSize - 1) /\ k = Off(q) + r
  BY <1>1, DivideCells, Zenon
<1>3. /\ q \in 0..Len(W) /\ p \in Seq(Cells) /\ Len(p) = k
      /\ P \in Seq(Nat) /\ Len(P) = q
      /\ \A n \in 1..q : P[n] = W[n]
      /\ TapeAt(p, 0, P)
      /\ k = Len(w) => q = Len(W)
  BY TapePrefix, Zenon DEF Exactly
<1> HIDE DEF q, r, p, P
<1>4. /\ TapeAt(g, HeaderSize, V)
      /\ Len(g) = (HeaderSize + Off(Len(T))) + Len(p)
      /\ Off(Len(V)) = Off(Len(T)) + Off(Len(P))
  <2>1. p \in Seq(Cells) /\ P \in Seq(Nat) /\ TapeAt(p, 0, P) /\ HeaderSize \in Nat
    BY <1>1, <1>3, Zenon
  <2> QED
    BY <2>1, TapeJoin
<1>5. Rising(P) /\ Before(T, P)
  <2>1. \A n \in 1..q : n \in 1..Len(W)
    BY <1>1, <1>2, <1>3
  <2> QED
    BY <1>3, <2>1, Zenon DEF Exactly, Rising, Before
<1>6. Rising(V) /\ Holds(V, T) /\ Holds(V, P) /\ V \in Seq(Nat)
  BY <1>3, <1>5, RisingJoin, TradesConcat, Zenon
<1> HIDE DEF g, V
<1>7. Len(g) = HeaderSize + Off(Len(V)) + r
  <2>1. Off(Len(T)) \in Nat /\ Off(q) \in Nat
    BY <1>1, <1>2, OffFacts, Zenon
  <2>2. r \in Nat
    BY <1>2
  <2> DEFINE x == Off(Len(T))
             y == Off(q)
             z == Off(Len(V))
  <2>3. x \in Nat /\ y \in Nat /\ Len(g) = (HeaderSize + x) + (y + r) /\ z = x + y
    BY <1>2, <1>3, <1>4, <2>1, Zenon
  <2> HIDE DEF x, y, z
  <2>4. Len(g) = HeaderSize + z + r
    BY <1>1, <2>2, <2>3
  <2> QED
    BY <2>4 DEF z
<1>8. k = Len(w) => Holds(V, W) /\ r = 0
  <2> SUFFICES ASSUME k = Len(w) PROVE Holds(V, W) /\ r = 0
    OBVIOUS
  <2>1. q = Len(W)
    BY <1>3, Zenon
  <2>2. Holds(V, W)
    BY <1>3, <1>6, <2>1, Zenon DEF Holds
  <2>3. Off(q) + r = Off(q) /\ Off(q) \in Nat /\ r \in Nat
    <3>1. Off(q) \in Nat
      BY <1>2, OffFacts, Zenon
    <3>2. Off(q) + r = Off(q)
      BY <1>1, <1>2, <2>1, Zenon
    <3> QED
      BY <1>2, <3>1, <3>2
  <2>4. r = 0
    BY <2>3
  <2> QED
    BY <2>2, <2>4
<1> QED
  BY <1>4, <1>6, <1>7, <1>8, Zenon DEF g, r, p

-----------------------------------------------------------------------------
(* The invariant *)

\* The file holds the tape T behind its header, and at its end part of one more
\* record if the last run left it there.
FileIs(T) ==
  /\ TapeAt(file, HeaderSize, T) /\ Rising(T)
  /\ torn = 0 => Len(file) = HeaderSize + Off(Len(T))
  /\ torn # 0 => \E r \in 1..(RecordSize - 1) : Len(file) = HeaderSize + Off(Len(T)) + r
  /\ \A t \in durable : \E n \in 1..Len(T) : T[n] = t

\* As long as no earlier run has torn a record, the file is a tape, and the
\* buffer holds whole records.
TapeInv ==
  /\ running => runs > 0 /\ (torn # 0 => torn < runs)
  /\ Len(file) < HeaderSize => durable = {}
  /\ Len(file) >= HeaderSize /\ (torn = 0 \/ torn = runs) => \E T \in Seq(Nat) : FileIs(T)
  /\ \E B \in Seq(Nat) : Exactly(buf, B)

\* What a write may consist of is a tape, whose trades come after the file's.
LEMMA WriteIsTape ==
  ASSUME CellInv, running, NEW B \in Seq(Nat), Exactly(buf, B),
         NEW w \in {<<>>, buf, NextRecord, buf \o NextRecord}
  PROVE  \E W \in Seq(Nat) :
           /\ Exactly(w, W)
           /\ \A T \in Seq(Nat) : TapeAt(file, HeaderSize, T) => Before(T, W)
<1>1. /\ file \in Seq(Cells) /\ buf \in Seq(Cells) /\ NextRecord \in Seq(Cells)
      /\ HeaderSize \in Nat /\ RecordSize \in Nat /\ received \in Nat
      /\ Len(NextRecord) = RecordSize
      /\ \A p \in 1..RecordSize : NextRecord[p] = [record |-> received + 1, part |-> p]
  BY CellFacts, Zenon
<1>2. ASSUME NEW T \in Seq(Nat), TapeAt(file, HeaderSize, T), NEW m \in 1..Len(T)
      PROVE  /\ T[m] \in Nat /\ T[m] <= received
             /\ \A j \in DOMAIN buf : T[m] < buf[j].record
  <2>1. PICK i \in DOMAIN file : file[i].record = T[m]
    BY <1>1, <1>2, TapeInFile, ZenonT(40)
  <2>2. /\ file[i].record \in Nat /\ file[i].record <= received
        /\ \A j \in DOMAIN buf : file[i].record < buf[j].record
    BY CellFacts, Zenon DEF CellInv, Written, Buffered
  <2> QED
    BY <2>1, <2>2, Zenon
<1>3. ASSUME NEW n \in 1..Len(B)
      PROVE  B[n] \in 1..received /\ \E j \in DOMAIN buf : buf[j].record = B[n]
  <2>1. PICK j \in DOMAIN buf : buf[j].record = B[n]
    <3>1. 0 \in Nat /\ TapeAt(buf, 0, B)
      BY DEF Exactly
    <3> QED
      BY <1>1, <3>1, TapeInFile, ZenonT(40)
  <2>2. buf[j].record \in 1..received
    BY DEF CellInv, Buffered
  <2> QED
    BY <2>1, <2>2, Zenon
<1> DEFINE E == <<>>
           N == <<received + 1>>
<1>4. /\ E \in Seq(Nat) /\ Exactly(<<>>, E)
      /\ \A T \in Seq(Nat) : TapeAt(file, HeaderSize, T) => Before(T, E)
  <2>1. E \in Seq(Nat) /\ Len(E) = 0 /\ 1..Len(E) = {}
    OBVIOUS
  <2>2. Off(Len(E)) = 0
    BY <2>1, OffFacts, Zenon
  <2>3. TapeAt(<<>>, 0, E)
    BY <2>1, <2>2 DEF TapeAt
  <2> QED
    BY <2>1, <2>2, <2>3 DEF Exactly, Rising, Before
<1>5. ASSUME NEW T \in Seq(Nat), TapeAt(file, HeaderSize, T)
      PROVE  Before(T, B)
  <2> SUFFICES ASSUME NEW m \in 1..Len(T), NEW n \in 1..Len(B)
               PROVE  T[m] < B[n]
    BY Zenon DEF Before
  <2> QED
    BY <1>2, <1>3, <1>5, Zenon
<1>6. /\ N \in Seq(Nat) /\ Exactly(NextRecord, N) /\ Len(N) = 1 /\ N[1] = received + 1
      /\ \A T \in Seq(Nat) : TapeAt(file, HeaderSize, T) => Before(T, N)
  <2>1. N \in Seq(Nat) /\ Len(N) = 1 /\ N[1] = received + 1
    BY <1>1
  <2> HIDE DEF N
  <2>2. Off(1) = RecordSize /\ Off(0) = 0
    <3>1. Off(0 + 1) = Off(0) + RecordSize /\ Off(0) = 0
      BY OffFacts
    <3> QED
      BY <1>1, <3>1
  <2>3. TapeAt(NextRecord, 0, N)
    <3>1. 0 + Off(Len(N)) <= Len(NextRecord)
      BY <1>1, <2>1, <2>2
    <3>2. ASSUME NEW n \in 1..Len(N), NEW p \in 1..RecordSize
          PROVE  NextRecord[0 + Off(n - 1) + p] = [record |-> N[n], part |-> p]
      <4>1. n = 1 /\ n - 1 = 0
        BY <2>1
      <4>2. 0 + Off(n - 1) + p = p
        <5>1. Off(n - 1) = 0
          BY <2>2, <4>1, Zenon
        <5> QED
          BY <1>1, <5>1
      <4> QED
        BY <1>1, <2>1, <4>1, <4>2, Zenon
    <3> QED
      BY <3>1, <3>2, Zenon DEF TapeAt
  <2>4. Rising(N)
    BY <2>1 DEF Rising
  <2>5. ASSUME NEW T \in Seq(Nat), TapeAt(file, HeaderSize, T)
        PROVE  Before(T, N)
    <3> SUFFICES ASSUME NEW m \in 1..Len(T), NEW n \in 1..Len(N)
                 PROVE  T[m] < N[n]
      BY Zenon DEF Before
    <3>1. T[m] \in Nat /\ T[m] <= received
      BY <1>2, <2>5, Zenon
    <3>2. N[n] = received + 1
      BY <2>1
    <3> QED
      BY <1>1, <3>1, <3>2
  <2> QED
    BY <1>1, <2>1, <2>2, <2>3, <2>4, <2>5, Zenon DEF Exactly
<1> HIDE DEF E, N
<1>7. /\ B \o N \in Seq(Nat) /\ Exactly(buf \o NextRecord, B \o N)
      /\ \A T \in Seq(Nat) : TapeAt(file, HeaderSize, T) => Before(T, B \o N)
  <2>1. Before(B, N)
    <3> SUFFICES ASSUME NEW m \in 1..Len(B), NEW n \in 1..Len(N)
                 PROVE  B[m] < N[n]
      BY Zenon DEF Before
    <3>1. N[n] = received + 1
      BY <1>6
    <3>2. B[m] \in 1..received
      BY <1>3
    <3> QED
      BY <1>1, <3>1, <3>2
  <2>2. Rising(B \o N)
    BY <1>6, <2>1, RisingJoin, Zenon DEF Exactly
  <2>3. /\ TapeAt(buf \o NextRecord, 0, B \o N)
        /\ Len(buf \o NextRecord) = (0 + Off(Len(B))) + Len(NextRecord)
        /\ Off(Len(B \o N)) = Off(Len(B)) + Off(Len(N))
    <3>1. /\ TapeAt(buf, 0, B) /\ Len(buf) = 0 + Off(Len(B)) /\ TapeAt(NextRecord, 0, N)
          /\ 0 \in Nat
      <4>1. Off(Len(B)) \in Nat
        BY OffFacts
      <4> QED
        BY <1>6, <4>1 DEF Exactly
    <3> QED
      <4>1. buf \in Seq(Cells) /\ NextRecord \in Seq(Cells) /\ N \in Seq(Nat)
        BY <1>1, <1>6, Zenon
      <4> QED
        BY <3>1, <4>1, TapeJoin
  <2>4. Len(buf \o NextRecord) = Off(Len(B \o N))
    <3> DEFINE x == Off(Len(B))
               y == Off(Len(N))
    <3>1. /\ x \in Nat /\ Len(NextRecord) = y
          /\ Len(buf \o NextRecord) = (0 + x) + y /\ Off(Len(B \o N)) = x + y
      <4>1. Len(NextRecord) = y
        BY <1>6, Zenon DEF Exactly
      <4>2. x \in Nat
        BY OffFacts
      <4> QED
        BY <2>3, <4>1, <4>2, Zenon
    <3> HIDE DEF x, y
    <3>2. 0 + x = x
      BY <3>1
    <3> QED
      BY <3>1, <3>2, Zenon
  <2>5. ASSUME NEW T \in Seq(Nat), TapeAt(file, HeaderSize, T)
        PROVE  Before(T, B \o N)
    <3>1. Before(T, B) /\ Before(T, N)
      BY <1>5, <1>6, <2>5, Zenon
    <3> DEFINE V == B \o N
    <3>2. /\ Len(B) \in Nat /\ Len(V) = Len(B) + 1 /\ V[Len(B) + 1] = N[1]
          /\ \A n \in 1..Len(B) : V[n] = B[n]
      <4>1. N \in Seq(Nat) /\ Len(N) = 1
        BY <1>6, Zenon
      <4>2. /\ Len(B) \in Nat /\ Len(V) = Len(B) + Len(N)
            /\ \A n \in 1..Len(B) : V[n] = B[n]
            /\ \A n \in 1..Len(N) : V[Len(B) + n] = N[n]
        BY <4>1, TradesConcat, Zenon
      <4>3. 1 \in 1..Len(N)
        BY <4>1
      <4> QED
        BY <4>1, <4>2, <4>3, Zenon
    <3> HIDE DEF V
    <3>3. ASSUME NEW m \in 1..Len(T), NEW n \in 1..Len(V) PROVE T[m] < V[n]
      <4>1. CASE n = Len(B) + 1
        <5>1. 1 \in 1..Len(N)
          BY <1>6
        <5> QED
          BY <3>1, <3>2, <4>1, <5>1, Zenon DEF Before
      <4>2. CASE n \in 1..Len(B)
        BY <3>1, <3>2, <4>2, Zenon DEF Before
      <4> QED
        BY <3>2, <4>1, <4>2
    <3> QED
      BY <3>3, Zenon DEF Before, V
  <2> QED
    BY <1>6, <2>2, <2>3, <2>4, <2>5, TradesConcat, Zenon DEF Exactly
<1> QED
  BY <1>4, <1>5, <1>6, <1>7, Zenon

-----------------------------------------------------------------------------
(* The steps *)

\* Writing k cells of w behind a file that is a tape.
LEMMA AppendToTape ==
  ASSUME CellInv, TapeInv, running, torn = 0,
         NEW w \in {<<>>, buf, buf \o NextRecord}, NEW k \in 0..Len(w)
  PROVE  \E V \in Seq(Nat) :
           LET g == file \o SubSeq(w, 1, k) IN
           /\ TapeAt(g, HeaderSize, V)
           /\ Len(g) = HeaderSize + Off(Len(V)) + (k % RecordSize)
           /\ Rising(V)
           /\ \A t \in durable : \E n \in 1..Len(V) : V[n] = t
           /\ k = Len(w) => /\ \A t \in Trades(w) : \E n \in 1..Len(V) : V[n] = t
                            /\ k % RecordSize = 0
<1>1. Len(file) >= HeaderSize
  BY DEF CellInv, Written
<1>2. PICK T \in Seq(Nat) : FileIs(T)
  BY <1>1, Zenon DEF TapeInv
<1>3. PICK B \in Seq(Nat) : Exactly(buf, B)
  BY Zenon DEF TapeInv
<1>4. w \in {<<>>, buf, NextRecord, buf \o NextRecord}
  OBVIOUS
<1>5. PICK W \in Seq(Nat) :
        /\ Exactly(w, W)
        /\ \A U \in Seq(Nat) : TapeAt(file, HeaderSize, U) => Before(U, W)
  BY <1>3, <1>4, WriteIsTape
<1>6. /\ TapeAt(file, HeaderSize, T) /\ Rising(T) /\ Len(file) = HeaderSize + Off(Len(T))
      /\ \A t \in durable : \E n \in 1..Len(T) : T[n] = t
  BY <1>2, Zenon DEF FileIs
<1>7. w \in Seq(Cells) /\ file \in Seq(Cells)
  BY WriteCells, CellFacts, Zenon
<1>8. Before(T, W)
  BY <1>5, <1>6, Zenon
<1> DEFINE g == file \o SubSeq(w, 1, k)
<1>9. PICK V \in Seq(Nat) :
        /\ TapeAt(g, HeaderSize, V)
        /\ Len(g) = HeaderSize + Off(Len(V)) + (k % RecordSize)
        /\ Rising(V) /\ Holds(V, T)
        /\ k = Len(w) => Holds(V, W) /\ k % RecordSize = 0
  BY <1>5, <1>6, <1>7, <1>8, WriteContinues
<1> HIDE DEF g
<1>10. \A t \in durable : \E n \in 1..Len(V) : V[n] = t
  BY <1>6, <1>9, Zenon DEF Holds
<1>11. k = Len(w) => \A t \in Trades(w) : \E n \in 1..Len(V) : V[n] = t
  <2>1. \A t \in Trades(w) : \E n \in 1..Len(W) : W[n] = t
    BY <1>5, <1>7, TapeTrades, Zenon DEF Exactly
  <2> QED
    BY <1>9, <2>1, Zenon DEF Holds
<1> QED
  BY <1>9, <1>10, <1>11, Zenon DEF g

\* A write that is reported as done.
LEMMA DoneKeepsTape ==
  ASSUME CellInv, TapeInv, running, NEW w \in {<<>>, buf, buf \o NextRecord}, Done(w),
         runs' = runs, buf' \in {<<>>, NextRecord, buf \o NextRecord}
  PROVE  TapeInv'
<1>1. /\ Len(file) >= HeaderSize /\ HeaderSize \in Nat /\ runs \in Nat /\ Len(file) \in Nat
      /\ w \in Seq(Cells) /\ file \in Seq(Cells) /\ Len(w) \in Nat
  <2>1. w \in Seq(Cells)
    BY WriteCells, Zenon
  <2>2. runs \in Nat
    BY CaptureAssumption DEF CellInv, TypeOK
  <2>3. Len(file) >= HeaderSize
    BY Zenon DEF CellInv, Written
  <2> QED
    BY <2>1, <2>2, <2>3, CellFacts, LenProperties
<1>2. file' = file \o w /\ durable' = durable \cup Trades(w) /\ torn' = torn
  BY Zenon DEF Done
<1>3. runs > 0 /\ (torn # 0 => torn < runs)
  BY Zenon DEF TapeInv
<1>4. running' => runs' > 0 /\ (torn' # 0 => torn' < runs')
  BY <1>2, <1>3, Zenon
<1>5. Len(file') >= HeaderSize /\ ~(Len(file') < HeaderSize)
  <2>1. Len(file \o w) = Len(file) + Len(w)
    BY <1>1, ConcatIs, Zenon
  <2>2. Len(file') = Len(file) + Len(w)
    BY <1>2, <2>1, Zenon
  <2> QED
    BY <1>1, <2>2
<1>6. ASSUME torn' = 0 \/ torn' = runs'
      PROVE  \E T \in Seq(Nat) : FileIs(T)'
  <2>1. torn = 0
    <3>1. ~(torn < torn)
      <4>1. torn \in Nat
        BY <1>1 DEF CellInv, TypeOK
      <4> QED
        BY <4>1
    <3> QED
      BY <1>2, <1>3, <1>6, <3>1, Zenon
  <2> DEFINE k == Len(w)
  <2>2. SubSeq(w, 1, k) = w
    BY <1>1
  <2>3. k \in 0..Len(w)
    BY <1>1
  <2>4. PICK V \in Seq(Nat) :
          LET g == file \o SubSeq(w, 1, k) IN
          /\ TapeAt(g, HeaderSize, V)
          /\ Len(g) = HeaderSize + Off(Len(V)) + (k % RecordSize)
          /\ Rising(V)
          /\ \A t \in durable : \E n \in 1..Len(V) : V[n] = t
          /\ k = Len(w) => /\ \A t \in Trades(w) : \E n \in 1..Len(V) : V[n] = t
                           /\ k % RecordSize = 0
    BY <2>1, <2>3, AppendToTape
  <2>5. /\ TapeAt(file', HeaderSize, V) /\ Rising(V)
        /\ Len(file') = HeaderSize + Off(Len(V)) + 0
        /\ \A t \in durable' : \E n \in 1..Len(V) : V[n] = t
    <3>1. file \o SubSeq(w, 1, k) = file'
      BY <1>2, <2>2, Zenon
    <3>2. /\ TapeAt(file', HeaderSize, V) /\ Rising(V)
          /\ Len(file') = HeaderSize + Off(Len(V)) + (k % RecordSize)
          /\ \A t \in durable : \E n \in 1..Len(V) : V[n] = t
          /\ \A t \in Trades(w) : \E n \in 1..Len(V) : V[n] = t
          /\ k % RecordSize = 0
      BY <2>4, <3>1, Zenon
    <3>3. \A t \in durable' : t \in durable \/ t \in Trades(w)
      BY <1>2, Zenon
    <3> QED
      BY <3>2, <3>3, Zenon
  <2>6. Len(file') = HeaderSize + Off(Len(V))
    <3>1. Off(Len(V)) \in Nat
      BY OffFacts
    <3> QED
      BY <1>1, <2>5, <3>1
  <2>7. FileIs(V)'
    BY <1>2, <2>1, <2>5, <2>6, Zenon DEF FileIs, TapeAt, Rising, Off
  <2> QED
    BY <2>7, Zenon
<1>7. \E B \in Seq(Nat) : Exactly(buf, B)'
  <2>1. PICK B \in Seq(Nat) : Exactly(buf, B)
    BY Zenon DEF TapeInv
  <2>2. \A u \in {<<>>, buf, NextRecord, buf \o NextRecord} :
          \E W \in Seq(Nat) : Exactly(u, W)
    BY <2>1, WriteIsTape, Zenon
  <2>3. \E W \in Seq(Nat) : Exactly(buf', W)
    BY <2>2
  <2> QED
    BY <2>3, Zenon DEF Exactly, TapeAt, Rising, Off
<1> QED
  BY <1>4, <1>5, <1>6, <1>7, Zenon DEF TapeInv

\* Nothing buffered is the empty tape.
LEMMA NothingBuffered ==
  ASSUME buf' = <<>>
  PROVE  \E B \in Seq(Nat) : Exactly(buf, B)'
<1> DEFINE E == <<>>
<1>1. E \in Seq(Nat) /\ Len(E) = 0 /\ 1..Len(E) = {}
  OBVIOUS
<1>2. Off(Len(E)) = 0
  BY <1>1, OffFacts, Zenon
<1>3. TapeAt(<<>>, 0, E)
  BY <1>1, <1>2 DEF TapeAt
<1>4. Exactly(<<>>, E)
  BY <1>1, <1>2, <1>3 DEF Exactly, Rising
<1> HIDE DEF E
<1>5. Exactly(buf', E)
  BY <1>4, Zenon
<1> QED
  BY <1>1, <1>5, Zenon DEF Exactly, TapeAt, Rising, Off

\* A write that is cut short: the first run to tear a record leaves a tape with
\* part of a record behind it, any later one finds nothing left to claim.
LEMMA CutKeepsTape ==
  ASSUME CellInv, TapeInv, running, NEW w \in {<<>>, buf, buf \o NextRecord}, Cut(w),
         runs' = runs
  PROVE  TapeInv'
<1>1. /\ Len(file) >= HeaderSize /\ HeaderSize \in Nat /\ runs \in Nat /\ Len(file) \in Nat
      /\ w \in Seq(Cells) /\ file \in Seq(Cells) /\ Len(w) \in Nat /\ torn \in Nat
  <2>1. w \in Seq(Cells)
    BY WriteCells, Zenon
  <2>2. runs \in Nat /\ torn \in Nat
    BY CaptureAssumption DEF CellInv, TypeOK
  <2>3. Len(file) >= HeaderSize
    BY Zenon DEF CellInv, Written
  <2> QED
    BY <2>1, <2>2, <2>3, CellFacts, LenProperties
<1>2. PICK k \in 0..Len(w) :
        /\ file' = file \o SubSeq(w, 1, k)
        /\ torn' = IF torn # 0 \/ k % RecordSize = 0 THEN torn ELSE runs
  BY Zenon DEF Cut, WritePart
<1>3. ~running'
  BY Zenon DEF Cut, Stop
<1>4. buf' = <<>> /\ durable' = durable
  BY Zenon DEF Cut, Stop, WritePart
<1>5. runs > 0 /\ (torn # 0 => torn < runs)
  BY Zenon DEF TapeInv
<1>6. ~(Len(file') < HeaderSize)
  <2>1. Len(file \o SubSeq(w, 1, k)) = Len(file) + k
    <3>1. SubSeq(w, 1, k) \in Seq(Cells) /\ Len(SubSeq(w, 1, k)) = k
      BY <1>1, PrefixIs, Zenon
    <3> QED
      BY <1>1, <3>1, ConcatIs, Zenon
  <2>2. Len(file') = Len(file) + k
    BY <1>2, <2>1, Zenon
  <2>3. k \in Nat
    BY <1>1
  <2> QED
    BY <1>1, <2>2, <2>3
<1>7. ASSUME torn' = 0 \/ torn' = runs'
      PROVE  \E T \in Seq(Nat) : FileIs(T)'
  <2>1. torn = 0
    <3>1. ~(torn < torn)
      BY <1>1
    <3>2. torn # 0 => torn' = torn
      BY <1>2, Zenon
    <3> QED
      BY <1>5, <1>7, <3>1, <3>2, Zenon
  <2>2. PICK V \in Seq(Nat) :
          LET g == file \o SubSeq(w, 1, k) IN
          /\ TapeAt(g, HeaderSize, V)
          /\ Len(g) = HeaderSize + Off(Len(V)) + (k % RecordSize)
          /\ Rising(V)
          /\ \A t \in durable : \E n \in 1..Len(V) : V[n] = t
          /\ k = Len(w) => /\ \A t \in Trades(w) : \E n \in 1..Len(V) : V[n] = t
                           /\ k % RecordSize = 0
    BY <2>1, AppendToTape
  <2> DEFINE r == k % RecordSize
  <2>3. /\ TapeAt(file', HeaderSize, V) /\ Rising(V)
        /\ Len(file') = HeaderSize + Off(Len(V)) + r
        /\ \A t \in durable' : \E n \in 1..Len(V) : V[n] = t
    BY <1>2, <1>4, <2>2, Zenon
  <2>4. r \in 0..(RecordSize - 1) /\ RecordSize \in Nat /\ Off(Len(V)) \in Nat
    <3>1. k \in Nat
      BY <1>1
    <3> QED
      BY <3>1, DivideCells, OffFacts, LenProperties
  <2>5. torn' = IF r = 0 THEN 0 ELSE runs
    BY <1>2, <2>1, Zenon
  <2> HIDE DEF r
  <2>6. torn' = 0 => Len(file') = HeaderSize + Off(Len(V))
    <3>1. torn' = 0 => r = 0
      BY <1>1, <1>5, <2>5
    <3>2. r = 0 => HeaderSize + Off(Len(V)) + r = HeaderSize + Off(Len(V))
      BY <1>1, <2>4
    <3> QED
      BY <2>3, <3>1, <3>2, Zenon
  <2>7. torn' # 0 => \E q \in 1..(RecordSize - 1) :
                       Len(file') = HeaderSize + Off(Len(V)) + q
    <3>1. torn' # 0 => r # 0
      BY <2>5, Zenon
    <3>2. r # 0 => r \in 1..(RecordSize - 1)
      BY <2>4
    <3> QED
      BY <2>3, <3>1, <3>2, Zenon
  <2>8. FileIs(V)'
    BY <2>3, <2>6, <2>7, Zenon DEF FileIs, TapeAt, Rising, Off
  <2> QED
    BY <2>8, Zenon
<1>8. \E B \in Seq(Nat) : Exactly(buf, B)'
  BY <1>4, NothingBuffered
<1> QED
  BY <1>3, <1>6, <1>7, <1>8, Zenon DEF TapeInv

\* TradeRecorder::create begins a tape, or goes on with the one it finds.
LEMMA StartKeepsTape ==
  ASSUME CellInv, TapeInv, StartNew \/ StartNewFails \/ StartExisting
  PROVE  TapeInv'
<1>1. /\ HeaderSize \in Nat /\ HeaderSize # 0 /\ runs \in Nat /\ torn \in Nat /\ torn <= runs
      /\ Header \in Seq(Cells) /\ Len(Header) = HeaderSize
  <2>1. HeaderSize \in Nat /\ HeaderSize # 0 /\ runs \in Nat /\ torn \in Nat /\ torn <= runs
    BY CaptureAssumption DEF CellInv, TypeOK
  <2>2. Header \in Seq(Cells) /\ Len(Header) = HeaderSize
    BY <2>1, CellsOfIs DEF Header
  <2> QED
    BY <2>1, <2>2
<1>2. /\ runs' = runs + 1 /\ torn' = torn /\ durable' = durable
  BY Zenon DEF StartNew, StartNewFails, StartExisting
<1>3. buf' = <<>>
  <2>1. ~running /\ buf' = buf
    BY Zenon DEF StartNew, StartNewFails, StartExisting
  <2> QED
    BY <2>1, Zenon DEF CellInv, Buffered
<1>4. runs' > 0 /\ torn' < runs' /\ torn' # runs'
  BY <1>1, <1>2
<1>5. \E B \in Seq(Nat) : Exactly(buf, B)'
  BY <1>3, NothingBuffered
<1>6. ASSUME /\ Len(file') < HeaderSize => durable = {}
             /\ Len(file') >= HeaderSize /\ torn = 0 => \E T \in Seq(Nat) : FileIs(T)'
      PROVE  TapeInv'
  BY <1>2, <1>4, <1>5, <1>6, Zenon DEF TapeInv
<1>7. CASE file' = file
  <2>1. Len(file') < HeaderSize => durable = {}
    BY <1>7, Zenon DEF TapeInv
  <2>2. ASSUME Len(file') >= HeaderSize, torn = 0
        PROVE  \E T \in Seq(Nat) : FileIs(T)'
    <3>1. PICK T \in Seq(Nat) : FileIs(T)
      BY <1>7, <2>2, Zenon DEF TapeInv
    <3>2. FileIs(T)'
      BY <1>2, <1>7, <3>1, Zenon DEF FileIs, TapeAt, Rising, Off
    <3> QED
      BY <3>2, Zenon
  <2> QED
    BY <1>6, <2>1, <2>2, Zenon
<1>8. CASE file = <<>> /\ (file' = Header \/ Len(file') < HeaderSize)
  <2>1. durable = {}
    <3>1. Len(file) < HeaderSize
      BY <1>1, <1>8
    <3> QED
      BY <3>1, Zenon DEF TapeInv
  <2>2. ASSUME file' = Header, torn = 0
        PROVE  \E T \in Seq(Nat) : FileIs(T)'
    <3> DEFINE E == <<>>
    <3>1. E \in Seq(Nat) /\ Len(E) = 0 /\ 1..Len(E) = {}
      OBVIOUS
    <3>2. Off(Len(E)) = 0
      BY <3>1, OffFacts, Zenon
    <3>3. TapeAt(Header, HeaderSize, E) /\ Rising(E) /\ Len(Header) = HeaderSize + Off(Len(E))
      BY <1>1, <3>1, <3>2 DEF TapeAt, Rising
    <3> HIDE DEF E
    <3>4. torn' = 0 /\ durable' = {}
      BY <1>2, <2>1, <2>2, Zenon
    <3>5. TapeAt(file', HeaderSize, E) /\ Len(file') = HeaderSize + Off(Len(E))
      BY <2>2, <3>3, Zenon
    <3>6. FileIs(E)'
      <4>1. \A t \in durable' : \E n \in 1..Len(E) : E[n] = t
        BY <3>4
      <4> QED
        BY <3>3, <3>4, <3>5, <4>1, Zenon DEF FileIs, TapeAt, Rising, Off
    <3> QED
      BY <3>1, <3>6, Zenon
  <2>3. file' = Header \/ ~(Len(file') >= HeaderSize)
    <3>1. CASE Len(file') < HeaderSize
      <4>1. ASSUME file' # Header PROVE Len(file') \in Nat
        <5>1. file' \in Seq(Cells)
          BY StartKeepsCells, Zenon DEF CellInv, TypeOK
        <5> QED
          BY <5>1, LenProperties
      <4> QED
        BY <1>1, <3>1, <4>1
    <3> QED
      BY <1>8, <3>1
  <2> QED
    BY <1>6, <2>1, <2>2, <2>3, Zenon
<1>9. file' = file \/ (file = <<>> /\ (file' = Header \/ Len(file') < HeaderSize))
  <2>1. CASE StartNewFails
    <3>1. PICK k \in 1..(HeaderSize - 1) : file' = SubSeq(Header, 1, k)
      BY <2>1 DEF StartNewFails
    <3>2. k \in 0..Len(Header) /\ k < HeaderSize
      BY <1>1
    <3>3. Len(SubSeq(Header, 1, k)) = k
      BY <1>1, <3>2, PrefixIs, Zenon
    <3>4. Len(file') < HeaderSize
      BY <3>1, <3>2, <3>3, Zenon
    <3>5. file = <<>>
      BY <2>1, Zenon DEF StartNewFails
    <3> QED
      BY <3>4, <3>5
  <2>2. CASE StartNew
    BY <2>2, Zenon DEF StartNew
  <2>3. CASE StartExisting
    BY <2>3, Zenon DEF StartExisting
  <2> QED
    BY <2>1, <2>2, <2>3
<1> QED
  BY <1>7, <1>8, <1>9, Zenon

\* A kill outside a write, or no step at all.
LEMMA QuietKeepsTape ==
  ASSUME TapeInv, UNCHANGED <<file, durable, runs, torn>>,
         buf' = <<>> \/ buf' = buf, running' => running
  PROVE  TapeInv'
<1>1. /\ file' = file /\ durable' = durable /\ runs' = runs /\ torn' = torn
  OBVIOUS
<1>2. \E B \in Seq(Nat) : Exactly(buf, B)'
  <2>1. CASE buf' = <<>>
    BY <2>1, NothingBuffered
  <2>2. CASE buf' = buf
    <3>1. PICK B \in Seq(Nat) : Exactly(buf, B)
      BY Zenon DEF TapeInv
    <3> QED
      BY <2>2, <3>1, Zenon DEF Exactly, TapeAt, Rising, Off
  <2> QED
    BY <2>1, <2>2
<1>3. ASSUME Len(file) >= HeaderSize /\ (torn = 0 \/ torn = runs)
      PROVE  \E T \in Seq(Nat) : FileIs(T)'
  <2>1. PICK T \in Seq(Nat) : FileIs(T)
    BY <1>3, Zenon DEF TapeInv
  <2>2. FileIs(T)'
    BY <1>1, <2>1, Zenon DEF FileIs, TapeAt, Rising, Off
  <2> QED
    BY <2>2, Zenon
<1>4. /\ running' => runs' > 0 /\ (torn' # 0 => torn' < runs')
      /\ Len(file') < HeaderSize => durable' = {}
  BY <1>1, Zenon DEF TapeInv
<1> QED
  BY <1>1, <1>2, <1>3, <1>4, Zenon DEF TapeInv

\* What the file and the buffer hold is a tape, through runs that end in any
\* way.
THEOREM TapeInductive == Spec => []TapeInv
<1>1. Init => TapeInv
  <2> SUFFICES ASSUME Init PROVE TapeInv
    OBVIOUS
  <2>1. ~running
    BY Zenon DEF Init
  <2>2. file = <<>> /\ buf = <<>> /\ durable = {}
    BY Zenon DEF Init
  <2>3. ~(Len(file) >= HeaderSize)
    BY <2>2, CaptureAssumption
  <2>4. \E B \in Seq(Nat) : Exactly(buf, B)
    <3> DEFINE E == <<>>
    <3>1. E \in Seq(Nat) /\ Len(E) = 0 /\ 1..Len(E) = {}
      OBVIOUS
    <3>2. Off(Len(E)) = 0
      BY <3>1, OffFacts, Zenon
    <3>3. TapeAt(<<>>, 0, E)
      BY <3>1, <3>2 DEF TapeAt
    <3>4. Exactly(<<>>, E)
      BY <3>1, <3>2, <3>3 DEF Exactly, Rising
    <3> QED
      BY <2>2, <3>1, <3>4, Zenon
  <2> QED
    BY <2>1, <2>2, <2>3, <2>4, Zenon DEF TapeInv
<1>2. CellInv /\ TapeInv /\ [Next]_vars => TapeInv'
  <2> SUFFICES ASSUME CellInv, TapeInv, [Next]_vars PROVE TapeInv'
    OBVIOUS
  <2>1. CASE StartNew \/ StartNewFails \/ StartExisting
    BY <2>1, StartKeepsTape
  <2>2. CASE RecordTrade
    <3>1. /\ running /\ runs' = runs
          /\ \/ /\ Done(buf \o NextRecord) \/ Done(buf) \/ Done(<<>>)
                /\ buf' \in {<<>>, NextRecord, buf \o NextRecord}
             \/ Cut(buf) \/ Cut(buf \o NextRecord)
      <4>1. TypeOK
        BY Zenon DEF CellInv
      <4> QED
        BY <2>2, <4>1, RecordTradeOutcome
    <3> QED
      BY <3>1, DoneKeepsTape, CutKeepsTape, Zenon
  <2>3. CASE PeriodicFlush \/ Finish
    <3>1. /\ running /\ runs' = runs
          /\ \/ Done(buf) /\ buf' \in {<<>>, NextRecord, buf \o NextRecord}
             \/ Cut(buf)
      <4>1. /\ running /\ runs' = runs
            /\ (Done(buf) /\ buf' = <<>>) \/ Cut(buf)
        BY <2>3, FlushOutcome, Zenon DEF Stop
      <4> QED
        BY <4>1
    <3> QED
      BY <3>1, DoneKeepsTape, CutKeepsTape, Zenon
  <2>4. CASE Kill
    <3>1. UNCHANGED <<file, durable, runs, torn>> /\ buf' = <<>>
      BY <2>4 DEF Kill, Stop
    <3>2. ~running'
      BY <2>4, Zenon DEF Kill, Stop
    <3> QED
      BY <3>1, <3>2, QuietKeepsTape
  <2>5. CASE UNCHANGED vars
    <3>1. UNCHANGED <<file, durable, runs, torn>> /\ buf' = buf
      BY <2>5 DEF vars
    <3>2. running' => running
      BY <2>5, Zenon DEF vars
    <3> QED
      BY <3>1, <3>2, QuietKeepsTape
  <2> QED
    BY <2>1, <2>2, <2>3, <2>4, <2>5 DEF Next
<1> QED
  BY <1>1, <1>2, CellInductive, PTL DEF Spec

\* capture.rs:13-16, main.rs:150-154: unless an earlier run left part of a
\* record, the file replays as trades in the order they came, every trade a
\* flush reported among them, and a cut tail is an error.
THEOREM TapeReplays == Spec => []ReplaysWhatWasFlushed
<1>1. CellInv /\ TapeInv => ReplaysWhatWasFlushed
  <2> SUFFICES ASSUME CellInv, TapeInv, HeaderValid(file), torn = 0 \/ torn = runs
               PROVE  /\ 0 \notin Range(Replay(file))
                      /\ Increasing(Replay(file))
                      /\ durable \subseteq Range(Replay(file))
                      /\ Truncated(file) <=> torn # 0
    BY Zenon DEF ReplaysWhatWasFlushed
  <2>1. Len(file) >= HeaderSize
    BY Zenon DEF HeaderValid
  <2>2. PICK T \in Seq(Nat) : FileIs(T)
    BY <2>1, Zenon DEF TapeInv
  <2>3. /\ file \in Seq(Cells) /\ HeaderSize \in Nat /\ RecordSize \in Nat
        /\ RecordSize >= 1 /\ Off(Len(T)) \in Nat /\ Len(file) \in Nat
    BY CellFacts, OffFacts, LenProperties
  <2>4. /\ TapeAt(file, HeaderSize, T) /\ Rising(T)
        /\ torn = 0 => Len(file) = HeaderSize + Off(Len(T))
        /\ torn # 0 => \E r \in 1..(RecordSize - 1) :
                         Len(file) = HeaderSize + Off(Len(T)) + r
        /\ \A t \in durable : \E n \in 1..Len(T) : T[n] = t
    BY <2>2, Zenon DEF FileIs
  <2>5. PICK r \in 0..(RecordSize - 1) :
          Len(file) = HeaderSize + Off(Len(T)) + r /\ (r # 0 <=> torn # 0)
    <3>1. CASE torn = 0
      <4>1. 0 \in 0..(RecordSize - 1) /\ Len(file) = HeaderSize + Off(Len(T)) + 0
        BY <2>3, <2>4, <3>1
      <4> QED
        BY <3>1, <4>1, Zenon
    <3>2. CASE torn # 0
      <4>1. PICK r \in 1..(RecordSize - 1) : Len(file) = HeaderSize + Off(Len(T)) + r
        BY <2>4, <3>2, Zenon
      <4>2. r \in 0..(RecordSize - 1) /\ r # 0
        BY <2>3
      <4> QED
        BY <3>2, <4>1, <4>2, Zenon
    <3> QED
      BY <3>1, <3>2
  <2>6. /\ Replay(file) = [n \in 1..Len(T) |-> T[n]]
        /\ Truncated(file) <=> r # 0
    BY <2>3, <2>4, <2>5, ReplayIs, Zenon
  <2> DEFINE R == [n \in 1..Len(T) |-> T[n]]
  <2>7. DOMAIN R = 1..Len(T) /\ \A n \in 1..Len(T) : R[n] = T[n]
    BY Zenon
  <2> HIDE DEF R
  <2>8. 0 \notin Range(R)
    <3> SUFFICES ASSUME NEW n \in 1..Len(T) PROVE T[n] # 0
      BY <2>7, Zenon DEF Range
    <3>1. PICK i \in DOMAIN file : i > HeaderSize /\ file[i].record = T[n]
      BY <2>3, <2>4, TapeInFile
    <3>2. RecordsFollowHeader
      BY Zenon DEF CellInv, Written
    <3> QED
      BY <3>1, <3>2, Zenon DEF RecordsFollowHeader
  <2>9. Increasing(R)
    BY <2>4, <2>7, Zenon DEF Increasing, Rising
  <2>10. durable \subseteq Range(R)
    <3> SUFFICES ASSUME NEW t \in durable PROVE t \in Range(R)
      BY Zenon
    <3>1. PICK n \in 1..Len(T) : T[n] = t
      BY <2>4, Zenon
    <3> QED
      BY <2>7, <3>1, Zenon DEF Range
  <2> QED
    BY <2>5, <2>6, <2>8, <2>9, <2>10, Zenon DEF R
<1> QED
  BY <1>1, CellInductive, TapeInductive, PTL
=============================================================================
