---------------------------- MODULE AdapterProofs ----------------------------
(***************************************************************************)
(* Proofs about Adapter, for every base delay, cap, set of frames and      *)
(* bound: the numbering of trades, and the pace of the reconnect loop.     *)
(*                                                                         *)
(* No property of the model is inductive as it stands.  The numbering      *)
(* rests on Counted (what was sent lies below the counter, and an open     *)
(* session has no gap up to it), the pace on Spaced and Ramped (how much   *)
(* sleep the attempts so far have cost, or are about to cost).             *)
(*                                                                         *)
(* The last sections are about parse_fixed8 (Fixed8), for every text, scale *)
(* and width: what the integer parser computes digit by digit is a sum of  *)
(* place values, and so is what a decimal means.                           *)
(***************************************************************************)
EXTENDS MCAdapter, Sums, SequenceTheorems

(* The powers of two next_delay uses *)

Pow == [n \in 0..20 |-> 2^n]

\* next_delay: 1 << n, for every exponent the code lets through.
LEMMA PowTable ==
  /\ Pow[0] = 1 /\ Pow[1] = 2 /\ Pow[2] = 4 /\ Pow[3] = 8 /\ Pow[4] = 16
  /\ Pow[5] = 32 /\ Pow[6] = 64 /\ Pow[7] = 128 /\ Pow[8] = 256
  /\ Pow[9] = 512 /\ Pow[10] = 1024 /\ Pow[11] = 2048 /\ Pow[12] = 4096
  /\ Pow[13] = 8192 /\ Pow[14] = 16384 /\ Pow[15] = 32768
  /\ Pow[16] = 65536 /\ Pow[17] = 131072 /\ Pow[18] = 262144
  /\ Pow[19] = 524288 /\ Pow[20] = 1048576
BY DEF Pow

\* attempt.min(20) takes one of 21 values.
LEMMA UpTo20 ==
  ASSUME NEW m \in 0..20
  PROVE  \/ m = 0 \/ m = 1 \/ m = 2 \/ m = 3 \/ m = 4 \/ m = 5 \/ m = 6
         \/ m = 7 \/ m = 8 \/ m = 9 \/ m = 10 \/ m = 11 \/ m = 12 \/ m = 13
         \/ m = 14 \/ m = 15 \/ m = 16 \/ m = 17 \/ m = 18 \/ m = 19 \/ m = 20
OBVIOUS

\* The factor of next_delay is at least one.
LEMMA PowType == \A m \in 0..20 : Pow[m] \in Nat /\ Pow[m] >= 1
BY UpTo20, PowTable

\* The factor of next_delay never falls from one attempt to the next.
LEMMA PowGrows == \A m, n \in 0..20 : m <= n => Pow[m] <= Pow[n]
<1> SUFFICES ASSUME NEW m \in 0..20, NEW n \in 0..20, m <= n
             PROVE  Pow[m] <= Pow[n]
  OBVIOUS
<1> QED
  BY UpTo20, PowTable

\* The delay of attempt n is base * Pow[n], capped.
LEMMA DelayByPow ==
  ASSUME TypeOK
  PROVE  /\ MinOf(attempt, 20) \in 0..20
         /\ NextDelay = MinOf(Base * Pow[MinOf(attempt, 20)], MaxDelay)
<1>1. MinOf(attempt, 20) \in 0..20
  BY DEF TypeOK, MinOf
<1>2. Pow[MinOf(attempt, 20)] = 2^MinOf(attempt, 20)
  BY <1>1, Zenon DEF Pow
<1> QED
  BY <1>1, <1>2, Zenon DEF NextDelay

\* next_delay is never shorter than the base delay, or the cap if that is
\* shorter, and never longer than the cap.
LEMMA DelayBounds ==
  ASSUME TypeOK
  PROVE  /\ NextDelay \in 0..MaxDelay
         /\ MinOf(Base, MaxDelay) <= NextDelay
<1> DEFINE m == MinOf(attempt, 20)
           p == Pow[m]
<1>1. p \in Nat /\ p >= 1
  BY DelayByPow, PowType
<1>2. NextDelay = MinOf(Base * p, MaxDelay)
  BY DelayByPow
<1> HIDE DEF p
<1>3. Base * p \in Nat /\ Base * p >= Base
  BY <1>1, AdapterAssumption
<1> QED
  BY <1>2, <1>3, AdapterAssumption DEF MinOf

-----------------------------------------------------------------------------
(* decode *)

\* decode of a batch without a bad trade: the whole batch.
LEMMA DecodeGood ==
  ASSUME NEW frame \in Frames, Bad(frame) = {}
  PROVE  Decode(frame) = [numbered |-> Len(frame),
                          trades |-> Numbered(Len(frame)), ok |-> TRUE]
BY DEF Decode

\* decode of a batch with a bad trade: nothing, but numbers are used up.
LEMMA DecodeBad ==
  ASSUME NEW frame \in Frames, Bad(frame) # {}
  PROVE  /\ Decode(frame).numbered \in 1..Len(frame)
         /\ Decode(frame).trades = <<>>
         /\ Decode(frame).ok = FALSE
<1>1. frame \in Seq({"ok", "bad"})
  BY AdapterAssumption
<1>2. Bad(frame) \subseteq 1..Len(frame) /\ Len(frame) \in Nat
  BY <1>1 DEF Bad
<1>3. \E i \in Bad(frame) : \A j \in Bad(frame) : i <= j
  BY <1>2, FirstOf
<1>4. (CHOOSE i \in Bad(frame) : \A j \in Bad(frame) : i <= j) \in Bad(frame)
  BY <1>3
<1> QED
  BY <1>2, <1>4 DEF Decode

\* The trades of one batch are numbered from the counter on, in one session.
LEMMA NumberedIs ==
  ASSUME TypeOK, NEW n \in Nat
  PROVE  /\ Numbered(n) \in Seq(Trades)
         /\ Len(Numbered(n)) = n
         /\ \A i \in 1..n : /\ Numbered(n)[i].sequence = sequence + i - 1
                            /\ Numbered(n)[i].session = attempts
<1>1. \A i \in 1..n : [sequence |-> sequence + i - 1, session |-> attempts] \in Trades
  BY DEF Trades, TypeOK
<1> QED
  BY <1>1 DEF Numbered

\* What a text frame does, batch by batch: it is sent and the session goes on,
\* or it is not and the session ends (run_once returns Err), with the counter
\* moved in either case.
LEMMA FrameOutcome ==
  ASSUME TypeOK, NEW frame \in Frames, ReceiveText(frame)
  PROVE  /\ pc = "open" /\ UNCHANGED <<rx_open, clock>>
         /\ \E n \in Nat :
              /\ sequence' = sequence + n
              /\ \/ emitted' = emitted /\ EndSession
                 \/ /\ UNCHANGED <<pc, delay, attempt>>
                    /\ \/ emitted' = emitted \o Numbered(n)
                       \/ emitted' = emitted /\ n = 0
<1>1. frame \in Seq({"ok", "bad"}) /\ Len(frame) \in Nat
  BY AdapterAssumption
<1>2. emitted \o <<>> = emitted
  BY DEF TypeOK
<1>3. CASE Bad(frame) # {}
  <2>1. /\ Decode(frame).numbered \in 1..Len(frame)
        /\ Decode(frame).trades = <<>>
        /\ Decode(frame).ok = FALSE
    BY <1>3, DecodeBad, Zenon
  <2>2. Decode(frame).numbered \in Nat
    BY <1>1, <2>1
  <2>3. sequence' = sequence + Decode(frame).numbered /\ emitted' = emitted /\ EndSession
    BY <1>2, <2>1, Zenon DEF ReceiveText
  <2> QED
    BY <2>2, <2>3, Zenon DEF ReceiveText
<1>4. CASE Bad(frame) = {}
  <2> DEFINE n == Len(frame)
  <2>1. /\ Decode(frame).numbered = n
        /\ Decode(frame).trades = Numbered(n)
        /\ Decode(frame).ok
    BY <1>4, DecodeGood
  <2>2. Numbered(n) = <<>> => n = 0
    BY <1>1, NumberedIs
  <2>3. /\ sequence' = sequence + n
        /\ emitted' = IF rx_open THEN emitted \o Numbered(n) ELSE emitted
        /\ IF rx_open \/ Numbered(n) = <<>>
           THEN UNCHANGED <<pc, delay, attempt>> ELSE EndSession
    BY <2>1 DEF ReceiveText
  <2>4. CASE rx_open \/ Numbered(n) = <<>>
    <3>1. \/ emitted' = emitted \o Numbered(n)
          \/ emitted' = emitted /\ n = 0
      <4>1. CASE rx_open
        BY <2>3, <4>1
      <4>2. CASE ~rx_open
        BY <2>2, <2>3, <2>4, <4>2, Zenon
      <4> QED
        BY <4>1, <4>2
    <3> QED
      BY <1>1, <2>3, <2>4, <3>1, Zenon DEF ReceiveText
  <2>5. CASE ~(rx_open \/ Numbered(n) = <<>>)
    BY <1>1, <2>3, <2>5, Zenon DEF ReceiveText
  <2> QED
    BY <2>4, <2>5
<1> QED
  BY <1>3, <1>4

-----------------------------------------------------------------------------
(* Types *)

\* Every step of run, run_once and backoff keeps the types.
LEMMA StepType == TypeOK /\ [Next]_vars => TypeOK'
<1> SUFFICES ASSUME TypeOK, [Next]_vars PROVE TypeOK'
  OBVIOUS
<1>0. NextDelay \in 0..MaxDelay /\ attempt + 1 \in Nat
  BY DelayBounds DEF TypeOK
<1>1. CASE ConnectFails
  BY <1>0, <1>1 DEF ConnectFails, EndSession, TypeOK
<1>2. CASE Connect
  <2>1. UNCHANGED <<delay, sequence, rx_open, emitted, elapsed>> /\ all_refused' \in BOOLEAN
    BY <1>2, Zenon DEF Connect
  <2>2. pc' = "open" /\ attempt' = 0 /\ attempts' \in Nat
    BY <1>2 DEF Connect, TypeOK
  <2> QED
    BY <2>1, <2>2 DEF TypeOK
<1>3. CASE SessionEnds
  BY <1>0, <1>3 DEF SessionEnds, EndSession, TypeOK, clock
<1>4. CASE Wake
  BY <1>4, AdapterAssumption DEF Wake, TypeOK
<1>5. CASE DropReceiver
  BY <1>5 DEF DropReceiver, TypeOK, clock
<1>6. ASSUME NEW frame \in Frames, ReceiveText(frame) PROVE TypeOK'
  <2>1. PICK n \in Nat :
          /\ sequence' = sequence + n
          /\ \/ emitted' = emitted /\ EndSession
             \/ /\ UNCHANGED <<pc, delay, attempt>>
                /\ \/ emitted' = emitted \o Numbered(n)
                   \/ emitted' = emitted /\ n = 0
    BY <1>6, FrameOutcome
  <2>2. UNCHANGED <<rx_open, elapsed, attempts, all_refused>>
    BY <1>6 DEF ReceiveText, clock
  <2>3. emitted' \in Seq(Trades)
    BY <2>1, NumberedIs, ConcatProperties DEF TypeOK
  <2>4. /\ pc' \in {"connecting", "open", "sleeping"}
        /\ attempt' \in Nat
        /\ delay' \in 0..MaxDelay
    BY <1>0, <2>1 DEF EndSession, TypeOK
  <2>5. sequence' \in Nat
    BY <2>1 DEF TypeOK
  <2> QED
    BY <2>2, <2>3, <2>4, <2>5 DEF TypeOK
<1>7. CASE UNCHANGED vars
  BY <1>7 DEF vars, TypeOK
<1> QED
  BY <1>1, <1>2, <1>3, <1>4, <1>5, <1>6, <1>7 DEF Next

\* For every base delay, cap and set of frames, the adapter keeps its types; in
\* particular next_delay always returns a delay of at most the cap.
THEOREM AdapterTypeCorrect == Spec => []TypeOK
<1>1. Init => TypeOK
  BY AdapterAssumption DEF Init, TypeOK
<1>2. TypeOK /\ [Next]_vars => TypeOK'
  BY StepType
<1>3. QED
  BY <1>1, <1>2, PTL DEF Spec

-----------------------------------------------------------------------------
(* The numbering of trades *)

\* Every trade sent is below the counter and of a session that was opened; the
\* last trade of the session that is open is right below the counter.
Counted ==
  /\ \A i \in DOMAIN emitted : /\ emitted[i].sequence < sequence
                               /\ emitted[i].session <= attempts
  /\ pc = "open" /\ emitted # <<>> /\ emitted[Len(emitted)].session = attempts =>
       emitted[Len(emitted)].sequence + 1 = sequence

NumberInv == Counted /\ SequenceIncreases /\ GapOnlyAcrossSessions

\* L trades e of sessions up to a, numbered in order below the counter q, with
\* no gap inside a session; the last one right below q if it is of session a.
Stacked(e, L, q, a) ==
  /\ \A i \in 1..L : /\ e[i].sequence \in Nat /\ e[i].sequence < q
                     /\ e[i].session \in Nat /\ e[i].session <= a
  /\ L > 0 /\ e[L].session = a => e[L].sequence + 1 = q
  /\ \A i, j \in 1..L : i < j => e[i].sequence < e[j].sequence
  /\ \A i \in 1..(L - 1) :
       e[i].session = e[i+1].session => e[i+1].sequence = e[i].sequence + 1

\* What decode and the send loop of run_once do to the trades sent so far: a
\* batch of n trades, numbered from the counter on, is put on top of them.
LEMMA BatchOnTop ==
  ASSUME NEW L \in Nat, NEW n \in Nat, NEW q \in Nat, NEW a \in Nat, NEW e, NEW f,
         Stacked(e, L, q, a),
         \A i \in 1..L : f[i] = e[i],
         \A i \in (L + 1)..(L + n) : /\ f[i].sequence = q + (i - L) - 1
                                     /\ f[i].session = a
  PROVE  Stacked(f, L + n, q + n, a)
<1> USE DEF Stacked
<1>1. ASSUME NEW i \in 1..(L + n)
      PROVE  /\ f[i].sequence \in Nat /\ f[i].sequence < q + n
             /\ f[i].session \in Nat /\ f[i].session <= a
  <2>1. i \in 1..L \/ i \in (L + 1)..(L + n)
    OBVIOUS
  <2> QED
    BY <2>1
<1>2. L + n > 0 /\ f[L + n].session = a => f[L + n].sequence + 1 = q + n
  <2>1. n = 0 \/ L + n \in (L + 1)..(L + n)
    OBVIOUS
  <2>2. CASE n = 0
    BY <2>2
  <2>3. CASE L + n \in (L + 1)..(L + n)
    BY <2>3
  <2> QED
    BY <2>1, <2>2, <2>3
<1>3. ASSUME NEW i \in 1..(L + n), NEW j \in 1..(L + n), i < j
      PROVE  f[i].sequence < f[j].sequence
  <2>1. CASE j \in 1..L
    BY <1>3, <2>1
  <2>2. CASE i \in 1..L /\ j \in (L + 1)..(L + n)
    BY <2>2
  <2>3. CASE i \in (L + 1)..(L + n) /\ j \in (L + 1)..(L + n)
    BY <1>3, <2>3
  <2> QED
    BY <1>3, <2>1, <2>2, <2>3
<1>4. ASSUME NEW i \in 1..(L + n - 1), f[i].session = f[i+1].session
      PROVE  f[i+1].sequence = f[i].sequence + 1
  <2>1. CASE i + 1 \in 1..L
    BY <1>4, <2>1
  <2>2. CASE i = L
    <3>1. L \in 1..L /\ L + 1 \in (L + 1)..(L + n)
      BY <2>2
    <3> QED
      BY <1>4, <2>2, <3>1
  <2>3. CASE i \in (L + 1)..(L + n) /\ i + 1 \in (L + 1)..(L + n)
    BY <2>3
  <2> QED
    BY <2>1, <2>2, <2>3
<1> QED
  BY <1>1, <1>2, <1>3, <1>4

\* decode sends a batch that fits right above what it sent before.
LEMMA BatchNumbers ==
  ASSUME TypeOK, NumberInv, pc = "open", pc' = "open", attempts' = attempts,
         NEW n \in Nat, sequence' = sequence + n,
         emitted' = emitted \o Numbered(n)
  PROVE  NumberInv'
<1> DEFINE b == Numbered(n)
           L == Len(emitted)
<1>1. /\ b \in Seq(Trades) /\ Len(b) = n
      /\ \A i \in 1..n : /\ b[i].sequence = sequence + i - 1
                         /\ b[i].session = attempts
  BY NumberedIs
<1>2. /\ emitted \in Seq(Trades) /\ L \in Nat /\ DOMAIN emitted = 1..L
      /\ emitted = <<>> <=> L = 0
  BY DEF TypeOK
<1>3. sequence \in Nat /\ attempts \in Nat
  BY DEF TypeOK
<1>4. Stacked(emitted, L, sequence, attempts)
  <2>1. \A i \in 1..L : emitted[i] \in Trades
    BY <1>2, ElementOfSeq
  <2>2. \A i \in 1..L : /\ emitted[i].sequence \in Nat /\ emitted[i].sequence < sequence
                       /\ emitted[i].session \in Nat /\ emitted[i].session <= attempts
    BY <1>2, <2>1 DEF Trades, NumberInv, Counted
  <2>3. L > 0 /\ emitted[L].session = attempts => emitted[L].sequence + 1 = sequence
    BY <1>2 DEF NumberInv, Counted
  <2>4. \A i, j \in 1..L : i < j => emitted[i].sequence < emitted[j].sequence
    BY <1>2 DEF NumberInv, SequenceIncreases
  <2>5. \A i \in 1..(L - 1) : emitted[i].session = emitted[i+1].session =>
                                emitted[i+1].sequence = emitted[i].sequence + 1
    BY DEF NumberInv, GapOnlyAcrossSessions
  <2> HIDE DEF L
  <2> QED
    BY <2>2, <2>3, <2>4, <2>5 DEF Stacked
<1>5. emitted' \in Seq(Trades) /\ Len(emitted') = L + n
  <2>1. emitted \o b \in Seq(Trades) /\ Len(emitted \o b) = Len(emitted) + Len(b)
    BY <1>1, <1>2, ConcatProperties, ZenonT(40)
  <2> QED
    BY <1>1, <2>1, Zenon
<1>6. \A i \in 1..(L + n) : emitted'[i] = IF i <= L THEN emitted[i] ELSE b[i - L]
  BY <1>1, <1>2, ConcatProperties
<1>7. DOMAIN emitted' = 1..(L + n) /\ (emitted' # <<>> => L + n > 0)
  <2>1. DOMAIN emitted' = 1..Len(emitted')
    BY <1>5, LenProperties
  <2>2. emitted' # <<>> => Len(emitted') # 0
    BY <1>5, EmptySeq
  <2> QED
    BY <1>2, <1>5, <2>1, <2>2
<1> HIDE DEF b, L
<1>8. \A i \in 1..L : emitted'[i] = emitted[i]
  BY <1>2, <1>6
<1>9. \A i \in (L + 1)..(L + n) : /\ emitted'[i].sequence = sequence + (i - L) - 1
                                 /\ emitted'[i].session = attempts
  <2> SUFFICES ASSUME NEW i \in (L + 1)..(L + n)
               PROVE  /\ emitted'[i].sequence = sequence + (i - L) - 1
                      /\ emitted'[i].session = attempts
    OBVIOUS
  <2>1. i - L \in 1..n /\ i \in 1..(L + n) /\ ~(i <= L)
    BY <1>2
  <2>2. emitted'[i] = b[i - L]
    BY <1>6, <2>1
  <2> QED
    BY <1>1, <2>1, <2>2
<1>10. Stacked(emitted', L + n, sequence', attempts')
  BY <1>2, <1>3, <1>4, <1>8, <1>9, BatchOnTop
<1>11. Counted'
  BY <1>5, <1>7, <1>10 DEF Counted, Stacked
<1>12. SequenceIncreases'
  BY <1>7, <1>10 DEF SequenceIncreases, Stacked
<1>13. GapOnlyAcrossSessions'
  BY <1>5, <1>10 DEF GapOnlyAcrossSessions, Stacked
<1> QED
  BY <1>11, <1>12, <1>13 DEF NumberInv

\* Every step of the adapter keeps the numbering: a connect opens a session no
\* trade is of yet, and whatever is numbered but not sent ends the session.
LEMMA StepNumbers == TypeOK /\ NumberInv /\ [Next]_vars => NumberInv'
<1> SUFFICES ASSUME TypeOK, NumberInv, [Next]_vars PROVE NumberInv'
  OBVIOUS
<1>0. /\ sequence \in Nat /\ attempts \in Nat /\ emitted \in Seq(Trades)
      /\ \A i \in DOMAIN emitted : /\ emitted[i].sequence \in Nat
                                   /\ emitted[i].session \in Nat
  <2>1. \A i \in DOMAIN emitted : emitted[i] \in Trades
    BY ElementOfSeq, LenProperties DEF TypeOK
  <2> QED
    BY <2>1 DEF TypeOK, Trades
<1>1. ASSUME emitted' = emitted, sequence' \in Nat, sequence' >= sequence,
             attempts' \in Nat, attempts' >= attempts,
             pc' = "open" => \/ attempts' > attempts
                             \/ sequence' = sequence /\ pc = "open"
      PROVE  NumberInv'
  <2>1. emitted # <<>> => Len(emitted) \in DOMAIN emitted
    BY <1>0
  <2>2. Counted'
    BY <1>0, <1>1, <2>1 DEF NumberInv, Counted
  <2> QED
    BY <1>1, <2>2 DEF NumberInv, SequenceIncreases, GapOnlyAcrossSessions
<1>2. CASE ConnectFails
  BY <1>0, <1>1, <1>2 DEF ConnectFails, EndSession
<1>3. CASE Connect
  <2>1. UNCHANGED <<sequence, emitted>> /\ attempts' = attempts + 1
    BY <1>3, Zenon DEF Connect
  <2> QED
    BY <1>0, <1>1, <2>1
<1>4. CASE SessionEnds
  BY <1>0, <1>1, <1>4 DEF SessionEnds, EndSession, clock
<1>5. CASE Wake
  BY <1>0, <1>1, <1>5 DEF Wake
<1>6. CASE DropReceiver
  BY <1>0, <1>1, <1>6 DEF DropReceiver, clock
<1>7. ASSUME NEW frame \in Frames, ReceiveText(frame) PROVE NumberInv'
  <2>1. pc = "open" /\ attempts' = attempts
    BY <1>7 DEF ReceiveText, clock
  <2>2. PICK n \in Nat :
          /\ sequence' = sequence + n
          /\ \/ emitted' = emitted /\ EndSession
             \/ /\ UNCHANGED <<pc, delay, attempt>>
                /\ \/ emitted' = emitted \o Numbered(n)
                   \/ emitted' = emitted /\ n = 0
    BY <1>7, FrameOutcome
  <2>3. CASE emitted' = emitted /\ EndSession
    BY <1>0, <1>1, <2>1, <2>2, <2>3 DEF EndSession
  <2>4. CASE pc' = pc /\ emitted' = emitted \o Numbered(n)
    BY <2>1, <2>2, <2>4, BatchNumbers
  <2>5. CASE pc' = pc /\ emitted' = emitted /\ n = 0
    BY <1>0, <1>1, <2>1, <2>2, <2>5
  <2> QED
    BY <2>2, <2>3, <2>4, <2>5
<1>8. CASE UNCHANGED vars
  BY <1>8 DEF vars, NumberInv, Counted, SequenceIncreases, GapOnlyAcrossSessions
<1> QED
  BY <1>2, <1>3, <1>4, <1>5, <1>6, <1>7, <1>8 DEF Next

\* The adapter keeps the numbering.
THEOREM Numbering == Spec => []NumberInv
<1>1. Init => NumberInv
  BY DEF Init, NumberInv, Counted, SequenceIncreases, GapOnlyAcrossSessions
<1>2. TypeOK /\ NumberInv /\ [Next]_vars => NumberInv'
  BY StepNumbers
<1>3. QED
  BY <1>1, <1>2, AdapterTypeCorrect, PTL DEF Spec

\* Whatever the exchange sends and however often the stream is lost, the trades
\* the adapter sends are numbered in strictly increasing order.
THEOREM SequencesIncrease == Spec => []SequenceIncreases
<1>1. NumberInv => SequenceIncreases
  BY DEF NumberInv
<1>2. QED
  BY <1>1, Numbering, PTL

\* A gap in the numbers always tells of a broken session, whatever batches
\* decode rejects and whenever the receiver goes away.
THEOREM GapTellsOfBreak == Spec => []GapOnlyAcrossSessions
<1>1. NumberInv => GapOnlyAcrossSessions
  BY DEF NumberInv
<1>2. QED
  BY <1>1, Numbering, PTL

-----------------------------------------------------------------------------
(* The pace of the reconnect loop *)

Pace == MinOf(Base, MaxDelay)

\* Every attempt but the one under way has been paid for with a sleep of at
\* least Pace; one that is over is about to be.
Spaced ==
  /\ pc = "connecting" => attempts * Pace <= elapsed
  /\ pc = "open" => attempts * Pace <= elapsed + Pace
  /\ pc = "sleeping" => attempts * Pace <= elapsed + Pace /\ Pace <= delay

\* Neither a refused connect, a session that ends, nor the sleep between two
\* attempts lets the loop of run go faster than one attempt per Pace.
LEMMA StepSpaced == TypeOK /\ Spaced /\ [Next]_vars => Spaced'
<1> SUFFICES ASSUME TypeOK, Spaced, [Next]_vars PROVE Spaced'
  OBVIOUS
<1> DEFINE p == Pace
           x == attempts * p
           y == (attempts + 1) * p
<1>1. /\ p \in Nat /\ p >= 1 /\ NextDelay \in Nat /\ p <= NextDelay
      /\ attempts \in Nat /\ elapsed \in Nat /\ delay \in Nat
  BY DelayBounds, AdapterAssumption DEF TypeOK, Pace, MinOf
<1>2. x \in Nat /\ y = x + p
  <2> HIDE DEF p
  <2> QED
    BY <1>1
<1>3. /\ pc = "connecting" => x <= elapsed
      /\ pc = "open" => x <= elapsed + p
      /\ pc = "sleeping" => x <= elapsed + p /\ p <= delay
  BY DEF Spaced
<1>4. /\ attempts' = attempts => attempts' * p = x
      /\ attempts' = attempts + 1 => attempts' * p = y
  OBVIOUS
<1>5. Spaced' <=> /\ pc' = "connecting" => attempts' * p <= elapsed'
                  /\ pc' = "open" => attempts' * p <= elapsed' + p
                  /\ pc' = "sleeping" => attempts' * p <= elapsed' + p /\ p <= delay'
  BY DEF Spaced, Pace
<1> HIDE DEF p, x, y
<1>6. CASE ConnectFails
  BY <1>1, <1>2, <1>3, <1>4, <1>5, <1>6 DEF ConnectFails, EndSession
<1>7. CASE Connect
  BY <1>1, <1>2, <1>3, <1>4, <1>5, <1>7 DEF Connect
<1>8. CASE SessionEnds
  BY <1>1, <1>2, <1>3, <1>4, <1>5, <1>8 DEF SessionEnds, EndSession, clock
<1>9. CASE Wake
  BY <1>1, <1>2, <1>3, <1>4, <1>5, <1>9 DEF Wake
<1>10. CASE DropReceiver
  BY <1>3, <1>4, <1>5, <1>10 DEF DropReceiver, clock
<1>11. ASSUME NEW frame \in Frames, ReceiveText(frame) PROVE Spaced'
  <2>1. /\ pc = "open" /\ attempts' = attempts /\ elapsed' = elapsed
        /\ EndSession \/ (pc' = pc /\ delay' = delay)
    BY <1>11, FrameOutcome DEF clock
  <2> QED
    BY <1>1, <1>2, <1>3, <1>4, <1>5, <2>1 DEF EndSession
<1>12. CASE UNCHANGED vars
  BY <1>3, <1>4, <1>5, <1>12 DEF vars
<1> QED
  BY <1>6, <1>7, <1>8, <1>9, <1>10, <1>11, <1>12 DEF Next

\* For every base delay and cap: two connection attempts are never less than
\* the base delay apart, or the cap if that is shorter, whatever the peer, the
\* frames and the worker do.
THEOREM NeverSpins == Spec => []NeverFasterThanBase
<1>1. Init => Spaced
  <2>1. Pace \in Nat
    BY AdapterAssumption DEF Pace, MinOf
  <2>2. 0 * Pace = 0
    BY <2>1
  <2> QED
    BY <2>1, <2>2 DEF Init, Spaced
<1>2. TypeOK /\ Spaced /\ [Next]_vars => Spaced'
  BY StepSpaced
<1>3. TypeOK /\ Spaced => NeverFasterThanBase
  <2> SUFFICES ASSUME TypeOK, Spaced PROVE attempts * Pace <= elapsed + Pace
    BY DEF NeverFasterThanBase, Pace
  <2> DEFINE x == attempts * Pace
  <2>1. /\ Pace \in Nat /\ attempts \in Nat /\ elapsed \in Nat
        /\ pc \in {"connecting", "open", "sleeping"}
    BY AdapterAssumption DEF TypeOK, Pace, MinOf
  <2>2. x \in Nat
    BY <2>1
  <2>3. /\ pc = "connecting" => x <= elapsed
        /\ pc # "connecting" => x <= elapsed + Pace
    BY <2>1 DEF Spaced
  <2> HIDE DEF x
  <2>4. x <= elapsed + Pace
    BY <2>1, <2>2, <2>3
  <2> QED
    BY <2>4 DEF x
<1>4. QED
  BY <1>1, <1>2, <1>3, AdapterTypeCorrect, PTL DEF Spec

-----------------------------------------------------------------------------
(* An outage *)

\* The exponent is large enough for the delay to reach its cap.
CapReached == Base * 2^20 >= MaxDelay

\* backoff: after Ramp doublings the delay is at its cap.
LEMMA RampIs ==
  ASSUME CapReached
  PROVE  Ramp \in 0..20 /\ Base * Pow[Ramp] >= MaxDelay
<1> DEFINE S == {n \in 0..20 : Base * Pow[n] >= MaxDelay}
<1>1. \A n \in 0..20 : 2^n = Pow[n] /\ Base * Pow[n] \in Nat
  <2> SUFFICES ASSUME NEW n \in 0..20 PROVE 2^n = Pow[n] /\ Base * Pow[n] \in Nat
    OBVIOUS
  <2>1. 2^n = Pow[n]
    BY Zenon DEF Pow
  <2>2. Base * Pow[n] \in Nat
    <3> DEFINE p == Pow[n]
    <3>1. p \in Nat
      BY PowType
    <3> HIDE DEF p
    <3>2. Base * p \in Nat
      BY <3>1, AdapterAssumption
    <3> QED
      BY <3>2 DEF p
  <2> QED
    BY <2>1, <2>2
<1>2. 20 \in S
  <2>1. Base * 2^20 = Base * 1048576
    OBVIOUS
  <2> QED
    BY <2>1, PowTable DEF CapReached
<1>3. PICK r \in S : \A n \in S : r <= n
  BY <1>2, FirstOf
<1>4. \A n \in 0..(r - 1) : n \in 0..20 /\ Base * Pow[n] < MaxDelay
  <2> SUFFICES ASSUME NEW n \in 0..(r - 1)
               PROVE  n \in 0..20 /\ Base * Pow[n] < MaxDelay
    OBVIOUS
  <2>1. n \in 0..20 /\ ~(r <= n)
    BY <1>3
  <2>2. n \notin S
    BY <1>3, <2>1
  <2>3. Base * Pow[n] \in Nat /\ ~(Base * Pow[n] >= MaxDelay)
    BY <1>1, <2>1, <2>2
  <2> QED
    BY <2>1, <2>3, AdapterAssumption
<1>5. Ramp \in 0..20 /\ (Ramp = 20 \/ Base * 2^Ramp >= MaxDelay)
  <2> DEFINE P(n) == /\ n = 20 \/ Base * 2^n >= MaxDelay
                     /\ \A k \in 0..(n - 1) : Base * 2^k < MaxDelay
  <2>1. r \in 0..20 /\ P(r)
    BY <1>1, <1>3, <1>4, Zenon
  <2>2. Ramp = CHOOSE n \in 0..20 : P(n)
    BY DEF Ramp
  <2> HIDE DEF P
  <2>3. Ramp \in 0..20 /\ P(Ramp)
    BY <2>1, <2>2, Zenon
  <2> QED
    BY <2>3, Zenon DEF P
<1>6. CASE Ramp = 20
  BY <1>2, <1>5, <1>6
<1>7. CASE Base * 2^Ramp >= MaxDelay
  BY <1>1, <1>5, <1>7, Zenon
<1> QED
  BY <1>5, <1>6, <1>7

\* next_delay answers the cap from attempt Ramp on.
LEMMA DelayAtCap ==
  ASSUME TypeOK, CapReached, attempt >= Ramp
  PROVE  NextDelay = MaxDelay
<1> DEFINE m == MinOf(attempt, 20)
           p == Pow[m]
           q == Pow[Ramp]
<1>1. m \in 0..20 /\ Ramp <= m /\ Ramp \in 0..20
  BY RampIs DEF TypeOK, MinOf
<1>2. p \in Nat /\ q \in Nat /\ q <= p
  BY <1>1, PowType, PowGrows
<1>3. Base * q >= MaxDelay
  BY RampIs
<1>4. NextDelay = MinOf(Base * p, MaxDelay)
  BY DelayByPow
<1> HIDE DEF p, q
<1>5. Base * p >= Base * q /\ Base * p \in Nat /\ Base * q \in Nat
  BY <1>2, AdapterAssumption
<1> QED
  BY <1>3, <1>4, <1>5, AdapterAssumption DEF MinOf

\* While every attempt is refused the counter is never reset, and all but Ramp
\* of the attempts have cost a sleep of MaxDelay, or are about to.
Ramped ==
  all_refused =>
    /\ pc # "open"
    /\ attempt = attempts
    /\ pc = "connecting" => attempts * MaxDelay <= elapsed + Ramp * MaxDelay
    /\ pc = "sleeping" => attempts * MaxDelay <= elapsed + delay + Ramp * MaxDelay

\* A refused connect counts up and sleeps for what the count says; an accepted
\* one ends the outage.
LEMMA StepRamped == CapReached /\ TypeOK /\ Ramped /\ [Next]_vars => Ramped'
<1> SUFFICES ASSUME CapReached, TypeOK, Ramped, [Next]_vars, all_refused'
             PROVE  Ramped'
  BY DEF Ramped
<1> DEFINE x == attempts * MaxDelay
           y == (attempts + 1) * MaxDelay
           z == Ramp * MaxDelay
<1>1. /\ attempts \in Nat /\ elapsed \in Nat /\ delay \in Nat /\ attempt \in Nat
      /\ MaxDelay \in Nat /\ Ramp \in Nat /\ NextDelay \in Nat
  BY SMTT(30), RampIs, DelayBounds, AdapterAssumption DEF TypeOK
<1>2. x \in Nat /\ z \in Nat /\ y = x + MaxDelay
  BY <1>1
<1>3. attempts + 1 <= Ramp => y <= z
  <2> SUFFICES ASSUME attempts + 1 <= Ramp PROVE y <= z
    OBVIOUS
  <2>1. PICK d \in Nat : Ramp = (attempts + 1) + d
    <3>1. Ramp - (attempts + 1) \in Nat /\ Ramp = (attempts + 1) + (Ramp - (attempts + 1))
      BY <1>1
    <3> QED
      BY <3>1
  <2>2. z = y + d * MaxDelay /\ d * MaxDelay \in Nat
    BY <1>1, <2>1
  <2> QED
    BY <1>1, <1>2, <2>2
<1>4. CASE ConnectFails
  <2>1. /\ pc = "connecting" /\ pc' = "sleeping" /\ all_refused
        /\ attempts' = attempts + 1 /\ attempt' = attempt + 1
        /\ delay' = NextDelay /\ elapsed' = elapsed
    BY <1>4 DEF ConnectFails, EndSession
  <2>2. attempt = attempts /\ x <= elapsed + z
    BY <2>1 DEF Ramped
  <2>3. attempts >= Ramp => NextDelay = MaxDelay
    BY <2>2, DelayAtCap
  <2> HIDE DEF x, y, z
  <2>4. y <= elapsed + NextDelay + z
    BY <1>1, <1>2, <1>3, <2>2, <2>3
  <2> QED
    BY <2>1, <2>2, <2>4 DEF Ramped, y, z
<1>5. CASE Wake
  <2>1. /\ pc = "sleeping" /\ pc' = "connecting" /\ all_refused
        /\ elapsed' = elapsed + delay /\ UNCHANGED <<attempts, attempt, delay>>
    BY <1>5 DEF Wake
  <2>2. attempt = attempts /\ x <= elapsed + delay + z
    BY <2>1 DEF Ramped
  <2> QED
    BY <2>1, <2>2 DEF Ramped
<1>6. CASE Connect
  BY <1>6, Zenon DEF Connect
<1>7. CASE SessionEnds
  BY <1>7 DEF SessionEnds, clock, Ramped
<1>8. CASE DropReceiver
  BY <1>8 DEF DropReceiver, clock, Ramped
<1>9. ASSUME NEW frame \in Frames, ReceiveText(frame) PROVE FALSE
  <2>1. pc = "open" /\ all_refused
    BY <1>9 DEF ReceiveText, clock
  <2> QED
    BY <2>1 DEF Ramped
<1>10. CASE UNCHANGED vars
  BY <1>10 DEF vars, Ramped
<1> QED
  BY <1>4, <1>5, <1>6, <1>7, <1>8, <1>9, <1>10 DEF Next

\* What Ramped says of the attempts, by division.
LEMMA RampedPaces ==
  ASSUME CapReached, TypeOK, Ramped, all_refused
  PROVE  attempts <= Ramp + 1 + elapsed \div MaxDelay
<1> DEFINE q == elapsed \div MaxDelay
<1>1. /\ attempts \in Nat /\ elapsed \in Nat /\ delay \in Nat /\ delay <= MaxDelay
      /\ MaxDelay \in Nat /\ MaxDelay > 0 /\ Ramp \in Nat
      /\ pc \in {"connecting", "open", "sleeping"}
  BY RampIs, AdapterAssumption DEF TypeOK
<1>2. q \in Nat /\ elapsed < (q + 1) * MaxDelay
  BY <1>1
<1>3. attempts * MaxDelay <= elapsed + MaxDelay + Ramp * MaxDelay
  <2> DEFINE x == attempts * MaxDelay
             z == Ramp * MaxDelay
  <2>1. x \in Nat /\ z \in Nat
    BY <1>1
  <2>2. pc # "open" /\ (pc = "connecting" => x <= elapsed + z)
                   /\ (pc = "sleeping" => x <= elapsed + delay + z)
    BY DEF Ramped
  <2> HIDE DEF x, z
  <2>3. x <= elapsed + MaxDelay + z
    BY <1>1, <2>1, <2>2
  <2> QED
    BY <2>3 DEF x, z
<1> HIDE DEF q
<1>4. attempts * MaxDelay < (q + 1 + 1 + Ramp) * MaxDelay
  <2>1. (q + 1 + 1 + Ramp) * MaxDelay = (q + 1) * MaxDelay + MaxDelay + Ramp * MaxDelay
    BY <1>1, <1>2
  <2> QED
    BY <1>1, <1>2, <1>3, <2>1
<1>5. attempts < q + 1 + 1 + Ramp
  <2> SUFFICES ASSUME attempts >= q + 1 + 1 + Ramp PROVE FALSE
    BY <1>1, <1>2
  <2>1. attempts * MaxDelay >= (q + 1 + 1 + Ramp) * MaxDelay
    BY <1>1, <1>2
  <2> QED
    BY <1>1, <1>2, <1>4, <2>1
<1>6. attempts <= Ramp + 1 + q
  BY <1>1, <1>2, <1>5
<1> QED
  BY <1>6 DEF q

\* For every base delay and every cap the exponent can reach: during an outage
\* attempts settle to one per MaxDelay after the first Ramp of them.
THEOREM OutageIsPaced == Spec => []RefusedOutageIsPaced
<1> DEFINE Inv == CapReached => Ramped
<1>1. Init => Inv
  <2> SUFFICES ASSUME Init, CapReached PROVE Ramped
    OBVIOUS
  <2>1. Ramp * MaxDelay \in Nat /\ 0 * MaxDelay = 0
    BY SMTT(30), RampIs, AdapterAssumption
  <2> QED
    BY <2>1 DEF Init, Ramped
<1>2. TypeOK /\ Inv /\ [Next]_vars => Inv'
  BY StepRamped DEF CapReached
<1>3. TypeOK /\ Inv => RefusedOutageIsPaced
  BY RampedPaces, Zenon DEF RefusedOutageIsPaced, CapReached
<1> HIDE DEF Inv
<1>4. QED
  BY <1>1, <1>2, <1>3, AdapterTypeCorrect, PTL DEF Spec

-----------------------------------------------------------------------------
(* parse_fixed8: powers of ten and digits *)

\* f has the powers of ten up to the n-th.
TensUpTo(n, f) ==
  f \in [0..n -> Nat] /\ f[0] = 1 /\ \A k \in 1..n : f[k] = 10 * f[k - 1]

\* There are such powers, for every n, and only one list of them.
LEMMA TensExist == \A n \in Nat : \E f : TensUpTo(n, f)
<1> DEFINE N == {n \in Nat : \E f : TensUpTo(n, f)}
<1>1. 0 \in N
  <2>1. TensUpTo(0, [k \in 0..0 |-> 1])
    BY DEF TensUpTo
  <2> QED
    BY <2>1
<1>2. ASSUME NEW n \in N PROVE n + 1 \in N
  <2>1. n \in Nat /\ n + 1 \in Nat
    OBVIOUS
  <2>2. PICK f : TensUpTo(n, f)
    OBVIOUS
  <2> DEFINE up == [k \in 0..(n + 1) |-> IF k = n + 1 THEN 10 * f[n] ELSE f[k]]
  <2>3. f \in [0..n -> Nat] /\ f[0] = 1 /\ \A k \in 1..n : f[k] = 10 * f[k - 1]
    BY <2>2 DEF TensUpTo
  <2>4. up \in [0..(n + 1) -> Nat] /\ up[0] = 1
    <3>1. n \in 0..n /\ 0 \in 0..n /\ f[n] \in Nat
      BY <2>1, <2>3
    <3>2. \A k \in 0..(n + 1) : k # n + 1 => k \in 0..n
      BY <2>1
    <3>3. \A k \in 0..(n + 1) : (IF k = n + 1 THEN 10 * f[n] ELSE f[k]) \in Nat
      BY <2>3, <3>1, <3>2
    <3>4. 0 \in 0..(n + 1) /\ 0 # n + 1
      BY <2>1
    <3> QED
      BY <2>3, <3>3, <3>4, Zenon
  <2>5. ASSUME NEW k \in 1..(n + 1) PROVE up[k] = 10 * up[k - 1]
    <3>1. k \in 0..(n + 1) /\ k - 1 \in 0..(n + 1) /\ k - 1 # n + 1
      BY <2>1
    <3>2. up[k] = (IF k = n + 1 THEN 10 * f[n] ELSE f[k]) /\ up[k - 1] = f[k - 1]
      BY <3>1, Zenon
    <3>3. CASE k = n + 1
      <4>1. k - 1 = n
        BY <2>1, <3>3
      <4> QED
        BY <3>2, <3>3, <4>1, Zenon
    <3>4. CASE k # n + 1
      <4>1. k \in 1..n
        BY <2>1, <3>4
      <4> QED
        BY <2>3, <3>2, <3>4, <4>1, Zenon
    <3> QED
      BY <3>3, <3>4
  <2> HIDE DEF up
  <2>6. TensUpTo(n + 1, up)
    BY <2>4, <2>5 DEF TensUpTo
  <2> QED
    BY <2>1, <2>6
<1>3. N \in SUBSET Nat
  OBVIOUS
<1> HIDE DEF N
<1>4. \A n \in Nat : n \in N
  BY <1>1, <1>2, <1>3, NumberInduction
<1> QED
  BY <1>4, Zenon DEF N

LEMMA TensAgree ==
  ASSUME NEW m \in Nat, NEW n \in Nat, m <= n, NEW f, NEW h,
         TensUpTo(m, f), TensUpTo(n, h)
  PROVE  f[m] = h[m]
<1> DEFINE N == {k \in Nat : k <= m => f[k] = h[k]}
<1>1. 0 \in N
  BY DEF TensUpTo
<1>2. ASSUME NEW k \in N PROVE k + 1 \in N
  <2>1. k \in Nat /\ k + 1 \in Nat /\ (k + 1) - 1 = k
    OBVIOUS
  <2> SUFFICES ASSUME k + 1 <= m PROVE f[k + 1] = h[k + 1]
    BY <2>1
  <2>2. f[k] = h[k]
    BY <2>1
  <2>3. k + 1 \in 1..m /\ k + 1 \in 1..n
    BY <2>1
  <2>4. f[k + 1] = 10 * f[k] /\ h[k + 1] = 10 * h[k]
    BY <2>1, <2>3 DEF TensUpTo
  <2> QED
    BY <2>2, <2>4
<1>3. N \in SUBSET Nat
  OBVIOUS
<1> HIDE DEF N
<1>4. m \in N
  BY <1>1, <1>2, <1>3, NumberInduction
<1> QED
  BY <1>4 DEF N

\* What the recursion of Pow10 defines.
LEMMA PowTen ==
  /\ Pow10[0] = 1
  /\ \A k \in Nat : /\ Pow10[k] \in Nat /\ Pow10[k] >= 1
                    /\ Pow10[k + 1] = 10 * Pow10[k]
<1> DEFINE F(n) == CHOOSE f : TensUpTo(n, f)
           G == [n \in Nat |-> F(n)[n]]
           IsPow(f) == f = [k \in Nat |-> IF k = 0 THEN 1 ELSE 10 * f[k - 1]]
<1>1. \A n \in Nat : TensUpTo(n, F(n))
  BY TensExist, Zenon
<1>2. G[0] = 1
  BY <1>1 DEF TensUpTo
<1>3. ASSUME NEW n \in Nat PROVE G[n] \in Nat /\ G[n + 1] = 10 * G[n]
  <2>1. n + 1 \in Nat /\ n <= n + 1 /\ (n + 1) - 1 = n /\ n + 1 \in 1..(n + 1) /\ n \in 0..n
    OBVIOUS
  <2>2. TensUpTo(n, F(n)) /\ TensUpTo(n + 1, F(n + 1))
    BY <1>1, <2>1
  <2>3. G[n] = F(n)[n] /\ G[n + 1] = F(n + 1)[n + 1]
    BY <2>1
  <2> HIDE DEF F, G
  <2>4. F(n)[n] = F(n + 1)[n]
    BY <2>1, <2>2, TensAgree
  <2>5. F(n + 1)[n + 1] = 10 * F(n + 1)[n] /\ F(n)[n] \in Nat
    BY <2>1, <2>2 DEF TensUpTo
  <2> QED
    BY <2>3, <2>4, <2>5
<1>4. IsPow(G)
  <2>1. ASSUME NEW k \in Nat PROVE G[k] = IF k = 0 THEN 1 ELSE 10 * G[k - 1]
    <3> HIDE DEF G
    <3>1. CASE k = 0
      BY <1>2, <3>1
    <3>2. CASE k # 0
      <4>1. k - 1 \in Nat /\ (k - 1) + 1 = k
        BY <3>2
      <4> QED
        BY <1>3, <3>2, <4>1
    <3> QED
      BY <3>1, <3>2
  <2>2. G = [k \in Nat |-> G[k]]
    OBVIOUS
  <2> HIDE DEF G
  <2> QED
    BY <2>1, <2>2
<1> HIDE DEF G
<1>5. Pow10 = CHOOSE f : IsPow(f)
  BY Zenon DEF Pow10
<1>6. IsPow(Pow10)
  BY <1>4, <1>5, Zenon
<1>7. \A k \in Nat : Pow10[k] = IF k = 0 THEN 1 ELSE 10 * Pow10[k - 1]
  BY <1>6, Zenon
<1> DEFINE N == {k \in Nat : Pow10[k] \in Nat /\ Pow10[k] >= 1}
<1>8. Pow10[0] = 1 /\ \A k \in Nat : Pow10[k + 1] = 10 * Pow10[k]
  <2>1. Pow10[0] = 1
    BY <1>7
  <2>2. ASSUME NEW k \in Nat PROVE Pow10[k + 1] = 10 * Pow10[k]
    <3>1. k + 1 \in Nat /\ k + 1 # 0 /\ (k + 1) - 1 = k
      OBVIOUS
    <3> QED
      BY <1>7, <3>1
  <2> QED
    BY <2>1, <2>2
<1>9. 0 \in N
  BY <1>8
<1>10. ASSUME NEW k \in N PROVE k + 1 \in N
  <2>1. k \in Nat /\ k + 1 \in Nat /\ Pow10[k] \in Nat /\ Pow10[k] >= 1
    OBVIOUS
  <2>2. Pow10[k + 1] = 10 * Pow10[k]
    BY <1>8, <2>1
  <2> QED
    BY <2>1, <2>2
<1>11. N \in SUBSET Nat
  OBVIOUS
<1> HIDE DEF N
<1>12. \A k \in Nat : k \in N
  BY <1>9, <1>10, <1>11, NumberInduction
<1> QED
  BY <1>8, <1>12 DEF N

\* Exponents add up.
LEMMA PowTenAdds == \A a, b \in Nat : Pow10[a + b] = Pow10[a] * Pow10[b]
<1> SUFFICES ASSUME NEW a \in Nat PROVE \A b \in Nat : Pow10[a + b] = Pow10[a] * Pow10[b]
  OBVIOUS
<1> DEFINE N == {b \in Nat : Pow10[a + b] = Pow10[a] * Pow10[b]}
<1>1. 0 \in N
  BY PowTen
<1>2. ASSUME NEW b \in N PROVE b + 1 \in N
  <2>1. b \in Nat /\ b + 1 \in Nat /\ a + b \in Nat /\ a + (b + 1) = (a + b) + 1
    OBVIOUS
  <2>2. Pow10[a + b] = Pow10[a] * Pow10[b]
    OBVIOUS
  <2>3. Pow10[(a + b) + 1] = 10 * Pow10[a + b] /\ Pow10[b + 1] = 10 * Pow10[b]
    BY <2>1, PowTen
  <2>4. Pow10[a] \in Nat /\ Pow10[b] \in Nat
    BY <2>1, PowTen
  <2>5. 10 * (Pow10[a] * Pow10[b]) = Pow10[a] * (10 * Pow10[b])
    BY <2>4
  <2> QED
    BY <2>1, <2>2, <2>3, <2>5
<1>3. N \in SUBSET Nat
  OBVIOUS
<1> HIDE DEF N
<1>4. \A b \in Nat : b \in N
  BY <1>1, <1>2, <1>3, NumberInduction
<1> QED
  BY <1>4 DEF N

\* What a digit is worth.
LEMMA DigitIs ==
  /\ \A c \in Digits : DigitOf(c) \in Nat /\ DigitOf(c) <= 9
  /\ "0" \in Digits /\ DigitOf("0") = 0
<1> DEFINE ten == <<"0", "1", "2", "3", "4", "5", "6", "7", "8", "9">>
           At(c) == {i \in 1..Len(ten) : ten[i] = c}
<1>1. \A c : DigitOf(c) = (IF At(c) # {} THEN Min(At(c)) ELSE 0) - 1
  BY Zenon DEF DigitOf, SelectInSeq
<1>2. Len(ten) = 10
  OBVIOUS
<1>3. ASSUME NEW c \in Digits PROVE At(c) # {} /\ At(c) \in SUBSET (1..10)
  BY <1>2 DEF Digits
<1>4. At("0") = {1}
  BY <1>2
<1>5. ASSUME NEW S \in SUBSET (1..10), S # {} PROVE Min(S) \in S
  <2>1. S \in SUBSET Nat /\ S # {}
    BY <1>5
  <2>2. \E x \in S : \A y \in S : x <= y
    BY <2>1, FirstOf
  <2> QED
    BY <2>2, Zenon DEF Min
<1> HIDE DEF At, ten
<1>6. ASSUME NEW c \in Digits PROVE DigitOf(c) \in Nat /\ DigitOf(c) <= 9
  <2>1. Min(At(c)) \in 1..10
    BY <1>3, <1>5
  <2> QED
    BY <1>1, <1>3, <2>1
<1>7. DigitOf("0") = 0
  <2>1. Min(At("0")) \in At("0")
    BY <1>4, <1>5
  <2> QED
    BY <1>1, <1>4, <2>1
<1> QED
  BY <1>6, <1>7 DEF Digits

-----------------------------------------------------------------------------
(* parse_fixed8: the value of a sequence of digits *)

\* One step of ParseU64's fold over the places s of w: the last place, behind
\* ten times the others.
FoldBody(it, s, w) ==
  IF s = {} THEN 0 ELSE 10 * it[s \ {Max(s)}] + DigitOf(w[Max(s)])

IsFold(it, w) == it = [s \in SUBSET (DOMAIN w) |-> FoldBody(it, s, w)]

ValueOf(w) == (CHOOSE it : IsFold(it, w))[DOMAIN w]

LEMMA FoldIs ==
  ASSUME NEW w
  PROVE  FoldLeft(LAMBDA n, c : 10 * n + DigitOf(c), 0, w) = ValueOf(w)
BY Zenon DEF FoldLeft, MapThenFoldSet, ValueOf, IsFold, FoldBody

\* A digit among the places s, at the weight the places behind it give it.
Behind(s, i) == {j \in s : j > i}
Weighed(s, w) == [i \in s |-> DigitOf(w[i]) * Pow10[Cardinality(Behind(s, i))]]

LEMMA PlacesOf ==
  ASSUME NEW w \in Seq(Digits), NEW s \in SUBSET (DOMAIN w)
  PROVE  /\ IsFiniteSet(s) /\ s \in SUBSET Nat
         /\ \A i \in s : DigitOf(w[i]) \in Nat /\ DigitOf(w[i]) <= 9
         /\ \A i \in s : Cardinality(Behind(s, i)) \in Nat
         /\ Numbers(s, Weighed(s, w))
<1>1. DOMAIN w = 1..Len(w) /\ Len(w) \in Nat
  OBVIOUS
<1>2. IsFiniteSet(s) /\ s \in SUBSET Nat
  <2>1. IsFiniteSet(1..Len(w))
    BY <1>1, FS_Interval
  <2>2. s \in SUBSET (1..Len(w))
    BY <1>1
  <2> QED
    BY <1>1, <2>1, <2>2, FS_Subset
<1>3. \A i \in s : DigitOf(w[i]) \in Nat /\ DigitOf(w[i]) <= 9
  <2>1. \A i \in s : w[i] \in Digits
    BY <1>1
  <2> QED
    BY <2>1, DigitIs
<1>4. ASSUME NEW i \in s PROVE Cardinality(Behind(s, i)) \in Nat
  <2>1. Behind(s, i) \in SUBSET s
    BY DEF Behind
  <2> QED
    BY <1>2, <2>1, FS_Subset, FS_CardinalityType
<1>5. ASSUME NEW i \in s PROVE Weighed(s, w)[i] \in Int
  <2> DEFINE d == DigitOf(w[i])
             q == Pow10[Cardinality(Behind(s, i))]
  <2>1. d \in Nat /\ q \in Nat
    BY <1>3, <1>4, PowTen
  <2>2. Weighed(s, w)[i] = d * q
    BY Zenon DEF Weighed
  <2> HIDE DEF d, q
  <2> QED
    BY <2>1, <2>2
<1> QED
  BY <1>2, <1>3, <1>4, <1>5 DEF Numbers

\* Horner's scheme, one place at a time.
LEMMA Horner ==
  ASSUME NEW w \in Seq(Digits), NEW s \in SUBSET (DOMAIN w), s # {}
  PROVE  /\ Max(s) \in s
         /\ Total(s, Weighed(s, w))
              = 10 * Total(s \ {Max(s)}, Weighed(s \ {Max(s)}, w)) + DigitOf(w[Max(s)])
<1> DEFINE m == Max(s)
           r == s \ {m}
           g == Weighed(s, w)
           h == Weighed(r, w)
<1>1. m \in s /\ \A j \in s : j <= m
  <2>1. DOMAIN w = 1..Len(w) /\ Len(w) \in Nat
    OBVIOUS
  <2> QED
    BY <2>1, LastIsThere
<1>2. r \in SUBSET (DOMAIN w) /\ m \notin r
  OBVIOUS
<1>3. /\ IsFiniteSet(s) /\ s \in SUBSET Nat
      /\ \A i \in s : DigitOf(w[i]) \in Nat
      /\ Numbers(s, g)
  BY PlacesOf
<1>4. Numbers(r, h) /\ \A i \in r : Cardinality(Behind(r, i)) \in Nat
  BY <1>2, PlacesOf
<1>5. g[m] = DigitOf(w[m])
  <2>1. Behind(s, m) = {}
    BY <1>1, <1>3 DEF Behind
  <2>2. Cardinality(Behind(s, m)) = 0
    BY <2>1, FS_EmptySet
  <2>3. g[m] = DigitOf(w[m]) * Pow10[Cardinality(Behind(s, m))]
    BY <1>1, Zenon DEF Weighed
  <2>4. g[m] = DigitOf(w[m]) * 1
    BY <2>2, <2>3, PowTen, Zenon
  <2>5. DigitOf(w[m]) \in Nat
    BY <1>1, <1>3
  <2> HIDE DEF m, g
  <2> QED
    BY <2>4, <2>5
<1>6. ASSUME NEW i \in r PROVE g[i] = 10 * h[i]
  <2> DEFINE c == Cardinality(Behind(r, i))
             d == DigitOf(w[i])
  <2>1. Behind(s, i) = Behind(r, i) \cup {m} /\ m \notin Behind(r, i)
    <3>1. i \in s /\ i # m /\ i \in Nat /\ m \in Nat /\ i <= m
      BY <1>1, <1>3
    <3> QED
      BY <1>1, <3>1 DEF Behind
  <2>2. IsFiniteSet(Behind(r, i))
    <3>1. Behind(r, i) \in SUBSET s
      BY DEF Behind
    <3> QED
      BY <1>3, <3>1, FS_Subset
  <2>3. Cardinality(Behind(s, i)) = c + 1
    BY <2>1, <2>2, FS_AddElement
  <2>4. c \in Nat /\ d \in Nat
    BY <1>3, <1>4
  <2>5. g[i] = d * Pow10[Cardinality(Behind(s, i))] /\ h[i] = d * Pow10[c]
    BY Zenon DEF Weighed
  <2> HIDE DEF c, d, m, r, g, h
  <2>6. Pow10[c + 1] = 10 * Pow10[c] /\ Pow10[c] \in Nat
    BY <2>4, PowTen
  <2>7. g[i] = d * (10 * Pow10[c])
    BY <2>3, <2>5, <2>6
  <2>8. d * (10 * Pow10[c]) = 10 * (d * Pow10[c])
    BY <2>4, <2>6
  <2> QED
    BY <2>5, <2>7, <2>8
<1> HIDE DEF m, r, g, h
<1>7. Total(r, g) = 10 * Total(r, h)
  <2>1. 10 \in Int
    OBVIOUS
  <2> QED
    BY <1>4, <1>6, <2>1, TotalScale
<1>8. Total(s, g) = Total(r, g) + g[m]
  BY <1>1, <1>3, TotalRemove DEF r
<1> QED
  BY <1>1, <1>5, <1>7, <1>8 DEF m, r, g, h

\* There is a function as the fold defines it.
LEMMA FoldExists ==
  ASSUME NEW w \in Seq(Digits)
  PROVE  \E it : IsFold(it, w)
<1> DEFINE D == DOMAIN w
           it == [s \in SUBSET D |-> Total(s, Weighed(s, w))]
<1>1. ASSUME NEW s \in SUBSET D PROVE it[s] = FoldBody(it, s, w)
  <2>1. CASE s = {}
    BY <2>1, TotalEmpty DEF FoldBody
  <2>2. CASE s # {}
    <3>1. Total(s, Weighed(s, w))
            = 10 * Total(s \ {Max(s)}, Weighed(s \ {Max(s)}, w)) + DigitOf(w[Max(s)])
      BY <2>2, Horner
    <3>2. s \ {Max(s)} \in SUBSET D
      OBVIOUS
    <3>3. it[s] = 10 * it[s \ {Max(s)}] + DigitOf(w[Max(s)])
      BY <3>1, <3>2, Zenon
    <3> QED
      BY <2>2, <3>3, Zenon DEF FoldBody
  <2> QED
    BY <2>1, <2>2
<1>2. it = [s \in SUBSET D |-> it[s]]
  OBVIOUS
<1> HIDE DEF it
<1>3. IsFold(it, w)
  BY <1>1, <1>2, Zenon DEF IsFold
<1> QED
  BY <1>3

\* A digit of w, at the weight its place has.
PlaceValues(w) == [i \in 1..Len(w) |-> DigitOf(w[i]) * Pow10[Len(w) - i]]

\* What ParseU64 computes digit by digit is the sum of the places' values, and
\* has no more digits than w.
LEMMA ValueIs ==
  ASSUME NEW w \in Seq(Digits)
  PROVE  /\ Numbers(1..Len(w), PlaceValues(w))
         /\ ValueOf(w) = Total(1..Len(w), PlaceValues(w))
         /\ ValueOf(w) \in Nat /\ ValueOf(w) < Pow10[Len(w)]
<1> DEFINE D == DOMAIN w
           it == CHOOSE it : IsFold(it, w)
           E(k) == Total(1..k, Weighed(1..k, w))
           P == {k \in Nat : k <= Len(w) => /\ it[1..k] = E(k)
                                           /\ E(k) \in Nat /\ E(k) < Pow10[k]}
<1>1. D = 1..Len(w) /\ Len(w) \in Nat
  OBVIOUS
<1>2. IsFold(it, w)
  BY FoldExists, Zenon
<1> HIDE DEF it
<1>3. \A s \in SUBSET D : it[s] = FoldBody(it, s, w)
  BY <1>2, Zenon DEF IsFold
<1>4. 0 \in P
  <2>1. 1..0 = {} /\ {} \in SUBSET D
    OBVIOUS
  <2>2. it[{}] = 0
    BY <1>3, <2>1, Zenon DEF FoldBody
  <2>3. E(0) = 0
    BY <2>1, TotalEmpty
  <2>4. it[1..0] = E(0)
    BY <2>1, <2>2, <2>3, Zenon
  <2>5. E(0) \in Nat /\ E(0) < Pow10[0]
    <3>1. Pow10[0] = 1
      BY PowTen
    <3> HIDE DEF E
    <3> QED
      BY <2>3, <3>1
  <2> HIDE DEF E
  <2> QED
    BY <2>4, <2>5
<1>5. ASSUME NEW k \in P PROVE k + 1 \in P
  <2>1. k \in Nat /\ k + 1 \in Nat
    OBVIOUS
  <2> SUFFICES ASSUME k + 1 <= Len(w)
               PROVE  /\ it[1..(k + 1)] = E(k + 1)
                      /\ E(k + 1) \in Nat /\ E(k + 1) < Pow10[k + 1]
    BY <2>1
  <2>2. it[1..k] = E(k) /\ E(k) \in Nat /\ E(k) < Pow10[k]
    BY <1>1, <2>1
  <2> DEFINE s == 1..(k + 1)
  <2>3. s \in SUBSET D /\ s # {}
    <3>1. k + 1 \in s
      BY <2>1
    <3>2. s \in SUBSET (1..Len(w))
      BY <1>1, <2>1
    <3> QED
      BY <1>1, <3>1, <3>2
  <2>4. Max(s) = k + 1
    <3>1. Max(s) \in s /\ \A y \in s : y <= Max(s)
      BY <2>1, <2>3, LastIsThere
    <3> QED
      BY <2>1, <3>1
  <2>5. s \ {k + 1} = 1..k
    BY <2>1
  <2> DEFINE d == DigitOf(w[k + 1])
  <2>6. d \in Nat /\ d <= 9
    <3>1. k + 1 \in s
      BY <2>1
    <3> HIDE DEF s
    <3> QED
      BY <2>3, <3>1, PlacesOf
  <2>7. E(k + 1) = 10 * E(k) + d
    <3>1. Total(s, Weighed(s, w))
            = 10 * Total(s \ {Max(s)}, Weighed(s \ {Max(s)}, w)) + DigitOf(w[Max(s)])
      BY <2>3, Horner
    <3> QED
      BY <2>4, <2>5, <3>1, Zenon
  <2>8. it[s] = 10 * it[1..k] + d
    <3>1. it[s] = FoldBody(it, s, w)
      BY <1>3, <2>3
    <3>2. it[s] = 10 * it[s \ {Max(s)}] + DigitOf(w[Max(s)])
      BY <2>3, <3>1, Zenon DEF FoldBody
    <3> QED
      BY <2>4, <2>5, <3>2, Zenon
  <2>9. Pow10[k + 1] = 10 * Pow10[k] /\ Pow10[k] \in Nat
    BY <2>1, PowTen
  <2>10. it[s] = E(k + 1)
    BY <2>2, <2>7, <2>8, Zenon
  <2>11. E(k + 1) \in Nat /\ E(k + 1) < Pow10[k + 1]
    <3> HIDE DEF E, d
    <3> QED
      BY <2>2, <2>6, <2>7, <2>9
  <2> QED
    BY <2>10, <2>11
<1>6. P \in SUBSET Nat
  OBVIOUS
<1> HIDE DEF P
<1>7. Len(w) \in P
  BY <1>1, <1>4, <1>5, <1>6, NumberInduction
<1> DEFINE n == Len(w)
<1>8. it[1..n] = E(n) /\ E(n) \in Nat /\ E(n) < Pow10[n]
  BY <1>1, <1>7 DEF P
<1>9. ValueOf(w) = it[1..n]
  BY <1>1, Zenon DEF ValueOf, it
<1>10. \A i \in 1..n : Weighed(1..n, w)[i] = PlaceValues(w)[i]
  <2> SUFFICES ASSUME NEW i \in 1..n PROVE Weighed(1..n, w)[i] = PlaceValues(w)[i]
    OBVIOUS
  <2>1. Behind(1..n, i) = (i + 1)..n
    BY <1>1 DEF Behind
  <2>2. Cardinality(Behind(1..n, i)) = n - i
    <3>1. Cardinality((i + 1)..n) = IF i + 1 > n THEN 0 ELSE n - (i + 1) + 1
      <4>1. i + 1 \in Int /\ n \in Int
        BY <1>1
      <4> HIDE DEF n
      <4> QED
        BY <4>1, FS_Interval
    <3> QED
      BY <1>1, <2>1, <3>1
  <2>3. Weighed(1..n, w)[i] = DigitOf(w[i]) * Pow10[Cardinality(Behind(1..n, i))]
    BY Zenon DEF Weighed
  <2>4. PlaceValues(w)[i] = DigitOf(w[i]) * Pow10[n - i]
    BY Zenon DEF PlaceValues
  <2> QED
    BY <2>2, <2>3, <2>4, Zenon
<1>11. Numbers(1..n, Weighed(1..n, w))
  BY <1>1, PlacesOf
<1>12. Numbers(1..n, PlaceValues(w))
  BY <1>10, <1>11 DEF Numbers
<1>13. E(n) = Total(1..n, PlaceValues(w))
  BY <1>10, <1>11, TotalCongruence
<1> QED
  BY <1>8, <1>9, <1>12, <1>13

-----------------------------------------------------------------------------
(* parse_fixed8: the parts of a text *)

Chars == Digits \cup {" ", "+", "-", "."}

\* The characters beside the digits are none of them, and differ.
LEMMA CharsDiffer ==
  /\ " " \notin Digits /\ "+" \notin Digits /\ "-" \notin Digits /\ "." \notin Digits
  /\ "+" # "." /\ "-" # "." /\ "+" # "-"
BY DEF Digits

\* What u64::from_str reads of w: w, or what follows its plus sign.
SignOf(w) == IF w # <<>> /\ Head(w) = "+" THEN 1 ELSE 0
Unsigned(w) == IF w # <<>> /\ Head(w) = "+" THEN Tail(w) ELSE w
IsNumber(w) == Unsigned(w) # <<>> /\ ToSet(Unsigned(w)) \subseteq Digits

LEMMA ParseU64Is ==
  ASSUME NEW w
  PROVE  ParseU64(w) = IF IsNumber(w) /\ ValueOf(Unsigned(w)) <= U64Max
                       THEN Accepted(ValueOf(Unsigned(w)))
                       ELSE Rejected
BY Zenon DEF ParseU64, FoldLeft, MapThenFoldSet, ValueOf, IsFold, FoldBody, Unsigned,
             IsNumber

LEMMA UnsignedIs ==
  ASSUME NEW w \in Seq(Chars)
  PROVE  /\ SignOf(w) \in 0..1 /\ SignOf(w) <= Len(w)
         /\ SignOf(w) = 1 <=> 1 <= Len(w) /\ w[1] = "+"
         /\ Unsigned(w) \in Seq(Chars)
         /\ Len(Unsigned(w)) = Len(w) - SignOf(w)
         /\ \A i \in 1..(Len(w) - SignOf(w)) : Unsigned(w)[i] = w[i + SignOf(w)]
<1>1. CASE w # <<>> /\ Head(w) = "+"
  <2>1. Len(w) \in Nat /\ Len(w) >= 1 /\ w[1] = "+"
    BY <1>1
  <2>2. SignOf(w) = 1 /\ Unsigned(w) = Tail(w)
    BY <1>1, Zenon DEF SignOf, Unsigned
  <2>3. /\ Tail(w) \in Seq(Chars) /\ Len(Tail(w)) = Len(w) - 1
        /\ \A i \in 1..(Len(w) - 1) : Tail(w)[i] = w[i + 1]
    BY <1>1
  <2> QED
    BY <2>1, <2>2, <2>3
<1>2. CASE ~(w # <<>> /\ Head(w) = "+")
  <2>1. SignOf(w) = 0 /\ Unsigned(w) = w
    BY <1>2, Zenon DEF SignOf, Unsigned
  <2>2. ~(1 <= Len(w) /\ w[1] = "+")
    BY <1>2
  <2> QED
    BY <2>1, <2>2
<1> QED
  BY <1>1, <1>2

\* What u64::from_str takes for a number.
LEMMA NumberIs ==
  ASSUME NEW w \in Seq(Chars)
  PROVE  /\ IsNumber(w) <=> /\ SignOf(w) < Len(w)
                            /\ \A i \in (SignOf(w) + 1)..Len(w) : w[i] \in Digits
         /\ IsNumber(w) => Unsigned(w) \in Seq(Digits)
<1> DEFINE u == Unsigned(w)
           a == SignOf(w)
<1>1. /\ a \in 0..1 /\ a <= Len(w) /\ Len(w) \in Nat /\ u \in Seq(Chars)
      /\ Len(u) = Len(w) - a
      /\ \A i \in 1..(Len(w) - a) : u[i] = w[i + a]
  BY UnsignedIs
<1>2. IsNumber(w) <=> u # <<>> /\ \A i \in DOMAIN u : u[i] \in Digits
  BY Zenon DEF IsNumber, ToSet
<1> HIDE DEF u, a
<1>3. u # <<>> <=> a < Len(w)
  BY <1>1
<1>4. ASSUME \A i \in DOMAIN u : u[i] \in Digits, NEW i \in (a + 1)..Len(w)
      PROVE  w[i] \in Digits
  <2>1. i - a \in 1..(Len(w) - a) /\ (i - a) + a = i
    BY <1>1
  <2>2. i - a \in DOMAIN u
    BY <1>1, <2>1
  <2>3. u[i - a] = w[(i - a) + a]
    BY <1>1, <2>1
  <2> QED
    BY <1>4, <2>1, <2>2, <2>3
<1>5. ASSUME \A i \in (a + 1)..Len(w) : w[i] \in Digits, NEW i \in DOMAIN u
      PROVE  u[i] \in Digits
  <2>1. i \in 1..(Len(w) - a) /\ i + a \in (a + 1)..Len(w)
    BY <1>1
  <2> QED
    BY <1>1, <1>5, <2>1
<1>6. ASSUME \A i \in DOMAIN u : u[i] \in Digits PROVE u \in Seq(Digits)
  BY <1>1, <1>6
<1> QED
  BY <1>2, <1>3, <1>4, <1>5, <1>6 DEF u, a

\* split_once
DotOf(s) == SelectInSeq(s, LAMBDA c : c = ".")
PointOf(s) == IF DotOf(s) = 0 THEN Len(s) + 1 ELSE DotOf(s)
IntPart(s) == IF DotOf(s) = 0 THEN s ELSE SubSeq(s, 1, DotOf(s) - 1)
FracPart(s) == IF DotOf(s) = 0 THEN <<>> ELSE SubSeq(s, DotOf(s) + 1, Len(s))

LEMMA DotIs ==
  ASSUME NEW s \in Seq(Chars)
  PROVE  \/ DotOf(s) = 0 /\ \A i \in 1..Len(s) : s[i] # "."
         \/ /\ DotOf(s) \in 1..Len(s) /\ s[DotOf(s)] = "."
            /\ \A i \in 1..(DotOf(s) - 1) : s[i] # "."
<1> DEFINE I == {i \in 1..Len(s) : s[i] = "."}
<1>1. DotOf(s) = IF I # {} THEN Min(I) ELSE 0
  BY Zenon DEF DotOf, SelectInSeq
<1>2. Len(s) \in Nat /\ I \in SUBSET Nat
  OBVIOUS
<1>3. CASE I = {}
  BY <1>1, <1>3
<1>4. CASE I # {}
  <2>1. \E x \in I : \A y \in I : x <= y
    BY <1>2, <1>4, FirstOf
  <2>2. Min(I) \in I /\ \A y \in I : Min(I) <= y
    <3> HIDE DEF I
    <3> QED
      BY <2>1, Zenon DEF Min
  <2>3. DotOf(s) \in I /\ \A y \in I : DotOf(s) <= y
    BY <1>1, <1>4, <2>2, Zenon
  <2>4. DotOf(s) \in 1..Len(s) /\ s[DotOf(s)] = "."
    BY <2>3
  <2>5. ASSUME NEW i \in 1..(DotOf(s) - 1) PROVE s[i] # "."
    <3>1. i \in 1..Len(s) /\ ~(DotOf(s) <= i)
      BY <1>2, <2>4
    <3> QED
      BY <2>3, <3>1
  <2> QED
    BY <2>4, <2>5
<1> QED
  BY <1>3, <1>4

\* The two parts, in places of the text.
LEMMA Parts ==
  ASSUME NEW s \in Seq(Chars)
  PROVE  /\ PointOf(s) \in 1..(Len(s) + 1)
         /\ PointOf(s) <= Len(s) => s[PointOf(s)] = "."
         /\ \A i \in 1..(PointOf(s) - 1) : s[i] # "."
         /\ IntPart(s) \in Seq(Chars) /\ Len(IntPart(s)) = PointOf(s) - 1
         /\ \A i \in 1..(PointOf(s) - 1) : IntPart(s)[i] = s[i]
         /\ FracPart(s) \in Seq(Chars)
         /\ Len(FracPart(s)) = IF PointOf(s) <= Len(s) THEN Len(s) - PointOf(s) ELSE 0
         /\ \A j \in 1..Len(FracPart(s)) : FracPart(s)[j] = s[PointOf(s) + j]
<1> DEFINE n == Len(s)
           d == DotOf(s)
<1>1. n \in Nat
  OBVIOUS
<1>2. CASE d = 0
  <2>1. PointOf(s) = n + 1 /\ IntPart(s) = s /\ FracPart(s) = <<>>
    BY <1>2, Zenon DEF PointOf, IntPart, FracPart
  <2>2. \A i \in 1..n : s[i] # "."
    BY <1>1, <1>2, DotIs
  <2>3. <<>> \in Seq(Chars) /\ Len(<<>>) = 0
    OBVIOUS
  <2> HIDE DEF d
  <2> QED
    BY <1>1, <2>1, <2>2, <2>3
<1>3. CASE d # 0
  <2>1. /\ PointOf(s) = d /\ IntPart(s) = SubSeq(s, 1, d - 1)
        /\ FracPart(s) = SubSeq(s, d + 1, n)
    BY <1>3, Zenon DEF PointOf, IntPart, FracPart
  <2>2. d \in 1..n /\ s[d] = "." /\ \A i \in 1..(d - 1) : s[i] # "."
    BY <1>3, DotIs
  <2> HIDE DEF d
  <2>3. /\ SubSeq(s, 1, d - 1) \in Seq(Chars) /\ Len(SubSeq(s, 1, d - 1)) = d - 1
        /\ \A i \in 1..(d - 1) : SubSeq(s, 1, d - 1)[i] = s[i]
    BY <1>1, <2>2
  <2>4. /\ SubSeq(s, d + 1, n) \in Seq(Chars) /\ Len(SubSeq(s, d + 1, n)) = n - d
        /\ \A j \in 1..(n - d) : SubSeq(s, d + 1, n)[j] = s[d + j]
    BY <1>1, <2>2
  <2> QED
    BY <1>1, <2>1, <2>2, <2>3, <2>4
<1> QED
  BY <1>2, <1>3

\* The fraction, with zeros behind it.
LEMMA PadIs ==
  ASSUME NEW f \in Seq(Chars), Len(f) <= FRAC
  PROVE  /\ Pad(f) \in Seq(Chars) /\ Len(Pad(f)) = FRAC
         /\ \A j \in 1..Len(f) : Pad(f)[j] = f[j]
         /\ \A j \in (Len(f) + 1)..FRAC : Pad(f)[j] = "0"
<1> DEFINE z == Zeros(FRAC - Len(f))
<1>1. FRAC \in Nat /\ Len(f) \in Nat /\ FRAC - Len(f) \in Nat
  <2>1. FRAC \in Nat
    BY Fixed8Assumption, Zenon
  <2>2. Len(f) \in Nat
    OBVIOUS
  <2> QED
    BY <2>1, <2>2
<1>2. "0" \in Chars
  BY DEF Chars, Digits
<1>3. z = [i \in 1..(FRAC - Len(f)) |-> "0"]
  BY DEF Zeros
<1>4. z \in Seq(Chars) /\ Len(z) = FRAC - Len(f)
  <2> DEFINE k == FRAC - Len(f)
  <2>1. k \in Nat /\ z = [i \in 1..k |-> "0"]
    BY <1>1, <1>3
  <2> HIDE DEF k, z
  <2>2. z \in Seq(Chars) /\ Len(z) = k
    BY <1>2, <2>1
  <2> QED
    BY <2>2 DEF k
<1>5. \A i \in 1..(FRAC - Len(f)) : z[i] = "0"
  BY <1>3
<1> HIDE DEF z
<1>6. Pad(f) = f \o z
  BY DEF Pad, z
<1> QED
  BY <1>1, <1>4, <1>5, <1>6

-----------------------------------------------------------------------------
(* parse_fixed8: what it accepts *)

\* s is a decimal, with its point where split_once splits.
Decimal(s) == PointOf(s) >= 2 /\ PointAt(s, PointOf(s))

\* A decimal has one point.
LEMMA OnePoint ==
  ASSUME NEW s \in Seq(Chars), NEW q \in 2..(Len(s) + 1), PointAt(s, q)
  PROVE  q = PointOf(s)
<1> DEFINE p == PointOf(s)
<1>1. /\ Len(s) \in Nat /\ p \in 1..(Len(s) + 1) /\ DOMAIN s = 1..Len(s)
      /\ p <= Len(s) => s[p] = "."
      /\ \A i \in 1..(p - 1) : s[i] # "."
  BY Parts
<1>2. /\ q <= Len(s) => s[q] = "."
      /\ \A i \in DOMAIN s \ {q} : s[i] \in Digits \/ (i = 1 /\ s[i] = "+")
  BY Zenon DEF PointAt
<1> HIDE DEF p
<1>3. \A i \in 1..Len(s) : i # q => s[i] # "."
  BY <1>1, <1>2, CharsDiffer
<1>4. CASE q < p
  <2>1. q \in 1..(p - 1) /\ q <= Len(s)
    BY <1>1, <1>4
  <2> QED
    BY <1>1, <1>2, <2>1
<1>5. CASE p < q
  <2>1. p \in 1..Len(s) /\ p # q
    BY <1>1, <1>5
  <2> QED
    BY <1>1, <1>3, <2>1
<1> QED
  BY <1>1, <1>4, <1>5 DEF p

\* The parser's three conditions, together, make a decimal of s.
LEMMA DecimalIs ==
  ASSUME NEW s \in Seq(Chars), ~SignedFraction(s)
  PROVE  /\ Decimal(s) <=> /\ IsNumber(IntPart(s))
                           /\ Len(FracPart(s)) <= FRAC
                           /\ FracPart(s) # <<>> => IsNumber(Pad(FracPart(s)))
         /\ Len(FracPart(s)) <= FRAC =>
              /\ Unsigned(Pad(FracPart(s))) = Pad(FracPart(s))
              /\ SignOf(Pad(FracPart(s))) = 0
         /\ Decimal(s) => /\ s # <<>> /\ Head(s) # "-"
                          /\ \A j \in 1..Len(FracPart(s)) : FracPart(s)[j] \in Digits
<1> DEFINE p == PointOf(s)
           n == Len(s)
           u == IntPart(s)
           a == SignOf(u)
           f == FracPart(s)
           m == Len(f)
<1>1. /\ n \in Nat /\ p \in 1..(n + 1) /\ DOMAIN s = 1..n
      /\ p <= n => s[p] = "."
      /\ u \in Seq(Chars) /\ Len(u) = p - 1 /\ \A i \in 1..(p - 1) : u[i] = s[i]
      /\ f \in Seq(Chars) /\ m = (IF p <= n THEN n - p ELSE 0)
      /\ \A j \in 1..m : f[j] = s[p + j]
  BY Parts
<1>2. /\ a \in 0..1 /\ a <= p - 1
      /\ a = 1 <=> 1 <= p - 1 /\ u[1] = "+"
  BY <1>1, UnsignedIs
<1>3. IsNumber(u) <=> a < p - 1 /\ \A i \in (a + 1)..(p - 1) : u[i] \in Digits
  BY <1>1, NumberIs
<1>4. FRAC \in Nat
  BY Fixed8Assumption, Zenon
<1>5. Decimal(s) <=> /\ p >= 2
                     /\ p <= n => s[p] = "."
                     /\ \A i \in DOMAIN s \ {p} : s[i] \in Digits \/ (i = 1 /\ s[i] = "+")
                     /\ \E i \in 1..(p - 1) : s[i] \in Digits
                     /\ n <= p + FRAC
  BY Zenon DEF Decimal, PointAt
<1>6. ASSUME NEW j \in 1..m PROVE p + j \in 1..n /\ p + j > p
  BY <1>1
<1>7. m >= 1 => f[1] # "+"
  <2> SUFFICES ASSUME m >= 1, f[1] = "+" PROVE FALSE
    OBVIOUS
  <2>1. p <= n /\ p + 1 \in DOMAIN s /\ p + 1 > 1 /\ (p + 1) - 1 = p
    BY <1>1
  <2>2. s[p + 1] = "+" /\ s[p] = "."
    BY <1>1, <2>1
  <2> HIDE DEF p, n, u, f, m
  <2>3. s[(p + 1) - 1] = "."
    BY <2>1, <2>2
  <2> QED
    BY <2>1, <2>2, <2>3 DEF SignedFraction
<1> DEFINE w == Pad(f)
<1>8. ASSUME m <= FRAC
      PROVE  /\ w \in Seq(Chars) /\ Len(w) = FRAC
             /\ \A j \in 1..m : w[j] = f[j]
             /\ \A j \in (m + 1)..FRAC : w[j] = "0"
             /\ SignOf(w) = 0 /\ Unsigned(w) = w
  <2>1. /\ w \in Seq(Chars) /\ Len(w) = FRAC
        /\ \A j \in 1..m : w[j] = f[j]
        /\ \A j \in (m + 1)..FRAC : w[j] = "0"
    BY <1>1, <1>8, PadIs
  <2>2. m \in Nat
    BY <1>1
  <2> HIDE DEF w, f, m
  <2>3. 1 <= FRAC => w[1] # "+"
    <3>1. CASE m = 0
      BY <1>4, <2>1, <2>2, <3>1
    <3>2. CASE m >= 1
      BY <1>7, <2>1, <2>2, <3>2
    <3> QED
      BY <2>2, <3>1, <3>2
  <2>4. SignOf(w) = 0
    BY <2>1, <2>3, UnsignedIs
  <2>5. Unsigned(w) = w
    <3>1. ~(w # <<>> /\ Head(w) = "+")
      <4> SUFFICES ASSUME w # <<>> /\ Head(w) = "+" PROVE FALSE
        OBVIOUS
      <4>1. SignOf(w) = 1
        BY Zenon DEF SignOf
      <4> QED
        BY <2>4, <4>1
    <3> QED
      BY <3>1, Zenon DEF Unsigned
  <2> QED
    BY <2>1, <2>4, <2>5
<1>9. ASSUME m <= FRAC PROVE IsNumber(w) <=> 0 < FRAC /\ \A j \in 1..m : f[j] \in Digits
  <2>1. IsNumber(w) <=> SignOf(w) < Len(w) /\ \A j \in (SignOf(w) + 1)..Len(w) : w[j] \in Digits
    BY <1>8, <1>9, NumberIs
  <2>2. /\ Len(w) = FRAC /\ SignOf(w) = 0
        /\ \A j \in 1..m : w[j] = f[j]
        /\ \A j \in (m + 1)..FRAC : w[j] = "0"
    BY <1>8, <1>9
  <2>3. m \in Nat /\ "0" \in Digits
    BY <1>1, DigitIs
  <2> HIDE DEF w, f, m
  <2>4. IsNumber(w) <=> 0 < FRAC /\ \A j \in 1..FRAC : w[j] \in Digits
    BY <2>1, <2>2
  <2>5. (\A j \in 1..FRAC : w[j] \in Digits) <=> \A j \in 1..m : f[j] \in Digits
    BY <1>4, <1>9, <2>2, <2>3
  <2> QED
    BY <2>4, <2>5
<1>10. 0 < FRAC
  <2>1. FRAC # 0
    BY Fixed8Assumption, Zenon
  <2> QED
    BY <1>4, <2>1
<1>11. f # <<>> <=> m >= 1
  BY <1>1
<1> HIDE DEF p, n, u, a, f, m, w
<1>12. ASSUME Decimal(s)
       PROVE  /\ IsNumber(u) /\ m <= FRAC /\ (f # <<>> => IsNumber(w))
              /\ s # <<>> /\ Head(s) # "-" /\ \A j \in 1..m : f[j] \in Digits
  <2>1. m <= FRAC
    BY <1>1, <1>4, <1>5, <1>12
  <2>2. \A j \in 1..m : f[j] \in Digits
    <3> SUFFICES ASSUME NEW j \in 1..m PROVE f[j] \in Digits
      OBVIOUS
    <3>1. p + j \in DOMAIN s \ {p} /\ p + j # 1
      BY <1>1, <1>6
    <3>2. s[p + j] \in Digits
      BY <1>5, <1>12, <3>1
    <3> QED
      BY <1>1, <3>2
  <2>3. PICK k \in 1..(p - 1) : s[k] \in Digits
    BY <1>5, <1>12
  <2>4. a < p - 1
    <3>1. a = 1 => k # 1
      BY <1>1, <1>2, <2>3, CharsDiffer
    <3> QED
      BY <1>1, <1>2, <2>3, <3>1
  <2>5. \A i \in (a + 1)..(p - 1) : u[i] \in Digits
    <3> SUFFICES ASSUME NEW i \in (a + 1)..(p - 1) PROVE u[i] \in Digits
      OBVIOUS
    <3>1. i \in 1..(p - 1) /\ i \in DOMAIN s \ {p}
      BY <1>1, <1>2
    <3>2. s[i] \in Digits \/ (i = 1 /\ s[i] = "+")
      BY <1>5, <1>12, <3>1
    <3>3. ~(i = 1 /\ s[i] = "+")
      BY <1>1, <1>2, <3>1
    <3> QED
      BY <1>1, <3>1, <3>2, <3>3
  <2>6. s # <<>> /\ Head(s) # "-"
    <3>1. n >= 1 /\ 1 \in DOMAIN s \ {p}
      BY <1>1, <1>5, <1>12
    <3>2. s[1] \in Digits \/ s[1] = "+"
      BY <1>5, <1>12, <3>1
    <3>3. s[1] # "-"
      BY <3>2, CharsDiffer
    <3> QED
      BY <3>1, <3>3 DEF n
  <2>7. IsNumber(u)
    BY <1>3, <2>4, <2>5
  <2>8. IsNumber(w)
    BY <1>9, <1>10, <2>1, <2>2
  <2> QED
    BY <2>1, <2>2, <2>6, <2>7, <2>8
<1>13. ASSUME IsNumber(u), m <= FRAC, f # <<>> => IsNumber(w)
       PROVE  Decimal(s)
  <2>1. a < p - 1 /\ \A i \in (a + 1)..(p - 1) : u[i] \in Digits
    BY <1>3, <1>13
  <2>2. p >= 2 /\ n <= p + FRAC
    BY <1>1, <1>2, <1>4, <1>13, <2>1
  <2>3. p - 1 \in (a + 1)..(p - 1) /\ p - 1 \in 1..(p - 1)
    BY <1>1, <1>2, <2>1
  <2>4. \E i \in 1..(p - 1) : s[i] \in Digits
    BY <1>1, <2>1, <2>3
  <2>5. ASSUME NEW i \in DOMAIN s \ {p} PROVE s[i] \in Digits \/ (i = 1 /\ s[i] = "+")
    <3>1. CASE i < p
      <4>1. i \in 1..(p - 1) /\ u[i] = s[i]
        BY <1>1, <3>1
      <4>2. CASE i > a
        BY <1>2, <2>1, <4>1, <4>2
      <4>3. CASE i <= a
        BY <1>2, <4>1, <4>3
      <4> QED
        BY <1>1, <1>2, <4>2, <4>3
    <3>2. CASE i > p
      <4>1. i - p \in 1..m /\ p + (i - p) = i
        BY <1>1, <3>2
      <4>2. m >= 1 /\ f[i - p] = s[i]
        BY <1>1, <4>1
      <4>3. f[i - p] \in Digits
        BY <1>9, <1>11, <1>13, <4>1, <4>2
      <4> QED
        BY <4>2, <4>3
    <3> QED
      BY <1>1, <3>1, <3>2
  <2> QED
    BY <1>1, <1>5, <2>2, <2>4, <2>5
<1>14. Decimal(s) <=> IsNumber(u) /\ m <= FRAC /\ (f # <<>> => IsNumber(w))
  BY <1>12, <1>13
<1> QED
  BY <1>8, <1>12, <1>14 DEF p, n, u, a, f, m, w

-----------------------------------------------------------------------------
(* parse_fixed8: what it accepts a text as *)

DigitPlaces(s) == {i \in DOMAIN s : s[i] \in Digits}
WeightAt(p, i) == Pow10[IF i < p THEN FRAC + p - 1 - i ELSE FRAC + p - i]
PlacesAround(s, p) == [i \in DOMAIN s |-> DigitOf(s[i]) * WeightAt(p, i)]

\* The exponents of the places before and behind the point.
LEMMA WeightIs ==
  ASSUME NEW p \in Nat
  PROVE  /\ \A i \in 1..(p - 1) : WeightAt(p, i) = Pow10[FRAC] * Pow10[p - 1 - i]
         /\ \A j \in 1..FRAC : WeightAt(p, p + j) = Pow10[FRAC - j]
<1>1. FRAC \in Nat
  BY Fixed8Assumption, Zenon
<1>2. ASSUME NEW i \in 1..(p - 1) PROVE WeightAt(p, i) = Pow10[FRAC] * Pow10[p - 1 - i]
  <2>1. i < p /\ p - 1 - i \in Nat /\ FRAC + p - 1 - i = FRAC + (p - 1 - i)
    BY <1>1
  <2>2. WeightAt(p, i) = Pow10[FRAC + (p - 1 - i)]
    BY <2>1, Zenon DEF WeightAt
  <2> QED
    BY <1>1, <2>1, <2>2, PowTenAdds, Zenon
<1>3. ASSUME NEW j \in 1..FRAC PROVE WeightAt(p, p + j) = Pow10[FRAC - j]
  <2>1. ~(p + j < p) /\ FRAC + p - (p + j) = FRAC - j
    BY <1>1
  <2> QED
    BY <2>1, Zenon DEF WeightAt
<1> QED
  BY <1>2, <1>3

\* The sum a text means, as a total.
LEMMA QuotedSum ==
  ASSUME NEW s \in Seq(Chars), NEW p \in Nat,
         Numbers(DigitPlaces(s), PlacesAround(s, p))
  PROVE  Quoted(s, p) = Total(DigitPlaces(s), PlacesAround(s, p))
<1> DEFINE D == DigitPlaces(s)
           g == PlacesAround(s, p)
           Fold(it) == it = [r \in SUBSET D |->
                              IF r = {} THEN 0
                              ELSE DigitOf(s[PickOf(r)]) * WeightAt(p, PickOf(r))
                                     + it[r \ {PickOf(r)}]]
           own == CHOOSE it : Fold(it)
<1>1. Quoted(s, p) = own[D]
  BY Zenon DEF Quoted, MapThenSumSet, MapThenFoldSet, PickOf, WeightAt, DigitPlaces
<1>2. ASSUME NEW it PROVE Fold(it) <=> IsSum(it, D, g)
  <2>1. \A r \in SUBSET D : r # {} =>
          g[PickOf(r)] = DigitOf(s[PickOf(r)]) * WeightAt(p, PickOf(r))
    <3>1. \A r \in SUBSET D : r # {} => PickOf(r) \in DOMAIN s
      BY PickIn, Zenon DEF DigitPlaces
    <3> QED
      BY <3>1, Zenon DEF PlacesAround
  <2> HIDE DEF g, D
  <2>2. \A r \in SUBSET D :
          (IF r = {} THEN 0
           ELSE DigitOf(s[PickOf(r)]) * WeightAt(p, PickOf(r)) + it[r \ {PickOf(r)}])
          = SumBody(it, r, g)
    BY <2>1, Zenon DEF SumBody
  <2> QED
    BY <2>2, Zenon DEF IsSum
<1>3. Numbers(D, g)
  OBVIOUS
<1>4. \E it : IsSum(it, D, g)
  BY <1>3, SumExists, Zenon
<1>5. IsSum(own, D, g)
  BY <1>2, <1>4, Zenon
<1> HIDE DEF own, D, g
<1>6. Total(D, g) = own[D]
  BY <1>3, <1>5, TotalFrom
<1> QED
  BY <1>1, <1>6, Zenon DEF D, g

\* The places of the integer part, which starts behind a sign, are worth its
\* value in units of 10^-FRAC.
LEMMA IntPlaces ==
  ASSUME NEW s \in Seq(Chars), Decimal(s), ~SignedFraction(s)
  PROVE  LET p == PointOf(s)
             places == (SignOf(IntPart(s)) + 1)..(p - 1)
         IN  /\ Numbers(places, PlacesAround(s, p))
             /\ Total(places, PlacesAround(s, p))
                  = Pow10[FRAC] * ValueOf(Unsigned(IntPart(s)))
             /\ \A i \in places : s[i] \in Digits
<1> DEFINE p == PointOf(s)
           n == Len(s)
           u == IntPart(s)
           a == SignOf(u)
           v == Unsigned(u)
           P == (a + 1)..(p - 1)
           k == p - 1 - a
           Q == PlacesAround(s, p)
           t == Pow10[FRAC]
<1>1. /\ n \in Nat /\ p \in 1..(n + 1) /\ DOMAIN s = 1..n
      /\ u \in Seq(Chars) /\ Len(u) = p - 1 /\ \A i \in 1..(p - 1) : u[i] = s[i]
  BY Parts
<1>2. a \in 0..1 /\ a <= p - 1 /\ Len(v) = k /\ \A i \in 1..k : v[i] = u[i + a]
  BY <1>1, UnsignedIs
<1>3. /\ v \in Seq(Digits)
      /\ \A i \in (a + 1)..(p - 1) : u[i] \in Digits
  BY <1>1, DecimalIs, NumberIs
<1>4. t \in Nat /\ p \in Nat
  <2>1. FRAC \in Nat
    BY Fixed8Assumption, Zenon
  <2>2. t \in Nat
    BY <2>1, PowTen
  <2>3. p \in Nat
    BY <1>1
  <2> QED
    BY <2>2, <2>3
<1>5. /\ Numbers(1..k, PlaceValues(v))
      /\ ValueOf(v) = Total(1..k, PlaceValues(v))
  BY <1>2, <1>3, ValueIs
<1> DEFINE h == [i \in 1..k |-> i + a]
           g == [i \in 1..k |-> Q[i + a]]
<1>6. \A i \in P : s[i] \in Digits
  BY <1>1, <1>2, <1>3
<1>7. ASSUME NEW i \in 1..k PROVE g[i] = t * PlaceValues(v)[i]
  <2>1. i + a \in 1..(p - 1) /\ i + a \in DOMAIN s /\ p - 1 - (i + a) = k - i
    BY <1>1, <1>2
  <2>2. Q[i + a] = DigitOf(s[i + a]) * WeightAt(p, i + a)
    BY <2>1, Zenon DEF PlacesAround
  <2>3. WeightAt(p, i + a) = t * Pow10[k - i]
    BY <1>4, <2>1, WeightIs
  <2>4. v[i] = s[i + a]
    BY <1>1, <1>2, <2>1
  <2>5. PlaceValues(v)[i] = DigitOf(v[i]) * Pow10[k - i]
    BY <1>2, Zenon DEF PlaceValues
  <2>6. DigitOf(v[i]) \in Nat /\ Pow10[k - i] \in Nat
    <3>1. v[i] \in Digits
      BY <1>2, <1>3
    <3>2. k - i \in Nat
      BY <1>1, <1>2
    <3> QED
      BY <3>1, <3>2, DigitIs, PowTen
  <2>7. g[i] = Q[i + a]
    OBVIOUS
  <2> DEFINE x == DigitOf(v[i])
             y == Pow10[k - i]
  <2>8. g[i] = x * (t * y) /\ PlaceValues(v)[i] = x * y
    BY <2>2, <2>3, <2>4, <2>5, <2>7, Zenon
  <2> HIDE DEF x, y, g, t
  <2>9. x * (t * y) = t * (x * y)
    BY <1>4, <2>6 DEF x, y
  <2> QED
    BY <2>8, <2>9, Zenon
<1>8. t \in Int
  BY <1>4
<1> HIDE DEF t
<1>9. Numbers(1..k, g) /\ Total(1..k, g) = t * Total(1..k, PlaceValues(v))
  <2> HIDE DEF g, k, v
  <2> QED
    BY <1>5, <1>7, <1>8, TotalScale
<1>10. Renames(h, 1..k, g, P, Q)
  <2>1. IsFiniteSet(1..k)
    BY <1>9 DEF Numbers
  <2>2. P = {h[i] : i \in 1..k}
    <3>1. ASSUME NEW i \in P PROVE i - a \in 1..k /\ h[i - a] = i
      BY <1>1, <1>2
    <3>2. ASSUME NEW i \in 1..k PROVE h[i] \in P
      BY <1>1, <1>2
    <3> HIDE DEF P, h, k
    <3> QED
      BY <3>1, <3>2
  <2>3. \A i \in 1..k : h[i] = i + a /\ g[i] = Q[i + a]
    OBVIOUS
  <2>4. \A i \in 1..k : g[i] \in Int
    BY <1>9 DEF Numbers
  <2>5. \A i, j \in 1..k : h[i] = h[j] => i = j
    BY <1>1, <1>2
  <2> HIDE DEF P, h, k, g, Q, a
  <2>6. \A i \in 1..k : Q[h[i]] \in Int /\ g[i] = Q[h[i]]
    BY <2>3, <2>4
  <2> QED
    BY <2>1, <2>2, <2>5, <2>6, Zenon DEF Renames
<1>11. Total(1..k, g) = Total(P, Q)
  <2> HIDE DEF P, h, k, g, Q
  <2> QED
    BY <1>10, TotalReindex
<1>12. Numbers(P, Q)
  <2>1. IsFiniteSet(P)
    <3>1. a + 1 \in Int /\ p - 1 \in Int
      BY <1>1, <1>2
    <3> HIDE DEF a, p
    <3> QED
      BY <3>1, FS_Interval
  <2>2. ASSUME NEW i \in P PROVE Q[i] \in Int
    <3>1. i - a \in 1..k /\ (i - a) + a = i
      BY <1>1, <1>2
    <3>2. g[i - a] = Q[i]
      BY <3>1
    <3>3. g[i - a] \in Int
      BY <1>9, <3>1 DEF Numbers
    <3> QED
      BY <3>2, <3>3
  <2> HIDE DEF P, Q
  <2> QED
    BY <2>1, <2>2 DEF Numbers
<1> HIDE DEF P, Q, h, g, k
<1>13. Total(P, Q) = t * ValueOf(v)
  BY <1>5, <1>9, <1>11, Zenon
<1> QED
  BY <1>6, <1>12, <1>13, Zenon DEF P, Q, t

\* The places of the fraction are worth the value of the padded fraction.
LEMMA FracPlaces ==
  ASSUME NEW s \in Seq(Chars), Decimal(s), ~SignedFraction(s)
  PROVE  LET p == PointOf(s)
             places == (p + 1)..Len(s)
             w == Pad(FracPart(s))
         IN  /\ Numbers(places, PlacesAround(s, p))
             /\ Total(places, PlacesAround(s, p)) = ValueOf(w)
             /\ FracPart(s) = <<>> => Total(places, PlacesAround(s, p)) = 0
             /\ ValueOf(w) \in Nat /\ ValueOf(w) < Pow10[FRAC]
             /\ \A i \in places : s[i] \in Digits
<1> DEFINE p == PointOf(s)
           n == Len(s)
           f == FracPart(s)
           m == Len(f)
           w == Pad(f)
           R == (p + 1)..n
           Q == PlacesAround(s, p)
           g == PlaceValues(w)
           h == [j \in 1..m |-> p + j]
<1>1. /\ n \in Nat /\ p \in 1..(n + 1) /\ DOMAIN s = 1..n
      /\ f \in Seq(Chars) /\ m = (IF p <= n THEN n - p ELSE 0)
      /\ \A j \in 1..m : f[j] = s[p + j]
  BY Parts
<1>2. FRAC \in Nat
  BY Fixed8Assumption, Zenon
<1>3. m <= FRAC /\ \A j \in 1..m : f[j] \in Digits
  BY DecimalIs
<1>4. /\ Len(w) = FRAC /\ w \in Seq(Chars)
      /\ \A j \in 1..m : w[j] = f[j]
      /\ \A j \in (m + 1)..FRAC : w[j] = "0"
  BY <1>1, <1>3, PadIs
<1>5. m \in Nat /\ p \in Nat
  BY <1>1
<1>6. w \in Seq(Digits)
  <2>1. \A j \in 1..FRAC : w[j] \in Digits
    <3>1. "0" \in Digits
      BY DigitIs
    <3> HIDE DEF w, f, m
    <3> QED
      BY <1>2, <1>3, <1>4, <1>5, <3>1
  <2> HIDE DEF w
  <2> QED
    BY <1>2, <1>4, <2>1
<1>7. /\ Numbers(1..FRAC, g)
      /\ ValueOf(w) = Total(1..FRAC, g)
      /\ ValueOf(w) \in Nat /\ ValueOf(w) < Pow10[FRAC]
  BY <1>4, <1>6, ValueIs
<1>8. R = {p + j : j \in 1..m} /\ \A j \in 1..m : p + j \in 1..n
  <2>1. \A i \in R : i - p \in 1..m /\ p + (i - p) = i
    BY <1>1
  <2>2. \A j \in 1..m : p + j \in R /\ p + j \in 1..n
    BY <1>1
  <2> HIDE DEF R, m, p
  <2> QED
    BY <2>1, <2>2
<1>9. \A i \in R : s[i] \in Digits
  <2> SUFFICES ASSUME NEW i \in R PROVE s[i] \in Digits
    OBVIOUS
  <2> HIDE DEF R, m, p, f
  <2>1. PICK j \in 1..m : i = p + j
    BY <1>8
  <2> QED
    BY <1>1, <1>3, <2>1
<1>10. ASSUME NEW j \in 1..m PROVE Q[p + j] = g[j]
  <2>1. j \in 1..FRAC /\ p + j \in DOMAIN s
    BY <1>1, <1>2, <1>3, <1>5, <1>8
  <2>2. Q[p + j] = DigitOf(s[p + j]) * WeightAt(p, p + j)
    BY <2>1, Zenon DEF PlacesAround
  <2>3. WeightAt(p, p + j) = Pow10[FRAC - j]
    BY <1>5, <2>1, WeightIs
  <2>4. w[j] = s[p + j]
    BY <1>1, <1>4
  <2>5. g[j] = DigitOf(w[j]) * Pow10[FRAC - j]
    BY <1>4, <2>1, Zenon DEF PlaceValues
  <2> QED
    BY <2>2, <2>3, <2>4, <2>5, Zenon
<1>11. 1..m \in SUBSET (1..FRAC)
  <2> HIDE DEF m
  <2> QED
    BY <1>2, <1>3, <1>5
<1>12. ASSUME NEW j \in (1..FRAC) \ (1..m) PROVE g[j] = 0
  <2>1. j \in 1..FRAC /\ FRAC - j \in Nat /\ j \in (m + 1)..FRAC
    BY <1>2, <1>5
  <2>2. w[j] = "0"
    BY <1>4, <2>1
  <2>3. g[j] = DigitOf("0") * Pow10[FRAC - j]
    BY <1>4, <2>1, <2>2, Zenon DEF PlaceValues
  <2>4. DigitOf("0") = 0 /\ Pow10[FRAC - j] \in Nat
    BY <2>1, DigitIs, PowTen
  <2> HIDE DEF g
  <2> QED
    BY <2>3, <2>4
<1>13. Numbers(1..m, g) /\ Total(1..FRAC, g) = Total(1..m, g)
  <2> DEFINE S == 1..FRAC
             T == 1..m
  <2>1. T \in SUBSET S /\ Numbers(S, g) /\ \A j \in S \ T : g[j] = 0
    BY <1>7, <1>11, <1>12
  <2> HIDE DEF S, T, g, m
  <2>2. Numbers(T, g) /\ Total(S, g) = Total(T, g)
    BY <2>1, TotalZeros
  <2> QED
    BY <2>2, Zenon DEF S, T
<1>14. Renames(h, 1..m, g, R, Q)
  <2>1. IsFiniteSet(1..m)
    BY <1>13 DEF Numbers
  <2>2. \A j \in 1..m : h[j] = p + j
    OBVIOUS
  <2>3. \A j \in 1..m : g[j] \in Int
    BY <1>13 DEF Numbers
  <2>4. \A i, j \in 1..m : h[i] = h[j] => i = j
    BY <1>5
  <2> HIDE DEF h, m, g, Q, p, R
  <2>5. R = {h[j] : j \in 1..m}
    BY <1>8, <2>2
  <2>6. \A j \in 1..m : Q[h[j]] \in Int /\ g[j] = Q[h[j]]
    BY <1>10, <2>2, <2>3
  <2> QED
    BY <2>1, <2>4, <2>5, <2>6, Zenon DEF Renames
<1>15. Total(1..m, g) = Total(R, Q)
  <2> HIDE DEF h, m, g, Q, R
  <2> QED
    BY <1>14, TotalReindex
<1>16. Numbers(R, Q)
  <2>1. IsFiniteSet(R)
    <3>1. p + 1 \in Int /\ n \in Int
      BY <1>1
    <3> HIDE DEF n, p
    <3> QED
      BY <3>1, FS_Interval
  <2>2. \A i \in R : Q[i] \in Int
    <3> SUFFICES ASSUME NEW i \in R PROVE Q[i] \in Int
      OBVIOUS
    <3> HIDE DEF R, m, p, g, Q
    <3>1. PICK j \in 1..m : i = p + j
      BY <1>8
    <3>2. g[j] \in Int
      BY <1>13 DEF Numbers
    <3> QED
      BY <1>10, <3>1, <3>2
  <2> HIDE DEF R, Q
  <2> QED
    BY <2>1, <2>2 DEF Numbers
<1>17. f = <<>> => Total(R, Q) = 0
  <2> SUFFICES ASSUME f = <<>> PROVE Total(R, Q) = 0
    OBVIOUS
  <2>1. m = 0
    OBVIOUS
  <2> HIDE DEF m, Q, R, g
  <2>2. 1..m = {}
    BY <2>1
  <2> QED
    BY <1>15, <2>2, TotalEmpty
<1> HIDE DEF R, Q, g, w
<1>18. Total(R, Q) = ValueOf(w)
  BY <1>7, <1>13, <1>15, Zenon
<1> QED
  BY <1>7, <1>9, <1>16, <1>17, <1>18, Zenon DEF R, Q, w

\* What a decimal means is what the parser puts together.
LEMMA QuotedIs ==
  ASSUME NEW s \in Seq(Chars), Decimal(s), ~SignedFraction(s)
  PROVE  /\ Quoted(s, PointOf(s))
              = Pow10[FRAC] * ValueOf(Unsigned(IntPart(s))) + ValueOf(Pad(FracPart(s)))
         /\ FracPart(s) = <<>> => ValueOf(Pad(FracPart(s))) = 0
         /\ ValueOf(Unsigned(IntPart(s))) \in Nat
         /\ ValueOf(Pad(FracPart(s))) \in Nat
         /\ ValueOf(Pad(FracPart(s))) < Pow10[FRAC]
<1> DEFINE p == PointOf(s)
           n == Len(s)
           u == IntPart(s)
           a == SignOf(u)
           P == (a + 1)..(p - 1)
           R == (p + 1)..n
           Q == PlacesAround(s, p)
           x == Pow10[FRAC] * ValueOf(Unsigned(u))
           y == ValueOf(Pad(FracPart(s)))
<1>1. Numbers(P, Q) /\ Total(P, Q) = x /\ \A i \in P : s[i] \in Digits
  BY IntPlaces
<1>2. /\ Numbers(R, Q) /\ Total(R, Q) = y /\ \A i \in R : s[i] \in Digits
      /\ FracPart(s) = <<>> => Total(R, Q) = 0
      /\ y \in Nat /\ y < Pow10[FRAC]
  BY FracPlaces
<1>3. /\ n \in Nat /\ p \in 1..(n + 1) /\ DOMAIN s = 1..n
      /\ p <= n => s[p] = "."
      /\ u \in Seq(Chars) /\ Len(u) = p - 1 /\ \A i \in 1..(p - 1) : u[i] = s[i]
  BY Parts
<1>4. a \in 0..1 /\ a <= p - 1 /\ (a = 1 => u[1] = "+")
  BY <1>3, UnsignedIs
<1>5. DigitPlaces(s) = P \cup R
  <2>1. ASSUME NEW i \in 1..n, s[i] \in Digits PROVE i \in P \cup R
    <3>1. i # p
      <4> SUFFICES ASSUME i = p PROVE FALSE
        OBVIOUS
      <4>1. p <= n => s[p] = "."
        BY <1>3
      <4> HIDE DEF p, n, u
      <4>2. s[p] \in Digits /\ p <= n
        BY <2>1
      <4> QED
        BY <4>1, <4>2, CharsDiffer
    <3>2. ~(i <= a)
      <4> SUFFICES ASSUME i <= a PROVE FALSE
        OBVIOUS
      <4>1. i = 1 /\ a = 1 /\ i \in 1..(p - 1)
        BY <1>3, <1>4
      <4>2. s[i] = "+"
        BY <1>3, <1>4, <4>1
      <4> QED
        BY <2>1, <4>2, CharsDiffer
    <3> QED
      BY <1>3, <1>4, <3>1, <3>2
  <2>2. P \in SUBSET (1..n) /\ R \in SUBSET (1..n)
    BY <1>3, <1>4
  <2> HIDE DEF P, R, n, p
  <2> QED
    BY <1>1, <1>2, <1>3, <2>1, <2>2 DEF DigitPlaces
<1>6. \A i \in P : i \notin R
  BY <1>3, <1>4
<1>7. p \in Nat
  BY <1>3
<1>8. ValueOf(Unsigned(u)) \in Nat
  <2>1. Unsigned(u) \in Seq(Digits)
    BY <1>3, DecimalIs, NumberIs
  <2> QED
    BY <2>1, ValueIs
<1> HIDE DEF P, R, Q, x, y, p
<1>9. Numbers(P \cup R, Q) /\ Total(P \cup R, Q) = x + y
  BY <1>1, <1>2, <1>6, TotalUnion
<1>10. Quoted(s, p) = Total(DigitPlaces(s), Q)
  BY <1>5, <1>7, <1>9, QuotedSum DEF Q
<1>11. Quoted(s, p) = x + y
  BY <1>5, <1>9, <1>10, Zenon
<1>12. FracPart(s) = <<>> => y = 0
  BY <1>2
<1> QED
  BY <1>2, <1>8, <1>11, <1>12 DEF x, y, p

\* parse_fixed8 behind its trim
Parsed(s) ==
  LET int_val == ParseU64(IntPart(s))
      scaled == Checked(int_val.raw * Pow10[FRAC])
      frac_val == ParseU64(Pad(FracPart(s)))
  IN
  IF s = <<>> \/ Head(s) = "-" \/ Len(FracPart(s)) > FRAC THEN Rejected
  ELSE IF int_val = Rejected \/ scaled = Rejected THEN Rejected
  ELSE IF FracPart(s) = <<>> THEN scaled
  ELSE IF frac_val = Rejected THEN Rejected
  ELSE Checked(scaled.raw + frac_val.raw)

LEMMA ParseIs == ASSUME NEW text PROVE ParseFixed8(text) = Parsed(Trim(text))
BY Zenon DEF ParseFixed8, Parsed, IntPart, FracPart, DotOf

LEMMA AcceptedIs ==
  /\ \A n : Accepted(n) # Rejected /\ Accepted(n).raw = n
  /\ \A n : n <= U64Max => Checked(n) = Accepted(n)
  /\ \A n : ~(n <= U64Max) => Checked(n) = Rejected
<1>1. ASSUME NEW n PROVE Accepted(n) # Rejected /\ Accepted(n).raw = n
  <2>1. DOMAIN Accepted(n) = {"raw"} /\ DOMAIN Rejected = {"bad_decimal"}
    BY DEF Accepted, Rejected
  <2>2. "raw" # "bad_decimal"
    OBVIOUS
  <2>3. Accepted(n).raw = n
    BY DEF Accepted
  <2> QED
    BY <2>1, <2>2, <2>3
<1> QED
  BY <1>1, Zenon DEF Checked

\* A text of the exchange's characters is one without its blanks.
LEMMA TrimIs == \A text \in Texts : Trim(text) \in Seq(Chars)
<1> SUFFICES ASSUME NEW text \in Texts PROVE Trim(text) \in Seq(Chars)
  OBVIOUS
<1> DEFINE kept == {i \in DOMAIN text : text[i] # " "}
<1>1. text \in Seq(Chars)
  <2>1. PICK n \in 0..MaxText : text \in [1..n -> Alphabet]
    BY DEF Texts
  <2>2. Alphabet \subseteq Chars
    BY Fixed8Assumption, Zenon DEF Chars
  <2>3. n \in Nat
    <3>1. MaxText \in Nat
      BY Fixed8Assumption, Zenon
    <3> QED
      BY <3>1
  <2> QED
    BY <2>1, <2>2, <2>3
<1>2. Len(text) \in Nat /\ kept \in SUBSET (1..Len(text))
  <2>1. Len(text) \in Nat /\ DOMAIN text = 1..Len(text)
    BY <1>1
  <2> QED
    BY <2>1
<1>3. CASE kept = {}
  <2>1. Trim(text) = <<>>
    BY <1>3, Zenon DEF Trim
  <2> QED
    BY <2>1
<1>4. CASE kept # {}
  <2>1. Trim(text) = SubSeq(text, Min(kept), Max(kept))
    BY <1>4, Zenon DEF Trim
  <2> HIDE DEF kept
  <2>2. Max(kept) \in 1..Len(text)
    BY <1>2, <1>4, LastIsThere
  <2>3. Min(kept) \in 1..Len(text)
    <3>1. kept \in SUBSET Nat
      BY <1>2
    <3>2. \E x \in kept : \A y \in kept : x <= y
      BY <1>4, <3>1, FirstOf
    <3>3. Min(kept) \in kept
      BY <3>2, Zenon DEF Min
    <3> QED
      BY <1>2, <3>3
  <2> QED
    BY <1>1, <1>2, <2>1, <2>2, <2>3
<1> QED
  BY <1>3, <1>4

\* The parser accepts decimals that fit, as what they mean.
LEMMA ParsedIs ==
  ASSUME NEW s \in Seq(Chars), ~SignedFraction(s)
  PROVE  /\ Decimal(s) /\ Quoted(s, PointOf(s)) <= U64Max
              => Parsed(s) = Accepted(Quoted(s, PointOf(s)))
         /\ ~(Decimal(s) /\ Quoted(s, PointOf(s)) <= U64Max) => Parsed(s) = Rejected
         /\ Decimal(s) => Quoted(s, PointOf(s)) \in Nat
<1> DEFINE u == IntPart(s)
           f == FracPart(s)
           w == Pad(f)
           x == ValueOf(Unsigned(u))
           y == ValueOf(w)
           t == Pow10[FRAC]
           q == Quoted(s, PointOf(s))
           int_val == ParseU64(u)
           scaled == Checked(int_val.raw * t)
           frac_val == ParseU64(w)
           Right == /\ q <= U64Max => Parsed(s) = Accepted(q)
                    /\ ~(q <= U64Max) => Parsed(s) = Rejected
<1>1. Parsed(s) =
        IF s = <<>> \/ Head(s) = "-" \/ Len(f) > FRAC THEN Rejected
        ELSE IF int_val = Rejected \/ scaled = Rejected THEN Rejected
        ELSE IF f = <<>> THEN scaled
        ELSE IF frac_val = Rejected THEN Rejected
        ELSE Checked(scaled.raw + frac_val.raw)
  BY Zenon DEF Parsed
<1>2. /\ IsNumber(u) /\ x <= U64Max => int_val = Accepted(x)
      /\ ~(IsNumber(u) /\ x <= U64Max) => int_val = Rejected
  BY ParseU64Is, Zenon
<1>3. Len(f) <= FRAC => /\ IsNumber(w) /\ y <= U64Max => frac_val = Accepted(y)
                        /\ ~(IsNumber(w) /\ y <= U64Max) => frac_val = Rejected
  <2>1. frac_val = IF IsNumber(w) /\ ValueOf(Unsigned(w)) <= U64Max
                   THEN Accepted(ValueOf(Unsigned(w))) ELSE Rejected
    BY ParseU64Is, Zenon
  <2>2. Len(f) <= FRAC => Unsigned(w) = w
    BY DecimalIs
  <2> HIDE DEF frac_val, w, f
  <2> QED
    BY <2>1, <2>2, Zenon
<1>4. /\ Decimal(s) <=> IsNumber(u) /\ Len(f) <= FRAC /\ (f # <<>> => IsNumber(w))
      /\ Decimal(s) => s # <<>> /\ Head(s) # "-"
  BY DecimalIs
<1>5. Decimal(s) => /\ q = t * x + y /\ (f = <<>> => y = 0)
                    /\ x \in Nat /\ y \in Nat /\ y < t
  BY QuotedIs
<1>6. t \in Nat /\ t >= 1 /\ U64Max \in Nat /\ t <= U64Max /\ FRAC \in Nat
  <2>1. FRAC \in Nat /\ U64Max \in Nat /\ t <= U64Max
    BY Fixed8Assumption, Zenon
  <2>2. t \in Nat /\ t >= 1
    BY <2>1, PowTen
  <2> QED
    BY <2>1, <2>2
<1>7. Len(f) \in Nat
  BY Parts
<1> HIDE DEF u, w, x, y, t, q, Right
<1>8. CASE ~Decimal(s)
  <2>1. CASE Len(f) > FRAC
    BY <1>1, <1>8, <2>1
  <2>2. CASE Len(f) <= FRAC
    <3>1. ~IsNumber(u) => int_val = Rejected
      BY <1>2
    <3>2. f # <<>> /\ ~IsNumber(w) => frac_val = Rejected
      BY <1>3, <2>2
    <3>3. ~IsNumber(u) \/ (f # <<>> /\ ~IsNumber(w))
      BY <1>4, <1>8, <2>2
    <3> HIDE DEF int_val, scaled, frac_val, f
    <3>4. Parsed(s) = Rejected
      BY <1>1, <3>1, <3>2, <3>3, Zenon
    <3> QED
      BY <1>8, <3>4
  <2> QED
    BY <1>6, <1>7, <2>1, <2>2
<1>9. CASE Decimal(s)
  <2>1. /\ IsNumber(u) /\ Len(f) <= FRAC /\ (f # <<>> => IsNumber(w))
        /\ s # <<>> /\ Head(s) # "-" /\ ~(Len(f) > FRAC)
    BY <1>4, <1>6, <1>7, <1>9
  <2>2. /\ q = t * x + y /\ (f = <<>> => y = 0)
        /\ x \in Nat /\ y \in Nat /\ y < t
    BY <1>5, <1>9
  <2>3. t * x \in Nat /\ x <= t * x /\ q \in Nat /\ t * x <= q /\ x * t = t * x
    <3>1. t * x \in Nat /\ x * t = t * x
      BY <1>6, <2>2
    <3>2. x <= t * x
      <4>1. \E r \in Nat : t = r + 1
        <5>1. t - 1 \in Nat /\ t = (t - 1) + 1
          BY <1>6
        <5> QED
          BY <5>1
      <4>2. PICK r \in Nat : t = r + 1
        BY <4>1
      <4>3. (r + 1) * x = r * x + x /\ r * x \in Nat
        BY <2>2
      <4> QED
        BY <2>2, <4>2, <4>3
    <3> QED
      BY <2>2, <3>1, <3>2
  <2>4. y <= U64Max
    BY <1>6, <2>2
  <2>5. Parsed(s) = IF int_val = Rejected \/ scaled = Rejected THEN Rejected
                    ELSE IF f = <<>> THEN scaled
                    ELSE IF frac_val = Rejected THEN Rejected
                    ELSE Checked(scaled.raw + frac_val.raw)
    <3> HIDE DEF int_val, scaled, frac_val, f
    <3> QED
      BY <1>1, <2>1, Zenon
  <2>6. ASSUME ~(x <= U64Max) PROVE Right
    <3>1. int_val = Rejected
      BY <1>2, <2>6
    <3>2. ~(q <= U64Max)
      BY <1>6, <2>2, <2>3, <2>6
    <3> HIDE DEF int_val, scaled, frac_val, f
    <3> QED
      BY <2>5, <3>1, <3>2, Zenon DEF Right
  <2>7. ASSUME x <= U64Max PROVE Right
    <3>1. int_val = Accepted(x) /\ int_val # Rejected /\ int_val.raw = x
      BY <1>2, <2>1, <2>7, AcceptedIs, Zenon
    <3>2. scaled = Checked(t * x)
      BY <2>3, <3>1, Zenon
    <3> HIDE DEF int_val, scaled
    <3>3. CASE ~(t * x <= U64Max)
      <4>1. scaled = Rejected
        BY <3>2, <3>3, AcceptedIs, Zenon
      <4>2. ~(q <= U64Max)
        BY <1>6, <2>3, <3>3
      <4> HIDE DEF frac_val, f
      <4> QED
        BY <2>5, <4>1, <4>2, Zenon DEF Right
    <3>4. CASE t * x <= U64Max
      <4>1. scaled = Accepted(t * x) /\ scaled # Rejected /\ scaled.raw = t * x
        BY <3>2, <3>4, AcceptedIs, Zenon
      <4>2. CASE f = <<>>
        <5>1. q = t * x
          BY <2>2, <2>3, <4>2
        <5> HIDE DEF frac_val, f
        <5>2. Parsed(s) = Accepted(q)
          BY <2>5, <3>1, <4>1, <4>2, <5>1, Zenon
        <5> QED
          BY <3>4, <5>1, <5>2, Zenon DEF Right
      <4>3. CASE f # <<>>
        <5>1. frac_val = Accepted(y) /\ frac_val # Rejected /\ frac_val.raw = y
          BY <1>3, <2>1, <2>4, <4>3, AcceptedIs, Zenon
        <5> HIDE DEF frac_val, f
        <5>2. Parsed(s) = Checked(q)
          BY <2>2, <2>5, <3>1, <4>1, <4>3, <5>1, Zenon
        <5> QED
          BY <5>2, AcceptedIs, Zenon DEF Right
      <4> QED
        BY <4>2, <4>3
    <3> QED
      BY <3>3, <3>4
  <2> QED
    BY <1>9, <2>3, <2>6, <2>7 DEF q, Right
<1> QED
  BY <1>8, <1>9 DEF q

\* What the text means is Quoted, if it is a decimal, and nothing otherwise.
LEMMA MeantIs ==
  ASSUME NEW s \in Seq(Chars)
  PROVE  {Quoted(s, p) : p \in {q \in 2..(Len(s) + 1) : PointAt(s, q)}}
           = IF Decimal(s) THEN {Quoted(s, PointOf(s))} ELSE {}
<1> DEFINE B == {q \in 2..(Len(s) + 1) : PointAt(s, q)}
<1>1. B = IF Decimal(s) THEN {PointOf(s)} ELSE {}
  <2>1. \A q \in B : q = PointOf(s)
    BY OnePoint
  <2>2. PointOf(s) \in 1..(Len(s) + 1) /\ Len(s) \in Nat
    BY Parts
  <2>3. PointOf(s) \in B <=> Decimal(s)
    BY <2>2 DEF Decimal
  <2> HIDE DEF B
  <2> QED
    BY <2>1, <2>3
<1> HIDE DEF B
<1>2. {Quoted(s, p) : p \in B} = IF Decimal(s) THEN {Quoted(s, PointOf(s))} ELSE {}
  BY <1>1
<1> QED
  BY <1>2 DEF B

\* types.rs:49-58: parse_fixed8 neither rounds, cuts off nor wraps around, for
\* every text, scale and width of the integer.
THEOREM ParseIsExact == ParsesExactly
<1> SUFFICES ASSUME NEW text \in Texts, ~SignedFraction(Trim(text))
             PROVE  LET s == Trim(text)
                        meant == {Quoted(s, p) : p \in {q \in 2..(Len(s) + 1) : PointAt(s, q)}}
                    IN  IF ParseFixed8(text) = Rejected
                        THEN \A n \in meant : n > U64Max
                        ELSE meant = {ParseFixed8(text).raw}
  BY Zenon DEF ParsesExactly
<1> DEFINE s == Trim(text)
           meant == {Quoted(s, p) : p \in {q \in 2..(Len(s) + 1) : PointAt(s, q)}}
           n == Quoted(s, PointOf(s))
<1>1. s \in Seq(Chars)
  BY TrimIs
<1>2. ParseFixed8(text) = Parsed(s)
  BY ParseIs
<1>3. meant = IF Decimal(s) THEN {n} ELSE {}
  BY <1>1, MeantIs
<1>4. /\ Decimal(s) /\ n <= U64Max => Parsed(s) = Accepted(n)
      /\ ~(Decimal(s) /\ n <= U64Max) => Parsed(s) = Rejected
      /\ Decimal(s) => n \in Nat
  BY <1>1, ParsedIs
<1>5. U64Max \in Nat
  BY Fixed8Assumption, Zenon
<1> HIDE DEF s, meant, n
<1>6. CASE Decimal(s) /\ n <= U64Max
  <2>1. Parsed(s) # Rejected /\ Parsed(s).raw = n
    BY <1>4, <1>6, AcceptedIs, Zenon
  <2> QED
    BY <1>2, <1>3, <1>6, <2>1, Zenon DEF s, meant
<1>7. CASE ~(Decimal(s) /\ n <= U64Max)
  <2>1. Parsed(s) = Rejected
    BY <1>4, <1>7
  <2>2. \A k \in meant : k > U64Max
    BY <1>3, <1>4, <1>5, <1>7
  <2> QED
    BY <1>2, <2>1, <2>2, Zenon DEF s, meant
<1> QED
  BY <1>6, <1>7

\* types.rs:49-58: so whatever text an open session receives, decode takes it
\* for what it says or drops the frame.
THEOREM PricesExact == Spec => []PricesAreExact
<1>1. PricesAreExact
  BY ParseIsExact DEF PricesAreExact
<1> QED
  BY <1>1, PTL
=============================================================================
