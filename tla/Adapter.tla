------------------------------- MODULE Adapter -------------------------------
(***************************************************************************)
(* A trade-ingest adapter (binance.rs, bybit.rs, hyperliquid.rs) with the  *)
(* backoff crate that paces it: the reconnect loop of `run`, a session of  *)
(* `run_once` and the numbering of trades in `decode`.  The reconnect loop *)
(* of toxicity-client-rs is the same loop around another session.          *)
(*                                                                         *)
(* A text frame is the sequence of its trades, "ok" or "bad" (a price or   *)
(* quantity parse_fixed8 rejects); <<>> is a control message.  Binance     *)
(* frames hold one trade, the other venues' hold a batch.  Sessions take   *)
(* no time, sleeping does.                                                 *)
(***************************************************************************)
EXTENDS Naturals, Sequences, FiniteSets

CONSTANTS
  Base,          \* BackoffConfig.base, in units of time
  MaxDelay,      \* BackoffConfig.max
  Frames,        \* the text frames the exchange may send
  MaxSequence,   \* bound: trades numbered
  MaxElapsed,    \* bound: the time observed; the venue's window
  Limit          \* connection attempts the venue allows in that window

ASSUME AdapterAssumption ==
  /\ Base \in Nat \ {0}
  /\ MaxDelay \in Nat \ {0}
  /\ Frames \subseteq Seq({"ok", "bad"})
  /\ MaxSequence \in Nat
  /\ MaxElapsed \in Nat
  /\ Limit \in Nat

VARIABLES
  pc,          \* "connecting", "open" or "sleeping"
  attempt,     \* ExponentialBackoff.attempt
  delay,       \* what next_delay returned
  sequence,    \* the adapter's trade counter
  rx_open,     \* the worker still holds trade_rx
  emitted,     \* history: the trades sent on tx, each with its session
  elapsed,     \* history: time slept
  attempts,    \* history: connection attempts; the last one names the session
  all_refused  \* history: none of them was accepted

vars == <<pc, attempt, delay, sequence, rx_open, emitted, elapsed, attempts,
          all_refused>>
clock == <<elapsed, attempts, all_refused>>

Trades == [sequence : Nat, session : Nat]

TypeOK ==
  /\ pc \in {"connecting", "open", "sleeping"}
  /\ attempt \in Nat
  /\ delay \in 0..MaxDelay
  /\ sequence \in Nat
  /\ rx_open \in BOOLEAN
  /\ emitted \in Seq(Trades)
  /\ elapsed \in 0..MaxElapsed
  /\ attempts \in Nat
  /\ all_refused \in BOOLEAN

Init ==
  /\ pc = "connecting"
  /\ attempt = 0
  /\ delay = 0
  /\ sequence = 0
  /\ rx_open = TRUE
  /\ emitted = <<>>
  /\ elapsed = 0
  /\ attempts = 0
  /\ all_refused = TRUE

-----------------------------------------------------------------------------
(* Backoff *)

MinOf(a, b) == IF a <= b THEN a ELSE b

\* Plausible bug: the delay is not doubled.
NextDelayConstant == Base

\* Plausible bug: the first retry does not wait.
NextDelayFromZero == MinOf(Base * attempt, MaxDelay)

\* Plausible bug: the cap is applied to the exponent only.
NextDelayUncapped == Base * 2^MinOf(attempt, 20)

\* next_delay: base * 2^min(attempt, 20), at most max
NextDelay == MinOf(Base * 2^MinOf(attempt, 20), MaxDelay)

\* run_once returned, with Ok or Err alike: back off.
EndSession ==
  /\ pc' = "sleeping"
  /\ delay' = NextDelay
  /\ attempt' = attempt + 1

\* tokio::time::sleep(delay) is over
Wake ==
  /\ pc = "sleeping"
  /\ elapsed + delay <= MaxElapsed
  /\ elapsed' = elapsed + delay
  /\ pc' = "connecting"
  /\ UNCHANGED <<attempt, delay, sequence, rx_open, emitted, attempts, all_refused>>

-----------------------------------------------------------------------------
(* A session *)

\* connect_async fails: the backoff is not reset.
ConnectFails ==
  /\ pc = "connecting"
  /\ attempts' = attempts + 1
  /\ EndSession
  /\ UNCHANGED <<sequence, rx_open, emitted, elapsed, all_refused>>

\* Plausible bug: the counter belongs to run_once, not to run.
ConnectRestartsSequence ==
  /\ pc = "connecting"
  /\ pc' = "open"
  /\ attempt' = 0
  /\ sequence' = 0
  /\ attempts' = attempts + 1
  /\ all_refused' = FALSE
  /\ UNCHANGED <<delay, rx_open, emitted, elapsed>>

\* connect_async succeeds: backoff.reset()
Connect ==
  /\ pc = "connecting"
  /\ pc' = "open"
  /\ attempt' = 0
  /\ attempts' = attempts + 1
  /\ all_refused' = FALSE
  /\ UNCHANGED <<delay, sequence, rx_open, emitted, elapsed>>

Bad(frame) == {i \in DOMAIN frame : frame[i] = "bad"}

\* The first n trades of a frame, numbered from `sequence` on
Numbered(n) ==
  [i \in 1..n |-> [sequence |-> sequence + i - 1, session |-> attempts]]

\* Plausible bug: the trades before a bad one are dropped, the session goes on.
DecodeGoesOn(frame) ==
  IF Bad(frame) = {}
  THEN [numbered |-> Len(frame), trades |-> Numbered(Len(frame)), ok |-> TRUE]
  ELSE [numbered |-> Len(frame), trades |-> <<>>, ok |-> TRUE]

\* decode: `collect` stops at the first bad trade.  The trades before it have
\* taken a sequence number, and so has the bad one, but none is returned.
Decode(frame) ==
  IF Bad(frame) = {}
  THEN [numbered |-> Len(frame), trades |-> Numbered(Len(frame)), ok |-> TRUE]
  ELSE [numbered |-> CHOOSE i \in Bad(frame) : \A j \in Bad(frame) : i <= j,
        trades |-> <<>>, ok |-> FALSE]

\* A text frame: decode it and send its trades.  A decode error ends the
\* session, and so does a send that finds the receiver dropped.
ReceiveText(frame) ==
  LET d == Decode(frame) IN
  /\ pc = "open"
  /\ sequence + Len(frame) <= MaxSequence
  /\ sequence' = sequence + d.numbered
  /\ emitted' = IF rx_open THEN emitted \o d.trades ELSE emitted
  /\ IF d.ok /\ (rx_open \/ d.trades = <<>>)
     THEN UNCHANGED <<pc, delay, attempt>>
     ELSE EndSession
  /\ UNCHANGED <<rx_open, clock>>

\* Close, end of stream, a socket error, a failed write (subscribe, pong,
\* application ping), or text that is not the JSON decode expects.
SessionEnds ==
  /\ pc = "open"
  /\ EndSession
  /\ UNCHANGED <<sequence, rx_open, emitted, clock>>

\* External: the task that holds trade_rx is gone.
DropReceiver ==
  /\ rx_open
  /\ rx_open' = FALSE
  /\ UNCHANGED <<pc, attempt, delay, sequence, emitted, clock>>

Next ==
  \/ ConnectFails \/ Connect \/ SessionEnds \/ Wake \/ DropReceiver
  \/ \E frame \in Frames : ReceiveText(frame)

Spec == Init /\ [][Next]_vars

-----------------------------------------------------------------------------
(* Properties *)

\* types.rs:38-43: sequence numbers order the trades of a stream for capture
\* and replay: across reconnects, failed batches and a receiver that goes away
\* they are strictly increasing.
SequenceIncreases ==
  \A i, j \in DOMAIN emitted :
    i < j => emitted[i].sequence < emitted[j].sequence

\* types.rs:42-43, gap detection: a gap always tells of a broken session.  Two
\* trades of one session that follow each other have successive numbers,
\* whatever batches were rejected.
GapOnlyAcrossSessions ==
  \A i \in 1..(Len(emitted) - 1) :
    emitted[i].session = emitted[i+1].session =>
      emitted[i+1].sequence = emitted[i].sequence + 1

\* The first attempt whose delay is the cap
Ramp == CHOOSE n \in 0..20 : /\ n = 20 \/ Base * 2^n >= MaxDelay
                             /\ \A k \in 0..(n - 1) : Base * 2^k < MaxDelay

\* backoff/src/lib.rs:10-12: while every attempt is refused, attempts settle
\* to one per MaxDelay once the delay has doubled up to it.  The exponent stops
\* at 20: a cap beyond that is never reached.
RefusedOutageIsPaced ==
  all_refused /\ Base * 2^20 >= MaxDelay =>
    attempts <= Ramp + 1 + elapsed \div MaxDelay

\* binance.rs:99-101, 110-113: accepted or refused, two attempts are never
\* less than the base delay apart, or the cap if that is shorter.  Neither a
\* peer that accepts and closes, nor frames decode rejects, nor a worker that
\* is gone, so that the first trade ends every session, can make the loop spin.
NeverFasterThanBase ==
  LET pace == MinOf(Base, MaxDelay) IN attempts * pace <= elapsed + pace

\* backoff/src/lib.rs:12-17 says the default stays "comfortably under" the
\* connection attempts a venue allows, for a single stream.
WithinVenueLimit == attempts <= Limit
=============================================================================
