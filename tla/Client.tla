------------------------------- MODULE Client -------------------------------
(***************************************************************************)
(* toxicity-client-rs: the background task of one ToxicityClient, the      *)
(* state its caller reads, and the clock its staleness check runs on.      *)
(* The service, the exchange feed behind it and the network are the        *)
(* environment.  Time is counted in units of the staleness check's         *)
(* resolution; timers are served as soon as they are due whenever the task *)
(* polls them.  How long the task sleeps between sessions is in module     *)
(* Adapter.                                                                *)
(***************************************************************************)
EXTENDS Naturals

CONSTANTS
  StaleAfter   \* stale_after

ASSUME ClientAssumption == StaleAfter \in Nat \ {0}

VARIABLES
  pc,        \* where the task is
  state,     \* ToxicityState in the watch channel
  silent,    \* last_msg_at.elapsed()
  to_check,  \* time until staleness_check's next tick
  link,      \* the current connection: "up", or "dead" without a FIN or RST
  service,   \* toxicity-service is up
  feed,      \* the exchange feed behind the stream is up
  heard      \* history: Reading / Heartbeat received in this session

vars == <<pc, state, silent, to_check, link, service, feed, heard>>

MaxOf(a, b) == IF a >= b THEN a ELSE b
MinOf(a, b) == IF a <= b THEN a ELSE b

\* (stale_after / 2).max(1ms)
Check == MaxOf(StaleAfter \div 2, 1)
\* Silences past this one are not told apart.
Horizon == StaleAfter + 2 * Check

States == {"Connecting", "Warming", "Live", "Stale"}
Readings == {"ReadingSome", "ReadingNone"}
Texts == Readings \cup {"Heartbeat", "Error", "Malformed"}
Session == {"open", "ponging"}

TypeOK ==
  /\ pc \in {"connecting", "sleeping", "aborted"} \cup Session
  /\ state \in States
  /\ silent \in 0..Horizon
  /\ to_check \in 0..Check
  /\ link \in {"up", "dead"}
  /\ service \in BOOLEAN
  /\ feed \in BOOLEAN
  /\ heard \in SUBSET {"Reading", "Heartbeat"}

Init ==
  /\ pc = "connecting"
  /\ state = "Connecting"
  /\ silent = 0
  /\ to_check = Check
  /\ link = "up"
  /\ service \in BOOLEAN
  /\ feed \in BOOLEAN
  /\ heard = {}

-----------------------------------------------------------------------------
(* run *)

\* Plausible bug: the state is left as it was when the session ends.
EndSessionKeepsState ==
  /\ pc' = "sleeping"
  /\ link' = "up"
  /\ heard' = {}
  /\ silent' = 0
  /\ to_check' = Check
  /\ UNCHANGED <<state, service, feed>>

\* run_once returned, with Ok or Err alike.
EndSession ==
  /\ pc' = "sleeping"
  /\ state' = "Stale"
  /\ link' = "up"
  /\ heard' = {}
  /\ silent' = 0
  /\ to_check' = Check
  /\ UNCHANGED <<service, feed>>

\* The backoff delay is over; the next round announces itself first.
Wake ==
  /\ pc = "sleeping"
  /\ pc' = "connecting"
  /\ state' = "Connecting"
  /\ UNCHANGED <<silent, to_check, link, service, feed, heard>>

\* ToxicityClient is dropped: the task is aborted at its next await.
Drop ==
  /\ pc # "aborted"
  /\ pc' = "aborted"
  /\ UNCHANGED <<state, silent, to_check, link, service, feed, heard>>

-----------------------------------------------------------------------------
(* run_once *)

\* Refused, or given up by the operating system on a dead link.
ConnectFails ==
  /\ pc = "connecting"
  /\ ~service \/ link = "dead"
  /\ EndSession

\* Connected and subscribed: the check's interval and last_msg_at start now.
Connect ==
  /\ pc = "connecting"
  /\ link = "up"
  /\ service
  /\ pc' = "open"
  /\ silent' = 0
  /\ to_check' = Check
  /\ UNCHANGED <<state, link, service, feed, heard>>

\* Plausible bug: staleness is detected only from a fresh state.
StalenessCheckSkipsLive ==
  /\ pc = "open"
  /\ to_check = 0
  /\ to_check' = Check
  /\ state' = IF silent > StaleAfter /\ state # "Live" THEN "Stale" ELSE state
  /\ UNCHANGED <<pc, silent, link, service, feed, heard>>

\* Plausible bug: the check runs once per stale_after instead of twice.
StalenessCheckSlow ==
  /\ pc = "open"
  /\ to_check = 0
  /\ to_check' = StaleAfter
  /\ state' = IF silent > StaleAfter THEN "Stale" ELSE state
  /\ UNCHANGED <<pc, silent, link, service, feed, heard>>

StalenessCheck ==
  /\ pc = "open"
  /\ to_check = 0
  /\ to_check' = Check
  /\ state' = IF silent > StaleAfter THEN "Stale" ELSE state
  /\ UNCHANGED <<pc, silent, link, service, feed, heard>>

\* Plausible bug: a heartbeat does not end staleness.
HandleMessageIgnoresHeartbeat(text) ==
  IF text = "ReadingSome" THEN "Live"
  ELSE IF text = "ReadingNone" THEN "Warming" ELSE state

\* handle_message: the state after a text frame
HandleMessage(text) ==
  IF text = "ReadingSome" THEN "Live"
  ELSE IF \/ text = "ReadingNone"
          \/ text = "Heartbeat" /\ state \in {"Stale", "Connecting"}
       THEN "Warming" ELSE state

\* External: the worker sends readings only while trades arrive; heartbeats
\* come from a timer of its own.
Sends(text) == service /\ (text \in Readings => feed)

ReceiveText(text) ==
  /\ pc = "open"
  /\ link = "up"
  /\ Sends(text)
  /\ silent' = 0
  /\ state' = HandleMessage(text)
  /\ heard' = heard \cup
       {m \in {"Reading", "Heartbeat"} :
          IF m = "Reading" THEN text \in Readings ELSE text = m}
  /\ UNCHANGED <<pc, to_check, link, service, feed>>

\* A Ping is answered; while the write waits the task polls nothing else.
ReceivePing ==
  /\ pc = "open"
  /\ link = "up"
  /\ service
  /\ pc' = "ponging"
  /\ UNCHANGED <<state, silent, to_check, link, service, feed, heard>>

WritePong ==
  /\ pc = "ponging"
  /\ pc' = "open"
  /\ UNCHANGED <<state, silent, to_check, link, service, feed, heard>>

\* Close, end of stream or a socket error; or the pong cannot be written.
SessionEnds ==
  /\ pc \in Session
  /\ link = "up" \/ pc = "ponging"
  /\ EndSession

-----------------------------------------------------------------------------
(* Time and the environment *)

\* A due check is served before time goes on, unless the task is elsewhere.
TimePasses ==
  /\ pc \in Session
  /\ pc = "open" => to_check > 0
  /\ silent' = MinOf(silent + 1, Horizon)
  /\ to_check' = IF to_check = 0 THEN 0 ELSE to_check - 1
  /\ UNCHANGED <<pc, state, link, service, feed, heard>>

\* Packets are lost from now on and nothing tells the client.
LinkDies ==
  /\ pc \in {"connecting"} \cup Session
  /\ link = "up"
  /\ link' = "dead"
  /\ UNCHANGED <<pc, state, silent, to_check, service, feed, heard>>

ServiceChanges ==
  /\ service' = ~service
  /\ UNCHANGED <<pc, state, silent, to_check, link, feed, heard>>

FeedChanges ==
  /\ feed' = ~feed
  /\ UNCHANGED <<pc, state, silent, to_check, link, service, heard>>

Next ==
  \/ Wake \/ Drop \/ ConnectFails \/ Connect \/ StalenessCheck
  \/ \E text \in Texts : ReceiveText(text)
  \/ ReceivePing \/ WritePong \/ SessionEnds
  \/ TimePasses \/ LinkDies \/ ServiceChanges \/ FeedChanges

\* The task runs when it can, a socket takes a pong in the end, and time goes
\* on.  select! picks a ready branch at random, so pings do not starve the
\* check, and the worker's timer makes a heartbeat arrive again and again on a
\* link that stays up: strong fairness for those.
Fairness ==
  /\ WF_vars(Wake)
  /\ WF_vars(Connect)
  /\ WF_vars(link = "up" /\ ConnectFails)
  /\ SF_vars(StalenessCheck)
  /\ WF_vars(WritePong)
  /\ SF_vars(TimePasses)
  /\ SF_vars(ReceiveText("Heartbeat"))

Spec == Init /\ [][Next]_vars
FairSpec == Spec /\ Fairness

-----------------------------------------------------------------------------
(* Properties *)

\* lib.rs:141-144: whatever messages, pings and checks come in between, silence
\* is noticed.  A caller is shown a score or a warm-up only while some text
\* frame came within stale_after plus one check interval, and never from a
\* connection that is gone.  A pong that cannot be written holds the check up:
\* then the bound holds once the due check is served.
\* This bounds the silence, not the age of the score: any text frame ends the
\* silence (lib.rs:160-162), a Heartbeat, and also an Error or one that cannot
\* be read.  state.rs:28-30 counts only a Reading or a Heartbeat.
SilenceIsShown ==
  state \in {"Warming", "Live"} /\ pc # "aborted" =>
    /\ pc \in Session
    /\ pc = "open" /\ to_check > 0 => silent <= StaleAfter + Check

\* state.rs:11-27: the state tells what this session heard.  A score needs a
\* Reading of this session, a warm-up a Reading or a Heartbeat, and while the
\* state is Connecting there was neither.
StateMatchesSession ==
  pc # "aborted" =>
    /\ state = "Live" => "Reading" \in heard
    /\ state = "Warming" => heard # {}
    /\ state = "Connecting" => heard = {}

\* lib.rs:62-64: once the service and the link stay up, the client comes back
\* by itself from any state, unless it is dropped or its link died silently.
ComesBack ==
  <>[](service /\ link = "up") =>
    []<>(state \in {"Warming", "Live"} \/ pc = "aborted")

\* protocol.rs:37-41 says a staleness check on heartbeats tells a quiet market
\* from a dead feed; README.md:178-179 says "a dead feed and a genuinely low
\* toxicity reading should never be indistinguishable to a caller": a feed that
\* stays dead is not shown as Live for ever.
DeadFeedIsShown == <>[](~feed) => []<>(state # "Live" \/ pc = "aborted")
=============================================================================
