---------------------------- MODULE ClientProofs ----------------------------
(***************************************************************************)
(* Type correctness of module Client, that its state shows a silent        *)
(* connection, and what it tells of the session, for every stale_after.    *)
(***************************************************************************)
EXTENDS Client, TLAPS

\* Between two checks the silence and the time to the next check together stay
\* within stale_after and one interval, as long as the state shows something.
\* When a check falls due it may be late (the task is writing a pong), and the
\* bound is void until the check has been served.
Watched ==
  state \in {"Warming", "Live"} /\ pc # "aborted" =>
    /\ pc \in Session
    /\ to_check > 0 => silent + to_check <= StaleAfter + Check

IndInv == TypeOK /\ Watched

\* The history of a session starts empty: run_once begins after the state was
\* set to Connecting and ends with nothing heard.
Told ==
  /\ StateMatchesSession
  /\ pc \in {"connecting", "sleeping"} => heard = {}

\* The check interval is positive: it is never so short that it cannot tick.
LEMMA CheckType == Check \in Nat \ {0} /\ Horizon \in Nat
<1>1. StaleAfter \div 2 \in Nat
  BY ClientAssumption
<1>2. Check \in Nat \ {0}
  BY <1>1 DEF Check, MaxOf
<1>3. QED
  BY <1>2, ClientAssumption DEF Horizon

\* A text frame leaves a state of ToxicityState.
LEMMA HandleMessageType ==
  ASSUME state \in States, NEW text \in Texts
  PROVE  HandleMessage(text) \in States
BY DEF HandleMessage, States

\* Every step of the task and of its environment keeps the types.
LEMMA StepType == TypeOK /\ [Next]_vars => TypeOK'
<1> SUFFICES ASSUME TypeOK, [Next]_vars PROVE TypeOK'
  OBVIOUS
<1> USE CheckType
<1>1. CASE Wake
  BY <1>1 DEF Wake, TypeOK, States
<1>2. CASE Drop
  BY <1>2 DEF Drop, TypeOK
<1>3. CASE ConnectFails
  BY <1>3 DEF ConnectFails, EndSession, TypeOK, States
<1>4. CASE Connect
  BY <1>4 DEF Connect, TypeOK, Session
<1>5. CASE StalenessCheck
  BY <1>5 DEF StalenessCheck, TypeOK, States
<1>6. ASSUME NEW text \in Texts, ReceiveText(text) PROVE TypeOK'
  <2>1. state' \in States
    BY <1>6, HandleMessageType DEF ReceiveText, TypeOK
  <2>2. heard' \in SUBSET {"Reading", "Heartbeat"}
    BY <1>6 DEF ReceiveText, TypeOK
  <2>3. QED
    BY <1>6, <2>1, <2>2 DEF ReceiveText, TypeOK
<1>7. CASE ReceivePing
  BY <1>7 DEF ReceivePing, TypeOK, Session
<1>8. CASE WritePong
  BY <1>8 DEF WritePong, TypeOK, Session
<1>9. CASE SessionEnds
  BY <1>9 DEF SessionEnds, EndSession, TypeOK, States
<1>10. CASE TimePasses
  BY <1>10 DEF TimePasses, TypeOK, MinOf
<1>11. CASE LinkDies
  BY <1>11 DEF LinkDies, TypeOK
<1>12. CASE ServiceChanges
  BY <1>12 DEF ServiceChanges, TypeOK
<1>13. CASE FeedChanges
  BY <1>13 DEF FeedChanges, TypeOK
<1>14. CASE UNCHANGED vars
  BY <1>14 DEF vars, TypeOK
<1>15. QED
  BY <1>1, <1>2, <1>3, <1>4, <1>5, <1>6, <1>7, <1>8, <1>9, <1>10, <1>11,
     <1>12, <1>13, <1>14 DEF Next

\* Every step keeps what the staleness check relies on.
LEMMA StepWatched == TypeOK /\ Watched /\ [Next]_vars => Watched'
<1> SUFFICES ASSUME TypeOK, Watched, [Next]_vars PROVE Watched'
  OBVIOUS
<1> USE CheckType, ClientAssumption
<1>1. CASE Wake
  BY <1>1 DEF Wake, Watched
<1>2. CASE Drop
  BY <1>2 DEF Drop, Watched
<1>3. CASE ConnectFails
  BY <1>3 DEF ConnectFails, EndSession, Watched
<1>4. CASE Connect
  BY <1>4 DEF Connect, Watched, Session, TypeOK
<1>5. CASE StalenessCheck
  BY <1>5 DEF StalenessCheck, Watched, Session, TypeOK
<1>6. ASSUME NEW text \in Texts, ReceiveText(text) PROVE Watched'
  BY <1>6 DEF ReceiveText, Watched, Session, TypeOK
<1>7. CASE ReceivePing
  BY <1>7 DEF ReceivePing, Watched, Session
<1>8. CASE WritePong
  BY <1>8 DEF WritePong, Watched, Session
<1>9. CASE SessionEnds
  BY <1>9 DEF SessionEnds, EndSession, Watched
<1>10. CASE TimePasses
  BY <1>10 DEF TimePasses, Watched, TypeOK, MinOf, Session
<1>11. CASE LinkDies
  BY <1>11 DEF LinkDies, Watched
<1>12. CASE ServiceChanges
  BY <1>12 DEF ServiceChanges, Watched
<1>13. CASE FeedChanges
  BY <1>13 DEF FeedChanges, Watched
<1>14. CASE UNCHANGED vars
  BY <1>14 DEF vars, Watched
<1>15. QED
  BY <1>1, <1>2, <1>3, <1>4, <1>5, <1>6, <1>7, <1>8, <1>9, <1>10, <1>11,
     <1>12, <1>13, <1>14 DEF Next

\* The task of a ToxicityClient keeps the types and the staleness watch.
THEOREM ClientInductive == Spec => []IndInv
<1>1. Init => IndInv
  BY CheckType DEF Init, IndInv, TypeOK, Watched, States
<1>2. IndInv /\ [Next]_vars => IndInv'
  BY StepType, StepWatched DEF IndInv
<1>3. QED
  BY <1>1, <1>2, PTL DEF Spec

\* For every stale_after, a caller of ToxicityClient::state is shown a score or
\* a warm-up only while the connection is open and, as long as the check is
\* served, has been silent for at most stale_after and one check interval.
\* Silent means without a text frame of any kind; how old the score is that is
\* shown, this does not say.
THEOREM SilenceIsNoticed == Spec => []SilenceIsShown
<1>1. IndInv => SilenceIsShown
  BY CheckType, ClientAssumption DEF IndInv, TypeOK, Watched, SilenceIsShown
<1>2. QED
  BY <1>1, ClientInductive, PTL

\* The task of a ToxicityClient keeps the types, whatever the service, the feed
\* and the link do.
THEOREM ClientTypeCorrect == Spec => []TypeOK
<1>1. IndInv => TypeOK
  BY DEF IndInv
<1>2. QED
  BY <1>1, ClientInductive, PTL

-----------------------------------------------------------------------------
(* What the state tells of the session *)

\* handle_message: every way to a score or a warm-up is a message of this
\* session, and what leaves the state Connecting was not heard as a message.
LEMMA ReceiveTold ==
  ASSUME TypeOK, Told, NEW text \in Texts, ReceiveText(text)
  PROVE  Told'
<1>1. /\ pc = "open" /\ pc' = "open"
      /\ state' = HandleMessage(text)
  BY DEF ReceiveText
<1>2. heard \subseteq heard'
  BY DEF ReceiveText
<1>3. text \in Readings => "Reading" \in heard'
  BY DEF ReceiveText
<1>4. text = "Heartbeat" => "Heartbeat" \in heard'
  BY DEF ReceiveText, Readings
<1>5. text \in {"Error", "Malformed"} => heard' = heard
  BY DEF ReceiveText, Readings
<1>6. text \in Readings \/ text = "Heartbeat" \/ text \in {"Error", "Malformed"}
  BY DEF Texts
<1>7. CASE text \in Readings
  <2>1. state' \in {"Live", "Warming"}
    BY <1>1, <1>7 DEF HandleMessage, Readings
  <2> QED
    BY <1>1, <1>3, <1>7, <2>1 DEF Told, StateMatchesSession
<1>8. CASE text = "Heartbeat"
  <2>1. state' = IF state \in {"Stale", "Connecting"} THEN "Warming" ELSE state
    BY <1>1, <1>8 DEF HandleMessage
  <2> QED
    BY <1>1, <1>2, <1>4, <1>8, <2>1 DEF Told, StateMatchesSession
<1>9. CASE text \in {"Error", "Malformed"}
  <2>1. state' = state
    BY <1>1, <1>9 DEF HandleMessage
  <2> QED
    BY <1>1, <1>5, <1>9, <2>1 DEF Told, StateMatchesSession
<1> QED
  BY <1>6, <1>7, <1>8, <1>9

\* Every other step of run, run_once and of the environment.
LEMMA StepTold == TypeOK /\ Told /\ [Next]_vars => Told'
<1> SUFFICES ASSUME TypeOK, Told, [Next]_vars PROVE Told'
  OBVIOUS
<1> USE DEF Told, StateMatchesSession
<1>1. CASE Wake
  BY <1>1 DEF Wake
<1>2. CASE Drop
  BY <1>2 DEF Drop
<1>3. CASE ConnectFails
  BY <1>3 DEF ConnectFails, EndSession
<1>4. CASE Connect
  BY <1>4 DEF Connect
<1>5. CASE StalenessCheck
  BY <1>5 DEF StalenessCheck
<1>6. ASSUME NEW text \in Texts, ReceiveText(text) PROVE Told'
  BY <1>6, ReceiveTold
<1>7. CASE ReceivePing
  BY <1>7 DEF ReceivePing
<1>8. CASE WritePong
  BY <1>8 DEF WritePong
<1>9. CASE SessionEnds
  BY <1>9 DEF SessionEnds, EndSession
<1>10. CASE TimePasses
  BY <1>10 DEF TimePasses
<1>11. CASE LinkDies
  BY <1>11 DEF LinkDies
<1>12. CASE ServiceChanges
  BY <1>12 DEF ServiceChanges
<1>13. CASE FeedChanges
  BY <1>13 DEF FeedChanges
<1>14. CASE UNCHANGED vars
  BY <1>14 DEF vars
<1>15. QED
  BY <1>1, <1>2, <1>3, <1>4, <1>5, <1>6, <1>7, <1>8, <1>9, <1>10, <1>11,
     <1>12, <1>13, <1>14 DEF Next

\* For every stale_after, a caller of ToxicityClient::state that sees a score
\* or a warm-up sees what this session heard: a Reading for a score, at least
\* a Heartbeat for a warm-up, and nothing yet while it sees Connecting.
THEOREM StateTellsSession == Spec => []StateMatchesSession
<1>1. Init => Told
  BY DEF Init, Told, StateMatchesSession
<1>2. TypeOK /\ Told /\ [Next]_vars => Told'
  BY StepTold
<1>3. Told => StateMatchesSession
  BY DEF Told
<1>4. QED
  BY <1>1, <1>2, <1>3, ClientTypeCorrect, PTL DEF Spec
=============================================================================
