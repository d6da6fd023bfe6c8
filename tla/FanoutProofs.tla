---------------------------- MODULE FanoutProofs ----------------------------
(***************************************************************************)
(* Proofs about Fanout, for every set of clients, channel capacity, socket *)
(* buffer and bound.                                                       *)
(*                                                                         *)
(* Neither NoSilentGap nor DrainedIsCurrent is inductive.  They rest on    *)
(* where publish is (PublishInv: the snapshot is never behind the channel) *)
(* and on how far each connection got (ConnInv).                           *)
(*                                                                         *)
(* Fanout implements Subscription.  Two more facts are needed for that.    *)
(* While a connection writes its snapshot its read guard keeps the worker  *)
(* from recording a newer message (so joining shows the latest one), and   *)
(* before that nothing was shown.                                          *)
(***************************************************************************)
EXTENDS Fanout, TLAPS, FiniteSetTheorems

\* How the entry's two copies of the latest message relate to the worker.
PublishInv ==
  /\ wpc \in {"absent", "spawned"} => Len(log) = 0
  /\ wpc \in {"record", "waiting"} => last_message = sent /\ Len(log) = sent + 1
  /\ wpc = "send" => last_message = sent + 1 /\ Len(log) = sent + 1
  /\ wpc \notin {"record", "waiting", "send"} =>
       last_message = sent /\ Len(log) = sent

\* A connection with a receiver.
Cursor(c) ==
  /\ start[c] < next[c]
  /\ next[c] <= sent + 1

\* The broadcast messages accounted for are those the receiver has passed.
Ledger(c) ==
  /\ got[c] \cup missed[c] \cup Pending(c) = (start[c] + 1) .. (next[c] - 1)
  /\ got[c] \cap missed[c] = {}
  /\ Pending(c) \cap (got[c] \cup missed[c]) = {}

\* What the client was shown is as new as what the receiver passed, unless
\* there is a newer message still to come.
Shown(c) == view[c] + 1 >= next[c] \/ next[c] <= sent

ConnInv(c) ==
  /\ cpc[c] \in {"idle", "handshake", "request", "subscribed", "snapshot"} =>
       got[c] = {} /\ missed[c] = {} /\ out[c] = 0
  /\ cpc[c] \in {"subscribed", "snapshot"} => next[c] = start[c] + 1
  /\ cpc[c] \in Subscribed => Cursor(c)
  /\ cpc[c] \in {"snapshot"} \cup Serving => snap[c] >= start[c]
  /\ cpc[c] \in Serving => Ledger(c)
  /\ cpc[c] = "loop" => out[c] = Pong /\ Shown(c)
  /\ cpc[c] = "writing" /\ out[c] = Pong => Shown(c)
  /\ cpc[c] = "writing" /\ out[c] # Pong => out[c] + 1 = next[c]

IndInv ==
  /\ TypeOK
  /\ PublishInv
  /\ \A c \in Clients : ConnInv(c)

-----------------------------------------------------------------------------
(* The worker *)

\* A step of the worker leaves every connection where it is; `sent` only grows,
\* and by one, so a cursor stays inside the channel.
LEMMA ConnInvUnderWorker ==
  ASSUME TypeOK, NEW c \in Clients, ConnInv(c), UNCHANGED connVars,
         sent' \in Nat, sent' >= sent
  PROVE  ConnInv(c)'
  BY DEF TypeOK, ConnInv, Cursor, Ledger, Shown, Pending, connVars

\* One more message in the history.
LEMMA AppendKind ==
  ASSUME NEW s \in Seq(Kinds), NEW k \in Kinds
  PROVE  /\ Append(s, k) \in Seq(Kinds)
         /\ Len(Append(s, k)) = Len(s) + 1
         /\ Len(s) \in Nat
  OBVIOUS

\* HeartbeatTick, ReceiveTrade, publish and the rest of worker::run keep the
\* types.
LEMMA WorkerType ==
  ASSUME TypeOK, PublishInv, Worker
  PROVE  TypeOK'
<1>1. connVars' = connVars
  BY DEF Worker, SpawnStream, StartWorker, HeartbeatTick, ReceiveTrade,
         PublishMessage, Account, ExitWorker
<1>2. /\ cpc' \in [Clients -> ConnPC]
      /\ next' \in [Clients -> Nat \ {0}]
      /\ out' \in [Clients -> Nat]
      /\ inflight' \in [Clients -> 0..SockBuf]
      /\ view' \in [Clients -> Nat]
      /\ start' \in [Clients -> Nat]
      /\ snap' \in [Clients -> Nat]
      /\ got' \in [Clients -> SUBSET Nat]
      /\ missed' \in [Clients -> SUBSET Nat]
  BY <1>1 DEF TypeOK, connVars
<1>3. wpc' \in WorkerPC /\ last_message' \in Nat /\ sent' \in Nat
  BY DEF TypeOK, WorkerPC, Worker, SpawnStream, StartWorker, HeartbeatTick,
         ReceiveTrade, BeginPublish, PublishMessage, Publish, QueueForLock,
         Account, ExitWorker
<1>4. log' \in Seq(Kinds)
  <2>0. "Reading" \in Kinds /\ "Heartbeat" \in Kinds
    BY DEF Kinds
  <2>1. CASE HeartbeatTick
    BY <2>0, <2>1, AppendKind DEF TypeOK, HeartbeatTick, BeginPublish
  <2>2. CASE ReceiveTrade
    <3>1. log' = Append(log, "Reading") \/ log' = log
      BY <2>2 DEF ReceiveTrade, BeginPublish
    <3> QED
      BY <2>0, <3>1, AppendKind DEF TypeOK
  <2>3. CASE UNCHANGED log
    BY <2>3 DEF TypeOK
  <2> QED
    BY <2>1, <2>2, <2>3 DEF Worker, SpawnStream, StartWorker, PublishMessage,
                            Account, ExitWorker
<1>5. health' \in StreamHealth
  <2> USE DEF TypeOK, StreamHealth
  <2>1. CASE StartWorker
    BY <2>1 DEF StartWorker
  <2>2. CASE ReceiveTrade
    <3>1. health' = [health EXCEPT !.trades_processed = @ + 1]
      BY <2>2 DEF ReceiveTrade
    <3>2. health.trades_processed + 1 \in Nat
      OBVIOUS
    <3> QED
      BY <3>1, <3>2
  <2>3. CASE Account
    <3>1. \/ health' = [health EXCEPT !.readings_emitted = @ + 1]
          \/ health' = [health EXCEPT !.last_heartbeat = Len(log)]
      BY <2>3 DEF Account
    <3>2. Len(log) \in Nat /\ health.readings_emitted + 1 \in Nat
      OBVIOUS
    <3> QED
      BY <3>1, <3>2
  <2>4. CASE ExitWorker
    BY <2>4 DEF ExitWorker
  <2>5. CASE UNCHANGED health
    BY <2>5
  <2> QED
    BY <2>1, <2>2, <2>3, <2>4, <2>5
       DEF Worker, SpawnStream, HeartbeatTick, PublishMessage
<1> QED
  BY <1>2, <1>3, <1>4, <1>5 DEF TypeOK

\* publish records a message before it sends it: PublishInv is what the rest
\* of the argument needs of that order.
LEMMA WorkerPublish ==
  ASSUME TypeOK, PublishInv, Worker
  PROVE  PublishInv' /\ sent' \in Nat /\ sent' >= sent
<1> USE DEF TypeOK, PublishInv
<1>0. /\ Len(log) \in Nat
      /\ \A k \in Kinds : Len(Append(log, k)) = Len(log) + 1
      /\ "Reading" \in Kinds /\ "Heartbeat" \in Kinds
  BY AppendKind DEF Kinds
<1>1. CASE SpawnStream
  <2>1. wpc = "absent" /\ wpc' = "spawned" /\ UNCHANGED <<log, last_message, sent>>
    BY <1>1 DEF SpawnStream
  <2>2. Len(log) = 0 /\ last_message = sent /\ Len(log) = sent
    BY <2>1
  <2> QED
    BY <2>1, <2>2
<1>2. CASE StartWorker
  BY <1>2 DEF StartWorker
<1>3. CASE HeartbeatTick
  BY <1>0, <1>3 DEF HeartbeatTick, BeginPublish
<1>4. CASE ReceiveTrade
  <2>1. /\ wpc = "idle" /\ UNCHANGED <<last_message, sent>>
        /\ \/ log' = Append(log, "Reading") /\ wpc' = "record"
           \/ UNCHANGED <<log, wpc>>
    BY <1>4 DEF ReceiveTrade, BeginPublish
  <2> QED
    BY <1>0, <2>1
<1>5. CASE PublishMessage
  BY <1>5 DEF PublishMessage, Publish, QueueForLock
<1>6. CASE Account
  BY <1>6 DEF Account
<1>7. CASE ExitWorker
  BY <1>7 DEF ExitWorker
<1> QED
  BY <1>1, <1>2, <1>3, <1>4, <1>5, <1>6, <1>7 DEF Worker

\* Every step of worker::run preserves the invariant.
LEMMA WorkerStep ==
  ASSUME IndInv, Worker
  PROVE  IndInv'
<1>1. UNCHANGED connVars
  BY DEF Worker, SpawnStream, StartWorker, HeartbeatTick, ReceiveTrade,
         PublishMessage, Account, ExitWorker
<1>2. TypeOK' /\ PublishInv' /\ sent' \in Nat /\ sent' >= sent
  BY WorkerType, WorkerPublish DEF IndInv
<1>3. \A c \in Clients : ConnInv(c)'
  BY <1>1, <1>2, ConnInvUnderWorker DEF IndInv
<1> QED
  BY <1>2, <1>3 DEF IndInv

-----------------------------------------------------------------------------
(* The connections *)

\* A connection task writes only its own state.
OnlyFor(c) ==
  \A d \in Clients \ {c} :
    /\ cpc'[d] = cpc[d]
    /\ next'[d] = next[d]
    /\ out'[d] = out[d]
    /\ view'[d] = view[d]
    /\ start'[d] = start[d]
    /\ snap'[d] = snap[d]
    /\ got'[d] = got[d]
    /\ missed'[d] = missed[d]

\* Every step of handle_connection, and of the client, keeps the types, leaves
\* the worker's state alone and touches no other connection.
LEMMA ConnType ==
  ASSUME TypeOK, NEW c \in Clients, Connection(c) \/ ClientRead(c)
  PROVE  TypeOK' /\ UNCHANGED workerVars /\ OnlyFor(c)
<1> USE FanoutAssumption DEF TypeOK, OnlyFor, Goto, ConnPC, workerVars
<1>1. CASE Accept(c)
  BY <1>1 DEF Accept
<1>2. CASE Close(c)
  BY <1>2 DEF Close
<1>3. CASE Handshake(c)
  <2>1. CASE Close(c)
    BY <1>2, <2>1
  <2>2. CASE /\ cpc' = [cpc EXCEPT ![c] = "request"]
             /\ UNCHANGED <<workerVars, next, out, inflight, view, start, snap,
                            got, missed>>
    BY <2>2
  <2> QED
    BY <1>3, <2>1, <2>2 DEF Handshake
<1>4. CASE Subscribe(c)
  BY <1>4 DEF Subscribe
<1>5. CASE RefuseRequest(c)
  BY <1>2, <1>5 DEF RefuseRequest
<1>6. CASE ReadSnapshot(c)
  BY <1>6 DEF ReadSnapshot
<1>7. CASE WriteSnapshot(c)
  BY <1>7 DEF WriteSnapshot
<1>8. CASE Recv(c)
  BY <1>8 DEF Recv
<1>9. CASE Lagged(c)
  <2>1. next'[c] \in Nat \ {0} /\ missed'[c] \in SUBSET Nat
    BY <1>9 DEF Lagged, Retained
  <2> QED
    BY <1>9, <2>1 DEF Lagged
<1>10. CASE ReceivePing(c)
  BY <1>10 DEF ReceivePing, Pong
<1>11. CASE Write(c)
  BY <1>11 DEF Write, Pong
<1>12. CASE Disconnect(c)
  BY <1>2, <1>12 DEF Disconnect
<1>13. CASE ClientRead(c)
  BY SMTT(30), <1>13 DEF ClientRead
<1> QED
  BY <1>1, <1>3, <1>4, <1>5, <1>6, <1>7, <1>8, <1>9, <1>10, <1>11, <1>12, <1>13
     DEF Connection

\* The other connections keep their invariant.
LEMMA ConnInvOfOthers ==
  ASSUME TypeOK, NEW c \in Clients, NEW d \in Clients \ {c}, ConnInv(d),
         UNCHANGED workerVars, OnlyFor(c)
  PROVE  ConnInv(d)'
  BY DEF OnlyFor, workerVars, ConnInv, Cursor, Ledger, Shown, Pending

\* Every step of handle_connection keeps the invariant of its own connection:
\* subscribing before the snapshot is read gives snap >= start, recv and
\* Lagged move the cursor and the ledger together.
LEMMA ConnInvOwn ==
  ASSUME TypeOK, PublishInv, NEW c \in Clients, ConnInv(c),
         Connection(c) \/ ClientRead(c)
  PROVE  ConnInv(c)'
<1> USE FanoutAssumption DEF TypeOK, Goto, Pong, Subscribed, Serving
<1>1. CASE Accept(c)
  BY <1>1 DEF Accept, ConnInv, workerVars
<1>2. CASE Close(c)
  BY <1>2 DEF Close, ConnInv
<1>3. CASE Handshake(c)
  BY <1>2, <1>3 DEF Handshake, ConnInv, workerVars
<1>4. CASE Subscribe(c)
  BY <1>4 DEF Subscribe, ConnInv, Cursor, workerVars
<1>5. CASE RefuseRequest(c)
  BY <1>2, <1>5 DEF RefuseRequest
<1>6. CASE ReadSnapshot(c)
  <2>1. last_message >= sent
    BY DEF PublishInv, WorkerPC
  <2> QED
    BY <1>6, <2>1 DEF ReadSnapshot, ConnInv, Cursor, Ledger, Shown, Pending,
                      workerVars
<1>7. CASE WriteSnapshot(c)
  BY <1>7 DEF WriteSnapshot, ConnInv, Cursor, Ledger, Shown, Pending, workerVars
<1>8. CASE Recv(c)
  BY <1>8 DEF Recv, ConnInv, Cursor, Ledger, Pending, workerVars
<1>9. CASE Lagged(c)
  BY SMTT(30), <1>9 DEF Lagged, Retained, ConnInv, Cursor, Ledger, Shown, Pending,
              workerVars
<1>10. CASE ReceivePing(c)
  BY <1>10 DEF ReceivePing, ConnInv, Cursor, Ledger, Shown, Pending, workerVars
<1>11. CASE Write(c)
  BY <1>11 DEF Write, ConnInv, Cursor, Ledger, Shown, Pending, workerVars
<1>12. CASE Disconnect(c)
  BY <1>2, <1>12 DEF Disconnect
<1>13. CASE ClientRead(c)
  BY <1>13 DEF ClientRead, ConnInv, Cursor, Ledger, Shown, Pending, workerVars
<1> QED
  BY <1>1, <1>3, <1>4, <1>5, <1>6, <1>7, <1>8, <1>9, <1>10, <1>11, <1>12, <1>13
     DEF Connection

\* Every step of a connection preserves the invariant.
LEMMA ConnectionStep ==
  ASSUME IndInv, NEW c \in Clients, Connection(c) \/ ClientRead(c)
  PROVE  IndInv'
<1>1. TypeOK' /\ UNCHANGED workerVars /\ OnlyFor(c)
  BY ConnType DEF IndInv
<1>2. PublishInv'
  BY <1>1 DEF IndInv, PublishInv, workerVars
<1>3. ASSUME NEW d \in Clients PROVE ConnInv(d)'
  <2>1. CASE d = c
    BY <2>1, ConnInvOwn DEF IndInv
  <2>2. CASE d # c
    BY <1>1, <2>2, ConnInvOfOthers DEF IndInv
  <2> QED
    BY <2>1, <2>2
<1> QED
  BY <1>1, <1>2, <1>3 DEF IndInv

-----------------------------------------------------------------------------
(* The theorems *)

\* The inductive invariant holds in every state of the stream.
THEOREM Inductive == Spec => []IndInv
<1>1. Init => IndInv
  BY FanoutAssumption DEF Init, IndInv, TypeOK, StreamHealth, WorkerPC, ConnPC,
     PublishInv, ConnInv, Subscribed, Serving
<1>2. IndInv /\ [Next]_vars => IndInv'
  <2> SUFFICES ASSUME IndInv, [Next]_vars PROVE IndInv'
    OBVIOUS
  <2>1. CASE Worker
    BY <2>1, WorkerStep
  <2>2. CASE \E c \in Clients : Connection(c) \/ ClientRead(c)
    BY <2>2, ConnectionStep
  <2>3. CASE UNCHANGED vars
    BY <2>3 DEF vars, workerVars, connVars, IndInv, TypeOK, PublishInv, ConnInv,
                Cursor, Ledger, Shown, Pending
  <2> QED
    BY <2>1, <2>2, <2>3 DEF Next
<1> QED
  BY <1>1, <1>2, PTL DEF Spec

\* Every variable keeps its type: in particular no socket buffer overflows and
\* no cursor leaves the naturals.
THEOREM TypeCorrect == Spec => []TypeOK
<1>1. IndInv => TypeOK
  BY DEF IndInv
<1> QED
  BY <1>1, Inductive, PTL

\* For any number of clients and any capacity, publish and subscribe between
\* each other's steps never make a served client miss a message silently.
THEOREM GapFree == Spec => []NoSilentGap
<1>1. IndInv => NoSilentGap
  BY DEF IndInv, ConnInv, Ledger, NoSilentGap, Serving
<1> QED
  BY <1>1, Inductive, PTL

\* For any number of clients and any capacity, a client whose queue is empty
\* shows the stream's latest message.
THEOREM DrainedCurrent == Spec => []DrainedIsCurrent
<1>1. IndInv => DrainedIsCurrent
  <2> SUFFICES ASSUME IndInv, NEW c \in Clients, cpc[c] = "loop", next[c] = sent + 1
               PROVE  view[c] >= sent
    BY DEF DrainedIsCurrent
  <2>1. sent \in Nat /\ next[c] \in Nat /\ view[c] \in Nat
    BY DEF IndInv, TypeOK
  <2>2. Shown(c)
    BY DEF IndInv, ConnInv
  <2> QED
    BY <2>1, <2>2 DEF Shown
<1> QED
  BY <1>1, Inductive, PTL

-----------------------------------------------------------------------------
(* The counters of /health and /metrics *)

Publishing == wpc \in {"record", "waiting", "send", "account"}

\* The messages that the counters account for
Accounted == IF Publishing THEN Len(log) - 1 ELSE Len(log)

\* worker::run updates the counters around publish: all but the message being
\* published are counted, and a reading being published has its trade.
HealthInv ==
  /\ Accounted \in Nat
  /\ health.readings_emitted = PublishedReadings(Accounted)
  /\ health.readings_emitted <= health.trades_processed
  /\ Publishing /\ log[Len(log)] = "Reading" =>
       health.readings_emitted < health.trades_processed
  /\ \A m \in (health.last_heartbeat + 1) .. Accounted : log[m] # "Heartbeat"

Readings(s, n) == {m \in 1..n : s[m] = "Reading"}

\* One more message is one more reading, or none.
LEMMA CountNext ==
  ASSUME NEW s, NEW n \in Nat
  PROVE  /\ Cardinality(Readings(s, n)) \in Nat
         /\ s[n + 1] = "Reading" =>
              Cardinality(Readings(s, n + 1)) = Cardinality(Readings(s, n)) + 1
         /\ s[n + 1] # "Reading" =>
              Cardinality(Readings(s, n + 1)) = Cardinality(Readings(s, n))
<1>1. IsFiniteSet(1..n)
  BY FS_Interval
<1>2. Readings(s, n) \subseteq 1..n
  BY DEF Readings
<1>3. IsFiniteSet(Readings(s, n)) /\ Cardinality(Readings(s, n)) \in Nat
  BY <1>1, <1>2, FS_Subset, FS_CardinalityType
<1>4. CASE s[n + 1] = "Reading"
  <2>1. Readings(s, n + 1) = Readings(s, n) \cup {n + 1}
    BY <1>4 DEF Readings
  <2>2. n + 1 \notin Readings(s, n)
    BY DEF Readings
  <2> QED
    BY <1>3, <1>4, <2>1, <2>2, FS_AddElement
<1>5. CASE s[n + 1] # "Reading"
  <2>1. Readings(s, n + 1) = Readings(s, n)
    BY <1>5 DEF Readings
  <2> QED
    BY <1>3, <1>5, <2>1
<1> QED
  BY <1>4, <1>5

\* Appending to the history changes nothing about what is already in it.
LEMMA AppendKeeps ==
  ASSUME NEW s \in Seq(Kinds), NEW k \in Kinds
  PROVE  /\ \A m \in 1..Len(s) : Append(s, k)[m] = s[m]
         /\ Append(s, k)[Len(s) + 1] = k
         /\ Readings(Append(s, k), Len(s)) = Readings(s, Len(s))
<1>1. Len(s) \in Nat
  OBVIOUS
<1>2. \A m \in 1..Len(s) : Append(s, k)[m] = s[m]
  OBVIOUS
<1>3. Append(s, k)[Len(s) + 1] = k
  OBVIOUS
<1> QED
  BY <1>2, <1>3 DEF Readings

\* The timer or a trade begins the publication of a message.
LEMMA BeginKeepsHealth ==
  ASSUME IndInv, HealthInv, wpc = "idle", NEW k \in Kinds, BeginPublish(k),
         health'.readings_emitted = health.readings_emitted,
         health'.last_heartbeat = health.last_heartbeat,
         health'.trades_processed \in Nat,
         health'.trades_processed >= health.trades_processed,
         k = "Reading" => health'.trades_processed > health.trades_processed
  PROVE  HealthInv'
<1>1. /\ log \in Seq(Kinds) /\ Len(log) \in Nat /\ health.readings_emitted \in Nat
      /\ health.trades_processed \in Nat /\ health.last_heartbeat \in Nat
  BY DEF IndInv, TypeOK, StreamHealth
<1>2. /\ ~Publishing /\ Accounted = Len(log)
  BY DEF Publishing, Accounted
<1>3. /\ log' = Append(log, k) /\ wpc' = "record"
  BY DEF BeginPublish
<1>4. Len(log') = Len(log) + 1 /\ log'[Len(log) + 1] = k
      /\ Readings(log', Len(log)) = Readings(log, Len(log))
      /\ \A m \in 1..Len(log) : log'[m] = log[m]
  BY <1>1, <1>3, AppendKeeps, AppendKind, Zenon
<1>5. Publishing' /\ Accounted' = Len(log)
  BY <1>1, <1>3, <1>4 DEF Publishing, Accounted
<1>6. (PublishedReadings(Accounted))' = PublishedReadings(Accounted)
  BY <1>2, <1>4, <1>5, Zenon DEF PublishedReadings, Readings
<1>7. (health.readings_emitted = PublishedReadings(Accounted))'
  BY <1>6, Zenon DEF HealthInv
<1>8. \A m \in (health'.last_heartbeat + 1) .. Accounted' : log'[m] # "Heartbeat"
  <2>1. \A m \in (health.last_heartbeat + 1) .. Len(log) :
          m \in 1..Len(log) /\ log[m] # "Heartbeat"
    BY <1>1, <1>2 DEF HealthInv
  <2> QED
    BY <1>4, <1>5, <2>1, Zenon
<1>9. /\ health'.readings_emitted <= health'.trades_processed
      /\ log'[Len(log')] = "Reading" =>
           health'.readings_emitted < health'.trades_processed
  <2>1. health.readings_emitted <= health.trades_processed
    BY DEF HealthInv
  <2>2. log'[Len(log')] = k
    BY <1>4
  <2> QED
    BY <1>1, <2>1, <2>2
<1> QED
  BY <1>1, <1>5, <1>7, <1>8, <1>9, Zenon DEF HealthInv

\* Back in run, the counters follow the message that was published.
LEMMA AccountKeepsHealth ==
  ASSUME IndInv, HealthInv, Account
  PROVE  HealthInv'
<1> DEFINE n == Len(log) - 1
<1>1. /\ log \in Seq(Kinds) /\ Len(log) \in Nat /\ health.readings_emitted \in Nat
      /\ health.trades_processed \in Nat /\ health.last_heartbeat \in Nat
      /\ health \in StreamHealth
  BY DEF IndInv, TypeOK, StreamHealth
<1>2. wpc = "account" /\ wpc' = "idle" /\ log' = log
  BY DEF Account
<1>3. Publishing /\ n \in Nat /\ n + 1 = Len(log)
  <2>1. Publishing /\ Accounted = n
    BY <1>2 DEF Publishing, Accounted
  <2> QED
    BY <1>1, <2>1 DEF HealthInv
<1>4. Accounted = n /\ ~Publishing' /\ Accounted' = n + 1
  BY <1>2, <1>3 DEF Publishing, Accounted
<1>5. /\ health.readings_emitted = Cardinality(Readings(log, n))
      /\ health.readings_emitted <= health.trades_processed
      /\ log[n + 1] = "Reading" => health.readings_emitted < health.trades_processed
      /\ \A m \in (health.last_heartbeat + 1) .. n : log[m] # "Heartbeat"
  BY <1>3, <1>4, Zenon DEF HealthInv, PublishedReadings, Readings
<1> HIDE DEF n
<1>6. PublishedReadings(Accounted)' = Cardinality(Readings(log, n + 1))
  BY <1>2, <1>4, Zenon DEF PublishedReadings, Readings
<1>7. CASE log[n + 1] = "Reading"
  <2>1. health' = [health EXCEPT !.readings_emitted = @ + 1]
    BY <1>3, <1>7 DEF Account
  <2>2. /\ health'.readings_emitted = health.readings_emitted + 1
        /\ health'.trades_processed = health.trades_processed
        /\ health'.last_heartbeat = health.last_heartbeat
    BY <1>1, <2>1 DEF StreamHealth
  <2>3. Cardinality(Readings(log, n + 1)) = Cardinality(Readings(log, n)) + 1
    BY <1>3, <1>7, CountNext
  <2>4. \A m \in (health.last_heartbeat + 1) .. (n + 1) : log[m] # "Heartbeat"
    <3> SUFFICES ASSUME NEW m \in (health.last_heartbeat + 1) .. (n + 1)
                 PROVE  log[m] # "Heartbeat"
      OBVIOUS
    <3>1. CASE m = n + 1
      BY <1>7, <3>1
    <3>2. CASE m # n + 1
      <4>1. m \in (health.last_heartbeat + 1) .. n
        BY <1>1, <1>3, <3>2
      <4> QED
        BY <1>5, <4>1, Zenon
    <3> QED
      BY <3>1, <3>2
  <2>5. health.readings_emitted + 1 <= health.trades_processed
    BY <1>1, <1>5, <1>7
  <2>6. n + 1 \in Nat
    BY <1>3
  <2> QED
    BY <1>2, <1>4, <1>5, <1>6, <2>2, <2>3, <2>4, <2>5, <2>6, Zenon DEF HealthInv
<1>8. CASE log[n + 1] # "Reading"
  <2>1. health' = [health EXCEPT !.last_heartbeat = n + 1]
    BY <1>3, <1>8 DEF Account
  <2>2. /\ health'.readings_emitted = health.readings_emitted
        /\ health'.trades_processed = health.trades_processed
        /\ health'.last_heartbeat = n + 1
    BY <1>1, <2>1 DEF StreamHealth
  <2>3. Cardinality(Readings(log, n + 1)) = Cardinality(Readings(log, n))
    BY <1>3, <1>8, CountNext
  <2>4. \A m \in ((n + 1) + 1) .. (n + 1) : log[m] # "Heartbeat"
    BY <1>3
  <2>5. n + 1 \in Nat
    BY <1>3
  <2> QED
    BY <1>2, <1>4, <1>5, <1>6, <2>2, <2>3, <2>4, <2>5, Zenon DEF HealthInv
<1> QED
  BY <1>7, <1>8

\* A step that neither publishes nor accounts.
LEMMA QuietKeepsHealth ==
  ASSUME HealthInv, log' = log, Publishing' = Publishing,
         health'.readings_emitted = health.readings_emitted,
         health'.last_heartbeat = health.last_heartbeat,
         health.readings_emitted \in Nat, health.trades_processed \in Nat,
         health'.trades_processed \in Nat,
         health'.trades_processed >= health.trades_processed
  PROVE  HealthInv'
<1>1. Accounted' = Accounted /\ (PublishedReadings(Accounted))' = PublishedReadings(Accounted)
  BY Zenon DEF Accounted, PublishedReadings
<1>2. /\ health'.readings_emitted <= health'.trades_processed
      /\ Publishing /\ log[Len(log)] = "Reading" =>
           health'.readings_emitted < health'.trades_processed
  BY DEF HealthInv
<1> QED
  BY <1>1, <1>2, Zenon DEF HealthInv

\* Every step of the stream keeps the counters true.
LEMMA StepKeepsHealth ==
  ASSUME IndInv, HealthInv, [Next]_vars
  PROVE  HealthInv'
<1>1. /\ health \in StreamHealth /\ health.readings_emitted \in Nat
      /\ health.trades_processed \in Nat /\ health.last_heartbeat \in Nat
      /\ health.trades_processed >= health.trades_processed
      /\ "Reading" \in Kinds /\ "Heartbeat" \in Kinds
  BY DEF IndInv, TypeOK, StreamHealth, Kinds
<1>2. ASSUME log' = log, Publishing' = Publishing, health' = health
      PROVE  HealthInv'
  BY <1>1, <1>2, QuietKeepsHealth, Zenon
<1>3. CASE SpawnStream
  BY <1>2, <1>3 DEF SpawnStream, Publishing
<1>4. CASE StartWorker \/ ExitWorker
  <2>1. /\ health'.readings_emitted = health.readings_emitted
        /\ health'.trades_processed = health.trades_processed
        /\ health'.last_heartbeat = health.last_heartbeat
    <3>1. \E b \in BOOLEAN : health' = [health EXCEPT !.worker_alive = b]
      BY <1>4, Zenon DEF StartWorker, ExitWorker
    <3> QED
      BY <1>1, <3>1 DEF StreamHealth
  <2>2. log' = log /\ Publishing' = Publishing
    BY <1>4 DEF StartWorker, ExitWorker, Publishing
  <2> QED
    BY <1>1, <2>1, <2>2, QuietKeepsHealth, Zenon
<1>5. CASE HeartbeatTick
  <2>1. wpc = "idle" /\ BeginPublish("Heartbeat") /\ health' = health
    BY <1>5, Zenon DEF HeartbeatTick
  <2>2. "Heartbeat" # "Reading"
    OBVIOUS
  <2> QED
    BY <1>1, <2>1, <2>2, BeginKeepsHealth, Zenon
<1>6. CASE ReceiveTrade
  <2>1. /\ wpc = "idle" /\ health' = [health EXCEPT !.trades_processed = @ + 1]
        /\ BeginPublish("Reading") \/ UNCHANGED <<wpc, log>>
    BY <1>6, Zenon DEF ReceiveTrade
  <2>2. /\ health'.readings_emitted = health.readings_emitted
        /\ health'.trades_processed = health.trades_processed + 1
        /\ health'.last_heartbeat = health.last_heartbeat
    BY <1>1, <2>1 DEF StreamHealth
  <2>3. /\ health'.trades_processed \in Nat
        /\ health'.trades_processed >= health.trades_processed
        /\ health'.trades_processed > health.trades_processed
    BY <1>1, <2>2
  <2>4. CASE BeginPublish("Reading")
    BY <1>1, <2>1, <2>2, <2>3, <2>4, BeginKeepsHealth, Zenon
  <2>5. CASE UNCHANGED <<wpc, log>>
    <3>1. log' = log /\ Publishing' = Publishing
      BY <2>5 DEF Publishing
    <3> QED
      BY <1>1, <2>2, <2>3, <3>1, QuietKeepsHealth, Zenon
  <2> QED
    BY <2>1, <2>4, <2>5
<1>7. CASE PublishMessage
  BY <1>2, <1>7 DEF PublishMessage, Publish, QueueForLock, Publishing
<1>8. CASE Account
  BY <1>8, AccountKeepsHealth
<1>9. CASE \E c \in Clients : Connection(c) \/ ClientRead(c)
  <2>1. UNCHANGED workerVars
    BY <1>9, ConnType DEF IndInv
  <2> QED
    BY <1>2, <2>1 DEF workerVars, Publishing
<1>10. CASE UNCHANGED vars
  BY <1>2, <1>10 DEF vars, workerVars, Publishing
<1> QED
  BY <1>3, <1>4, <1>5, <1>6, <1>7, <1>8, <1>9, <1>10, Zenon DEF Next, Worker

\* worker::run, /health, /metrics: for any number of connections, whenever the
\* counters are read, they count no reading before it is sent, are at most one
\* message behind, and are exact while the worker waits.
THEOREM HealthIsTrue == Spec => []HealthFollowsStream
<1>1. Init => HealthInv
  <2> SUFFICES ASSUME Init PROVE HealthInv
    OBVIOUS
  <2>1. /\ ~Publishing /\ Accounted = 0 /\ health.readings_emitted = 0
        /\ health.trades_processed = 0 /\ health.last_heartbeat = 0
    BY DEF Init, Publishing, Accounted
  <2>2. PublishedReadings(0) = 0
    <3>1. {m \in 1..0 : log[m] = "Reading"} = {}
      OBVIOUS
    <3> QED
      BY <3>1, FS_EmptySet DEF PublishedReadings
  <2> QED
    BY <2>1, <2>2 DEF HealthInv
<1>2. IndInv /\ HealthInv /\ [Next]_vars => HealthInv'
  BY StepKeepsHealth
<1>3. IndInv /\ HealthInv => HealthFollowsStream
  <2> SUFFICES ASSUME IndInv, HealthInv PROVE HealthFollowsStream
    OBVIOUS
  <2> DEFINE e == health.readings_emitted
  <2>1. /\ Len(log) \in Nat /\ sent \in Nat /\ e \in Nat
        /\ health.last_heartbeat \in Nat /\ wpc \in WorkerPC
    BY DEF IndInv, TypeOK, StreamHealth
  <2>2. \/ Accounted = sent
        \/ wpc = "account" /\ sent = Accounted + 1
    BY <2>1 DEF IndInv, PublishInv, Accounted, Publishing, WorkerPC
  <2>3. Accounted \in Nat /\ e = PublishedReadings(Accounted)
    BY Zenon DEF HealthInv
  <2>4. e <= PublishedReadings(sent) /\ PublishedReadings(sent) <= e + 1
    <3>1. CASE Accounted = sent
      BY <2>1, <2>3, <3>1
    <3>2. CASE sent = Accounted + 1
      <4> DEFINE a == Accounted
      <4>1. PublishedReadings(a + 1) \in {PublishedReadings(a), PublishedReadings(a) + 1}
        BY <2>3, CountNext DEF PublishedReadings, Readings
      <4> HIDE DEF a
      <4>2. PublishedReadings(sent) \in {e, e + 1}
        BY <2>3, <3>2, <4>1, Zenon DEF a
      <4> QED
        BY <2>1, <4>2
    <3> QED
      BY <2>2, <3>1, <3>2
  <2>5. \A m \in (health.last_heartbeat + 1) .. sent :
          log[m] = "Heartbeat" => wpc = "account" /\ m = sent
    <3> SUFFICES ASSUME NEW m \in (health.last_heartbeat + 1) .. sent,
                        log[m] = "Heartbeat"
                 PROVE  wpc = "account" /\ m = sent
      OBVIOUS
    <3>1. ~(m \in (health.last_heartbeat + 1) .. Accounted)
      BY Zenon DEF HealthInv
    <3> QED
      BY <2>1, <2>2, <2>3, <3>1
  <2>6. wpc \in {"idle", "exited"} => e = PublishedReadings(Len(log))
    <3>1. wpc \in {"idle", "exited"} => Accounted = Len(log)
      BY DEF Accounted, Publishing
    <3> QED
      BY <2>3, <3>1, Zenon
  <2>7. e <= health.trades_processed
    BY Zenon DEF HealthInv
  <2> QED
    BY <2>4, <2>5, <2>6, <2>7, Zenon DEF HealthFollowsStream
<1> QED
  BY <1>1, <1>2, <1>3, Inductive, PTL DEF Spec

-----------------------------------------------------------------------------
(* Fanout implements Subscription *)

SnapshotIsLatest(c) ==
  /\ cpc[c] = "snapshot" => snap[c] = last_message
  /\ cpc[c] \notin Serving => view[c] = 0

GuardInv == \A c \in Clients : SnapshotIsLatest(c)

\* worker.rs:18, server.rs:165-169: publish cannot record a message while a
\* connection holds the read guard, so a snapshot being written is the latest.
LEMMA GuardStep ==
  ASSUME IndInv, GuardInv, Next
  PROVE  GuardInv'
<1> USE DEF GuardInv, SnapshotIsLatest, Serving
<1>1. CASE Worker
  <2>1. UNCHANGED connVars
    BY <1>1 DEF Worker, SpawnStream, StartWorker, HeartbeatTick, ReceiveTrade,
                PublishMessage, Account, ExitWorker
  <2>2. last_message' = last_message \/ \A c \in Clients : cpc[c] # "snapshot"
    BY <1>1 DEF Worker, SpawnStream, StartWorker, HeartbeatTick, ReceiveTrade,
                PublishMessage, Publish, QueueForLock, NoReader, Account, ExitWorker
  <2> QED
    BY <2>1, <2>2 DEF connVars
<1>2. ASSUME NEW c \in Clients, Connection(c) \/ ClientRead(c)
      PROVE  GuardInv'
  <2>1. UNCHANGED workerVars /\ OnlyFor(c) /\ TypeOK /\ TypeOK'
    BY <1>2, ConnType DEF IndInv
  <2>2. \A d \in Clients \ {c} : SnapshotIsLatest(d)'
    BY <2>1 DEF OnlyFor, workerVars
  <2>3. SnapshotIsLatest(c)'
    <3> USE <2>1 DEF TypeOK, Goto
    <3>1. CASE Close(c)
      BY <3>1 DEF Close
    <3>2. CASE Accept(c) \/ Subscribe(c) \/ ReadSnapshot(c)
      BY <3>2 DEF Accept, Subscribe, ReadSnapshot, workerVars
    <3>3. CASE Handshake(c)
      <4>1. \/ Close(c)
            \/ cpc' = [cpc EXCEPT ![c] = "request"] /\ UNCHANGED view
        BY <3>3 DEF Handshake
      <4> QED
        BY <3>1, <3>3, <4>1 DEF Handshake, ConnPC
    <3>4. CASE RefuseRequest(c) \/ Disconnect(c)
      BY <3>1, <3>4 DEF RefuseRequest, Disconnect
    <3>5. CASE WriteSnapshot(c) \/ Recv(c) \/ Lagged(c) \/ ReceivePing(c) \/ Write(c)
      BY <3>5 DEF WriteSnapshot, Recv, Lagged, ReceivePing, Write
    <3>6. CASE ClientRead(c)
      BY <3>6 DEF ClientRead, workerVars
    <3> QED
      BY <1>2, <3>2, <3>3, <3>4, <3>5, <3>6 DEF Connection
  <2> QED
    BY <2>2, <2>3
<1> QED
  BY <1>1, <1>2 DEF Next

\* The abstract subscription of c in terms of its connection.
LEMMA SubscriberIs ==
  ASSUME NEW c \in Clients
  PROVE  /\ c \in SubOn <=> cpc[c] \in Serving
         /\ SubPos[c] = IF cpc[c] \notin Serving THEN 0
                        ELSE IF out[c] = Pong THEN next[c] - 1 ELSE out[c] - 1
         /\ SubShown[c] = IF cpc[c] \in Serving THEN view[c] ELSE 0
  BY DEF SubOn, SubPos, SubShown

\* The same after a step.
LEMMA SubscriberNext ==
  ASSUME NEW c \in Clients
  PROVE  /\ c \in SubOn' <=> cpc'[c] \in Serving
         /\ SubPos'[c] = IF cpc'[c] \notin Serving THEN 0
                         ELSE IF out'[c] = Pong THEN next'[c] - 1 ELSE out'[c] - 1
         /\ SubShown'[c] = IF cpc'[c] \in Serving THEN view'[c] ELSE 0
  BY DEF SubOn, SubPos, SubShown

\* A step of connection c changes the abstract subscription of c alone.
LEMMA SubscriberOnly ==
  ASSUME NEW c \in Clients, OnlyFor(c)
  PROVE  /\ SubOn' = IF c \in SubOn' THEN SubOn \cup {c} ELSE SubOn \ {c}
         /\ SubPos' = [SubPos EXCEPT ![c] = SubPos'[c]]
         /\ SubShown' = [SubShown EXCEPT ![c] = SubShown'[c]]
<1>1. SubOn' = IF c \in SubOn' THEN SubOn \cup {c} ELSE SubOn \ {c}
  BY DEF SubOn, OnlyFor
<1>2. SubPos' = [SubPos EXCEPT ![c] = SubPos'[c]]
  BY DEF SubPos, OnlyFor
<1>3. SubShown' = [SubShown EXCEPT ![c] = SubShown'[c]]
  BY DEF SubShown, OnlyFor
<1> QED
  BY <1>1, <1>2, <1>3

\* Recording a message publishes it; no other step of the worker is seen.
LEMMA WorkerRefines ==
  ASSUME IndInv, Worker
  PROVE  Sub!Publish \/ UNCHANGED Sub!vars
<1>1. UNCHANGED connVars
  BY DEF Worker, SpawnStream, StartWorker, HeartbeatTick, ReceiveTrade,
         PublishMessage, Account, ExitWorker
<1>2. SubOn' = SubOn /\ SubPos' = SubPos /\ SubShown' = SubShown
  BY <1>1 DEF connVars, SubOn, SubPos, SubShown
<1>3. last_message' = last_message \/ last_message' = last_message + 1
  BY DEF IndInv, PublishInv, TypeOK, Worker, SpawnStream, StartWorker,
         HeartbeatTick, ReceiveTrade, PublishMessage, Publish, QueueForLock,
         Account, ExitWorker
<1> QED
  BY <1>2, <1>3 DEF Sub!Publish, Sub!vars

\* A step that leaves the subscription of c as it is.
LEMMA ConnStutters ==
  ASSUME NEW c \in Clients, OnlyFor(c), UNCHANGED workerVars,
         c \in SubOn' <=> c \in SubOn,
         SubPos'[c] = SubPos[c], SubShown'[c] = SubShown[c]
  PROVE  UNCHANGED Sub!vars
<1>1. SubOn' = SubOn
  BY SubscriberOnly
<1>2. SubPos' = SubPos
  BY SubscriberOnly DEF SubPos
<1>3. SubShown' = SubShown
  BY SubscriberOnly DEF SubShown
<1> QED
  BY <1>1, <1>2, <1>3 DEF workerVars, Sub!vars

\* The end of a connection: a subscriber leaves, or nobody does.
LEMMA CloseRefines ==
  ASSUME TypeOK, NEW c \in Clients, OnlyFor(c), Close(c)
  PROVE  Sub!Leave(c) \/ UNCHANGED Sub!vars
<1>1. UNCHANGED workerVars /\ cpc'[c] = "idle"
  BY DEF Close, Goto, TypeOK
<1>2. c \notin SubOn' /\ SubPos'[c] = 0 /\ SubShown'[c] = 0
  BY <1>1, SubscriberNext DEF Serving
<1>3. CASE cpc[c] \in Serving
  <2>1. c \in SubOn
    BY <1>3, SubscriberIs
  <2>2. /\ SubOn' = SubOn \ {c}
        /\ SubPos' = [SubPos EXCEPT ![c] = 0]
        /\ SubShown' = [SubShown EXCEPT ![c] = 0]
    BY <1>2, SubscriberOnly
  <2> QED
    BY <1>1, <2>1, <2>2 DEF Sub!Leave, workerVars
<1>4. CASE cpc[c] \notin Serving
  <2>1. c \notin SubOn /\ SubPos[c] = 0 /\ SubShown[c] = 0
    BY <1>4, SubscriberIs
  <2> QED
    BY <1>1, <1>2, <2>1, ConnStutters
<1> QED
  BY <1>3, <1>4

\* A connection that has not come past its snapshot is no subscriber yet.
LEMMA NotYet ==
  ASSUME NEW c \in Clients, OnlyFor(c), UNCHANGED workerVars,
         cpc[c] \notin Serving, cpc'[c] \notin Serving
  PROVE  UNCHANGED Sub!vars
<1>1. c \notin SubOn /\ SubPos[c] = 0 /\ SubShown[c] = 0
  BY SubscriberIs
<1>2. c \notin SubOn' /\ SubPos'[c] = 0 /\ SubShown'[c] = 0
  BY SubscriberNext
<1> QED
  BY <1>1, <1>2, ConnStutters

\* Coming past the snapshot is joining, with the latest message.
LEMMA JoinRefines ==
  ASSUME IndInv, NEW c \in Clients, OnlyFor(c), UNCHANGED workerVars,
         cpc[c] \in {"subscribed", "snapshot"}, cpc'[c] = "loop",
         UNCHANGED <<next, out>>, view'[c] = last_message
  PROVE  Sub!Join(c)
<1> USE DEF Serving, Subscribed
<1>1. /\ next[c] \in Nat \ {0} /\ sent \in Nat /\ last_message \in Nat
      /\ out[c] = Pong
      /\ next[c] - 1 <= sent /\ sent <= last_message
  BY DEF IndInv, TypeOK, ConnInv, Cursor, PublishInv, WorkerPC, Pong
<1>2. c \notin SubOn
  BY SubscriberIs
<1>3. c \in SubOn' /\ SubPos'[c] = next[c] - 1 /\ SubShown'[c] = last_message
  BY <1>1, SubscriberNext
<1>4. /\ SubOn' = SubOn \cup {c}
      /\ SubPos' = [SubPos EXCEPT ![c] = next[c] - 1]
      /\ SubShown' = [SubShown EXCEPT ![c] = last_message]
  BY <1>3, SubscriberOnly
<1>5. next[c] - 1 \in 0..last_message
  BY <1>1
<1> QED
  BY <1>2, <1>4, <1>5 DEF Sub!Join, workerVars

\* Every step of a connection, and of its client, is a step of the abstract
\* subscription or is not seen.
LEMMA ConnectionRefines ==
  ASSUME IndInv, GuardInv, NEW c \in Clients, Connection(c) \/ ClientRead(c)
  PROVE  \/ Sub!Join(c) \/ Sub!Deliver(c) \/ Sub!Skip(c) \/ Sub!Leave(c)
         \/ UNCHANGED Sub!vars
<1>0. TypeOK /\ OnlyFor(c) /\ UNCHANGED workerVars
  BY ConnType DEF IndInv
<1>1. CASE Close(c)
  BY <1>0, <1>1, CloseRefines
<1>2. CASE Accept(c) \/ Subscribe(c)
  BY <1>0, <1>2, NotYet DEF Accept, Subscribe, Goto, Serving, TypeOK
<1>3. CASE Handshake(c)
  <2>1. Close(c) \/ cpc' = [cpc EXCEPT ![c] = "request"]
    BY <1>3 DEF Handshake, Goto
  <2>2. CASE cpc' = [cpc EXCEPT ![c] = "request"]
    <3>1. cpc[c] = "handshake" /\ cpc'[c] = "request"
      BY <1>0, <1>3, <2>2 DEF Handshake, TypeOK
    <3> QED
      BY <1>0, <3>1, NotYet DEF Serving
  <2> QED
    BY <1>1, <2>1, <2>2
<1>4. CASE RefuseRequest(c) \/ Disconnect(c)
  BY <1>1, <1>4 DEF RefuseRequest, Disconnect
<1>5. CASE ReadSnapshot(c)
  <2>1. CASE last_message = 0
    <3>1. /\ cpc[c] = "subscribed" /\ cpc'[c] = "loop"
          /\ UNCHANGED <<next, out>> /\ view'[c] = last_message
      BY <1>0, <1>5, <2>1
         DEF ReadSnapshot, Goto, TypeOK, GuardInv, SnapshotIsLatest, Serving
    <3> QED
      BY <1>0, <3>1, JoinRefines
  <2>2. CASE last_message # 0
    BY <1>0, <1>5, <2>2, NotYet DEF ReadSnapshot, Goto, TypeOK, Serving
  <2> QED
    BY <2>1, <2>2
<1>6. CASE WriteSnapshot(c)
  <2>1. /\ cpc[c] = "snapshot" /\ cpc'[c] = "loop"
        /\ UNCHANGED <<next, out>> /\ view'[c] = last_message
    BY <1>0, <1>6 DEF WriteSnapshot, Goto, TypeOK, GuardInv, SnapshotIsLatest
  <2> QED
    BY <1>0, <2>1, JoinRefines
<1>7. CASE Recv(c) \/ ReceivePing(c)
  <2>1. /\ cpc[c] = "loop" /\ cpc'[c] = "writing" /\ out[c] = Pong
        /\ view'[c] = view[c] /\ next[c] \in Nat \ {0}
        /\ \/ out'[c] = next[c]
           \/ out'[c] = Pong /\ next'[c] = next[c]
    BY <1>0, <1>7 DEF Recv, ReceivePing, Goto, TypeOK, IndInv, ConnInv
  <2>2. /\ c \in SubOn /\ c \in SubOn'
        /\ SubPos'[c] = SubPos[c] /\ SubShown'[c] = SubShown[c]
    BY <2>1, SubscriberIs, SubscriberNext DEF Serving, Pong
  <2> QED
    BY <1>0, <2>2, ConnStutters
<1>8. CASE Lagged(c)
  <2>1. /\ cpc[c] = "loop" /\ cpc'[c] = "loop" /\ out[c] = Pong /\ out'[c] = Pong
        /\ view'[c] = view[c] /\ next'[c] = sent - Capacity + 1
        /\ next[c] \in Nat \ {0} /\ sent \in Nat /\ last_message \in Nat
        /\ next[c] + Capacity <= sent /\ sent <= last_message
    BY <1>0, <1>8, FanoutAssumption
       DEF Lagged, Retained, TypeOK, IndInv, ConnInv, PublishInv
  <2>2. /\ c \in SubOn /\ c \in SubOn'
        /\ SubPos[c] = next[c] - 1 /\ SubPos'[c] = sent - Capacity
        /\ SubShown'[c] = SubShown[c]
    BY <2>1, SubscriberIs, SubscriberNext, FanoutAssumption DEF Serving
  <2>3. /\ SubOn' = SubOn
        /\ SubPos' = [SubPos EXCEPT ![c] = sent - Capacity]
        /\ SubShown' = SubShown
    <3>1. /\ SubOn' = SubOn
          /\ SubPos' = [SubPos EXCEPT ![c] = sent - Capacity]
          /\ SubShown' = [SubShown EXCEPT ![c] = SubShown[c]]
      BY <1>0, <2>2, SubscriberOnly
    <3> QED
      BY <3>1 DEF SubShown
  <2>4. /\ sent - Capacity \in 0..last_message
        /\ SubPos[c] < sent - Capacity
        /\ (sent - Capacity) + Capacity <= last_message
    BY <2>1, <2>2, FanoutAssumption
  <2> QED
    BY <1>0, <2>2, <2>3, <2>4 DEF Sub!Skip, workerVars
<1>9. CASE Write(c)
  <2>1. /\ cpc[c] = "writing" /\ cpc'[c] = "loop" /\ out'[c] = Pong
        /\ next'[c] = next[c] /\ next[c] \in Nat \ {0} /\ out[c] \in Nat
        /\ view'[c] = IF out[c] = Pong THEN view[c] ELSE out[c]
    BY <1>0, <1>9 DEF Write, Goto, TypeOK
  <2>2. c \in SubOn /\ c \in SubOn'
    BY <2>1, SubscriberIs, SubscriberNext DEF Serving
  <2>3. CASE out[c] = Pong
    <3>1. SubPos'[c] = SubPos[c] /\ SubShown'[c] = SubShown[c]
      BY <2>1, <2>3, SubscriberIs, SubscriberNext DEF Serving
    <3> QED
      BY <1>0, <2>2, <3>1, ConnStutters
  <2>4. CASE out[c] # Pong
    <3>1. /\ out[c] + 1 = next[c] /\ next[c] <= sent + 1 /\ sent <= last_message
          /\ sent \in Nat /\ last_message \in Nat
      BY <2>1, <2>4 DEF IndInv, TypeOK, ConnInv, Cursor, Subscribed, Serving,
                        PublishInv
    <3>2. /\ SubPos[c] = out[c] - 1 /\ SubPos'[c] = out[c]
          /\ SubShown'[c] = out[c]
      BY <2>1, <2>4, <3>1, SubscriberIs, SubscriberNext DEF Serving
    <3>3. /\ SubPos[c] + 1 = out[c] /\ SubPos[c] < last_message
      BY <2>1, <3>1, <3>2
    <3>4. /\ SubOn' = SubOn
          /\ SubPos' = [SubPos EXCEPT ![c] = SubPos[c] + 1]
          /\ SubShown' = [SubShown EXCEPT ![c] = SubPos[c] + 1]
      BY <1>0, <2>2, <3>2, <3>3, SubscriberOnly
    <3> QED
      BY <1>0, <2>2, <3>3, <3>4 DEF Sub!Deliver, workerVars
  <2> QED
    BY <2>3, <2>4
<1>10. CASE ClientRead(c)
  BY <1>10 DEF ClientRead, workerVars, Sub!vars, SubOn, SubPos, SubShown
<1> QED
  BY <1>2, <1>3, <1>4, <1>5, <1>6, <1>7, <1>8, <1>9, <1>10 DEF Connection

-----------------------------------------------------------------------------
(* The theorems *)

\* publish waits for the read guard of every connection, so a snapshot on its
\* way to a client is the stream's latest message until it is written.
THEOREM SnapshotsStayLatest == Spec => []GuardInv
<1>1. Init => GuardInv
  BY DEF Init, GuardInv, SnapshotIsLatest
<1>2. IndInv /\ GuardInv /\ [Next]_vars => GuardInv'
  <2>1. ASSUME GuardInv, UNCHANGED vars PROVE GuardInv'
    BY <2>1 DEF vars, workerVars, connVars, GuardInv, SnapshotIsLatest
  <2> QED
    BY <2>1, GuardStep
<1> QED
  BY <1>1, <1>2, Inductive, PTL DEF Spec

\* For any number of clients, any channel capacity and any socket buffer, what
\* publish and handle_connection do together is what Subscription allows.
THEOREM Refinement == Spec => ImplementsSubscription
<1>1. Init => Sub!Init
  BY DEF Init, Sub!Init, SubOn, SubPos, SubShown, Serving
<1>2. IndInv /\ GuardInv /\ [Next]_vars => [Sub!Next]_(Sub!vars)
  <2> SUFFICES ASSUME IndInv, GuardInv, [Next]_vars
               PROVE  Sub!Next \/ UNCHANGED Sub!vars
    OBVIOUS
  <2>1. CASE Worker
    BY <2>1, WorkerRefines DEF Sub!Next
  <2>2. ASSUME NEW c \in Clients, Connection(c) \/ ClientRead(c)
        PROVE  Sub!Next \/ UNCHANGED Sub!vars
    BY <2>2, ConnectionRefines DEF Sub!Next
  <2>3. CASE UNCHANGED vars
    BY <2>3 DEF vars, workerVars, connVars, Sub!vars, SubOn, SubPos, SubShown
  <2> QED
    BY <2>1, <2>2, <2>3 DEF Next
<1> QED
  BY <1>1, <1>2, Inductive, SnapshotsStayLatest, PTL
     DEF Spec, ImplementsSubscription, Sub!Spec
=============================================================================
