------------------------------- MODULE Fanout -------------------------------
(***************************************************************************)
(* One stream of toxicity-service: the worker that publishes its messages  *)
(* (worker.rs), the registry entry it shares with the server (registry.rs) *)
(* and the connection tasks that fan the messages out (server.rs).         *)
(*                                                                         *)
(* A message is its position in `log`, the history of everything the       *)
(* worker published; log[m] is its kind.  0 stands for "no message".       *)
(* Which trades close a bucket is the engine's business (module Engine),   *)
(* here it is a choice.  Steps are the code's await points: between two of *)
(* them any other task may run.                                            *)
(***************************************************************************)
EXTENDS Naturals, Sequences, FiniteSets

CONSTANTS
  Clients,       \* connections that may be open at the same time
  Capacity,      \* BROADCAST_CAPACITY
  SockBuf,       \* frames the kernel buffers before a write has to wait
  AuthEnabled,   \* GEIGER_AUTH_TOKEN is set
  MaxMessages,   \* bound: messages the worker publishes
  MaxTrades      \* bound: trades the worker receives

ASSUME FanoutAssumption ==
  /\ Capacity \in Nat \ {0}
  /\ SockBuf \in Nat \ {0}
  /\ AuthEnabled \in BOOLEAN
  /\ MaxMessages \in Nat
  /\ MaxTrades \in Nat

VARIABLES
  wpc,           \* where the worker task is
  log,           \* history: kinds of the messages published so far
  last_message,  \* StreamEntry.last_message
  sent,          \* the last message sent on StreamEntry.sender
  health,        \* StreamEntry.health
  cpc,           \* where each connection task is
  next,          \* next message of the connection's broadcast receiver
  out,           \* the frame a connection is writing
  inflight,      \* frames in the socket the client has not read
  view,          \* the message most recently written to the client
  start,         \* history: `sent` when the connection subscribed
  snap,          \* history: the snapshot read for the connection
  got,           \* history: broadcast messages written to the client
  missed         \* history: broadcast messages reported as Lagged

workerVars == <<wpc, log, last_message, sent, health>>
connVars == <<cpc, next, out, inflight, view, start, snap, got, missed>>
vars == <<workerVars, connVars>>

Kinds == {"Reading", "Heartbeat"}
Pong == 0
Credentials == {"none", "wrong", "right"}

WorkerPC == {"absent", "spawned", "idle", "record", "waiting", "send",
             "account", "exited"}
ConnPC == {"idle", "handshake", "request", "subscribed", "snapshot", "loop",
           "writing"}
\* Past the snapshot: the connection is served from the broadcast channel.
Serving == {"loop", "writing"}
\* The connection has a broadcast receiver.
Subscribed == {"subscribed", "snapshot"} \cup Serving

\* registry.rs StreamHealth; a heartbeat's timestamp is the message's position
StreamHealth == [trades_processed : Nat, readings_emitted : Nat,
                 last_heartbeat : Nat, worker_alive : BOOLEAN]

TypeOK ==
  /\ wpc \in WorkerPC
  /\ log \in Seq(Kinds)
  /\ last_message \in Nat
  /\ sent \in Nat
  /\ health \in StreamHealth
  /\ cpc \in [Clients -> ConnPC]
  /\ next \in [Clients -> Nat \ {0}]
  /\ out \in [Clients -> Nat]
  /\ inflight \in [Clients -> 0..SockBuf]
  /\ view \in [Clients -> Nat]
  /\ start \in [Clients -> Nat]
  /\ snap \in [Clients -> Nat]
  /\ got \in [Clients -> SUBSET Nat]
  /\ missed \in [Clients -> SUBSET Nat]

Init ==
  /\ wpc = "absent"
  /\ log = <<>>
  /\ last_message = 0
  /\ sent = 0
  /\ health = [trades_processed |-> 0, readings_emitted |-> 0,
               last_heartbeat |-> 0, worker_alive |-> FALSE]
  /\ cpc = [c \in Clients |-> "idle"]
  /\ next = [c \in Clients |-> 1]
  /\ out = [c \in Clients |-> 0]
  /\ inflight = [c \in Clients |-> 0]
  /\ view = [c \in Clients |-> 0]
  /\ start = [c \in Clients |-> 0]
  /\ snap = [c \in Clients |-> 0]
  /\ got = [c \in Clients |-> {}]
  /\ missed = [c \in Clients |-> {}]

-----------------------------------------------------------------------------
(* The worker task *)

\* spawn_stream puts the entry in the registry before it spawns the worker.
SpawnStream ==
  /\ wpc = "absent"
  /\ wpc' = "spawned"
  /\ UNCHANGED <<log, last_message, sent, health, connVars>>

\* The worker is polled for the first time.
StartWorker ==
  /\ wpc = "spawned"
  /\ wpc' = "idle"
  /\ health' = [health EXCEPT !.worker_alive = TRUE]
  /\ UNCHANGED <<log, last_message, sent, connVars>>

BeginPublish(kind) ==
  /\ Len(log) < MaxMessages
  /\ log' = Append(log, kind)
  /\ wpc' = "record"

HeartbeatTick ==
  /\ wpc = "idle"
  /\ BeginPublish("Heartbeat")
  /\ UNCHANGED <<last_message, sent, health, connVars>>

\* A trade is counted; if it closes a bucket, its reading is published.
ReceiveTrade ==
  /\ wpc = "idle"
  /\ health.trades_processed < MaxTrades
  /\ health' = [health EXCEPT !.trades_processed = @ + 1]
  /\ \/ BeginPublish("Reading")
     \/ UNCHANGED <<wpc, log>>
  /\ UNCHANGED <<last_message, sent, connVars>>

\* Plausible bug: the snapshot's read guard is kept for the whole connection.
GuardKeptByConnection == \A c \in Clients : cpc[c] \notin {"snapshot"} \cup Serving

\* Plausible bug: the snapshot is copied and the guard released before the write.
GuardReleasedEarly == TRUE

\* No connection holds the read guard of last_message.
NoReader == \A c \in Clients : cpc[c] # "snapshot"

\* External: the tokio RwLock is first come first served.  A worker that finds
\* readers waits, and later readers wait behind it.
QueueForLock ==
  /\ wpc = "record"
  /\ ~NoReader
  /\ wpc' = "waiting"

\* Plausible bug: the message is sent before it is recorded.
PublishSendsFirst ==
  \/ /\ wpc = "record"
     /\ NoReader
     /\ sent' = Len(log)
     /\ wpc' = "send"
     /\ UNCHANGED last_message
  \/ /\ wpc = "send"
     /\ last_message' = Len(log)
     /\ wpc' = "account"
     /\ UNCHANGED sent

\* publish: record the message, then send it (two steps of the task).
Publish ==
  \/ /\ wpc \in {"record", "waiting"}
     /\ NoReader
     /\ last_message' = Len(log)
     /\ wpc' = "send"
     /\ UNCHANGED sent
  \/ QueueForLock /\ UNCHANGED <<last_message, sent>>
  \/ /\ wpc = "send"
     /\ sent' = Len(log)
     /\ wpc' = "account"
     /\ UNCHANGED last_message

PublishMessage == Publish /\ UNCHANGED <<log, health, connVars>>

\* Plausible bug: heartbeats are counted as readings.
AccountEveryMessage ==
  /\ wpc = "account"
  /\ wpc' = "idle"
  /\ health' = [health EXCEPT !.readings_emitted = @ + 1]
  /\ UNCHANGED <<log, last_message, sent, connVars>>

\* Back in `run`: the health counters follow the message.
Account ==
  /\ wpc = "account"
  /\ wpc' = "idle"
  /\ health' = IF log[Len(log)] = "Reading"
               THEN [health EXCEPT !.readings_emitted = @ + 1]
               ELSE [health EXCEPT !.last_heartbeat = Len(log)]
  /\ UNCHANGED <<log, last_message, sent, connVars>>

\* trade_rx is closed: the adapter task is gone.
ExitWorker ==
  /\ wpc = "idle"
  /\ wpc' = "exited"
  /\ health' = [health EXCEPT !.worker_alive = FALSE]
  /\ UNCHANGED <<log, last_message, sent, connVars>>

Worker ==
  \/ SpawnStream \/ StartWorker \/ HeartbeatTick \/ ReceiveTrade
  \/ PublishMessage \/ Account \/ ExitWorker

-----------------------------------------------------------------------------
(* A connection task *)

Goto(c, pc) == cpc' = [cpc EXCEPT ![c] = pc]

\* handle_connection returns: receiver, socket and guard are dropped.
Close(c) ==
  /\ Goto(c, "idle")
  /\ next' = [next EXCEPT ![c] = 1]
  /\ out' = [out EXCEPT ![c] = 0]
  /\ inflight' = [inflight EXCEPT ![c] = 0]
  /\ view' = [view EXCEPT ![c] = 0]
  /\ start' = [start EXCEPT ![c] = 0]
  /\ snap' = [snap EXCEPT ![c] = 0]
  /\ got' = [got EXCEPT ![c] = {}]
  /\ missed' = [missed EXCEPT ![c] = {}]
  /\ UNCHANGED workerVars

\* HTTP status of the handshake
CheckAuth(provided) ==
  IF ~AuthEnabled \/ provided = "right" THEN 101
  ELSE IF provided = "none" THEN 401 ELSE 403

Accept(c) ==
  /\ cpc[c] = "idle"
  /\ Goto(c, "handshake")
  /\ UNCHANGED <<workerVars, next, out, inflight, view, start, snap, got, missed>>

Handshake(c) ==
  /\ cpc[c] = "handshake"
  /\ \E provided \in Credentials :
       IF CheckAuth(provided) = 101
       THEN /\ Goto(c, "request")
            /\ UNCHANGED <<workerVars, next, out, inflight, view, start, snap,
                           got, missed>>
       ELSE Close(c)

Registered == wpc # "absent"

\* A subscribe request for this stream, which is registered: the receiver
\* starts after the last message sent.
Subscribe(c) ==
  /\ cpc[c] = "request"
  /\ Registered
  /\ Goto(c, "subscribed")
  /\ next' = [next EXCEPT ![c] = sent + 1]
  /\ start' = [start EXCEPT ![c] = sent]
  /\ UNCHANGED <<workerVars, out, inflight, view, snap, got, missed>>

\* Unknown stream (an Error message first), malformed request, other frame.
RefuseRequest(c) ==
  /\ cpc[c] = "request"
  /\ Close(c)

\* The read guard of last_message lives until the snapshot is written: it is
\* a temporary of the `if let`.
ReadSnapshot(c) ==
  /\ cpc[c] = "subscribed"
  /\ wpc # "waiting"
  /\ Goto(c, IF last_message = 0 THEN "loop" ELSE "snapshot")
  /\ snap' = [snap EXCEPT ![c] = last_message]
  /\ UNCHANGED <<workerVars, next, out, inflight, view, start, got, missed>>

WriteSnapshot(c) ==
  /\ cpc[c] = "snapshot"
  /\ inflight[c] < SockBuf
  /\ inflight' = [inflight EXCEPT ![c] = @ + 1]
  /\ view' = [view EXCEPT ![c] = snap[c]]
  /\ Goto(c, "loop")
  /\ UNCHANGED <<workerVars, next, out, start, snap, got, missed>>

\* The channel keeps the last Capacity messages.
Retained(m) == m + Capacity > sent

\* recv() returns the next message ...
Recv(c) ==
  /\ cpc[c] = "loop"
  /\ next[c] <= sent
  /\ Retained(next[c])
  /\ out' = [out EXCEPT ![c] = next[c]]
  /\ next' = [next EXCEPT ![c] = @ + 1]
  /\ Goto(c, "writing")
  /\ UNCHANGED <<workerVars, inflight, view, start, snap, got, missed>>

\* Plausible bug: after a lag the receiver skips everything.
LaggedSkipsToEnd(c) ==
  /\ cpc[c] = "loop"
  /\ next[c] <= sent
  /\ ~Retained(next[c])
  /\ missed' = [missed EXCEPT ![c] = @ \cup (next[c] .. (sent - Capacity))]
  /\ next' = [next EXCEPT ![c] = sent + 1]
  /\ UNCHANGED <<workerVars, cpc, out, inflight, view, start, snap, got>>

\* ... or Lagged: the receiver skips to the oldest message retained.
Lagged(c) ==
  /\ cpc[c] = "loop"
  /\ next[c] <= sent
  /\ ~Retained(next[c])
  /\ missed' = [missed EXCEPT ![c] = @ \cup (next[c] .. (sent - Capacity))]
  /\ next' = [next EXCEPT ![c] = sent - Capacity + 1]
  /\ UNCHANGED <<workerVars, cpc, out, inflight, view, start, snap, got>>

\* A Ping frame of the client is answered.
ReceivePing(c) ==
  /\ cpc[c] = "loop"
  /\ out' = [out EXCEPT ![c] = Pong]
  /\ Goto(c, "writing")
  /\ UNCHANGED <<workerVars, next, inflight, view, start, snap, got, missed>>

\* Plausible bug: frames are queued without waiting for the socket.
WriteUnbounded(c) ==
  /\ cpc[c] = "writing"
  /\ inflight' = [inflight EXCEPT ![c] = @ + 1]
  /\ view' = [view EXCEPT ![c] = IF out[c] = Pong THEN @ ELSE out[c]]
  /\ got' = [got EXCEPT ![c] = IF out[c] = Pong THEN @ ELSE @ \cup {out[c]}]
  /\ out' = [out EXCEPT ![c] = Pong]
  /\ Goto(c, "loop")
  /\ UNCHANGED <<workerVars, next, start, snap, missed>>

Write(c) ==
  /\ cpc[c] = "writing"
  /\ inflight[c] < SockBuf
  /\ inflight' = [inflight EXCEPT ![c] = @ + 1]
  /\ view' = [view EXCEPT ![c] = IF out[c] = Pong THEN @ ELSE out[c]]
  /\ got' = [got EXCEPT ![c] = IF out[c] = Pong THEN @ ELSE @ \cup {out[c]}]
  /\ out' = [out EXCEPT ![c] = Pong]
  /\ Goto(c, "loop")
  /\ UNCHANGED <<workerVars, next, start, snap, missed>>

\* The client closes or resets the connection: the task sees it as a failed
\* write, or as Close, None or Err from the socket.
Disconnect(c) ==
  /\ cpc[c] # "idle"
  /\ Close(c)

Connection(c) ==
  \/ Accept(c) \/ Handshake(c) \/ Subscribe(c) \/ RefuseRequest(c)
  \/ ReadSnapshot(c) \/ WriteSnapshot(c) \/ Recv(c) \/ Lagged(c)
  \/ ReceivePing(c) \/ Write(c) \/ Disconnect(c)

\* External: the client takes a frame off the socket.
ClientRead(c) ==
  /\ inflight[c] > 0
  /\ inflight' = [inflight EXCEPT ![c] = @ - 1]
  /\ UNCHANGED <<workerVars, cpc, next, out, view, start, snap, got, missed>>

Next ==
  \/ Worker
  \/ \E c \in Clients : Connection(c) \/ ClientRead(c)

\* Tasks that can run do run.  The lock's queue does not let a reader be
\* overtaken for ever, and select! picks a ready branch at random, so pings do
\* not starve the channel: strong fairness for those.  Nothing is assumed of
\* the clients, of the feed, nor of the heartbeat timer.
Fairness ==
  /\ WF_vars(StartWorker)
  /\ WF_vars(PublishMessage)
  /\ WF_vars(Account)
  /\ \A c \in Clients :
       /\ SF_vars(ReadSnapshot(c))
       /\ WF_vars(WriteSnapshot(c))
       /\ WF_vars(Write(c))
       /\ SF_vars(Recv(c))
       /\ SF_vars(Lagged(c))

Spec == Init /\ [][Next]_vars
FairSpec == Spec /\ Fairness
-----------------------------------------------------------------------------
(* Properties *)

Pending(c) == IF out[c] = Pong THEN {} ELSE {out[c]}

\* worker.rs:13-16, server.rs:157-164: whatever publish and subscribe do
\* between each other's steps, a served client misses nothing silently: what
\* was sent before it subscribed is covered by its snapshot, and every later
\* message the receiver has passed was written to it, is being written, or
\* was reported as Lagged, never two of these.
NoSilentGap ==
  \A c \in Clients : cpc[c] \in Serving =>
    /\ snap[c] >= start[c]
    /\ got[c] \cup missed[c] \cup Pending(c) = (start[c] + 1) .. (next[c] - 1)
    /\ got[c] \cap missed[c] = {}
    /\ Pending(c) \cap (got[c] \cup missed[c]) = {}

\* A client with nothing left in its queue shows the stream's latest message,
\* although snapshots may overtake queued messages and a lagging receiver
\* jumps: it is never left on an older one.
DrainedIsCurrent ==
  \A c \in Clients :
    cpc[c] = "loop" /\ next[c] = sent + 1 => view[c] >= sent

PublishedReadings(n) == Cardinality({m \in 1..n : log[m] = "Reading"})

\* /health and /metrics read counters that are updated in steps of their own,
\* around publish: they never count a reading before it is sent, they are at
\* most one message behind, and they are exact whenever the worker waits.
HealthFollowsStream ==
  LET emitted == health.readings_emitted IN
  /\ emitted <= PublishedReadings(sent)
  /\ PublishedReadings(sent) <= emitted + 1
  /\ emitted <= health.trades_processed
  /\ \A m \in (health.last_heartbeat + 1) .. sent :
       log[m] = "Heartbeat" => wpc = "account" /\ m = sent
  /\ wpc \in {"idle", "exited"} => emitted = PublishedReadings(Len(log))

\* server.rs:157-161 says that subscribing first costs a client "at worst ...
\* one harmless duplicate": a duplicate aside, messages are shown in their
\* order, never an older one after a newer one.
ViewNeverGoesBack ==
  \A c \in Clients : cpc[c] \in Serving =>
    \A m \in got[c] \cup {snap[c]} : m <= view[c]

\* server.rs:179-184: a slow client is no reason to disturb anyone else.  A
\* message the worker has begun to publish is published, although a connection
\* holds the lock of last_message while it writes to its socket, and whether
\* or not any client ever reads.
WorkerNeverBlocked == 
  (wpc \in {"record", "waiting", "send", "account"}) ~> (wpc = "idle")

\* A message sent to a subscribed client reaches its socket or is reported as
\* Lagged, unless the connection ends or the client stops reading.
SentIsDelivered ==
  \A c \in Clients : \A m \in 1..MaxMessages :
    []<>(inflight[c] < SockBuf) =>
      ( (cpc[c] \in Subscribed /\ next[c] <= m /\ m <= sent)
          ~> (m \in got[c] \cup missed[c] \/ cpc[c] = "idle") )

-----------------------------------------------------------------------------
(* Refinement *)

\* Past the snapshot, a connection is a subscriber.  It has been taken through
\* what its receiver has passed, up to the message it is still writing.
SubOn == {c \in Clients : cpc[c] \in Serving}
SubPos == [c \in Clients |-> IF cpc[c] \notin Serving THEN 0
                             ELSE IF out[c] = Pong THEN next[c] - 1 ELSE out[c] - 1]
SubShown == [c \in Clients |-> IF cpc[c] \in Serving THEN view[c] ELSE 0]

Sub == INSTANCE Subscription WITH
  latest <- last_message, on <- SubOn, pos <- SubPos, shown <- SubShown

\* worker.rs:13-16, server.rs:156-187: with its lock, its channel that
\* overwrites, its receivers and its sockets, the stream does for every client
\* what the abstract subscription does.  The first message a client gets is
\* the latest there is when it gets it, however long the write takes; then it
\* gets the stream in order, and only a lag of the channel's capacity skips.
ImplementsSubscription == Sub!Spec
=============================================================================
