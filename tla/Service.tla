------------------------------ MODULE Service ------------------------------
(***************************************************************************)
(* toxicity-service as a process: start-up, the registry of streams, the   *)
(* config hot-reload loop, the subscribe and /health readers that share    *)
(* the registry's lock with it, and the end of the process (main.rs,       *)
(* registry.rs, health.rs, config.rs, server.rs).  What a stream then does *)
(* is in module Fanout.                                                    *)
(*                                                                         *)
(* A stream entry of the file is its registry key (two spellings of one    *)
(* stream have one key) and whether resolve_stream accepts it.             *)
(***************************************************************************)
EXTENDS Naturals, Sequences, FiniteSets

CONSTANTS
  Keys,          \* registry keys
  Subscribers,   \* WebSocket clients
  Probes,        \* HTTP requests to the health endpoint at the same time
  MaxFile        \* bound: entries of the streams file

ASSUME ServiceAssumption == MaxFile \in Nat

VARIABLES
  phase,     \* of `main`: "boot", "spawning", "serving" or "exited"
  file,      \* contents of GEIGER_STREAMS_FILE
  todo,      \* stream entries still to go through, of `main` or of the reload
  rpc,       \* where the reload loop is
  registry,  \* Registry: the entry of each key, 0 if there is none
  entries,   \* history: the key of every StreamEntry made, each with its tasks
  sub,       \* the entry each client is subscribed to, 0 if none
  hpc,       \* where each health request is
  left,      \* the keys a health request has yet to render
  shown,     \* the entries a health request has rendered
  doubled    \* history: keys that the file at start-up listed more than once

vars == <<phase, file, todo, rpc, registry, entries, sub, hpc, left, shown, doubled>>

StreamConfig == [key : Keys, valid : BOOLEAN]

\* <<>> stands for a file that cannot be read, does not parse or is empty:
\* load_streams answers Err to each.
Files == UNION {[1..n -> StreamConfig] : n \in 0..MaxFile}

Registered == {k \in Keys : registry[k] # 0}

TypeOK ==
  /\ phase \in {"boot", "spawning", "serving", "exited"}
  /\ file \in Files
  /\ todo \in Seq(StreamConfig)
  /\ rpc \in {"ticking", "checking", "inserting", "waiting"}
  /\ registry \in [Keys -> 0..Len(entries)]
  /\ entries \in Seq(Keys)
  /\ sub \in [Subscribers -> 0..Len(entries)]
  /\ hpc \in [Probes -> {"idle", "request", "rendering"}]
  /\ left \in [Probes -> SUBSET Keys]
  /\ shown \in [Probes -> SUBSET (1..Len(entries))]
  /\ doubled \in SUBSET Keys

Init ==
  /\ phase = "boot"
  /\ file \in Files
  /\ todo = <<>>
  /\ rpc = "ticking"
  /\ registry = [k \in Keys |-> 0]
  /\ entries = <<>>
  /\ sub = [c \in Subscribers |-> 0]
  /\ hpc = [h \in Probes |-> "idle"]
  /\ left = [h \in Probes |-> {}]
  /\ shown = [h \in Probes |-> {}]
  /\ doubled = {}

readers == <<sub, hpc, left, shown>>

-----------------------------------------------------------------------------
(* main *)

\* from_env panics on a bad file, and `main` panics on an entry resolve_stream
\* rejects, before anything is spawned.
LoadConfig ==
  /\ phase = "boot"
  /\ LET good == file # <<>> /\ \A i \in DOMAIN file : file[i].valid IN
     /\ phase' = IF good THEN "spawning" ELSE "exited"
     /\ todo' = IF good THEN file ELSE <<>>
  /\ doubled' = {k \in Keys :
                   \E i, j \in DOMAIN file : i < j /\ file[i].key = k /\ file[j].key = k}
  /\ UNCHANGED <<file, rpc, registry, entries, readers>>

\* Plausible bug: the entry is registered and its tasks are never spawned.
SpawnNothing(key) ==
  /\ registry' = [registry EXCEPT ![key] = Len(entries) + 1]
  /\ UNCHANGED entries

\* spawn_stream: a new entry takes the key, whatever was there, and an
\* adapter and a worker are spawned for it.
SpawnStream(key) ==
  /\ entries' = Append(entries, key)
  /\ registry' = [registry EXCEPT ![key] = Len(entries) + 1]

\* At start-up every resolved entry is spawned.  Nobody else has the registry.
SpawnAtStartup ==
  /\ phase = "spawning"
  /\ todo # <<>>
  /\ SpawnStream(Head(todo).key)
  /\ todo' = Tail(todo)
  /\ UNCHANGED <<phase, file, rpc, doubled, readers>>

\* The health endpoint, the reload loop and the server run from now on.
Serve ==
  /\ phase = "spawning"
  /\ todo = <<>>
  /\ phase' = "serving"
  /\ UNCHANGED <<file, todo, rpc, registry, entries, doubled, readers>>

\* A bind or accept error of the server, SIGTERM or Ctrl-C: the process ends.
Exit ==
  /\ phase = "serving"
  /\ phase' = "exited"
  /\ UNCHANGED <<file, todo, rpc, registry, entries, doubled, readers>>

-----------------------------------------------------------------------------
(* config_reload_loop *)

\* A tick: the file is read; after an error the loop keeps what it has.
ReloadTick ==
  /\ phase = "serving"
  /\ rpc = "ticking"
  /\ todo' = file
  /\ rpc' = IF file = <<>> THEN "ticking" ELSE "checking"
  /\ UNCHANGED <<phase, file, registry, entries, doubled, readers>>

\* Plausible bug: the check is dropped, `insert` would replace the entry anyway.
KnownNever(key) == FALSE

\* registry.contains_key
Known(key) == registry[key] # 0

\* Plausible bug: an invalid entry ends the reload.
SkipEntryEndsReload == todo' = <<>> /\ rpc' = "ticking"

\* `continue`, with the next entry or the next tick
SkipEntry ==
  /\ todo' = Tail(todo)
  /\ rpc' = IF Tail(todo) = <<>> THEN "ticking" ELSE "checking"

\* The next entry is skipped if its key is registered or it is invalid.
ReloadCheck ==
  /\ phase = "serving"
  /\ rpc = "checking"
  /\ IF Known(Head(todo).key) \/ ~Head(todo).valid
     THEN SkipEntry
     ELSE rpc' = "inserting" /\ UNCHANGED todo
  /\ UNCHANGED <<phase, file, registry, entries, doubled, readers>>

\* Plausible bug: health requests do not keep the read guard of the map.
MapNeverRead == TRUE

\* No health request holds the read guard of the map.
MapFree == \A h \in Probes : hpc[h] # "rendering"

\* External: the tokio RwLock is first come first served.
QueueForMap ==
  /\ phase = "serving"
  /\ rpc = "inserting"
  /\ ~MapFree
  /\ rpc' = "waiting"
  /\ UNCHANGED <<phase, file, todo, registry, entries, doubled, readers>>

ReloadInsert ==
  /\ phase = "serving"
  /\ rpc \in {"inserting", "waiting"}
  /\ MapFree
  /\ SpawnStream(Head(todo).key)
  /\ SkipEntry
  /\ UNCHANGED <<phase, file, doubled, readers>>

Reload == ReloadTick \/ ReloadCheck \/ QueueForMap \/ ReloadInsert

-----------------------------------------------------------------------------
(* Readers of the registry *)

\* handle_connection of server.rs looks the key up and lets the map go.
Subscribe(c) ==
  /\ phase = "serving"
  /\ rpc # "waiting"
  /\ sub[c] = 0
  /\ \E k \in Registered : sub' = [sub EXCEPT ![c] = registry[k]]
  /\ UNCHANGED <<phase, file, todo, rpc, registry, entries, doubled, hpc, left, shown>>

Leave(c) ==
  /\ phase = "serving"
  /\ sub[c] # 0
  /\ sub' = [sub EXCEPT ![c] = 0]
  /\ UNCHANGED <<phase, file, todo, rpc, registry, entries, doubled, hpc, left, shown>>

\* health.rs: a request line is read ...
ProbeArrives(h) ==
  /\ phase = "serving"
  /\ hpc[h] = "idle"
  /\ hpc' = [hpc EXCEPT ![h] = "request"]
  /\ UNCHANGED <<phase, file, todo, rpc, registry, entries, doubled, sub, left, shown>>

\* ... for /health or /metrics the map is locked for as long as they render ...
LockMap(h) ==
  /\ phase = "serving"
  /\ hpc[h] = "request"
  /\ rpc # "waiting"
  /\ hpc' = [hpc EXCEPT ![h] = "rendering"]
  /\ left' = [left EXCEPT ![h] = Registered]
  /\ shown' = [shown EXCEPT ![h] = {}]
  /\ UNCHANGED <<phase, file, todo, rpc, registry, entries, doubled, sub>>

\* Plausible bug: the map is locked again for every entry.
RenderEntryRelocks(h) ==
  /\ phase = "serving"
  /\ hpc[h] = "rendering"
  /\ rpc # "waiting"
  /\ \E k \in left[h] :
       /\ left' = [left EXCEPT ![h] = @ \ {k}]
       /\ shown' = [shown EXCEPT ![h] = @ \cup {registry[k]}]
  /\ UNCHANGED <<phase, file, todo, rpc, registry, entries, doubled, sub, hpc>>

\* ... which waits for the health lock of one entry after the other ...
RenderEntry(h) ==
  /\ phase = "serving"
  /\ hpc[h] = "rendering"
  /\ \E k \in left[h] :
       /\ left' = [left EXCEPT ![h] = @ \ {k}]
       /\ shown' = [shown EXCEPT ![h] = @ \cup {registry[k]}]
  /\ UNCHANGED <<phase, file, todo, rpc, registry, entries, doubled, sub, hpc>>

\* ... and released before the answer is written.
Answer(h) ==
  /\ phase = "serving"
  /\ hpc[h] = "rendering"
  /\ left[h] = {}
  /\ hpc' = [hpc EXCEPT ![h] = "idle"]
  /\ shown' = [shown EXCEPT ![h] = {}]
  /\ UNCHANGED <<phase, file, todo, rpc, registry, entries, doubled, sub, left>>

\* External: an operator edits the file.
EditFile ==
  /\ phase # "exited"
  /\ file' \in Files
  /\ UNCHANGED <<phase, todo, rpc, registry, entries, doubled, readers>>

Next ==
  \/ LoadConfig \/ SpawnAtStartup \/ Serve \/ Exit \/ Reload \/ EditFile
  \/ \E c \in Subscribers : Subscribe(c) \/ Leave(c)
  \/ \E h \in Probes : ProbeArrives(h) \/ LockMap(h) \/ RenderEntry(h) \/ Answer(h)

\* Tasks that can run do run, and the interval keeps ticking.  The map's lock
\* is first come first served: a request is not overtaken by inserts for ever.
Fairness ==
  /\ WF_vars(LoadConfig) /\ WF_vars(SpawnAtStartup) /\ WF_vars(Serve)
  /\ WF_vars(Reload)
  /\ \A h \in Probes :
       SF_vars(LockMap(h)) /\ WF_vars(RenderEntry(h)) /\ WF_vars(Answer(h))

Spec == Init /\ [][Next]_vars
FairSpec == Spec /\ Fairness

-----------------------------------------------------------------------------
(* Properties *)

\* main.rs:139-147: reloads never pull a stream away from its subscribers.
\* However the file is edited, whoever is subscribed is subscribed to the entry
\* that the registry has under that key.
SubscribersStayCurrent ==
  \A c \in Subscribers : sub[c] # 0 => registry[entries[sub[c]]] = sub[c]

\* main.rs:175-181: a stream is not started twice.  An entry whose adapter and
\* worker run on although the registry has lost it comes from a file that
\* listed its key twice at start-up, never from a reload.
OrphansOnlyFromStartup ==
  \A i \in DOMAIN entries :
    registry[entries[i]] # i =>
      /\ entries[i] \in doubled
      /\ \A c \in Subscribers : sub[c] # i

\* health.rs:80-104: one answer is one state of the registry, although the
\* renderer waits for a lock per entry: its entries are all registered, and
\* with those still to come they are all the streams there are.
AnswerIsOneSnapshot ==
  \A h \in Probes : hpc[h] = "rendering" =>
    shown[h] \cup {registry[k] : k \in left[h]} = {registry[k] : k \in Registered}

ValidKeys == {file[i].key : i \in {j \in DOMAIN file : file[j].valid}}

\* src/README.md:132-136: a stream that is added to the file, and stays there, is started
\* without a restart, whatever invalid entries stand next to it and however
\* many health requests hold the map.
NewStreamsStart ==
  \A k \in Keys :
    <>[](k \in ValidKeys) => <>(registry[k] # 0 \/ phase = "exited")

\* registry.rs:58-62: an insert blocks readers only briefly: every health
\* request is answered.
ProbesAreAnswered ==
  \A h \in Probes :
    (hpc[h] = "request") ~> (hpc[h] = "idle" \/ phase = "exited")
=============================================================================
