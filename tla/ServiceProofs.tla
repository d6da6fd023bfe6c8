---------------------------- MODULE ServiceProofs ----------------------------
(***************************************************************************)
(* Proofs about Service, for every set of keys, subscribers and health     *)
(* requests and every length of the streams file.                          *)
(*                                                                         *)
(* None of the three safety properties is inductive.  They rest on where   *)
(* the reload loop is (Reloading), on nobody reading the registry before   *)
(* the process serves (Quiet), on the entries the registry points to       *)
(* (Mapped), and on what main has yet to spawn (Starting).                 *)
(***************************************************************************)
EXTENDS Service, TLAPS, SequenceTheorems

\* The reload loop works on an entry only while it serves; the one it is about
\* to insert is not registered, however long it waits for the lock.
Reloading ==
  /\ rpc # "ticking" => todo # <<>> /\ phase \notin {"boot", "spawning"}
  /\ rpc \in {"inserting", "waiting"} => ~Known(Head(todo).key)

\* Nobody reads the registry before the process serves.
Quiet ==
  phase \in {"boot", "spawning"} =>
    /\ \A c \in Subscribers : sub[c] = 0
    /\ \A h \in Probes : hpc[h] = "idle"

\* The entry registered under a key was made for that key, and nothing is ever
\* taken out of the registry.
Mapped ==
  /\ \A k \in Keys : registry[k] # 0 => entries[registry[k]] = k
  /\ \A h \in Probes : left[h] \subseteq Registered
  /\ phase = "boot" => entries = <<>>

\* A key that main has yet to spawn and has spawned already, or has yet to
\* spawn twice, was listed twice.
Starting ==
  phase = "spawning" =>
    \A j \in DOMAIN todo :
      /\ Known(todo[j].key) => todo[j].key \in doubled
      /\ \A i \in DOMAIN todo :
           i < j /\ todo[i].key = todo[j].key => todo[j].key \in doubled

IndInv ==
  /\ TypeOK
  /\ Reloading /\ Quiet /\ Mapped /\ Starting
  /\ SubscribersStayCurrent /\ OrphansOnlyFromStartup /\ AnswerIsOneSnapshot

-----------------------------------------------------------------------------
(* The sequences and the map *)

\* The stream entries of a file are a sequence: load_streams returns a Vec.
LEMMA FileIsSeq == ASSUME NEW f \in Files PROVE f \in Seq(StreamConfig)
BY ServiceAssumption DEF Files

\* The next entry of `main` or of the reload, and those behind it.
LEMMA TodoSplits ==
  ASSUME TypeOK, todo # <<>>
  PROVE  /\ Head(todo) \in StreamConfig /\ Head(todo) = todo[1]
         /\ Head(todo).key \in Keys
         /\ Tail(todo) \in Seq(StreamConfig)
         /\ Len(todo) \in Nat /\ Len(todo) >= 1 /\ DOMAIN todo = 1..Len(todo)
         /\ DOMAIN Tail(todo) = 1..(Len(todo) - 1)
         /\ \A i \in 1..(Len(todo) - 1) : Tail(todo)[i] = todo[i+1]
<1>1. todo \in Seq(StreamConfig)
  BY DEF TypeOK
<1>2. Head(todo) \in StreamConfig /\ Tail(todo) \in Seq(StreamConfig)
  BY <1>1, HeadTailProperties
<1>3. Head(todo).key \in Keys
  BY <1>2 DEF StreamConfig
<1>4. Head(todo) = todo[1]
  BY <1>1
<1>5. Len(todo) \in Nat /\ Len(todo) >= 1 /\ DOMAIN todo = 1..Len(todo)
  BY <1>1
<1>6. /\ Len(Tail(todo)) = Len(todo) - 1
      /\ \A i \in 1..Len(Tail(todo)) : Tail(todo)[i] = todo[i+1]
  BY <1>1, HeadTailProperties
<1>7. DOMAIN Tail(todo) = 1..Len(Tail(todo))
  BY <1>2, LenProperties
<1> QED
  BY <1>2, <1>3, <1>4, <1>5, <1>6, <1>7

\* spawn_stream: one more entry, registered under its key; the entries there
\* are stay what they are, and so do the other keys.
LEMMA Spawned ==
  ASSUME TypeOK, NEW key \in Keys, SpawnStream(key)
  PROVE  /\ Len(entries) \in Nat /\ DOMAIN entries = 1..Len(entries)
         /\ entries' \in Seq(Keys) /\ Len(entries') = Len(entries) + 1
         /\ DOMAIN entries' = 1..(Len(entries) + 1)
         /\ \A i \in 1..Len(entries) : entries'[i] = entries[i]
         /\ entries'[Len(entries) + 1] = key
         /\ registry' \in [Keys -> 0..(Len(entries) + 1)]
         /\ registry'[key] = Len(entries) + 1
         /\ \A k \in Keys \ {key} : registry'[k] = registry[k]
<1>1. entries \in Seq(Keys) /\ registry \in [Keys -> 0..Len(entries)]
  BY DEF TypeOK
<1>2. Len(entries) \in Nat /\ DOMAIN entries = 1..Len(entries)
  BY <1>1
<1>3. entries' = Append(entries, key)
  BY DEF SpawnStream
<1>4. /\ entries' \in Seq(Keys) /\ Len(entries') = Len(entries) + 1
      /\ \A i \in 1..Len(entries) : entries'[i] = entries[i]
      /\ entries'[Len(entries) + 1] = key
  BY <1>1, <1>3, AppendProperties
<1>5. DOMAIN entries' = 1..(Len(entries) + 1)
  BY <1>4, LenProperties
<1>6. /\ registry' \in [Keys -> 0..(Len(entries) + 1)]
      /\ registry'[key] = Len(entries) + 1
      /\ \A k \in Keys \ {key} : registry'[k] = registry[k]
  BY <1>1, <1>2 DEF SpawnStream
<1> QED
  BY <1>2, <1>4, <1>5, <1>6

\* A key is registered exactly if its entry is one of those made.
LEMMA RegistryType ==
  ASSUME TypeOK
  PROVE  /\ Len(entries) \in Nat /\ DOMAIN entries = 1..Len(entries)
         /\ \A i \in 1..Len(entries) : entries[i] \in Keys
         /\ \A k \in Keys : registry[k] \in 0..Len(entries)
         /\ \A k \in Registered : registry[k] \in 1..Len(entries)
<1>1. entries \in Seq(Keys) /\ registry \in [Keys -> 0..Len(entries)]
  BY DEF TypeOK
<1>2. Len(entries) \in Nat /\ DOMAIN entries = 1..Len(entries)
  BY <1>1
<1>3. \A i \in 1..Len(entries) : entries[i] \in Keys
  BY <1>1, ElementOfSeq
<1> QED
  BY <1>1, <1>2, <1>3 DEF Registered

\* As long as nothing is inserted, a health request that does not move still
\* renders one state of the registry.
LEMMA SnapshotKept ==
  ASSUME AnswerIsOneSnapshot, UNCHANGED <<registry, hpc, left, shown>>
  PROVE  AnswerIsOneSnapshot'
<1>1. Registered' = Registered
  BY DEF Registered
<1> SUFFICES ASSUME NEW h \in Probes, hpc[h] = "rendering"
             PROVE  shown[h] \cup {registry[k] : k \in left[h]}
                      = {registry[k] : k \in Registered}
  BY <1>1, ZenonT(40) DEF AnswerIsOneSnapshot
<1> QED
  BY DEF AnswerIsOneSnapshot

\* A step that leaves the registry and its readers alone has to answer only for
\* the task it belongs to.
LEMMA RegistryUntouched ==
  ASSUME IndInv, UNCHANGED <<registry, entries, doubled, readers>>,
         phase' \in {"boot", "spawning"} => phase = phase',
         TypeOK', Reloading', Starting'
  PROVE  IndInv'
<1>1. UNCHANGED <<sub, hpc, left, shown>>
  BY DEF readers
<1>2. Quiet'
  BY <1>1 DEF IndInv, Quiet
<1>3. Mapped'
  BY <1>1 DEF IndInv, Mapped, Registered
<1>4. SubscribersStayCurrent'
  BY <1>1 DEF IndInv, SubscribersStayCurrent
<1>5. OrphansOnlyFromStartup'
  BY <1>1 DEF IndInv, OrphansOnlyFromStartup
<1>6. AnswerIsOneSnapshot'
  BY <1>1, SnapshotKept DEF IndInv
<1> QED
  BY <1>2, <1>3, <1>4, <1>5, <1>6 DEF IndInv

-----------------------------------------------------------------------------
(* One step at a time: main *)

\* from_env and the resolution of every entry, before anything is spawned.
LEMMA LoadConfigInv == ASSUME IndInv, LoadConfig PROVE IndInv'
<1>1. /\ phase = "boot" /\ UNCHANGED <<file, rpc, registry, entries, readers>>
      /\ \/ phase' = "spawning" /\ todo' = file
         \/ phase' = "exited" /\ todo' = <<>>
  BY Zenon DEF LoadConfig
<1>2. doubled' = {k \in Keys : \E i, j \in DOMAIN file :
                    i < j /\ file[i].key = k /\ file[j].key = k}
  BY Zenon DEF LoadConfig
<1>3. file \in Seq(StreamConfig) /\ <<>> \in Seq(StreamConfig)
  BY FileIsSeq DEF IndInv, TypeOK
<1>4. rpc = "ticking"
  BY <1>1 DEF IndInv, Reloading, TypeOK
<1>5. TypeOK'
  BY <1>1, <1>2, <1>3 DEF IndInv, TypeOK, readers
<1>6. Reloading'
  BY <1>1, <1>4 DEF Reloading
<1>7. Quiet'
  BY <1>1 DEF IndInv, Quiet, readers
<1>8. Mapped'
  BY <1>1 DEF IndInv, Mapped, readers, Registered
<1>9. Starting'
  <2>1. entries = <<>> /\ registry \in [Keys -> 0..Len(entries)]
    BY <1>1 DEF IndInv, Mapped, TypeOK
  <2>2. \A k \in Keys : registry[k] = 0
    BY <2>1
  <2>3. \A j \in DOMAIN file : file[j].key \in Keys
    <3>1. \A j \in DOMAIN file : file[j] \in StreamConfig
      BY <1>3, ElementOfSeq, LenProperties
    <3> QED
      BY <3>1 DEF StreamConfig
  <2>4. CASE todo' = file
    BY <1>1, <1>2, <2>2, <2>3, <2>4 DEF Starting, Known
  <2>5. CASE phase' = "exited"
    BY <2>5 DEF Starting
  <2> QED
    BY <1>1, <2>4, <2>5
<1>10. SubscribersStayCurrent'
  BY <1>1 DEF IndInv, SubscribersStayCurrent, readers
<1>11. OrphansOnlyFromStartup'
  <2>1. entries = <<>>
    BY <1>1 DEF IndInv, Mapped
  <2> QED
    BY <1>1, <2>1 DEF OrphansOnlyFromStartup
<1>12. AnswerIsOneSnapshot'
  BY <1>1, SnapshotKept DEF IndInv, readers
<1> QED
  BY <1>5, <1>6, <1>7, <1>8, <1>9, <1>10, <1>11, <1>12 DEF IndInv

\* spawn_stream takes the key, whatever entry had it: if there was one, the
\* file listed the key twice, and nobody has subscribed to it yet.
LEMMA SpawnAtStartupInv == ASSUME IndInv, SpawnAtStartup PROVE IndInv'
<1> DEFINE key == Head(todo).key
           L == Len(entries)
<1>1. /\ phase = "spawning" /\ todo # <<>> /\ todo' = Tail(todo)
      /\ SpawnStream(key)
      /\ UNCHANGED <<phase, file, rpc, doubled, sub, hpc, left, shown>>
  BY DEF SpawnAtStartup, readers
<1>2. /\ TypeOK /\ Quiet /\ Mapped /\ Starting
      /\ \A c \in Subscribers : sub[c] = 0
      /\ \A h \in Probes : hpc[h] = "idle"
      /\ rpc = "ticking"
  BY <1>1 DEF IndInv, Quiet, Reloading, TypeOK
<1>3. /\ key \in Keys /\ key = todo[1].key
      /\ Tail(todo) \in Seq(StreamConfig)
      /\ Len(todo) \in Nat /\ Len(todo) >= 1 /\ DOMAIN todo = 1..Len(todo)
      /\ DOMAIN Tail(todo) = 1..(Len(todo) - 1)
      /\ \A i \in 1..(Len(todo) - 1) : Tail(todo)[i] = todo[i+1]
  BY <1>1, <1>2, TodoSplits
<1>4. /\ L \in Nat /\ DOMAIN entries = 1..L
      /\ entries' \in Seq(Keys) /\ Len(entries') = L + 1
      /\ DOMAIN entries' = 1..(L + 1)
      /\ \A i \in 1..L : entries'[i] = entries[i]
      /\ entries'[L + 1] = key
      /\ registry' \in [Keys -> 0..(L + 1)]
      /\ registry'[key] = L + 1
      /\ \A k \in Keys \ {key} : registry'[k] = registry[k]
  BY <1>1, <1>2, <1>3, Spawned
<1>5. /\ \A i \in 1..L : entries[i] \in Keys
      /\ \A k \in Keys : registry[k] \in 0..L
  BY <1>2, RegistryType
<1>6. \A j \in 1..Len(todo) :
        /\ registry[todo[j].key] # 0 => todo[j].key \in doubled
        /\ \A i \in 1..Len(todo) :
             i < j /\ todo[i].key = todo[j].key => todo[j].key \in doubled
  BY <1>1, <1>2, <1>3 DEF Starting, Known
<1>7. \A j \in 1..Len(todo) : todo[j].key \in Keys
  <2>1. \A j \in 1..Len(todo) : todo[j] \in StreamConfig
    BY <1>2, ElementOfSeq DEF TypeOK
  <2> QED
    BY <2>1 DEF StreamConfig
<1>8. TypeOK'
  <2>1. /\ sub' \in [Subscribers -> 0..(L + 1)]
        /\ shown' \in [Probes -> SUBSET (1..(L + 1))]
    BY <1>1, <1>2, <1>4 DEF TypeOK
  <2> HIDE DEF L
  <2> QED
    BY <1>1, <1>2, <1>3, <1>4, <2>1 DEF TypeOK
<1> HIDE DEF key, L
<1>9. Reloading'
  BY <1>1, <1>2 DEF Reloading
<1>10. Quiet'
  BY <1>1, <1>2 DEF Quiet
<1>11. Mapped'
  <2>1. \A k \in Keys : registry'[k] # 0 => entries'[registry'[k]] = k
    BY <1>2, <1>3, <1>4, <1>5 DEF Mapped
  <2>2. Registered \subseteq Registered'
    BY <1>3, <1>4 DEF Registered
  <2> QED
    BY <1>1, <1>2, <2>1, <2>2 DEF Mapped
<1>12. Starting'
  <2> SUFFICES ASSUME NEW j \in 1..(Len(todo) - 1)
               PROVE  LET k == todo[j+1].key IN
                      /\ registry'[k] # 0 => k \in doubled
                      /\ \A i \in 1..(Len(todo) - 1) :
                           i < j /\ todo[i+1].key = k => k \in doubled
    BY <1>1, <1>3 DEF Starting, Known
  <2>1. j + 1 \in 1..Len(todo) /\ 1 \in 1..Len(todo) /\ 1 < j + 1
    BY <1>3
  <2>2. registry'[todo[j+1].key] # 0 => todo[j+1].key \in doubled
    <3>1. CASE todo[j+1].key = key
      BY <1>3, <1>6, <2>1, <3>1
    <3>2. CASE todo[j+1].key # key
      BY <1>4, <1>6, <1>7, <2>1, <3>2
    <3> QED
      BY <3>1, <3>2
  <2>3. \A i \in 1..(Len(todo) - 1) :
          i < j /\ todo[i+1].key = todo[j+1].key => todo[j+1].key \in doubled
    BY <1>3, <1>6, <2>1
  <2> QED
    BY <2>2, <2>3
<1>13. SubscribersStayCurrent'
  BY <1>1, <1>2 DEF SubscribersStayCurrent
<1>14. OrphansOnlyFromStartup'
  <2> SUFFICES ASSUME NEW i \in 1..(L + 1), registry'[entries'[i]] # i
               PROVE  entries'[i] \in doubled /\ \A c \in Subscribers : sub[c] # i
    BY <1>1, <1>4 DEF OrphansOnlyFromStartup
  <2>1. i \in 1..L /\ entries'[i] = entries[i]
    BY <1>3, <1>4
  <2>2. CASE entries[i] = key /\ registry[key] = i
    <3>1. registry[todo[1].key] # 0 /\ 1 \in 1..Len(todo)
      BY <1>3, <1>4, <2>1, <2>2
    <3> QED
      BY <1>2, <1>3, <1>6, <2>1, <2>2, <3>1
  <2>3. CASE registry[entries[i]] # i
    BY <1>2, <1>4, <2>1, <2>3 DEF IndInv, OrphansOnlyFromStartup
  <2> QED
    BY <1>4, <1>5, <2>1, <2>2, <2>3
<1>15. AnswerIsOneSnapshot'
  BY <1>1, <1>2 DEF AnswerIsOneSnapshot
<1> QED
  BY <1>8, <1>9, <1>10, <1>11, <1>12, <1>13, <1>14, <1>15 DEF IndInv

\* The end of the start-up, the end of the process, and an edited file.
LEMMA PhaseInv == ASSUME IndInv, Serve \/ Exit \/ EditFile PROVE IndInv'
<1>1. /\ UNCHANGED <<registry, entries, doubled, readers, rpc, todo>>
      /\ \/ phase' = phase /\ file' \in Files
         \/ phase' \in {"serving", "exited"} /\ file' = file
  BY DEF Serve, Exit, EditFile
<1>2. TypeOK'
  BY <1>1 DEF IndInv, TypeOK, readers
<1>3. Reloading' /\ Starting'
  BY <1>1 DEF IndInv, Reloading, Starting, Known
<1> QED
  BY <1>1, <1>2, <1>3, RegistryUntouched

-----------------------------------------------------------------------------
(* One step at a time: config_reload_loop *)

\* A tick, a skipped entry or the wait for the lock.
LEMMA ReloadLooksInv ==
  ASSUME IndInv, ReloadTick \/ ReloadCheck \/ QueueForMap
  PROVE  IndInv'
<1>1. /\ phase = "serving" /\ UNCHANGED <<phase, file, registry, entries, doubled, readers>>
      /\ TypeOK /\ Reloading
  BY DEF ReloadTick, ReloadCheck, QueueForMap, IndInv
<1>2. Starting'
  BY <1>1 DEF Starting
<1>3. CASE ReloadTick
  <2>1. /\ todo' = file /\ file \in Seq(StreamConfig)
        /\ \/ rpc' = "ticking"
           \/ rpc' = "checking" /\ file # <<>>
    BY <1>1, <1>3, FileIsSeq DEF ReloadTick, TypeOK
  <2>2. TypeOK' /\ Reloading'
    BY <1>1, <2>1 DEF TypeOK, Reloading, readers
  <2> QED
    BY <1>1, <1>2, <2>2, RegistryUntouched
<1>4. CASE ReloadCheck
  <2>1. todo # <<>>
    BY <1>1, <1>4 DEF ReloadCheck, Reloading
  <2>2. \/ todo' = Tail(todo) /\ rpc' = "ticking"
        \/ todo' = Tail(todo) /\ rpc' = "checking" /\ Tail(todo) # <<>>
        \/ todo' = todo /\ rpc' = "inserting" /\ ~Known(Head(todo).key)
    BY <1>4, Zenon DEF ReloadCheck, SkipEntry
  <2>3. Tail(todo) \in Seq(StreamConfig)
    BY <1>1, <2>1, TodoSplits
  <2>4. TypeOK'
    BY <1>1, <2>2, <2>3 DEF TypeOK, readers
  <2>5. Reloading'
    BY <1>1, <2>1, <2>2 DEF Reloading, Known
  <2> QED
    BY <1>1, <1>2, <2>4, <2>5, RegistryUntouched
<1>5. CASE QueueForMap
  <2>1. TypeOK' /\ Reloading'
    BY <1>1, <1>5 DEF QueueForMap, TypeOK, Reloading, Known, readers
  <2> QED
    BY <1>1, <1>2, <2>1, RegistryUntouched
<1> QED
  BY <1>3, <1>4, <1>5

\* The insert takes a key that no entry has, between two answers of /health:
\* no entry is lost, no subscriber left behind, no rendering cut in two.
LEMMA ReloadInsertInv == ASSUME IndInv, ReloadInsert PROVE IndInv'
<1> DEFINE key == Head(todo).key
           L == Len(entries)
<1>1. /\ phase = "serving" /\ rpc \in {"inserting", "waiting"} /\ MapFree
      /\ SpawnStream(key)
      /\ UNCHANGED <<phase, file, doubled, sub, hpc, left, shown>>
  BY DEF ReloadInsert, readers
<1>2. /\ todo' = Tail(todo)
      /\ rpc' = IF Tail(todo) = <<>> THEN "ticking" ELSE "checking"
  BY DEF ReloadInsert, SkipEntry
<1>3. TypeOK /\ Mapped /\ todo # <<>> /\ registry[key] = 0
  BY <1>1 DEF IndInv, Reloading, Known
<1>4. key \in Keys /\ Tail(todo) \in Seq(StreamConfig)
  BY <1>3, TodoSplits
<1>5. /\ L \in Nat /\ DOMAIN entries = 1..L
      /\ entries' \in Seq(Keys) /\ Len(entries') = L + 1
      /\ DOMAIN entries' = 1..(L + 1)
      /\ \A i \in 1..L : entries'[i] = entries[i]
      /\ entries'[L + 1] = key
      /\ registry' \in [Keys -> 0..(L + 1)]
      /\ registry'[key] = L + 1
      /\ \A k \in Keys \ {key} : registry'[k] = registry[k]
  BY <1>1, <1>3, <1>4, Spawned
<1>6. /\ \A i \in 1..L : entries[i] \in Keys
      /\ \A k \in Keys : registry[k] \in 0..L
  BY <1>3, RegistryType
<1>7. \A c \in Subscribers : sub[c] \in 0..L
  BY <1>3 DEF TypeOK
<1>8. TypeOK'
  <2>1. /\ sub' \in [Subscribers -> 0..(L + 1)]
        /\ shown' \in [Probes -> SUBSET (1..(L + 1))]
    BY <1>1, <1>3, <1>5 DEF TypeOK
  <2>2. rpc' \in {"ticking", "checking"}
    BY <1>2
  <2> HIDE DEF L
  <2> QED
    BY <1>1, <1>2, <1>3, <1>4, <1>5, <2>1, <2>2 DEF TypeOK
<1> HIDE DEF key, L
<1>9. Reloading'
  BY <1>1, <1>2 DEF Reloading
<1>10. Quiet' /\ Starting'
  BY <1>1 DEF Quiet, Starting
<1>11. Mapped'
  <2>1. \A k \in Keys : registry'[k] # 0 => entries'[registry'[k]] = k
    BY <1>3, <1>4, <1>5, <1>6 DEF Mapped
  <2>2. Registered \subseteq Registered'
    BY <1>4, <1>5 DEF Registered
  <2> QED
    BY <1>1, <1>3, <2>1, <2>2 DEF Mapped
<1>12. SubscribersStayCurrent'
  <2> SUFFICES ASSUME NEW c \in Subscribers, sub[c] # 0
               PROVE  registry'[entries'[sub[c]]] = sub[c]
    BY <1>1 DEF SubscribersStayCurrent
  <2>1. sub[c] \in 1..L /\ registry[entries[sub[c]]] = sub[c]
    BY <1>5, <1>7 DEF IndInv, SubscribersStayCurrent
  <2>2. entries[sub[c]] \in Keys \ {key}
    BY <1>3, <1>6, <2>1
  <2> QED
    BY <1>5, <2>1, <2>2
<1>13. OrphansOnlyFromStartup'
  <2> SUFFICES ASSUME NEW i \in 1..(L + 1), registry'[entries'[i]] # i
               PROVE  entries'[i] \in doubled /\ \A c \in Subscribers : sub[c] # i
    BY <1>1, <1>5 DEF OrphansOnlyFromStartup
  <2>1. i \in 1..L /\ entries'[i] = entries[i]
    BY <1>4, <1>5
  <2>2. registry[entries[i]] # i
    BY <1>3, <1>5, <1>6, <2>1
  <2> QED
    BY <1>5, <2>1, <2>2 DEF IndInv, OrphansOnlyFromStartup
<1>14. AnswerIsOneSnapshot'
  BY <1>1 DEF AnswerIsOneSnapshot, MapFree
<1> QED
  BY <1>8, <1>9, <1>10, <1>11, <1>12, <1>13, <1>14 DEF IndInv

-----------------------------------------------------------------------------
(* One step at a time: the readers *)

\* server.rs: a lookup finds the current entry of a key, or a client leaves.
LEMMA SubscriberInv ==
  ASSUME IndInv, NEW c \in Subscribers, Subscribe(c) \/ Leave(c)
  PROVE  IndInv'
<1>1. /\ phase = "serving"
      /\ UNCHANGED <<phase, file, todo, rpc, registry, entries, doubled, hpc, left, shown>>
      /\ TypeOK /\ Mapped
  BY DEF Subscribe, Leave, IndInv
<1>2. PICK e \in 0..Len(entries) :
        /\ sub' = [sub EXCEPT ![c] = e]
        /\ e # 0 => registry[entries[e]] = e
  <2>1. CASE Leave(c)
    <3>1. 0 \in 0..Len(entries) /\ sub' = [sub EXCEPT ![c] = 0]
      BY <1>1, <2>1, RegistryType DEF Leave
    <3> QED
      BY <3>1
  <2>2. CASE Subscribe(c)
    <3>1. PICK k \in Registered : sub' = [sub EXCEPT ![c] = registry[k]]
      BY <2>2 DEF Subscribe
    <3>2. k \in Keys /\ registry[k] \in 0..Len(entries) /\ entries[registry[k]] = k
      BY <1>1, RegistryType DEF Mapped, Registered
    <3> QED
      BY <3>1, <3>2
  <2> QED
    BY <2>1, <2>2
<1>3. TypeOK'
  BY <1>1, <1>2 DEF TypeOK
<1>4. Reloading' /\ Quiet' /\ Starting'
  BY <1>1 DEF IndInv, Reloading, Known, Quiet, Starting
<1>5. Mapped'
  BY <1>1 DEF Mapped, Registered
<1>6. /\ sub'[c] = e
      /\ \A d \in Subscribers \ {c} : sub'[d] = sub[d]
  BY <1>1, <1>2 DEF TypeOK
<1>7. SubscribersStayCurrent'
  BY <1>1, <1>2, <1>6 DEF IndInv, SubscribersStayCurrent
<1>8. OrphansOnlyFromStartup'
  <2>1. \A i \in DOMAIN entries : i # 0
    BY <1>1, RegistryType
  <2> QED
    BY <1>1, <1>2, <1>6, <2>1 DEF IndInv, OrphansOnlyFromStartup
<1>9. AnswerIsOneSnapshot'
  BY <1>1, SnapshotKept DEF IndInv
<1> QED
  BY <1>3, <1>4, <1>5, <1>7, <1>8, <1>9 DEF IndInv

\* health.rs: what one request has rendered and has left to render changes,
\* and nothing else does.
LEMMA ProbeInv ==
  ASSUME IndInv, NEW h \in Probes,
         ProbeArrives(h) \/ LockMap(h) \/ RenderEntry(h) \/ Answer(h)
  PROVE  IndInv'
<1>1. /\ phase = "serving"
      /\ UNCHANGED <<phase, file, todo, rpc, registry, entries, doubled, sub>>
      /\ TypeOK /\ Mapped
  BY DEF ProbeArrives, LockMap, RenderEntry, Answer, IndInv
<1>2. Reloading' /\ Quiet' /\ Starting'
  BY <1>1 DEF IndInv, Reloading, Known, Quiet, Starting
<1>3. SubscribersStayCurrent' /\ OrphansOnlyFromStartup'
  BY <1>1 DEF IndInv, SubscribersStayCurrent, OrphansOnlyFromStartup
<1>4. Registered' = Registered
  BY <1>1 DEF Registered
<1>5. ASSUME NEW p \in {"idle", "request", "rendering"}, NEW l, NEW s,
             hpc' = [hpc EXCEPT ![h] = p],
             left' = [left EXCEPT ![h] = l], l \subseteq Registered,
             shown' = [shown EXCEPT ![h] = s], s \subseteq 1..Len(entries),
             p = "rendering" => s \cup {registry[k] : k \in l}
                                  = {registry[k] : k \in Registered}
      PROVE  IndInv'
  <2>1. l \subseteq Keys
    BY <1>5 DEF Registered
  <2>2. TypeOK'
    BY <1>1, <1>5, <2>1 DEF TypeOK
  <2>3. /\ hpc'[h] = p /\ left'[h] = l /\ shown'[h] = s
        /\ \A g \in Probes \ {h} :
             hpc'[g] = hpc[g] /\ left'[g] = left[g] /\ shown'[g] = shown[g]
    BY <1>1, <1>5 DEF TypeOK
  <2>4. Mapped'
    BY <1>1, <1>4, <1>5, <2>3 DEF Mapped
  <2>5. AnswerIsOneSnapshot'
    <3> SUFFICES ASSUME NEW g \in Probes, hpc'[g] = "rendering"
                 PROVE  shown'[g] \cup {registry[k] : k \in left'[g]}
                          = {registry[k] : k \in Registered}
      BY <1>1, <1>4, Zenon DEF AnswerIsOneSnapshot
    <3>1. CASE g = h
      BY <1>5, <2>3, <3>1
    <3>2. CASE g # h
      <4>1. hpc[g] = "rendering" /\ left'[g] = left[g] /\ shown'[g] = shown[g]
        BY <2>3, <3>2
      <4>2. shown[g] \cup {registry[k] : k \in left[g]} = {registry[k] : k \in Registered}
        BY <4>1, Zenon DEF IndInv, AnswerIsOneSnapshot
      <4> QED
        BY <4>1, <4>2
    <3> QED
      BY <3>1, <3>2
  <2> QED
    BY <1>2, <1>3, <2>2, <2>4, <2>5 DEF IndInv
<1>6. /\ left[h] \subseteq Registered /\ shown[h] \subseteq 1..Len(entries)
      /\ left = [left EXCEPT ![h] = left[h]] /\ shown = [shown EXCEPT ![h] = shown[h]]
      /\ hpc = [hpc EXCEPT ![h] = hpc[h]]
  BY <1>1 DEF TypeOK, Mapped
<1>7. CASE ProbeArrives(h)
  <2>1. /\ hpc' = [hpc EXCEPT ![h] = "request"]
        /\ left' = left /\ shown' = shown
    BY <1>7 DEF ProbeArrives
  <2> QED
    BY <1>5, <1>6, <2>1
<1>8. CASE LockMap(h)
  <2>1. /\ hpc' = [hpc EXCEPT ![h] = "rendering"]
        /\ left' = [left EXCEPT ![h] = Registered]
        /\ shown' = [shown EXCEPT ![h] = {}]
    BY <1>8 DEF LockMap
  <2>2. {} \cup {registry[k] : k \in Registered} = {registry[k] : k \in Registered}
    OBVIOUS
  <2> QED
    BY <1>5, <2>1, <2>2
<1>9. CASE RenderEntry(h)
  <2>1. PICK k0 \in left[h] :
          /\ left' = [left EXCEPT ![h] = left[h] \ {k0}]
          /\ shown' = [shown EXCEPT ![h] = shown[h] \cup {registry[k0]}]
    BY <1>9 DEF RenderEntry
  <2>2. hpc[h] = "rendering" /\ hpc' = hpc
    BY <1>9 DEF RenderEntry
  <2>3. shown[h] \cup {registry[k] : k \in left[h]} = {registry[k] : k \in Registered}
    BY <2>2, Zenon DEF IndInv, AnswerIsOneSnapshot
  <2>4. registry[k0] \in 1..Len(entries)
    BY <1>1, <1>6, RegistryType
  <2>5. (shown[h] \cup {registry[k0]}) \cup {registry[k] : k \in left[h] \ {k0}}
          = shown[h] \cup {registry[k] : k \in left[h]}
    OBVIOUS
  <2> DEFINE l == left[h] \ {k0}
             s == shown[h] \cup {registry[k0]}
  <2>6. /\ l \subseteq Registered /\ s \subseteq 1..Len(entries)
        /\ s \cup {registry[k] : k \in l} = {registry[k] : k \in Registered}
    BY <1>6, <2>3, <2>4, <2>5
  <2>7. /\ hpc' = [hpc EXCEPT ![h] = "rendering"]
        /\ left' = [left EXCEPT ![h] = l] /\ shown' = [shown EXCEPT ![h] = s]
    BY <1>6, <2>1, <2>2
  <2> HIDE DEF l, s
  <2> QED
    BY <1>5, <2>6, <2>7
<1>10. CASE Answer(h)
  <2>1. /\ hpc' = [hpc EXCEPT ![h] = "idle"]
        /\ left' = left /\ shown' = [shown EXCEPT ![h] = {}]
    BY <1>10 DEF Answer
  <2> QED
    BY <1>5, <1>6, <2>1
<1> QED
  BY <1>7, <1>8, <1>9, <1>10

-----------------------------------------------------------------------------
(* The theorems *)

\* The process, from its start to its end, keeps the invariant.
THEOREM ServiceInductive == Spec => []IndInv
<1>1. Init => IndInv
  <2> SUFFICES ASSUME Init PROVE IndInv
    OBVIOUS
  <2>1. /\ phase = "boot" /\ file \in Files /\ todo = <<>> /\ rpc = "ticking"
        /\ registry = [k \in Keys |-> 0] /\ entries = <<>>
        /\ sub = [c \in Subscribers |-> 0] /\ hpc = [h \in Probes |-> "idle"]
        /\ left = [h \in Probes |-> {}] /\ shown = [h \in Probes |-> {}]
        /\ doubled = {}
    BY DEF Init
  <2>2. TypeOK
    BY <2>1 DEF TypeOK
  <2>3. Reloading /\ Quiet /\ Mapped /\ Starting
    BY <2>1 DEF Reloading, Quiet, Mapped, Starting
  <2>4. SubscribersStayCurrent /\ OrphansOnlyFromStartup /\ AnswerIsOneSnapshot
    BY <2>1 DEF SubscribersStayCurrent, OrphansOnlyFromStartup, AnswerIsOneSnapshot
  <2> QED
    BY <2>2, <2>3, <2>4 DEF IndInv
<1>2. IndInv /\ [Next]_vars => IndInv'
  <2> SUFFICES ASSUME IndInv, [Next]_vars PROVE IndInv'
    OBVIOUS
  <2>1. CASE UNCHANGED vars
    <3>1. UNCHANGED <<registry, entries, doubled, readers, phase, file, todo, rpc>>
      BY <2>1 DEF vars, readers
    <3>2. TypeOK' /\ Reloading' /\ Starting'
      BY <3>1 DEF IndInv, TypeOK, Reloading, Starting, Known, readers
    <3> QED
      BY <3>1, <3>2, RegistryUntouched
  <2> QED
    BY <2>1, LoadConfigInv, SpawnAtStartupInv, PhaseInv, ReloadLooksInv,
       ReloadInsertInv, SubscriberInv, ProbeInv DEF Next, Reload
<1>3. QED
  BY <1>1, <1>2, PTL DEF Spec

\* Start-up, reload, server and health endpoint keep the types.
THEOREM ServiceTypeCorrect == Spec => []TypeOK
<1>1. IndInv => TypeOK
  BY DEF IndInv
<1>2. QED
  BY <1>1, ServiceInductive, PTL

\* However often and however the file is edited: a subscriber stays subscribed
\* to the entry that the registry has under that key.
THEOREM SubscribersCurrent == Spec => []SubscribersStayCurrent
<1>1. IndInv => SubscribersStayCurrent
  BY DEF IndInv
<1>2. QED
  BY <1>1, ServiceInductive, PTL

\* An adapter and a worker that run on although the registry has lost their
\* entry come from a key listed twice at start-up, never from a reload.
THEOREM NoOrphansFromReload == Spec => []OrphansOnlyFromStartup
<1>1. IndInv => OrphansOnlyFromStartup
  BY DEF IndInv
<1>2. QED
  BY <1>1, ServiceInductive, PTL

\* Any number of health requests at a time: each answer is one state of the
\* registry, although its renderer waits for a lock per entry.
THEOREM AnswersAreSnapshots == Spec => []AnswerIsOneSnapshot
<1>1. IndInv => AnswerIsOneSnapshot
  BY DEF IndInv
<1>2. QED
  BY <1>1, ServiceInductive, PTL
=============================================================================
