# A TLA+ model of geiger-rs

geiger-rs turns trade feeds of three exchanges into order-flow toxicity scores
(VPIN) and serves them over WebSocket. This directory holds TLA+ modules that
model its components, TLC configurations that check them on small instances,
and TLAPS proofs of the results that matter most for every instance.

    tlc -config MCFanout.cfg MCFanout       # any run of PROJECT.json
    tlapm FanoutProofs.tla                  # and Client-, Adapter-, Service-, Capture-,
                                            # Engine-, CalibrateProofs, Sums

`PROJECT.json` lists components, runs, mutants, the map from definitions to
source lines, findings, hazards and theorems.

## The system

    exchange --ws--> adapter --mpsc--> worker(engine) --broadcast--> connections --ws--> client
                     trade-ingest      toxicity-service              server.rs           toxicity-client-rs
                        |                  |  registry entry (last_message, health)
                        +--> capture file  +--> /health, /metrics

| Component | State | Operations | Interacts by | Hard part |
|---|---|---|---|---|
| adapter (`binance.rs`, `bybit.rs`, `hyperliquid.rs`) | session, trade counter, backoff | connect, decode, send, reconnect | unbounded mpsc to the worker or the capture tool | numbering across sessions and rejected batches |
| `backoff` | attempt counter | `next_delay`, `reset` | called by every reconnect loop | pace of an outage |
| `vpin-engine` | open bucket, sigma, imbalance and CDF windows, intensity history | `push_trade`, bootstrap interval, intensity rank | called by the worker and by calibrate | three windows that advance at different times, ties |
| worker (`worker.rs`) | position in its loop, engine | heartbeat, trade, publish | broadcast channel, registry entry | publish is two steps, under a lock |
| registry (`registry.rs`) | map of entries; per entry `last_message`, `health`, sender | read, insert | `RwLock`s shared by worker, server, health, reload | lock queues, reads between steps |
| server (`server.rs`) | one task per connection | handshake, subscribe, snapshot, fan-out | broadcast receiver, socket | catch-up against publish, lag, slow sockets |
| start-up and hot reload (`main.rs`, `config.rs`) | streams file, list in progress | load, spawn, reload, shut down | registry write lock | check-then-insert, duplicates, bad entries |
| health endpoint (`health.rs`) | per request | render | registry and entry locks | nested locks |
| client (`toxicity-client-rs`) | `watch` state, last message time | connect, check, handle message, drop | WebSocket | staleness with a clock, silent links |
| capture (`capture.rs`, `tools/capture`) | file, write buffer, counter | create, record, flush, replay | file | crashes in writes, resuming |
| `tools/calibrate` | per configuration an engine and a report row | two passes over a tape, sweep, best configuration, p-values | reads capture files, drives the engine | a second pass that must agree with the engine, NaN and zero variance |
| `py-vpin` | - | bindings | - | not modelled, see below |

## Modules

**Fanout** is the core: one stream's worker, its registry entry and any number
of connections. Each `await` of the code is a step boundary. A message is its
position in the history `log`. `wpc` walks through `worker::run` and `publish`
(`record` before `last_message` is written, `waiting` when queued for its lock,
`send` before the broadcast, `account` before the counters); `cpc[c]` walks
through `handle_connection`. The read guard of `last_message` lives as long as
the `if let` that writes the snapshot, so `snapshot` means "holds the guard".
The broadcast channel is `sent` and, per connection, `next`; a message older
than `Capacity` is lost to a slow receiver (`Lagged`). Whether a trade closes a
bucket is a free choice, which Engine makes. The history variables `start`,
`snap`, `got` and `missed` record what each client was given. That the lock is
first come first served, that the channel overwrites its oldest message, and
what clients read are external and modelled from their use.

**Subscription** is what a stream promises, without locks, channel, receivers
and sockets: messages are published one after the other; a subscriber joins
with the latest message and a position no later than it, is taken through the
stream message by message, and is spared only messages that at least `Capacity`
others have come after. Fanout implements it (`ImplementsSubscription`): its
`last_message` is the latest message, a connection past its snapshot is a
subscriber, and its position is what its receiver has passed, up to a message
still being written. The lock and the half-done steps of `publish`
disappear in that mapping: sending on the channel is not seen, recording is the
publication, because from then on a joining client is shown the message.

**Service** is the process: start-up (all entries resolved, then spawned), the
reload loop (tick, check under a read lock, insert under the write lock), the
subscribers and health requests that read the registry, edits of the file, and
the end of the process. A file entry is a key and whether it is valid; two
spellings of a stream have one key, so duplicates are among the files.

**Adapter** is one exchange adapter with its `backoff`: the reconnect loop on a
clock, sessions, and the numbering of trades; a frame is a sequence of good and
bad trades, and the worker may drop its end of the channel at any time.
**Fixed8** is `parse_fixed8` on texts, character by character, because the
conversion is the point: `ParsesExactly` compares it with the place values of
the digits. Scale and width are parameters (two decimals and a largest value of
1990), so that texts of five characters meet both overflow checks.
**Client** is the background task of a `ToxicityClient`, with a
clock counted from the last text frame and to the next check; its environment
switches the service and the feed on and off and lets links die silently.

**Engine** holds the operators of `vpin-engine`: `BucketerPush`, `PushTrade`,
`BootstrapCi` and `IntensityRank` take a state and return the next one and the
result. Prices and volumes are integers, a fraction is a pair, and the normal
CDF is rounded to thirds, which keeps the order of moves and the bounds 0 and
1. **Calibrate** drives them the way `tools/calibrate` does: every trade of the
tape goes through the engine of every accepted configuration and through the
second pass of every pair of bucket volume and sigma window; best
configuration and p-values are operators on that state, so that every state is
also the report on the tape so far. The passes are loops of their own in the
code and share nothing, so their order does not matter. A p-value is kept as
the square of its z statistic.

**Capture** is the file as a sequence of
cells, the write buffer, and runs of the tool that end by Ctrl-C, by a failed
write or by a kill at any point of a write.

**MCFanout**, **MCAdapter** and **MCCalibrate** add a symmetry set, the sets of
frames and the tapes for TLC; the other modules are checked directly.
**FanoutProofs**, **ClientProofs**, **AdapterProofs**, **ServiceProofs**,
**CaptureProofs**, **EngineProofs** and **CalibrateProofs** hold the proofs, and
**Sums** the laws of sums that three of them rest on. Operators with the comment "Plausible bug" are mutated forms of the definition that follows; they are used by no specification and show that
each property would notice the bug.

## Runs

| Run | Shows | Bounds |
|---|---|---|
| `fanout` | `NoSilentGap`, `DrainedIsCurrent`, `HealthFollowsStream`, `ImplementsSubscription` | 2 clients, capacity 2, 3 messages: one more message than the channel keeps, so receivers lag while the other client subscribes; auth on, so refusals happen |
| `fanout_live` | `WorkerNeverBlocked`, `SentIsDelivered` | capacity 1, 2 messages: lag and lock queueing happen |
| `fanout_order` | violation of `ViewNeverGoesBack` | 1 client, 3 messages |
| `service` | `SubscribersStayCurrent`, `OrphansOnlyFromStartup`, `AnswerIsOneSnapshot`, `NewStreamsStart`, `ProbesAreAnswered` | 2 keys and files of up to 2 entries: duplicates, an invalid entry before a valid one, an added stream |
| `adapter` | `SequenceIncreases`, `GapOnlyAcrossSessions`, `RefusedOutageIsPaced`, `NeverFasterThanBase`, `PricesAreExact` | base 2, cap 7 (not a power of two times the base), 22 units, up to 5 trades in frames of up to 3: outages of several lengths before, between and after sessions with rejected frames; all 19608 texts of up to 5 characters out of 7 |
| `adapter_limit` | violation of `WithinVenueLimit` | the real defaults in units of 250 ms: cap 120, window 1200, 300 attempts |
| `client` | `SilenceIsShown`, `StateMatchesSession`, `ComesBack` | stale_after 4, check every 2, silences told apart up to 8 |
| `client_feed` | violation of `DeadFeedIsShown` | stale_after 2 |
| `calibrate` | `MatchesDefinition`, `ScoresAreFractions`, `BucketsPartitionTrades`, `IntervalWithinWindow`, `IntensityRanksInCohort`, `PassesAgree`, `AccuracyIsPerBucket`, `EveryRivalIsCompared` | every tape of 8 trades out of 4 after a first one (prices 10 to 13, volumes 1 and 3, both sides), bucket volumes 2 and 5, windows of 1 and 2: warm-up, overshoot, skipped buckets, a full rank window, a full intensity window of 4 and rejected configurations; `MIN_COMPARED` is 2, since 30 buckets are out of reach of all tapes |
| `calibrate_pvalue` | violation of `PValueOneMeansEqual` | one tape of 64 trades, the real `MIN_COMPARED` of 30 |
| `capture` | `ReplaysWhatWasFlushed`, `KillCostsLessThanFlushEvery`, `RecordsFollowHeader` | 3 runs, 6 trades, header and records of 2 cells, a buffer of 2 records: it spills between flushes |
| `capture_resume` | violation of `ResumesTheTape` | 2 runs, 4 trades |

Every passing run but `fanout_live` also checks its module's `TypeOK`. Runs that switch deadlock
checking off do so because the system stops: the process exits (`service`) or
the bounded history is used up (`adapter`, `calibrate`, `capture`).

### What the violations show

* `fanout_order`: messages m1 and m2 published between `subscribe` and the
  snapshot read: the snapshot is m2 and the queue still holds m1 and m2. The
  client gets m2, m1, m2. The second m2 is the duplicate of "at worst see one
  harmless duplicate" (`server.rs:160`); m1 is delivered once, but out of order,
  after a newer message. `DrainedIsCurrent` says that it ends on the latest one.
* `adapter_limit`: `reset` on connect means that a peer which accepts and then
  ends each session is retried every 250 ms, above the limits that
  `backoff/src/lib.rs:13-17` compares the default with.
* `client_feed`: heartbeats come from the worker's timer. With the exchange feed
  dead they keep the last score `Live`, against `README.md:178-179`.
* `calibrate_pvalue`: the standard error is 0 also for accuracies of 0 and 1,
  against `tools/calibrate/src/main.rs:353-354`, and the report then gives the
  worst configuration a p-value of 1.
* `capture_resume`: `create` checks the header of an existing file and not its
  tail. After a cut record the next run's records are misaligned, against
  `tools/capture/src/main.rs:17-20`. `ReplaysWhatWasFlushed` holds up to there.

### Disagreements that no run shows as a violation

Three more docs differ from the code. The properties nearby state what the code
does; each disagreement is in the hazards of `PROJECT.json`.

* `state.rs:28-30` defines `Stale` as "No message (`Reading` or `Heartbeat`)
  within the configured staleness threshold". The code (`lib.rs:160-162`) restarts
  the threshold on any text frame, before it is parsed: a peer that sends only
  `Error` messages or frames the client cannot read keeps a last score shown.
  `SilenceIsShown` therefore speaks of silence, the time without any text frame.
  It does not bound the age of the score: `client_feed` shows a score of any age
  kept up by heartbeats.
* `intensity.rs:13-14` splits the window by whether a trade count is "at or below
  the MEDIAN", which puts ties in the lower cohort. The code compares with `>=`
  (`intensity.rs:66`) and its comment (59-65) says that ties go to the upper one.
  `IntensityRanksInCohort` follows the code, and would fail of the doc's reading.
* `registry.rs:28-32` says `worker_alive` only tells a running worker from one that
  died. It is also false between the registration of a stream and the worker's
  first step (`wpc = "spawned"` in Fanout).

### Fairness

Fairness is assumed only of what the runtime guarantees. Tasks that can run are
polled (weak fairness of their steps). Strong fairness is assumed of steps that
compete in a `select!`, which picks among ready branches at random (`Recv`,
`Lagged`, `StalenessCheck`), and of readers of a tokio `RwLock`, which is first
come first served and hence lets nobody be overtaken for ever (`ReadSnapshot`,
`LockMap`). In Client, the worker's heartbeat timer justifies strong fairness of
receiving a heartbeat on a link that is up, and time goes on. Nothing is assumed
of clients, operators, trades, nor of the heartbeat timer in Fanout; where
delivery needs a reading client, `SentIsDelivered` says so.

## Proofs

Every safety property that a passing run checks is also proved, for every value of
the constants. Each assumption is an
`ASSUME` of the component's module, which TLC evaluates on its runs. None of the
properties is inductive; what each component's invariant adds is the argument.

**Fanout** (`FanoutProofs`; any set of clients, channel capacity and socket
buffer, `FanoutAssumption`: both positive). `[]TypeOK`, `[]NoSilentGap` and
`[]DrainedIsCurrent` follow from `IndInv`, which adds

* `PublishInv`: for each position of the worker, how `last_message`, `sent` and
  the history relate; `last_message` is never behind `sent`, which is why a
  snapshot read after subscribing covers everything sent before;
* `ConnInv(c)`: `Cursor` (the receiver is between its start and one past
  `sent`), `Ledger` (what it passed is exactly got, reported as lagged or being
  written) and `Shown` (the client was shown something as new as what the
  receiver passed, or there is a newer message to come).

Worker steps are handled once for all connections (`ConnInvUnderWorker`), steps
of a connection for itself (`ConnInvOwn`) and for the others
(`ConnInvOfOthers`). `[]HealthFollowsStream` needs `HealthInv`: the counters are
those of the messages `Accounted` for, which while one is published leaves it
out. It counts messages of a kind in a growing history (`CountNext`).

The same module proves `Spec => ImplementsSubscription`: initial states map to
initial states, and every step of Fanout maps to a step of Subscription or to
none. It needs `GuardInv` (theorem `SnapshotsStayLatest`): a snapshot being
written is still the latest message, because `publish` waits for the read guard,
and nothing was shown to a connection before its snapshot. `SubscriberIs` and
`SubscriberNext` state the mapping for one client before and after a step,
`SubscriberOnly` that a connection's step changes its own subscription alone.
Then recording is `Publish` (`WorkerRefines`), the end of the snapshot is `Join`
(`JoinRefines`, with the cursor bounded by `IndInv`), a written message is
`Deliver`, `Lagged` is `Skip`, closing is `Leave`, and everything else is not
seen. With the guard released before the write the run `fanout` finds a client
that joins with a message that is not the latest.

**Client** (`ClientProofs`; any positive `StaleAfter`, `ClientAssumption`).
`[]SilenceIsShown` (theorem `SilenceIsNoticed`; silence is the time since the last
text frame, not the age of what is shown) needs `Watched`, which bounds the
silence plus the time to the next check: time moves one into the other, a message resets the silence, and a
check that finds it within `stale_after` starts an interval that cannot take it
past `stale_after` plus one interval. `[]StateMatchesSession` needs `Told`: what
is shown was heard since the link was opened.

**Adapter** (`AdapterProofs`; any base delay, cap, frames and bounds). The
numbering (`[]SequenceIncreases`, `[]GapOnlyAcrossSessions`) rests on `Counted`:
what was sent lies below the counter, and an open session has no gap up to it.
The pace rests on `Spaced` (each attempt but the first has cost the shorter of
base and cap, slept or still to sleep: `[]NeverFasterThanBase`) and `Ramped` (in
an outage each attempt past the ramp has cost the cap:
`[]RefusedOutageIsPaced`). `next_delay` stops doubling at 2^20, so a cap more than
2^20 times the base is never reached; `RefusedOutageIsPaced` says so in its
premise. The proof found that case: the property without the premise is false
of such a cap, which the instance of the run is too small to show.

`parse_fixed8` is proved there too (`ParseIsExact`, and `[]PricesAreExact` with it):
any text, any number of decimals, and any width of the integer that holds
one whole unit (`Fixed8Assumption`; 10^8 in the code's 64 bits). The two
sides are computed in different orders: the parser reads digits from the left
(`FoldLeft`), the meaning adds place values in no order. `Horner` is one step of
the first as a step of a sum, `ValueIs` makes the parser's value the sum of the
places' values and bounds it by a power of ten, so that the fraction never
overflows. `DecimalIs` says which texts pass the parser's checks, `QuotedIs` that a
decimal means its integer part, shifted by the scale, and its padded fraction;
`ParsedIs` goes through the early returns. Powers of ten are a recursive function
(`Pow10`), because the provers know nothing of `^`; `PowTen` is what it defines.

**Service** (`ServiceProofs`; any keys, subscribers, health requests and
streams files). `[]SubscribersStayCurrent`, `[]OrphansOnlyFromStartup` and
`[]AnswerIsOneSnapshot` are part of one invariant with `Reloading` (an entry about
to be inserted is not in the registry, although the check was made under another
lock acquisition: only the reload loop inserts), `Quiet` (nobody reads before the
process serves), `Mapped` (nothing is taken out of the registry) and `Starting`
(a key met twice by the start-up was listed twice).

**Capture** (`CaptureProofs`; any sizes of header, record and
buffer, flush interval and number of runs). `CellInv` is about single cells and
holds whatever happened to the file: records rise through file and buffer, what
is in the buffer was received since the last flush, and a header comes before
every record. `[]RecordsFollowHeader` and
`[]KillCostsLessThanFlushEvery` follow. `[]ReplaysWhatWasFlushed` needs `TapeInv`:
as long as no earlier run tore a record, the file is a header, whole records of
rising trades, and at most one cut record at its end. `Exactly`, `TapeAt` and
`FileIs` say that a sequence of cells is the records of a sequence of trades from an
offset on; the lemmas append, cut and read such tapes.

**Engine** (`EngineProofs`, `Sums`). The sums of `Spread` and `VpinOf`, the
bucket volumes and trade counts are folds, defined by recursion over sets. With
no induction schema to cite, `Total` is characterised by the argument behind one:
a set of counterexamples given as a set has a least element, and there is none.
From that come the laws of sums in `Sums` (a term more, equal terms, renamed terms,
scaled terms, sets apart, bounds term by term), what `SeqSum` and `SumOver` amount
to, and what `BucketerPush` and `Slide` do to their state.

A sort is modelled by what it puts at a position (`SortedAt`): the value with fewer
than k below it and k or more not above it. `KthExists` finds one at every
position of any order with ties, `KthInOrder` puts positions in order. On those
rest `PercentileBetween` and `PercentilesAscend` (an interpolated percentile lies
between its two samples and grows with the rank, over fractions compared
crosswise), `ResampleWithin` (a ratio of sums lies between the extreme ratios of its
terms), `IntervalIs`, and `BusyIs` (the upper median splits a window into its busy
half and the rest).

**Calibrate** (`CalibrateProofs`; any lists of volumes and windows,
any tape, any `MIN_COMPARED`). Five invariants build on each other:

* `SweepInv`: an engine and the second pass have the same open bucket and
  the same sigma, that of the last buckets closed; what was compared are the
  buckets classified (`[]PassesAgree`, `[]EveryRivalIsCompared`; the latter also
  needs that comparing fractions crosswise is transitive, and that the maximum
  over a finite set of configurations exists);
* `HistoryInv`: the averaging window and the window of ranks hold, in order, the
  terms of the last buckets classified and the VPINs of the last buckets scored.
  `Lists(h, C, n)` says that h enumerates the last n members of C, `Shows(xs, C, n,
  F)` that xs is F along such an h. A window that slides by one keeps showing
  (`ShowsOneMore`), its sums and ranks are those over the set (`CountShown`), and
  what is past does not change (`TermStable`, `VpinStable`). With it
  `[]MatchesDefinition` and `[]ScoresAreFractions`;
* `PartitionInv`: the sums over closed buckets and the open bucket are the
  sums over the tape (`[]BucketsPartitionTrades`);
* `SidesInv`: the side volumes are sums over the open bucket's own trades
  (`[]AccuracyIsPerBucket`);
* `WindowsInv`: no window overflows (`[]TypeOK`), and the intensity window has
  every score until it is full (`[]IntensityRanksInCohort`, by `BusyIs`).

`[]IntervalWithinWindow` needs only that the window of a scored bucket is not empty
and that its buckets have volume (`ScoredWindow`, from the first two).

`CalibrateAssumption` says that a `cdf_window` given is a natural number, as
`Option<usize>` makes it, and that there are two or more resamples and a confidence
level between 0 and 1, as `VpinEngine::new` checks.

Only model-checked: every liveness property (`WorkerNeverBlocked`,
`SentIsDelivered`, `NewStreamsStart`, `ProbesAreAnswered`, `ComesBack`). Fairness and
ENABLED are beyond this prover.

## Not modelled

`py-vpin` (forwards each call to `VpinEngine` and keeps no state of its own);
of `tools/calibrate` the argument parsing, the summary statistics and the text
and CSV reports; JSON layouts, metric texts,
logging and environment variables. Floating-point rounding is not modelled:
Engine computes with integers and fractions, so effects of rounding (a variance
that is tiny where it should be 0) are out of its reach. SplitMix64 is any
source of draws: that its sequence is reproducible is not stated.
