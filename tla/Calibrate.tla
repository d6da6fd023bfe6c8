----------------------------- MODULE Calibrate -----------------------------
(***************************************************************************)
(* tools/calibrate: a parameter sweep that replays one tape of trades      *)
(* through vpin-engine at every combination of bucket_volume, sigma_window *)
(* and vpin_window, and through a second pass that compares BVC's call on  *)
(* every bucket with the taker sides of the tape.                          *)
(*                                                                         *)
(* The passes are loops over the same tape that share no state, so the     *)
(* model takes them side by side: a state is the sweep after the tape read *)
(* so far, and every state is also the end of a tape.  The scores are fed  *)
(* to an IntensityAdjustedCdf as its documentation asks of a caller.       *)
(***************************************************************************)
EXTENDS Engine

CONSTANTS
  BucketVolumes,    \* --bucket-volumes, a sequence
  SigmaWindows,     \* --sigma-windows
  VpinWindows,      \* --vpin-windows
  CdfWindow,        \* --cdf-window, None or Some(n)
  MIN_COMPARED,     \* of two_proportion_p_value
  IntensityWindow,  \* window of the IntensityAdjustedCdf
  Bootstrap,        \* resamples and confidence level of an interval
  TradesAt(_),      \* the trades that may be the n-th of the tape
  MaxTrades         \* bound: length of the tape

Trades == [price : Nat \ {0}, volume : Nat \ {0}, taker_side : {"Buy", "Sell"}]

ASSUME CalibrateAssumption ==
  /\ BucketVolumes \in Seq(Nat)
  /\ SigmaWindows \in Seq(Nat)
  /\ VpinWindows \in Seq(Nat)
  /\ CdfWindow # None => CdfWindow.some \in Nat
  /\ MIN_COMPARED \in Nat \ {0}
  /\ IntensityWindow \in Nat /\ IntensityWindow >= 4
  /\ Bootstrap.samples \in Nat /\ Bootstrap.samples >= 2
  /\ Bootstrap.level \in Nat \X Nat
  /\ 0 < Bootstrap.level[1] /\ Bootstrap.level[1] < Bootstrap.level[2]
  /\ MaxTrades \in Nat
  /\ \A n \in 1..MaxTrades : TradesAt(n) \subseteq Trades

VARIABLES
  tape,  \* the trades read so far
  pass,  \* calibrate_one of each configuration: engine, reading, vpins, ...
  bvc    \* bvc_accuracy_stats of each pair of bucket_volume and sigma_window

vars == <<tape, pass, bvc>>

-----------------------------------------------------------------------------
(* The sweep's configurations, in the order of run_sweep's loops *)

Combinations == Len(BucketVolumes) * Len(SigmaWindows) * Len(VpinWindows)

Config(i) ==
  LET k == i - 1
      v == Len(VpinWindows)
      s == Len(SigmaWindows) * v
  IN [bucket_volume |-> BucketVolumes[(k \div s) + 1],
      sigma_window |-> SigmaWindows[((k % s) \div v) + 1],
      vpin_window |-> VpinWindows[(k % v) + 1],
      cdf_window |-> CdfWindow]

Accepted == {i \in 1..Combinations : ValidConfig(Config(i))}

Pair(i) == <<Config(i).bucket_volume, Config(i).sigma_window>>

Pairs == {Pair(i) : i \in 1..Combinations}
AcceptedPairs == {p \in Pairs : ValidPair(p[1], p[2])}

-----------------------------------------------------------------------------

Passes == [engine : [bucketer : Bucketers, sigma : Seq(Int),
                     imbalances : Seq(Nat \X Nat), cdf : Seq(Nat \X Nat)],
           closed : Seq(Buckets), scored : Seq((Nat \X Nat) \X Nat)]

TypeOK ==
  /\ tape \in Seq(Trades)
  /\ \A i \in Accepted :
       LET p == pass[i] IN
       /\ [engine |-> p.engine, closed |-> p.closed, scored |-> p.scored] \in Passes
       /\ p.engine.bucketer.acc_volume < Config(i).bucket_volume
       /\ Len(p.engine.sigma) <= Config(i).sigma_window
       /\ Len(p.engine.imbalances) <= Config(i).vpin_window
       /\ CdfWindow # None => Len(p.engine.cdf) <= CdfWindow.some
       /\ Len(p.intensity) <= IntensityWindow
  /\ \A q \in AcceptedPairs :
       /\ bvc[q].bucketer \in Bucketers
       /\ Len(bvc[q].sigma) <= q[2]
       /\ bvc[q].correct <= bvc[q].compared

Init ==
  /\ tape = <<>>
  /\ pass = [i \in Accepted |->
               [engine |-> NewEngine, reading |-> None, intensity |-> <<>>,
                closed |-> <<>>, scored |-> <<>>]]
  /\ bvc = [q \in AcceptedPairs |->
              [bucketer |-> NewBucketer, sigma |-> <<>>, buy_vol |-> 0,
               sell_vol |-> 0, correct |-> 0, compared |-> 0]]

\* What calibrate_one keeps of a push_trade: the engine, and what a reading says.
KeepReading(p, pushed) ==
  LET b == pushed.reading.some.bucket
      score == <<pushed.reading.some.vpin.some, b.trade_count>>
  IN
  IF pushed.reading = None
  THEN [p EXCEPT !.engine = pushed.engine, !.reading = None]
  ELSE IF pushed.reading.some.vpin = None
  THEN [p EXCEPT !.engine = pushed.engine, !.reading = pushed.reading,
                 !.closed = Append(@, b)]
  ELSE [engine |-> pushed.engine, reading |-> pushed.reading,
        intensity |-> Slide(p.intensity, score, IntensityWindow),
        closed |-> Append(p.closed, b), scored |-> Append(p.scored, score)]

\* calibrate_one's loop body
CalibrateOne(i, p, t) ==
  KeepReading(p, PushTrade(Config(i), p.engine, t.price, t.volume))

\* Plausible bug: the taker volumes are not reset with the bucket.
SideVolumesKept(s, buy, sell) == [s EXCEPT !.buy_vol = buy, !.sell_vol = sell]

\* buy_vol = sell_vol = 0 once a bucket has closed
SideVolumesReset(s, buy, sell) == [s EXCEPT !.buy_vol = 0, !.sell_vol = 0]

\* Plausible bug: sigma already has this bucket's own move.
SigmaOfCallLeaks(sigma, delta, window) == Slide(sigma, delta, window)

\* sigma_before: the sigma a bucket is called with
SigmaOfCall(sigma, delta, window) == sigma

\* bvc_accuracy_stats' loop body.  BVC calls a bucket "buy" if Phi is above
\* one half, that is if the price rose.
BvcAccuracyStats(q, s, t) ==
  LET buy == s.buy_vol + (IF t.taker_side = "Buy" THEN t.volume ELSE 0)
      sell == s.sell_vol + (IF t.taker_side = "Sell" THEN t.volume ELSE 0)
      pushed == BucketerPush(s.bucketer, q[1], t.price, t.volume)
      b == pushed.closed.some
      called == Classifiable(SigmaOfCall(s.sigma, b.delta_p, q[2]), q[2])
      right == (b.delta_p > 0) = (buy > sell)
  IN
  IF pushed.closed = None
  THEN [s EXCEPT !.bucketer = pushed.bucketer, !.buy_vol = buy, !.sell_vol = sell]
  ELSE [SideVolumesReset(s, buy, sell) EXCEPT
          !.bucketer = pushed.bucketer,
          !.sigma = Slide(@, b.delta_p, q[2]),
          !.correct = IF called /\ right THEN @ + 1 ELSE @,
          !.compared = IF called THEN @ + 1 ELSE @]

\* One trade of the tape, through every pass
ReplayTrade(t) ==
  /\ Len(tape) < MaxTrades
  /\ tape' = Append(tape, t)
  /\ pass' = [i \in Accepted |-> CalibrateOne(i, pass[i], t)]
  /\ bvc' = [q \in AcceptedPairs |-> BvcAccuracyStats(q, bvc[q], t)]

Next == \E t \in TradesAt(Len(tape) + 1) : ReplayTrade(t)

Spec == Init /\ [][Next]_vars

-----------------------------------------------------------------------------
(* The report of run_sweep *)

\* bvc_accuracy, NaN if nothing was compared
Accuracy(i) ==
  LET s == bvc[Pair(i)] IN
  IF s.compared > 0 THEN Some(<<s.correct, s.compared>>) ELSE None

Ranked == {i \in Accepted : Accuracy(i) # None}

\* Plausible bug: NaN is not filtered out, and total_cmp puts it on top.
BestIdxKeepsNan ==
  IF Accepted \ Ranked # {} THEN Max(Accepted \ Ranked)
  ELSE Max({i \in Ranked : \A j \in Ranked :
              AtMost(Accuracy(j).some, Accuracy(i).some)})

\* best_idx: max_by returns the last of equal maxima.
BestIdx ==
  Max({i \in Ranked : \A j \in Ranked :
         AtMost(Accuracy(j).some, Accuracy(i).some)})

\* two_proportion_p_value of a and b, fractions of buckets called right.  The
\* p-value is 2 (1 - Phi(|z|)), which falls as z^2 grows and is 1 at z = 0; the
\* model keeps z^2, as a fraction.
TwoProportion(a, b) ==
  LET var == a[1] * (a[2] - a[1]) * b[2] * b[2] * b[2]
               + b[1] * (b[2] - b[1]) * a[2] * a[2] * a[2]
      diff == a[1] * b[2] - b[1] * a[2]
  IN
  IF a[2] < MIN_COMPARED \/ b[2] < MIN_COMPARED THEN None
  ELSE IF var = 0 THEN Some(<<0, 1>>)
  ELSE Some(<<diff * diff * a[2] * b[2], var>>)

\* bvc_accuracy_p_value: NaN for the best one and without an accuracy
PValue(i) ==
  IF i \notin Ranked \/ BestIdx = i \/ Accuracy(BestIdx) = None THEN None
  ELSE TwoProportion(Accuracy(i).some, Accuracy(BestIdx).some)

-----------------------------------------------------------------------------
(* The definition of VPIN over the whole history of closed buckets *)

\* The deltas of the buckets before bucket k that its sigma is made of
DeltasBefore(closed, window, k) ==
  [n \in 1..window |-> closed[k - window - 1 + n].delta_p]

Classified(closed, window) ==
  {k \in DOMAIN closed :
     k > window /\ Spread(DeltasBefore(closed, window, k)) > 0}

LastOf(S, n) == {i \in S : Cardinality({j \in S : j > i}) < n}

DefinedVpin(i, k) ==
  LET closed == pass[i].closed
      sigma == Config(i).sigma_window
      upto == {j \in Classified(closed, sigma) : j <= k}
      window == LastOf(upto, Config(i).vpin_window) IN
  IF k \in upto /\ Cardinality(upto) >= Config(i).vpin_window
  THEN Some(<<SumOver(window, LAMBDA j : closed[j].volume *
                ImbalanceThirds(closed[j].delta_p, DeltasBefore(closed, sigma, j))),
              3 * SumOver(window, LAMBDA j : closed[j].volume)>>)
  ELSE None

DefinedCdf(i, k) ==
  LET scored == {j \in 1..k : DefinedVpin(i, j) # None} IN
  IF CdfWindow # None /\ k \in scored /\ Cardinality(scored) >= CdfWindow.some
  THEN Some(<<Cardinality({j \in LastOf(scored, CdfWindow.some) :
                AtMost(DefinedVpin(i, j).some, DefinedVpin(i, k).some)}),
              CdfWindow.some>>)
  ELSE None

-----------------------------------------------------------------------------
(* Properties of the engine *)

\* vpin.rs:338-345, 374-392: the streaming engine, which keeps three sliding
\* windows that advance at different times, returns what the definition says
\* of the whole history: sigma from the buckets before only, skipped buckets
\* left out of the average, ranks among scored buckets only.
MatchesDefinition ==
  \A i \in Accepted : pass[i].reading # None =>
    LET k == Len(pass[i].closed)
        r == pass[i].reading.some IN
    /\ r.bucket.bucket_id = k - 1
    /\ r.vpin = DefinedVpin(i, k)
    /\ r.vpin_cdf = DefinedCdf(i, k)

IsFraction(x) == x[2] > 0 /\ 0 <= x[1] /\ x[1] <= x[2]

\* vpin.rs:368-373: overshoot never takes a VPIN above 1, and a rank is a
\* fraction of the window that counts the value itself.
ScoresAreFractions ==
  \A i \in Accepted : pass[i].reading # None =>
    LET r == pass[i].reading.some IN
    /\ r.vpin # None => IsFraction(r.vpin.some)
    /\ r.vpin_cdf # None => IsFraction(r.vpin_cdf.some) /\ r.vpin_cdf.some[1] > 0

\* bucket.rs:59-71: no volume and no trade is lost or counted twice between
\* buckets; every closed bucket reached the target with its last trade and not
\* before.
BucketsPartitionTrades ==
  \A i \in Accepted :
    LET closed == pass[i].closed
        open == pass[i].engine.bucketer
        target == Config(i).bucket_volume IN
    /\ SeqSum(tape, LAMBDA t : t.volume) =
         SeqSum(closed, LAMBDA b : b.volume) + open.acc_volume
    /\ Len(tape) = SeqSum(closed, LAMBDA b : b.trade_count) + open.trade_count
    /\ \A k \in DOMAIN closed :
         LET last == SumOver(1..k, LAMBDA j : closed[j].trade_count) IN
         /\ closed[k].volume >= target
         /\ closed[k].volume - tape[last].volume < target

\* vpin.rs:150-160: a resample keeps each imbalance with the volume of its own
\* bucket.  Whatever the generator draws, the interval's ends are ordered and
\* lie between the smallest and the largest imbalance of a bucket in the
\* window, as the VPIN it is drawn around does.
IntervalWithinWindow ==
  \A i \in Accepted : pass[i].reading # None =>
    (pass[i].reading.some.vpin # None =>
       LET imbs == pass[i].engine.imbalances
           Within(x) == /\ \E k \in DOMAIN imbs : AtMost(<<imbs[k][1], 3 * imbs[k][2]>>, x)
                        /\ \E k \in DOMAIN imbs : AtMost(x, <<imbs[k][1], 3 * imbs[k][2]>>)
       IN \A draws \in [1..Bootstrap.samples -> Resamples(Len(imbs))] :
            LET ci == BootstrapCi(imbs, draws, Bootstrap.level) IN
            /\ AtMost(ci.low, ci.high)
            /\ Within(ci.low) /\ Within(ci.high))

\* intensity.rs:45-77: the rank is among the window's scores on the same side
\* of the median intensity: never over an empty cohort, always counting the
\* score itself, and the busy cohort is never less than half of the window.
\* A trade count equal to the median is busy, as the comment at 59-65 has it.
\* The doc of the struct (13-14) puts "at or below the MEDIAN" on the other
\* side; ties are the case that tells the two apart.
IntensityRanksInCohort ==
  \A i \in Accepted :
    LET h == pass[i].intensity
        r == IntensityRank(h, IntensityWindow)
        Below(x) == Cardinality({j \in DOMAIN h : h[j][2] < x})
        busy == {j \in DOMAIN h : 2 * Below(h[j][2] + 1) > Len(h)}
        newest == Len(h)
        cohort == IF newest \in busy THEN busy ELSE DOMAIN h \ busy
    IN
    /\ r = None <=> Len(pass[i].scored) < IntensityWindow
    /\ r # None =>
         /\ 2 * Cardinality(busy) >= Len(h)
         /\ r.some[2] = Cardinality(cohort)
         /\ r.some[1] = Cardinality({j \in cohort : AtMost(h[j][1], h[newest][1])})

-----------------------------------------------------------------------------
(* Properties of the sweep *)

\* main.rs:259-274: the second pass, with a bucketer and a sigma of its own,
\* calls exactly the buckets the engine classifies, for every vpin_window: a
\* score for each of them once the averaging window is full.
PassesAgree ==
  \A i \in Accepted :
    LET compared == bvc[Pair(i)].compared
        vw == Config(i).vpin_window IN
    /\ compared = Cardinality(Classified(pass[i].closed, Config(i).sigma_window))
    /\ Len(pass[i].scored) = IF compared >= vw THEN compared - vw + 1 ELSE 0

\* The trades of the k-th bucket, of those closed
TradesOf(closed, k) ==
  LET last == SumOver(1..k, LAMBDA j : closed[j].trade_count) IN
  (last - closed[k].trade_count + 1)..last

\* main.rs:175-181, 289-312: BVC's call on a bucket is compared with the taker
\* volumes of that bucket's own trades and of no others.
AccuracyIsPerBucket ==
  \A i \in Accepted :
    LET closed == pass[i].closed
        Side(k, side) == SumOver({n \in TradesOf(closed, k) : tape[n].taker_side = side},
                                 LAMBDA n : tape[n].volume)
    IN bvc[Pair(i)].correct =
         Cardinality({k \in Classified(closed, Config(i).sigma_window) :
           (closed[k].delta_p > 0) = (Side(k, "Buy") > Side(k, "Sell"))})

\* main.rs:190-199: if all that have an accuracy compared enough buckets, every
\* one of them has a p-value but one, which no other beats.  Configurations
\* that compared nothing, or that were rejected, do not get in the way.
EveryRivalIsCompared ==
  (Ranked # {} /\ \A i \in Ranked : bvc[Pair(i)].compared >= MIN_COMPARED) =>
    \E best \in Ranked :
      /\ \A i \in Ranked : AtMost(Accuracy(i).some, Accuracy(best).some)
      /\ \A i \in Accepted : PValue(i) = None <=> i = best \/ i \notin Ranked

\* main.rs:352-355 says of a p-value of 1 without sampling variance: "The only
\* way se==0 ... is p1==p2 exactly": a configuration whose p-value is 1 has the
\* best one's accuracy.
PValueOneMeansEqual ==
  \A i \in Ranked : PValue(i) # None =>
    (PValue(i).some[1] = 0 =>
       AtMost(Accuracy(BestIdx).some, Accuracy(i).some))
=============================================================================
