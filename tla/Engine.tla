------------------------------- MODULE Engine -------------------------------
(***************************************************************************)
(* vpin-engine: VolumeBucketer, RollingSigma, EmpiricalCdf, VpinEngine and *)
(* its bootstrap confidence interval.  The crate does no I/O and has no    *)
(* tasks: an engine is a record, and pushing a trade is an operator from   *)
(* one engine to the next and the reading it returns.  Module Calibrate    *)
(* drives it.                                                              *)
(*                                                                         *)
(* Prices and volumes are integers.  The normal CDF enters only through    *)
(* |V_buy - V_sell| / V = |2 Phi(z) - 1|, a number of [0, 1] that grows    *)
(* with |z|: it is rounded to thirds (ImbalanceThirds).  A fraction is the *)
(* pair of its numerator and its denominator.                              *)
(***************************************************************************)
EXTENDS Integers, Sequences, FiniteSets, FiniteSetsExt

None == [none |-> TRUE]
Some(x) == [some |-> x]

-----------------------------------------------------------------------------
(* Numbers *)

SumOver(S, f(_)) == MapThenSumSet(f, S)
SeqSum(s, f(_)) == SumOver(DOMAIN s, LAMBDA i : f(s[i]))

\* a <= b for two fractions
AtMost(a, b) == a[1] * b[2] <= b[1] * a[2]

\* The sample variance of the deltas s, times Len(s) * (Len(s) - 1).
Spread(s) ==
  Len(s) * SeqSum(s, LAMBDA x : x * x)
    - SeqSum(s, LAMBDA x : x) * SeqSum(s, LAMBDA x : x)

\* |2 Phi(delta / sigma) - 1| in thirds: 0 for no move, then by whether the
\* move is less than one, less than two, or more standard deviations.
ImbalanceThirds(delta, s) ==
  LET z2 == delta * delta * Len(s) * (Len(s) - 1) IN
  CASE delta = 0         -> 0
    [] z2 > 0 /\ z2 < Spread(s) -> 1
    [] z2 >= Spread(s) /\ z2 < 4 * Spread(s) -> 2
    [] OTHER             -> 3

\* A fixed-capacity window: pop_front when full, then push_back.
Slide(buf, x, window) ==
  IF Len(buf) = window THEN Append(Tail(buf), x) ELSE Append(buf, x)

-----------------------------------------------------------------------------
(* VolumeBucketer *)

Bucketers == [bucket_id : Nat, acc_volume : Nat, prev_close : Nat,
              trade_count : Nat, started : BOOLEAN]
Buckets == [bucket_id : Nat, delta_p : Int, volume : Nat, trade_count : Nat]

NewBucketer == [bucket_id |-> 0, acc_volume |-> 0, prev_close |-> 0,
                trade_count |-> 0, started |-> FALSE]

\* Plausible bug: the overshoot of the closing trade is carried forward.
CarryOvershoot(volume, target) == volume - target

\* The next bucket starts empty.
AccAfterClose(volume, target) == 0

\* The first trade is its own previous close.  A bucket closes when it has
\* reached the target, with all of the trade that took it there.
BucketerPush(b, target, price, volume) ==
  LET prev == IF b.started THEN b.prev_close ELSE price
      total == b.acc_volume + volume
      open == [b EXCEPT !.started = TRUE, !.prev_close = prev,
                        !.acc_volume = total, !.trade_count = @ + 1]
  IN
  IF total < target THEN [bucketer |-> open, closed |-> None]
  ELSE [bucketer |-> [open EXCEPT !.bucket_id = @ + 1, !.trade_count = 0,
                                  !.acc_volume = AccAfterClose(total, target),
                                  !.prev_close = price],
        closed |-> Some([bucket_id |-> b.bucket_id, delta_p |-> price - prev,
                         volume |-> total, trade_count |-> b.trade_count + 1])]

-----------------------------------------------------------------------------
(* VpinEngine.  A configuration is a record of bucket_volume, sigma_window,  *)
(* vpin_window and cdf_window, which is None or Some(window).                *)

\* What VolumeBucketer::new and RollingSigma::new accept
ValidPair(bucket_volume, sigma_window) == bucket_volume > 0 /\ sigma_window >= 2

\* What VpinEngine::new accepts
ValidConfig(cfg) ==
  /\ ValidPair(cfg.bucket_volume, cfg.sigma_window)
  /\ cfg.vpin_window >= 1
  /\ cfg.cdf_window # None => cfg.cdf_window.some >= 2

NewEngine == [bucketer |-> NewBucketer, sigma |-> <<>>, imbalances |-> <<>>,
              cdf |-> <<>>]

\* RollingSigma.current: a full window.  buy_fraction rejects a sigma of zero.
Classifiable(sigma, window) == Len(sigma) = window /\ Spread(sigma) > 0

\* Plausible bug: normalised by the nominal n * V.
VpinOfNominal(imbs, cfg) ==
  <<SeqSum(imbs, LAMBDA p : p[1]), 3 * cfg.vpin_window * cfg.bucket_volume>>

\* imb_sum / vol_sum
VpinOf(imbs, cfg) ==
  <<SeqSum(imbs, LAMBDA p : p[1]), 3 * SeqSum(imbs, LAMBDA p : p[2])>>

\* Plausible bug: a bucket that cannot be classified enters as balanced.
ImbalancesKeepSkipped(cfg, e, b) ==
  IF Len(e.sigma) = cfg.sigma_window
  THEN Slide(e.imbalances,
             <<IF Spread(e.sigma) > 0
               THEN ImbalanceThirds(b.delta_p, e.sigma) * b.volume ELSE 0,
               b.volume>>, cfg.vpin_window)
  ELSE e.imbalances

\* update_vpin: the window after bucket b
ImbalancesAfter(cfg, e, b) ==
  IF Classifiable(e.sigma, cfg.sigma_window)
  THEN Slide(e.imbalances,
             <<ImbalanceThirds(b.delta_p, e.sigma) * b.volume, b.volume>>,
             cfg.vpin_window)
  ELSE e.imbalances

\* update_vpin: the value, None if b was skipped or the window is not full
VpinAfter(cfg, e, b) ==
  LET imbs == ImbalancesAfter(cfg, e, b) IN
  IF Classifiable(e.sigma, cfg.sigma_window) /\ Len(imbs) = cfg.vpin_window
  THEN Some(VpinOf(imbs, cfg))
  ELSE None

\* EmpiricalCdf.push: how many of the full window are at most v
Rank(buf, window, v) ==
  IF Len(buf) < window THEN None
  ELSE Some(<<Cardinality({i \in DOMAIN buf : AtMost(buf[i], v)}), window>>)

\* push_trade: bucketer, then sigma from before this bucket, then the score's
\* rank.  Without a cdf_window there is no rank.
PushTrade(cfg, e, price, volume) ==
  LET pushed == BucketerPush(e.bucketer, cfg.bucket_volume, price, volume) IN
  IF pushed.closed = None
  THEN [engine |-> [e EXCEPT !.bucketer = pushed.bucketer], reading |-> None]
  ELSE
    LET b == pushed.closed.some
        vpin == VpinAfter(cfg, e, b)
        ranked == vpin # None /\ cfg.cdf_window # None
        cdf == IF ranked THEN Slide(e.cdf, vpin.some, cfg.cdf_window.some) ELSE e.cdf
    IN
    [engine |-> [bucketer |-> pushed.bucketer,
                 sigma |-> Slide(e.sigma, b.delta_p, cfg.sigma_window),
                 imbalances |-> ImbalancesAfter(cfg, e, b),
                 cdf |-> cdf],
     reading |-> Some([bucket |-> b,
                       vpin |-> vpin,
                       vpin_cdf |-> IF ranked
                                    THEN Rank(cdf, cfg.cdf_window.some, vpin.some)
                                    ELSE None])]

-----------------------------------------------------------------------------
(* bootstrap_ci.  What SplitMix64 draws is any draw: a resample is a function *)
(* from positions to positions of the window.                                *)

Resamples(n) == [1..n -> 1..n]

\* Plausible bug: a draw takes its volume from another position of the window.
ResampleUnpaired(imbs, draw) ==
  LET drawn == [k \in DOMAIN imbs |->
                  <<imbs[draw[k]][1], imbs[(draw[k] % Len(imbs)) + 1][2]>>] IN
  <<SeqSum(drawn, LAMBDA p : p[1]), 3 * SeqSum(drawn, LAMBDA p : p[2])>>

\* imb_sum / vol_sum over the pairs drawn
Resample(imbs, draw) ==
  LET drawn == [k \in DOMAIN imbs |-> imbs[draw[k]]] IN
  <<SeqSum(drawn, LAMBDA p : p[1]), 3 * SeqSum(drawn, LAMBDA p : p[2])>>

\* The value a sort of s by Leq puts at position k: fewer than k are below it,
\* and k or more are not above it.
SortedAt(s, k, Leq(_, _)) ==
  s[CHOOSE i \in DOMAIN s :
      /\ Cardinality({j \in DOMAIN s : ~Leq(s[i], s[j])}) < k
      /\ k <= Cardinality({j \in DOMAIN s : Leq(s[j], s[i])})]

\* percentile: p is a fraction; linear between the two nearest of the samples.
Percentile(samples, p) ==
  LET rank == p[1] * (Len(samples) - 1)
      lo == rank \div p[2]
      frac == rank % p[2]
      a == SortedAt(samples, lo + 1, AtMost)
      b == SortedAt(samples, lo + 2, AtMost)
  IN
  IF frac = 0 THEN a
  ELSE <<a[1] * b[2] * (p[2] - frac) + b[1] * a[2] * frac, a[2] * b[2] * p[2]>>

\* The interval at confidence level level[1] / level[2] from these resamples
BootstrapCi(imbs, draws, level) ==
  LET samples == [k \in DOMAIN draws |-> Resample(imbs, draws[k])]
      half == <<level[2] - level[1], 2 * level[2]>>
  IN [low |-> Percentile(samples, half),
      high |-> Percentile(samples, <<half[2] - half[1], half[2]>>)]

-----------------------------------------------------------------------------
(* IntensityAdjustedCdf *)

\* Plausible bug: the lower of the two middle values.
MedianLower(s) == SortedAt(s, ((Len(s) - 1) \div 2) + 1, LAMBDA a, b : a <= b)

\* median_u32: the upper of the two middle values of an even number
MedianU32(s) == SortedAt(s, (Len(s) \div 2) + 1, LAMBDA a, b : a <= b)

\* push: the rank of the newest <<vpin, trades_in_bucket>> among those of the
\* window that are on its side of the median
IntensityRank(history, window) ==
  LET median == MedianU32([i \in DOMAIN history |-> history[i][2]])
      newest == history[Len(history)]
      cohort == {i \in DOMAIN history :
                   (history[i][2] >= median) = (newest[2] >= median)}
  IN
  IF Len(history) < window THEN None
  ELSE Some(<<Cardinality({i \in cohort : AtMost(history[i][1], newest[1])}),
              Cardinality(cohort)>>)
=============================================================================
