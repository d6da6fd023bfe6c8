--------------------------- MODULE CalibrateProofs ---------------------------
(***************************************************************************)
(* Proofs about Calibrate, for every sweep, tape and window.  Five         *)
(* invariants build on each other: SweepInv, the two passes keep in step;  *)
(* HistoryInv, every window holds what the whole history of buckets says   *)
(* it should; PartitionInv, the buckets partition the tape; SidesInv, the  *)
(* side volumes are those of the open bucket's own trades; WindowsInv, no  *)
(* window overflows and the intensity window keeps pace with the scores.   *)
(* The last two sections are about intervals and ranks, and the report.    *)
(*                                                                         *)
(* The sums of Spread, ImbalanceThirds and VpinOf are Totals, of           *)
(* EngineProofs.                                                           *)
(***************************************************************************)
EXTENDS Calibrate, EngineProofs, FunctionTheorems

-----------------------------------------------------------------------------
(* Sigma and the buckets it classifies *)

\* sigma holds the deltas of the last `window` buckets closed, or of all.
SigmaIs(closed, sigma, window) ==
  /\ sigma \in Seq(Int)
  /\ Len(closed) < window =>
       /\ Len(sigma) = Len(closed)
       /\ \A n \in 1..Len(closed) : sigma[n] = closed[n].delta_p
  /\ Len(closed) >= window =>
       /\ Len(sigma) = window
       /\ \A n \in 1..window : sigma[n] = closed[Len(closed) - window + n].delta_p

\* RollingSigma.push keeps it so.
LEMMA SigmaSlides ==
  ASSUME NEW closed \in Seq(Buckets), NEW sigma, NEW window \in Nat \ {0},
         SigmaIs(closed, sigma, window), NEW b \in Buckets
  PROVE  SigmaIs(Append(closed, b), Slide(sigma, b.delta_p, window), window)
<1> DEFINE after == Append(closed, b)
           slid == Slide(sigma, b.delta_p, window)
           len == Len(closed)
<1>1. sigma \in Seq(Int) /\ b.delta_p \in Int /\ len \in Nat
  BY DEF SigmaIs, Buckets
<1>2. /\ Len(after) = len + 1
      /\ \A n \in 1..len : after[n] = closed[n]
      /\ after[len + 1] = b
  BY AppendProperties
<1>3. Len(sigma) \in Nat /\ Len(sigma) <= window
  BY <1>1 DEF SigmaIs
<1>4. slid \in Seq(Int) /\ SlidFrom(sigma, b.delta_p, window, slid)
  BY <1>1, <1>3, SlideIs
<1> SUFFICES SigmaIs(after, slid, window)
  OBVIOUS
<1> HIDE DEF after, slid
<1>5. CASE len < window
  <2>1. Len(sigma) = len /\ \A n \in 1..len : sigma[n] = closed[n].delta_p
    BY <1>5 DEF SigmaIs
  <2>2. Len(slid) = len + 1 /\ slid[len + 1] = b.delta_p
    BY <1>4, <1>5, <2>1 DEF SlidFrom
  <2>3. \A n \in 1..len : slid[n] = after[n].delta_p
    BY <1>2, <1>4, <1>5, <2>1 DEF SlidFrom
  <2>4. \A n \in 1..(len + 1) : slid[n] = after[n].delta_p
    <3> SUFFICES ASSUME NEW n \in 1..(len + 1), n # len + 1
                 PROVE  slid[n] = after[n].delta_p
      BY <1>2, <2>2
    <3> QED
      BY <1>1, <2>3
  <2>5. Len(after) >= window => len + 1 = window /\ Len(after) = window
    BY <1>1, <1>2, <1>5
  <2>6. \A n \in 1..window : Len(after) >= window => Len(after) - window + n = n
    BY <2>5
  <2> QED
    BY <1>1, <1>2, <1>4, <2>2, <2>4, <2>5, <2>6 DEF SigmaIs
<1>6. CASE len >= window
  <2>1. /\ Len(sigma) = window
        /\ \A n \in 1..window : sigma[n] = closed[len - window + n].delta_p
    BY <1>6 DEF SigmaIs
  <2>2. ASSUME NEW n \in 1..(window - 1)
        PROVE  slid[n] = after[Len(after) - window + n].delta_p
    <3>1. slid[n] = sigma[n + 1] /\ n + 1 \in 1..window
      BY <1>4, <2>1 DEF SlidFrom
    <3>2. sigma[n + 1] = closed[len - window + (n + 1)].delta_p
      BY <2>1, <3>1
    <3>3. /\ len - window + (n + 1) = Len(after) - window + n
          /\ len - window + (n + 1) \in 1..len
      BY <1>1, <1>2, <1>6
    <3> QED
      BY <1>2, <3>1, <3>2, <3>3
  <2>3. slid[window] = after[Len(after) - window + window].delta_p
    <3>1. Len(after) - window + window = len + 1
      BY <1>1, <1>2
    <3> QED
      BY <1>2, <1>4, <2>1, <3>1 DEF SlidFrom
  <2>4. \A n \in 1..window : slid[n] = after[Len(after) - window + n].delta_p
    <3> SUFFICES ASSUME NEW n \in 1..window, n # window
                 PROVE  slid[n] = after[Len(after) - window + n].delta_p
      BY <2>3
    <3> QED
      BY <2>2
  <2>5. Len(after) >= window
    BY <1>1, <1>2, <1>6
  <2> QED
    BY <1>4, <2>1, <2>4, <2>5, <1>2, <1>1 DEF SigmaIs, SlidFrom
<1> QED
  BY <1>1, <1>5, <1>6

\* A bucket's sigma is made of the buckets before it: closing one more bucket
\* changes no earlier call, and the new one is called with the sigma at hand.
LEMMA ClassifiedGrows ==
  ASSUME NEW closed \in Seq(Buckets), NEW sigma, NEW window \in Nat \ {0},
         SigmaIs(closed, sigma, window), NEW b \in Buckets
  PROVE  Classified(Append(closed, b), window) =
           Classified(closed, window)
             \cup (IF Classifiable(sigma, window) THEN {Len(closed) + 1} ELSE {})
<1> DEFINE after == Append(closed, b)
           len == Len(closed)
<1>1. len \in Nat /\ DOMAIN closed = 1..len /\ sigma \in Seq(Int)
  BY DEF SigmaIs
<1>2. /\ Len(after) = len + 1 /\ DOMAIN after = 1..(len + 1)
      /\ \A n \in 1..len : after[n] = closed[n]
  BY AppendProperties
<1> HIDE DEF after
<1>3. ASSUME NEW k \in 1..len, k > window
      PROVE  DeltasBefore(after, window, k) = DeltasBefore(closed, window, k)
  <2>1. \A n \in 1..window : k - window - 1 + n \in 1..len
    BY <1>1, <1>3
  <2>2. \A n \in 1..window : after[k - window - 1 + n].delta_p
                             = closed[k - window - 1 + n].delta_p
    BY <1>2, <2>1
  <2> QED
    BY <2>2, Zenon DEF DeltasBefore
<1>4. ASSUME len + 1 > window
      PROVE  DeltasBefore(after, window, len + 1) = sigma /\ Len(sigma) = window
  <2>1. /\ Len(sigma) = window
        /\ \A n \in 1..window : sigma[n] = closed[len - window + n].delta_p
    BY <1>1, <1>4 DEF SigmaIs
  <2>2. \A n \in 1..window : /\ (len + 1) - window - 1 + n = len - window + n
                             /\ len - window + n \in 1..len
    BY <1>1, <1>4
  <2>3. \A n \in 1..window : sigma[n] = after[(len + 1) - window - 1 + n].delta_p
    BY <1>2, <2>1, <2>2
  <2>4. sigma = [n \in 1..window |-> sigma[n]]
    BY <1>1, <2>1
  <2>5. [n \in 1..window |-> sigma[n]]
          = [n \in 1..window |-> after[(len + 1) - window - 1 + n].delta_p]
    BY <2>3, Zenon
  <2> QED
    BY <2>1, <2>4, <2>5, Zenon DEF DeltasBefore
<1>5. len + 1 <= window => Len(sigma) # window
  BY <1>1 DEF SigmaIs
<1>6. len + 1 \in Classified(after, window) <=> Classifiable(sigma, window)
  BY <1>1, <1>2, <1>4, <1>5 DEF Classified, Classifiable
<1>7. \A k \in 1..len : k \in Classified(after, window) <=> k \in Classified(closed, window)
  BY <1>1, <1>2, <1>3 DEF Classified
<1>8. Classified(after, window) \subseteq 1..(len + 1)
  BY <1>2 DEF Classified
<1>9. Classified(closed, window) \subseteq 1..len
  BY <1>1 DEF Classified
<1>10. \A k \in 1..(len + 1) : k \in 1..len \/ k = len + 1
  BY <1>1
<1>11. len + 1 \notin 1..len
  BY <1>1
<1> QED
  BY <1>6, <1>7, <1>8, <1>9, <1>10, <1>11, Zenon DEF after

\* How many buckets have been called, one bucket on.
LEMMA ClassifiedCount ==
  ASSUME NEW closed \in Seq(Buckets), NEW sigma, NEW window \in Nat \ {0},
         SigmaIs(closed, sigma, window), NEW b \in Buckets
  PROVE  Cardinality(Classified(Append(closed, b), window)) =
           Cardinality(Classified(closed, window))
             + (IF Classifiable(sigma, window) THEN 1 ELSE 0)
<1> DEFINE C == Classified(closed, window)
           len == Len(closed)
<1>1. C \subseteq 1..len /\ len \in Nat
  BY DEF Classified
<1>2. IsFiniteSet(C) /\ len + 1 \notin C
  <2>1. IsFiniteSet(1..len)
    BY <1>1, FS_Interval
  <2> HIDE DEF C
  <2>2. IsFiniteSet(C)
    BY <1>1, <2>1, FS_Subset
  <2> QED
    BY <1>1, <2>2
<1>3. Cardinality(C) \in Nat /\ Cardinality(C \cup {len + 1}) = Cardinality(C) + 1
  BY <1>2, FS_CardinalityType, FS_AddElement
<1>4. Classified(Append(closed, b), window)
        = C \cup (IF Classifiable(sigma, window) THEN {len + 1} ELSE {})
  BY ClassifiedGrows, Zenon
<1> HIDE DEF C
<1>5. C \cup {} = C
  OBVIOUS
<1>6. CASE Classifiable(sigma, window)
  BY <1>3, <1>4, <1>6 DEF C
<1>7. CASE ~Classifiable(sigma, window)
  BY <1>3, <1>4, <1>5, <1>7 DEF C
<1> QED
  BY <1>6, <1>7

-----------------------------------------------------------------------------
(* The sweep's configurations *)

\* A position of a row-major grid has a row and a column.
LEMMA RowAndColumn ==
  ASSUME NEW rows \in Nat, NEW columns \in Nat, NEW k \in Nat, k < rows * columns
  PROVE  /\ columns > 0
         /\ k \div columns \in 0..(rows - 1)
         /\ k % columns \in 0..(columns - 1)
<1>1. columns > 0
  <2> SUFFICES ASSUME columns = 0 PROVE FALSE
    OBVIOUS
  <2>1. rows * columns = 0
    OBVIOUS
  <2> QED
    BY <2>1
<1> DEFINE row == k \div columns
           column == k % columns
<1>2. row \in Int /\ column \in 0..(columns - 1) /\ k = columns * row + column
  BY <1>1
<1> HIDE DEF row, column
<1>3. row >= 0
  <2> SUFFICES ASSUME row <= -1 PROVE FALSE
    BY <1>2
  <2>1. columns * row <= -columns
    BY <1>1, <1>2
  <2> QED
    BY <1>2, <2>1
<1>4. row < rows
  <2> SUFFICES ASSUME row >= rows PROVE FALSE
    BY <1>2
  <2>1. columns * row >= rows * columns
    BY <1>1, <1>2
  <2> QED
    BY <1>2, <2>1
<1> QED
  BY <1>1, <1>2, <1>3, <1>4 DEF row, column

\* How many times the body of run_sweep's loops runs.
LEMMA CombinationsIsNat == Combinations \in Nat
<1> DEFINE b == Len(BucketVolumes)
           s == Len(SigmaWindows)
           v == Len(VpinWindows)
<1>1. b \in Nat /\ s \in Nat /\ v \in Nat
  BY CalibrateAssumption
<1> HIDE DEF b, s, v
<1>2. b * s * v \in Nat
  BY <1>1
<1> QED
  BY <1>2, Zenon DEF Combinations, b, s, v

\* run_sweep's loops: every configuration takes its values from the lists.
LEMMA ConfigType ==
  ASSUME NEW i \in 1..Combinations
  PROVE  /\ Config(i).bucket_volume \in Nat
         /\ Config(i).sigma_window \in Nat
         /\ Config(i).vpin_window \in Nat
         /\ Pair(i) \in Pairs
<1> DEFINE b == Len(BucketVolumes)
           s == Len(SigmaWindows)
           v == Len(VpinWindows)
           k == i - 1
<1>1. b \in Nat /\ s \in Nat /\ v \in Nat
  BY CalibrateAssumption
<1>2. s * v \in Nat /\ b * s * v = b * (s * v)
  BY <1>1
<1>3. k \in Nat /\ k < b * (s * v)
  BY <1>1, <1>2 DEF Combinations
<1> HIDE DEF b, s, v, k
<1>4. k \div (s * v) \in 0..(b - 1) /\ k % (s * v) \in Nat /\ k % (s * v) < s * v
  <2>1. k \div (s * v) \in 0..(b - 1) /\ k % (s * v) \in 0..((s * v) - 1)
    BY <1>1, <1>2, <1>3, RowAndColumn, Zenon
  <2> DEFINE sv == s * v
             r == k % sv
  <2>2. r \in 0..(sv - 1) /\ sv \in Nat
    BY <1>2, <2>1
  <2> HIDE DEF sv, r
  <2>3. r \in Nat /\ r < sv
    BY <2>2
  <2> QED
    BY <2>1, <2>3, Zenon DEF r, sv
<1>5. (k % (s * v)) \div v \in 0..(s - 1) /\ v > 0
  BY <1>1, <1>4, RowAndColumn, Zenon
<1>6. k % v \in 0..(v - 1)
  BY <1>1, <1>3, <1>5
<1>7. /\ (k \div (s * v)) + 1 \in 1..b
      /\ ((k % (s * v)) \div v) + 1 \in 1..s
      /\ (k % v) + 1 \in 1..v
  <2> DEFINE x == k \div (s * v)
             y == (k % (s * v)) \div v
             z == k % v
  <2>1. x \in 0..(b - 1) /\ y \in 0..(s - 1) /\ z \in 0..(v - 1)
    BY <1>4, <1>5, <1>6, Zenon
  <2> HIDE DEF x, y, z
  <2>2. x + 1 \in 1..b /\ y + 1 \in 1..s /\ z + 1 \in 1..v
    BY <1>1, <2>1
  <2> QED
    BY <2>2, Zenon DEF x, y, z
<1>8. /\ BucketVolumes[(k \div (s * v)) + 1] \in Nat
      /\ SigmaWindows[((k % (s * v)) \div v) + 1] \in Nat
      /\ VpinWindows[(k % v) + 1] \in Nat
  BY <1>7, CalibrateAssumption, ElementOfSeq, Zenon DEF b, s, v
<1>9. Config(i) = [bucket_volume |-> BucketVolumes[(k \div (s * v)) + 1],
                   sigma_window |-> SigmaWindows[((k % (s * v)) \div v) + 1],
                   vpin_window |-> VpinWindows[(k % v) + 1],
                   cdf_window |-> CdfWindow]
  BY Zenon DEF Config, k, s, v
<1>10. Pair(i) \in Pairs
  BY Zenon DEF Pairs
<1> QED
  BY <1>8, <1>9, <1>10

\* What VpinEngine::new accepted, VolumeBucketer and RollingSigma accepted.
LEMMA AcceptedConfig ==
  ASSUME NEW i \in Accepted
  PROVE  /\ Config(i).bucket_volume \in Nat
         /\ Config(i).sigma_window \in Nat \ {0}
         /\ Config(i).vpin_window \in Nat \ {0}
         /\ Pair(i) \in AcceptedPairs
         /\ Pair(i)[1] = Config(i).bucket_volume
         /\ Pair(i)[2] = Config(i).sigma_window
         /\ Config(i).bucket_volume # 0
         /\ Config(i).cdf_window = CdfWindow
         /\ CdfWindow # None => CdfWindow.some \in Nat \ {0}
<1>1. i \in 1..Combinations /\ ValidConfig(Config(i))
  BY DEF Accepted
<1>2. /\ Config(i).bucket_volume \in Nat /\ Config(i).sigma_window \in Nat
      /\ Config(i).vpin_window \in Nat /\ Pair(i) \in Pairs
  BY <1>1, ConfigType
<1>3. /\ Pair(i)[1] = Config(i).bucket_volume
      /\ Pair(i)[2] = Config(i).sigma_window
  BY DEF Pair
<1>4. /\ ValidPair(Config(i).bucket_volume, Config(i).sigma_window)
      /\ Config(i).vpin_window >= 1
  BY <1>1, Zenon DEF ValidConfig
<1>5. Config(i).sigma_window # 0 /\ Config(i).vpin_window # 0 /\ Config(i).bucket_volume # 0
  BY <1>2, <1>4 DEF ValidPair
<1>7. Config(i).cdf_window = CdfWindow
  BY DEF Config
<1>8. CdfWindow # None => CdfWindow.some \in Nat \ {0}
  <2>1. CdfWindow # None => CdfWindow.some >= 2
    BY <1>1, <1>7, Zenon DEF ValidConfig
  <2>2. CdfWindow # None => CdfWindow.some \in Nat
    BY CalibrateAssumption
  <2> QED
    BY <2>1, <2>2
<1>6. Pair(i) \in AcceptedPairs
  BY <1>2, <1>3, <1>4, Zenon DEF AcceptedPairs
<1> QED
  BY <1>2, <1>3, <1>5, <1>6, <1>7, <1>8

-----------------------------------------------------------------------------
(* One trade, in either pass *)

\* The fields of bvc_accuracy_stats' locals.
IsTally(s) ==
  s = [bucketer |-> s.bucketer, sigma |-> s.sigma, buy_vol |-> s.buy_vol,
       sell_vol |-> s.sell_vol, correct |-> s.correct, compared |-> s.compared]

\* One more bucket compared, if it could be called.
OneIf(called) == IF called THEN 1 ELSE 0

\* From s to next on a trade that pushed this: until a bucket closes the sigma
\* and the counts stand still.
TallyStep(s, next, pushed, window) ==
  LET called == Classifiable(s.sigma, window) IN
  /\ next.bucketer = pushed.bucketer
  /\ pushed.closed = None =>
       /\ next.sigma = s.sigma
       /\ next.correct = s.correct
       /\ next.compared = s.compared
  /\ pushed.closed # None =>
       /\ next.sigma = Slide(s.sigma, pushed.closed.some.delta_p, window)
       /\ next.correct \in {s.correct, s.correct + OneIf(called)}
       /\ next.compared = s.compared + OneIf(called)

\* The second pass's loop body.
LEMMA TallyAfter ==
  ASSUME NEW q, NEW s, IsTally(s), NEW t, NEW pushed,
         pushed = BucketerPush(s.bucketer, q[1], t.price, t.volume),
         s.correct \in Nat, s.compared \in Nat
  PROVE  /\ IsTally(BvcAccuracyStats(q, s, t))
         /\ TallyStep(s, BvcAccuracyStats(q, s, t), pushed, q[2])
<1> DEFINE next == BvcAccuracyStats(q, s, t)
           called == Classifiable(s.sigma, q[2])
           b == pushed.closed.some
           buy == s.buy_vol + (IF t.taker_side = "Buy" THEN t.volume ELSE 0)
           sell == s.sell_vol + (IF t.taker_side = "Sell" THEN t.volume ELSE 0)
           right == (b.delta_p > 0) = (buy > sell)
           slid == Slide(s.sigma, b.delta_p, q[2])
           correct == IF called /\ right THEN s.correct + 1 ELSE s.correct
           compared == IF called THEN s.compared + 1 ELSE s.compared
<1>1. next = IF pushed.closed = None
             THEN [s EXCEPT !.bucketer = pushed.bucketer, !.buy_vol = buy, !.sell_vol = sell]
             ELSE [[s EXCEPT !.buy_vol = 0, !.sell_vol = 0] EXCEPT
                     !.bucketer = pushed.bucketer,
                     !.sigma = Slide(@, b.delta_p, q[2]),
                     !.correct = IF called /\ right THEN @ + 1 ELSE @,
                     !.compared = IF called THEN @ + 1 ELSE @]
  BY Zenon DEF BvcAccuracyStats, SideVolumesReset, SigmaOfCall
<1>2. /\ correct \in {s.correct, s.correct + OneIf(called)}
      /\ compared = s.compared + OneIf(called)
  <2> HIDE DEF called, right
  <2> QED
    BY DEF OneIf
<1>3. CASE pushed.closed = None
  <2>1. next = [bucketer |-> pushed.bucketer, sigma |-> s.sigma, buy_vol |-> buy,
                sell_vol |-> sell, correct |-> s.correct, compared |-> s.compared]
    <3> HIDE DEF next, buy, sell
    <3> QED
      BY <1>1, <1>3 DEF IsTally
  <2> HIDE DEF next, buy, sell
  <2> QED
    BY <1>3, <2>1 DEF IsTally, next, TallyStep
<1>4. CASE pushed.closed # None
  <2>1. next = [bucketer |-> pushed.bucketer, sigma |-> slid, buy_vol |-> 0,
                sell_vol |-> 0, correct |-> correct, compared |-> compared]
    <3> HIDE DEF next, called, right, b
    <3> QED
      BY <1>1, <1>4 DEF IsTally
  <2> HIDE DEF next, called, right, slid, correct, compared
  <2>2. /\ IsTally(next) /\ next.bucketer = pushed.bucketer /\ next.sigma = slid
        /\ next.correct = correct /\ next.compared = compared
    BY <2>1 DEF IsTally
  <2> QED
    BY <1>2, <1>4, <2>2, Zenon DEF next, called, slid, TallyStep
<1> QED
  BY <1>3, <1>4, Zenon

\* The fields of calibrate_one's locals.
IsPass(p) ==
  /\ p = [engine |-> p.engine, reading |-> p.reading, intensity |-> p.intensity,
          closed |-> p.closed, scored |-> p.scored]
  /\ p.engine = [bucketer |-> p.engine.bucketer, sigma |-> p.engine.sigma,
                 imbalances |-> p.engine.imbalances, cdf |-> p.engine.cdf]

\* The averaging window is full and the bucket was called.
Scores(cfg, e, b) ==
  /\ Classifiable(e.sigma, cfg.sigma_window)
  /\ Len(ImbalancesAfter(cfg, e, b)) = cfg.vpin_window

\* The window of scores after bucket b, and b's rank in it
CdfAfter(cfg, e, b) ==
  IF VpinAfter(cfg, e, b) # None /\ cfg.cdf_window # None
  THEN Slide(e.cdf, VpinAfter(cfg, e, b).some, cfg.cdf_window.some) ELSE e.cdf

RankAfter(cfg, e, b) ==
  IF VpinAfter(cfg, e, b) # None /\ cfg.cdf_window # None
  THEN Rank(CdfAfter(cfg, e, b), cfg.cdf_window.some, VpinAfter(cfg, e, b).some)
  ELSE None

ScoreOf(cfg, e, b) == <<VpinAfter(cfg, e, b).some, b.trade_count>>

\* From p to next on a trade that pushed this: until a bucket closes only the
\* open bucket changes, and what closes is scored if it was called and the
\* averaging window is full.
PassStep(cfg, p, next, pushed) ==
  LET b == pushed.closed.some
      vpin == VpinAfter(cfg, p.engine, b) IN
  /\ next.engine.bucketer = pushed.bucketer
  /\ pushed.closed = None =>
       /\ next.engine.sigma = p.engine.sigma
       /\ next.engine.imbalances = p.engine.imbalances
       /\ next.engine.cdf = p.engine.cdf
       /\ next.reading = None
       /\ next.closed = p.closed
       /\ next.scored = p.scored
       /\ next.intensity = p.intensity
  /\ pushed.closed # None =>
       /\ next.engine.sigma = Slide(p.engine.sigma, b.delta_p, cfg.sigma_window)
       /\ next.engine.imbalances = ImbalancesAfter(cfg, p.engine, b)
       /\ next.engine.cdf = CdfAfter(cfg, p.engine, b)
       /\ next.reading = Some([bucket |-> b, vpin |-> vpin,
                               vpin_cdf |-> RankAfter(cfg, p.engine, b)])
       /\ next.closed = Append(p.closed, b)
       /\ vpin = None <=> ~Scores(cfg, p.engine, b)
       /\ vpin = None => next.scored = p.scored /\ next.intensity = p.intensity
       /\ vpin # None =>
            /\ vpin = Some(VpinOf(ImbalancesAfter(cfg, p.engine, b), cfg))
            /\ next.scored = Append(p.scored, ScoreOf(cfg, p.engine, b))
            /\ next.intensity =
                 Slide(p.intensity, ScoreOf(cfg, p.engine, b), IntensityWindow)

\* push_trade and the rest of calibrate_one's loop body.
LEMMA PassAfter ==
  ASSUME NEW i, NEW p, IsPass(p), NEW t, NEW pushed,
         pushed = BucketerPush(p.engine.bucketer, Config(i).bucket_volume,
                               t.price, t.volume)
  PROVE  /\ IsPass(CalibrateOne(i, p, t))
         /\ PassStep(Config(i), p, CalibrateOne(i, p, t), pushed)
<1> DEFINE cfg == Config(i)
           next == CalibrateOne(i, p, t)
           b == pushed.closed.some
           imbs == ImbalancesAfter(cfg, p.engine, b)
           push == PushTrade(cfg, p.engine, t.price, t.volume)
           vpin == VpinAfter(cfg, p.engine, b)
<1>1. CASE pushed.closed = None
  <2>1. push = [engine |-> [p.engine EXCEPT !.bucketer = pushed.bucketer],
                reading |-> None]
    BY <1>1, Zenon DEF PushTrade
  <2>2. push.reading = None
    BY <2>1
  <2>3. next = [p EXCEPT !.engine = push.engine, !.reading = None]
    BY <2>2, Zenon DEF CalibrateOne, KeepReading
  <2>4. push.engine = [bucketer |-> pushed.bucketer, sigma |-> p.engine.sigma,
                       imbalances |-> p.engine.imbalances, cdf |-> p.engine.cdf]
    <3> HIDE DEF push
    <3> QED
      BY <2>1 DEF IsPass
  <2> HIDE DEF next, push
  <2>5. next = [engine |-> push.engine, reading |-> None, intensity |-> p.intensity,
                closed |-> p.closed, scored |-> p.scored]
    BY <2>3 DEF IsPass
  <2>6. /\ IsPass(next) /\ next.engine.bucketer = pushed.bucketer
        /\ next.engine.sigma = p.engine.sigma
        /\ next.engine.imbalances = p.engine.imbalances
        /\ next.engine.cdf = p.engine.cdf /\ next.reading = None
        /\ next.closed = p.closed /\ next.scored = p.scored
        /\ next.intensity = p.intensity
    BY <2>4, <2>5 DEF IsPass
  <2> QED
    BY <1>1, <2>6, Zenon DEF next, PassStep
<1>2. CASE pushed.closed # None
  <2> DEFINE cdf == CdfAfter(cfg, p.engine, b)
             rank == RankAfter(cfg, p.engine, b)
             slid == Slide(p.engine.sigma, b.delta_p, cfg.sigma_window)
             engine == [bucketer |-> pushed.bucketer, sigma |-> slid,
                        imbalances |-> imbs, cdf |-> cdf]
             reading == [bucket |-> b, vpin |-> vpin, vpin_cdf |-> rank]
  <2>1. push = [engine |-> engine, reading |-> Some(reading)]
    BY <1>2, Zenon DEF PushTrade, CdfAfter, RankAfter
  <2> DEFINE score == <<push.reading.some.vpin.some, push.reading.some.bucket.trade_count>>
  <2>2. /\ push.reading # None
        /\ push.reading = Some(reading)
        /\ push.reading.some.vpin = vpin
        /\ push.reading.some.bucket = b
    <3> HIDE DEF push, engine, vpin, b, rank
    <3>1. push.reading = Some(reading)
      BY <2>1
    <3>2. push.reading # None /\ push.reading.some = reading
      BY <3>1, SomeOrNone, Zenon
    <3> QED
      BY <3>1, <3>2
  <2>3. /\ vpin = None <=> ~Scores(cfg, p.engine, b)
        /\ vpin # None => vpin = Some(VpinOf(imbs, cfg))
    <3>1. Some(VpinOf(imbs, cfg)) # None
      BY SomeOrNone
    <3>2. vpin = IF Scores(cfg, p.engine, b) THEN Some(VpinOf(imbs, cfg)) ELSE None
      BY Zenon DEF VpinAfter, Scores
    <3> QED
      BY <3>1, <3>2, Zenon
  <2>4. next = IF vpin = None
               THEN [p EXCEPT !.engine = push.engine, !.reading = push.reading,
                              !.closed = Append(@, b)]
               ELSE [engine |-> push.engine, reading |-> push.reading,
                     intensity |-> Slide(p.intensity, score, IntensityWindow),
                     closed |-> Append(p.closed, b), scored |-> Append(p.scored, score)]
    BY <2>2, Zenon DEF CalibrateOne, KeepReading
  <2>5. push.engine = engine /\ score = ScoreOf(cfg, p.engine, b)
    <3>1. score = ScoreOf(cfg, p.engine, b)
      BY <2>2, Zenon DEF ScoreOf
    <3> HIDE DEF push, engine
    <3> QED
      BY <2>1, <3>1
  <2> DEFINE intensity == IF vpin = None THEN p.intensity
                          ELSE Slide(p.intensity, score, IntensityWindow)
             scored == IF vpin = None THEN p.scored ELSE Append(p.scored, score)
  <2>6. next = [engine |-> engine, reading |-> push.reading, intensity |-> intensity,
                closed |-> Append(p.closed, b), scored |-> scored]
    <3> HIDE DEF next, push, engine, vpin, b, score
    <3> QED
      BY <2>4, <2>5 DEF IsPass
  <2> HIDE DEF next, push, vpin, b, score, imbs, slid, cdf, rank
  <2>7. /\ IsPass(next) /\ next.engine.bucketer = pushed.bucketer
        /\ next.engine.sigma = slid /\ next.engine.imbalances = imbs
        /\ next.engine.cdf = cdf /\ next.reading = push.reading
        /\ next.closed = Append(p.closed, b) /\ next.scored = scored
        /\ next.intensity = intensity
    <3> HIDE DEF scored, intensity
    <3> QED
      BY <2>6 DEF IsPass
  <2>8. /\ vpin = None => next.scored = p.scored /\ next.intensity = p.intensity
        /\ vpin # None =>
             /\ next.scored = Append(p.scored, ScoreOf(cfg, p.engine, b))
             /\ next.intensity = Slide(p.intensity, ScoreOf(cfg, p.engine, b), IntensityWindow)
    BY <2>5, <2>7, Zenon
  <2> QED
    BY <1>2, <2>2, <2>3, <2>7, <2>8, Zenon DEF next, b, vpin, imbs, slid, cdf, rank, PassStep
<1> QED
  BY <1>1, <1>2, Zenon

\* update_vpin: a bucket that cannot be called leaves the averaging window alone.
LEMMA ImbalancesGrow ==
  ASSUME NEW cfg, NEW e, NEW b \in Buckets, cfg.vpin_window \in Nat \ {0},
         e.imbalances \in Seq(Nat \X Nat), Len(e.imbalances) <= cfg.vpin_window
  PROVE  LET called == Classifiable(e.sigma, cfg.sigma_window)
             after == ImbalancesAfter(cfg, e, b) IN
         /\ after \in Seq(Nat \X Nat)
         /\ Len(after) = IF called /\ Len(e.imbalances) < cfg.vpin_window
                         THEN Len(e.imbalances) + 1 ELSE Len(e.imbalances)
<1> DEFINE called == Classifiable(e.sigma, cfg.sigma_window)
           x == <<ImbalanceThirds(b.delta_p, e.sigma) * b.volume, b.volume>>
           slid == Slide(e.imbalances, x, cfg.vpin_window)
<1>1. x \in Nat \X Nat
  <2> DEFINE thirds == ImbalanceThirds(b.delta_p, e.sigma)
  <2>1. thirds \in Nat /\ b.volume \in Nat
    BY ThirdsType DEF Buckets
  <2> HIDE DEF thirds
  <2>2. thirds * b.volume \in Nat
    BY <2>1
  <2> QED
    BY <2>1, <2>2, Zenon DEF thirds
<1> HIDE DEF x
<1>2. slid \in Seq(Nat \X Nat) /\ SlidFrom(e.imbalances, x, cfg.vpin_window, slid)
  BY <1>1, SlideIs
<1>3. Len(e.imbalances) \in Nat
  OBVIOUS
<1> HIDE DEF slid
<1>4. Len(slid) = IF Len(e.imbalances) < cfg.vpin_window
                  THEN Len(e.imbalances) + 1 ELSE Len(e.imbalances)
  BY <1>2, <1>3 DEF SlidFrom
<1>5. ImbalancesAfter(cfg, e, b) = IF called THEN slid ELSE e.imbalances
  BY Zenon DEF ImbalancesAfter, slid, x
<1> HIDE DEF called
<1>6. CASE called
  BY <1>2, <1>4, <1>5, <1>6, Zenon DEF called
<1>7. CASE ~called
  BY <1>5, <1>7, Zenon DEF called
<1> QED
  BY <1>6, <1>7, Zenon

-----------------------------------------------------------------------------
(* The two passes, side by side *)

\* What bvc_accuracy_stats has counted of each accepted pair.
Tallied ==
  \A q \in AcceptedPairs :
    /\ IsTally(bvc[q])
    /\ bvc[q].bucketer \in Bucketers
    /\ bvc[q].correct \in Nat
    /\ bvc[q].compared \in Nat
    /\ bvc[q].correct <= bvc[q].compared

IsSequence(s) == \E S : s \in Seq(S)

\* The scores there are once this many buckets have been called.
ScoresOf(compared, window) ==
  IF compared >= window THEN compared - window + 1 ELSE 0

\* A pass and its tally have the same open bucket and the same sigma, that of
\* the last buckets closed; what the tally compared are the buckets classified,
\* and the averaging window and the scores follow that count.
InStep(p, s, cfg) ==
  /\ IsPass(p)
  /\ p.closed \in Seq(Buckets)
  /\ p.engine.bucketer = s.bucketer
  /\ p.engine.sigma = s.sigma
  /\ SigmaIs(p.closed, p.engine.sigma, cfg.sigma_window)
  /\ s.compared = Cardinality(Classified(p.closed, cfg.sigma_window))
  /\ p.engine.imbalances \in Seq(Nat \X Nat)
  /\ Len(p.engine.imbalances) =
       IF s.compared < cfg.vpin_window THEN s.compared ELSE cfg.vpin_window
  /\ IsSequence(p.scored)
  /\ Len(p.scored) = ScoresOf(s.compared, cfg.vpin_window)

SweepInv ==
  /\ tape \in Seq(Trades)
  /\ Tallied
  /\ \A i \in Accepted : InStep(pass[i], bvc[Pair(i)], Config(i))

\* A score more makes the sequence one longer, whatever a score is.
LEMMA ScoredGrows ==
  ASSUME NEW scored, IsSequence(scored), NEW score
  PROVE  /\ IsSequence(Append(scored, score))
         /\ Len(Append(scored, score)) = Len(scored) + 1
<1>1. PICK S : scored \in Seq(S)
  BY DEF IsSequence
<1> DEFINE T == S \cup {score}
<1>2. scored \in Seq(T)
  <2>1. \A n \in 1..Len(scored) : scored[n] \in S
    BY <1>1
  <2> QED
    BY <1>1, <2>1
<1>3. score \in T
  OBVIOUS
<1> HIDE DEF T
<1>4. Append(scored, score) \in Seq(T) /\ Len(Append(scored, score)) = Len(scored) + 1
  BY <1>2, <1>3, AppendProperties
<1> QED
  BY <1>4, Zenon DEF IsSequence

\* The sweep starts with nothing read.
LEMMA SweepStarts == Init => SweepInv
<1> SUFFICES ASSUME Init PROVE SweepInv
  OBVIOUS
<1>1. tape \in Seq(Trades)
  BY DEF Init
<1>2. NewBucketer \in Bucketers
  BY DEF NewBucketer, Bucketers
<1>3. ASSUME NEW q \in AcceptedPairs
      PROVE  /\ bvc[q] = [bucketer |-> NewBucketer, sigma |-> <<>>, buy_vol |-> 0,
                         sell_vol |-> 0, correct |-> 0, compared |-> 0]
  BY Zenon DEF Init
<1>4. Tallied
  <2> SUFFICES ASSUME NEW q \in AcceptedPairs
               PROVE  /\ IsTally(bvc[q])
                      /\ bvc[q].bucketer \in Bucketers
                      /\ bvc[q].correct \in Nat
                      /\ bvc[q].compared \in Nat
                      /\ bvc[q].correct <= bvc[q].compared
    BY Zenon DEF Tallied
  <2> QED
    BY <1>2, <1>3 DEF IsTally
<1>5. ASSUME NEW i \in Accepted
      PROVE  InStep(pass[i], bvc[Pair(i)], Config(i))
  <2> DEFINE p == pass[i]
             s == bvc[Pair(i)]
             w == Config(i).sigma_window
             vw == Config(i).vpin_window
  <2>1. w \in Nat \ {0} /\ vw \in Nat \ {0} /\ Pair(i) \in AcceptedPairs
    BY AcceptedConfig
  <2>2. p = [engine |-> NewEngine, reading |-> None, intensity |-> <<>>,
             closed |-> <<>>, scored |-> <<>>]
    BY Zenon DEF Init
  <2>3. s = [bucketer |-> NewBucketer, sigma |-> <<>>, buy_vol |-> 0,
             sell_vol |-> 0, correct |-> 0, compared |-> 0]
    BY <1>3, <2>1, Zenon
  <2> HIDE DEF p, s, w, vw
  <2>4. /\ IsPass(p) /\ p.closed = <<>> /\ p.scored = <<>>
        /\ p.engine.bucketer = NewBucketer /\ p.engine.sigma = <<>>
        /\ p.engine.imbalances = <<>>
    BY <2>2 DEF IsPass, NewEngine
  <2>5. s.bucketer = NewBucketer /\ s.sigma = <<>> /\ s.compared = 0
    BY <2>3
  <2>6. SigmaIs(<<>>, <<>>, w)
    BY <2>1 DEF SigmaIs
  <2>7. Cardinality(Classified(<<>>, w)) = 0
    <3>1. Classified(<<>>, w) = {}
      BY DEF Classified
    <3> QED
      BY <3>1, FS_EmptySet
  <2>8. <<>> \in Seq(Buckets) /\ <<>> \in Seq(Nat \X Nat) /\ IsSequence(<<>>)
        /\ Len(<<>>) = 0
    BY DEF IsSequence
  <2>9. 0 = IF 0 < vw THEN 0 ELSE vw
    BY <2>1
  <2>10. 0 = ScoresOf(0, vw)
    BY <2>1 DEF ScoresOf
  <2>11. p.closed \in Seq(Buckets) /\ p.engine.imbalances \in Seq(Nat \X Nat)
         /\ IsSequence(p.scored) /\ SigmaIs(p.closed, p.engine.sigma, w)
    BY <2>4, <2>6, <2>8, Zenon
  <2>12. /\ p.engine.bucketer = s.bucketer /\ p.engine.sigma = s.sigma
         /\ s.compared = Cardinality(Classified(p.closed, w))
         /\ Len(p.engine.imbalances) = IF s.compared < vw THEN s.compared ELSE vw
         /\ Len(p.scored) = ScoresOf(s.compared, vw)
    BY <2>4, <2>5, <2>7, <2>8, <2>9, <2>10, Zenon
  <2> QED
    BY <2>4, <2>11, <2>12, Zenon DEF InStep, p, s, w, vw
<1> QED
  BY <1>1, <1>4, <1>5, Zenon DEF SweepInv

\* Both passes on the same trade: they close the same bucket, with the same
\* sigma before it.
LEMMA StaysInStep ==
  ASSUME NEW i \in Accepted, NEW p, NEW s, NEW t \in Trades, IsTally(s),
         s.bucketer \in Bucketers, s.correct \in Nat, s.compared \in Nat,
         InStep(p, s, Config(i))
  PROVE  InStep(CalibrateOne(i, p, t), BvcAccuracyStats(Pair(i), s, t), Config(i))
<1> DEFINE q == Pair(i)
           cfg == Config(i)
           w == cfg.sigma_window
           vw == cfg.vpin_window
           np == CalibrateOne(i, p, t)
           ns == BvcAccuracyStats(q, s, t)
           pushed == BucketerPush(s.bucketer, cfg.bucket_volume, t.price, t.volume)
           b == pushed.closed.some
           called == Classifiable(s.sigma, w)
           imbs == ImbalancesAfter(cfg, p.engine, b)
<1>1. /\ cfg.bucket_volume \in Nat /\ w \in Nat \ {0} /\ vw \in Nat \ {0}
      /\ q[1] = cfg.bucket_volume /\ q[2] = w
  BY AcceptedConfig
<1>2. /\ IsPass(p) /\ p.closed \in Seq(Buckets) /\ p.engine.bucketer = s.bucketer
      /\ p.engine.sigma = s.sigma /\ SigmaIs(p.closed, s.sigma, w)
      /\ s.compared = Cardinality(Classified(p.closed, w))
      /\ p.engine.imbalances \in Seq(Nat \X Nat)
      /\ Len(p.engine.imbalances) = IF s.compared < vw THEN s.compared ELSE vw
      /\ IsSequence(p.scored) /\ Len(p.scored) = ScoresOf(s.compared, vw)
  BY Zenon DEF InStep
<1>3. t.price \in Nat /\ t.volume \in Nat
  BY DEF Trades
<1>4. pushed.closed = None \/ \E x \in Buckets : pushed.closed = Some(x)
  <2>1. IsPush(pushed)
    BY <1>1, <1>3, BucketerPushType, Zenon
  <2> QED
    BY <2>1, Zenon DEF IsPush
<1>5. /\ ns.bucketer = pushed.bucketer
      /\ pushed.closed = None => ns.sigma = s.sigma /\ ns.compared = s.compared
      /\ pushed.closed # None =>
           /\ ns.sigma = Slide(s.sigma, b.delta_p, w)
           /\ ns.compared = s.compared + OneIf(called)
  <2>1. pushed = BucketerPush(s.bucketer, q[1], t.price, t.volume)
    BY <1>1, Zenon
  <2> HIDE DEF pushed, q
  <2>2. TallyStep(s, ns, pushed, q[2])
    BY <2>1, TallyAfter
  <2> QED
    BY <1>1, <2>2, Zenon DEF TallyStep
<1>6. /\ IsPass(np) /\ np.engine.bucketer = pushed.bucketer
      /\ pushed.closed = None =>
           /\ np.engine.sigma = p.engine.sigma
           /\ np.engine.imbalances = p.engine.imbalances
           /\ np.closed = p.closed
           /\ np.scored = p.scored
      /\ pushed.closed # None =>
           /\ np.engine.sigma = Slide(p.engine.sigma, b.delta_p, w)
           /\ np.engine.imbalances = imbs
           /\ np.closed = Append(p.closed, b)
           /\ \/ called /\ Len(imbs) = vw /\ \E score : np.scored = Append(p.scored, score)
              \/ ~(called /\ Len(imbs) = vw) /\ np.scored = p.scored
  <2>1. pushed = BucketerPush(p.engine.bucketer, cfg.bucket_volume, t.price, t.volume)
    BY <1>2, Zenon
  <2> HIDE DEF pushed
  <2>2. IsPass(np) /\ PassStep(cfg, p, np, pushed)
    BY <1>2, <2>1, PassAfter
  <2> QED
    BY <1>2, <2>2, Zenon DEF PassStep, Scores
<1> HIDE DEF np, ns, pushed
<1> SUFFICES InStep(np, ns, cfg)
  BY Zenon DEF np, ns
<1>7. CASE pushed.closed = None
  BY <1>2, <1>5, <1>6, <1>7, Zenon DEF InStep
<1>8. CASE pushed.closed # None
  <2>1. b \in Buckets
    BY <1>4, <1>8, SomeOrNone, Zenon
  <2> HIDE DEF b
  <2>2. /\ np.closed = Append(p.closed, b)
        /\ np.engine.sigma = Slide(s.sigma, b.delta_p, w)
        /\ ns.sigma = Slide(s.sigma, b.delta_p, w)
        /\ ns.compared = s.compared + OneIf(called)
        /\ np.engine.imbalances = imbs
    BY <1>2, <1>5, <1>6, <1>8, Zenon
  <2>3. /\ SigmaIs(np.closed, np.engine.sigma, w)
        /\ Append(p.closed, b) \in Seq(Buckets)
    <3>1. SigmaIs(Append(p.closed, b), Slide(s.sigma, b.delta_p, w), w)
      BY <1>1, <1>2, <2>1, SigmaSlides, Zenon
    <3>2. Append(p.closed, b) \in Seq(Buckets)
      BY <1>2, <2>1
    <3> QED
      BY <2>2, <3>1, <3>2, Zenon
  <2>4. ns.compared = Cardinality(Classified(np.closed, w))
    <3>1. Cardinality(Classified(Append(p.closed, b), w))
            = Cardinality(Classified(p.closed, w)) + OneIf(called)
      BY <1>1, <1>2, <2>1, ClassifiedCount, Zenon DEF OneIf
    <3> QED
      BY <1>2, <2>2, <3>1, Zenon
  <2>5. Len(p.engine.imbalances) <= vw
    BY <1>1, <1>2
  <2>6. /\ imbs \in Seq(Nat \X Nat)
        /\ Len(imbs) = IF called /\ Len(p.engine.imbalances) < vw
                       THEN Len(p.engine.imbalances) + 1 ELSE Len(p.engine.imbalances)
    BY <1>1, <1>2, <2>1, <2>5, ImbalancesGrow, Zenon
  <2> DEFINE k == s.compared
             nk == ns.compared
             n == Len(p.engine.imbalances)
             nn == Len(imbs)
  <2>7. nk = k + OneIf(called) /\ k \in Nat /\ n = IF k < vw THEN k ELSE vw
    BY <1>2, <2>2, Zenon
  <2>8. nn = IF called /\ n < vw THEN n + 1 ELSE n
    BY <2>6, Zenon
  <2>9. /\ IsSequence(np.scored)
        /\ Len(np.scored) = IF called /\ nn = vw THEN Len(p.scored) + 1 ELSE Len(p.scored)
    <3>1. IF called /\ nn = vw THEN \E score : np.scored = Append(p.scored, score)
          ELSE np.scored = p.scored
      BY <1>6, <1>8, Zenon
    <3> HIDE DEF called, nn
    <3>2. CASE called /\ nn = vw
      BY <1>2, <3>1, <3>2, ScoredGrows, Zenon
    <3>3. CASE ~(called /\ nn = vw)
      BY <1>2, <3>1, <3>3, Zenon
    <3> QED
      BY <3>2, <3>3
  <2> DEFINE m == Len(p.scored)
             nm == Len(np.scored)
  <2>10. m = ScoresOf(k, vw) /\ nm = IF called /\ nn = vw THEN m + 1 ELSE m
    BY <1>2, <2>9, Zenon
  <2>11. nn = IF nk < vw THEN nk ELSE vw
    <3> HIDE DEF called, k, nk, n, nn, w, vw
    <3> QED
      BY <1>1, <2>7, <2>8 DEF OneIf
  <2>12. nm = ScoresOf(nk, vw)
    <3> HIDE DEF called, k, nk, n, nn, w, vw, m, nm
    <3> QED
      BY <1>1, <2>7, <2>8, <2>10 DEF OneIf, ScoresOf
  <2> HIDE DEF k, nk, n, nn, m, nm
  <2>13. /\ IsPass(np) /\ np.closed \in Seq(Buckets) /\ np.engine.bucketer = ns.bucketer
         /\ np.engine.sigma = ns.sigma /\ np.engine.imbalances \in Seq(Nat \X Nat)
    BY <1>5, <1>6, <2>2, <2>3, <2>6, Zenon
  <2>14. Len(np.engine.imbalances) = IF ns.compared < vw THEN ns.compared ELSE vw
    BY <2>2, <2>11, Zenon DEF nn, nk
  <2>15. Len(np.scored) = ScoresOf(ns.compared, vw)
    BY <2>12, Zenon DEF nm, nk
  <2> QED
    BY <2>3, <2>4, <2>9, <2>13, <2>14, <2>15, Zenon DEF InStep
<1> QED
  BY <1>7, <1>8

\* A trade read by every pass keeps them in step.
LEMMA SweepStep == SweepInv /\ [Next]_vars => SweepInv'
<1> SUFFICES ASSUME SweepInv, [Next]_vars PROVE SweepInv'
  OBVIOUS
<1>1. CASE Next
  <2>1. PICK t \in TradesAt(Len(tape) + 1) : ReplayTrade(t)
    BY <1>1 DEF Next
  <2>2. tape \in Seq(Trades) /\ Len(tape) < MaxTrades /\ tape' = Append(tape, t)
    BY <2>1 DEF SweepInv, ReplayTrade
  <2>3. t \in Trades
    <3>1. Len(tape) + 1 \in 1..MaxTrades
      BY <2>2, CalibrateAssumption
    <3> QED
      BY <2>1, <3>1, CalibrateAssumption
  <2>4. tape' \in Seq(Trades)
    BY <2>2, <2>3
  <2>5. /\ \A i \in Accepted : pass'[i] = CalibrateOne(i, pass[i], t)
        /\ \A q \in AcceptedPairs : bvc'[q] = BvcAccuracyStats(q, bvc[q], t)
    BY <2>1, Zenon DEF ReplayTrade
  <2>6. Tallied'
    <3> SUFFICES ASSUME NEW q \in AcceptedPairs
                 PROVE  /\ IsTally(bvc'[q])
                        /\ bvc'[q].bucketer \in Bucketers
                        /\ bvc'[q].correct \in Nat
                        /\ bvc'[q].compared \in Nat
                        /\ bvc'[q].correct <= bvc'[q].compared
      BY Zenon DEF Tallied
    <3> DEFINE s == bvc[q]
               ns == bvc'[q]
               pushed == BucketerPush(s.bucketer, q[1], t.price, t.volume)
               called == Classifiable(s.sigma, q[2])
    <3>1. /\ IsTally(s) /\ s.bucketer \in Bucketers /\ s.correct \in Nat
          /\ s.compared \in Nat /\ s.correct <= s.compared
      BY Zenon DEF SweepInv, Tallied
    <3>2. IsTally(ns) /\ TallyStep(s, ns, pushed, q[2])
      <4>1. /\ IsTally(BvcAccuracyStats(q, s, t))
            /\ TallyStep(s, BvcAccuracyStats(q, s, t), pushed, q[2])
        <5> HIDE DEF s
        <5> QED
          BY <3>1, TallyAfter
      <4> QED
        BY <2>5, <4>1, Zenon
    <3>3. q[1] \in Nat
      BY ConfigType DEF AcceptedPairs, Pairs, Pair
    <3>4. t.price \in Nat /\ t.volume \in Nat
      BY <2>3 DEF Trades
    <3>5. pushed.bucketer \in Bucketers
      <4>1. IsPush(pushed)
        BY <3>1, <3>3, <3>4, BucketerPushType
      <4> QED
        BY <4>1, Zenon DEF IsPush
    <3> HIDE DEF s, ns, pushed, called
    <3>6. /\ ns.bucketer \in Bucketers
          /\ \/ ns.correct = s.correct /\ ns.compared = s.compared
             \/ /\ ns.correct \in {s.correct, s.correct + OneIf(called)}
                /\ ns.compared = s.compared + OneIf(called)
      BY <3>2, <3>5, Zenon DEF TallyStep, called
    <3>7. ns.correct \in Nat /\ ns.compared \in Nat /\ ns.correct <= ns.compared
      BY <3>1, <3>6 DEF OneIf
    <3> QED
      BY <3>2, <3>6, <3>7, Zenon DEF ns
  <2>7. ASSUME NEW i \in Accepted
        PROVE  InStep(pass[i], bvc[Pair(i)], Config(i))'
    <3> DEFINE p == pass[i]
               s == bvc[Pair(i)]
    <3>1. Pair(i) \in AcceptedPairs
      BY AcceptedConfig
    <3>2. /\ IsTally(s) /\ s.bucketer \in Bucketers /\ s.correct \in Nat
          /\ s.compared \in Nat /\ InStep(p, s, Config(i))
      BY <3>1, Zenon DEF SweepInv, Tallied
    <3>3. InStep(CalibrateOne(i, p, t), BvcAccuracyStats(Pair(i), s, t), Config(i))
      <4> HIDE DEF p, s
      <4> QED
        BY <2>3, <3>2, StaysInStep
    <3>4. InStep(pass'[i], bvc'[Pair(i)], Config(i))
      BY <2>5, <3>1, <3>3, Zenon
    <3> QED
      BY <3>4
  <2> QED
    BY <2>4, <2>6, <2>7, Zenon DEF SweepInv
<1>2. CASE UNCHANGED vars
  BY <1>2, Zenon DEF vars, SweepInv, Tallied
<1> QED
  BY <1>1, <1>2

\* The invariant that the two passes of the sweep are in step, on every tape.
THEOREM SweepInductive == Spec => []SweepInv
<1> QED
  BY SweepStarts, SweepStep, PTL DEF Spec

\* main.rs:259-274: for every list of volumes and windows and every tape, the
\* second pass, with a bucketer and a sigma of its own, calls exactly the
\* buckets the engine classifies, and there is a score for each of them once
\* the averaging window is full.
THEOREM SecondPassAgrees == Spec => []PassesAgree
<1>1. SweepInv => PassesAgree
  BY Zenon DEF SweepInv, InStep, ScoresOf, PassesAgree
<1> QED
  BY <1>1, SweepInductive, PTL

-----------------------------------------------------------------------------
(* The last few members of a growing set of bucket numbers *)

Above(C, i) == Cardinality({j \in C : j > i})

\* h lists the last n members of C, or all, in order.
Lists(h, C, n) ==
  /\ h \in Seq(Nat)
  /\ Len(h) = IF Cardinality(C) < n THEN Cardinality(C) ELSE n
  /\ \A m \in 1..Len(h) : h[m] \in C /\ Above(C, h[m]) = Len(h) - m
  /\ \A i \in C : Above(C, i) < n => \E m \in 1..Len(h) : h[m] = i

\* The list of nothing.
LEMMA ListsNothing ==
  ASSUME NEW n \in Nat
  PROVE  Lists(<<>>, {}, n)
<1>1. Cardinality({}) = 0
  BY FS_EmptySet
<1> QED
  BY <1>1 DEF Lists

\* A member above all others has one more above each of them.
LEMMA AboveGrows ==
  ASSUME NEW C \in SUBSET Nat, IsFiniteSet(C), NEW k \in Nat, \A i \in C : i < k
  PROVE  /\ \A i \in C : Above(C, i) \in Nat /\ Above(C \cup {k}, i) = Above(C, i) + 1
         /\ Above(C \cup {k}, k) = 0
<1>1. ASSUME NEW i \in C
      PROVE  Above(C, i) \in Nat /\ Above(C \cup {k}, i) = Above(C, i) + 1
  <2> DEFINE A == {j \in C : j > i}
  <2>1. IsFiniteSet(A)
    BY FS_Subset
  <2>2. {j \in C \cup {k} : j > i} = A \cup {k}
    OBVIOUS
  <2>3. k \notin A
    OBVIOUS
  <2> HIDE DEF A
  <2>4. Cardinality(A) \in Nat /\ Cardinality(A \cup {k}) = Cardinality(A) + 1
    BY <2>1, <2>3, FS_CardinalityType, FS_AddElement
  <2> QED
    BY <2>2, <2>4 DEF Above, A
<1>2. Above(C \cup {k}, k) = 0
  <2>1. {j \in C \cup {k} : j > k} = {}
    <3>1. \A j \in C \cup {k} : ~(j > k)
      OBVIOUS
    <3> QED
      BY <3>1, Zenon
  <2> QED
    BY <2>1, FS_EmptySet DEF Above
<1> QED
  BY <1>1, <1>2

\* A window of values goes on listing the last of them.
LEMMA ListsOneMore ==
  ASSUME NEW C \in SUBSET Nat, IsFiniteSet(C), NEW k \in Nat, \A i \in C : i < k,
         NEW n \in Nat \ {0}, NEW h, Lists(h, C, n)
  PROVE  Lists(Slide(h, k, n), C \cup {k}, n)
<1> DEFINE D == C \cup {k}
           s == Slide(h, k, n)
           c == Cardinality(C)
           l == Len(h)
<1>1. h \in Seq(Nat) /\ l \in Nat /\ c \in Nat /\ l = IF c < n THEN c ELSE n
  BY FS_CardinalityType DEF Lists
<1>2. l <= n
  BY <1>1
<1>3. s \in Seq(Nat) /\ SlidFrom(h, k, n, s)
  BY <1>1, <1>2, SlideIs
<1>4. Cardinality(D) = c + 1
  BY FS_AddElement
<1>5. \A i \in C : Above(C, i) \in Nat /\ Above(D, i) = Above(C, i) + 1
  BY AboveGrows
<1>6. Above(D, k) = 0
  BY AboveGrows
<1>7. \A m \in 1..l : h[m] \in C /\ Above(C, h[m]) = l - m
  BY DEF Lists
<1>8. \A i \in C : Above(C, i) < n => \E m \in 1..l : h[m] = i
  BY DEF Lists
<1> SUFFICES Lists(s, D, n)
  OBVIOUS
<1> HIDE DEF D, s, c
<1>9. \A m \in 1..l : h[m] \in D /\ Above(D, h[m]) = l - m + 1
  BY <1>5, <1>7 DEF D
<1>10. k \in D /\ \A i \in D : i \in C \/ i = k
  BY DEF D
<1>11. CASE l = n
  <2>1. /\ Len(s) = n /\ \A m \in 1..(n - 1) : s[m] = h[m + 1]
        /\ s[n] = k
    BY <1>3, <1>11, Zenon DEF SlidFrom
  <2>2. Len(s) = IF Cardinality(D) < n THEN Cardinality(D) ELSE n
    BY <1>1, <1>4, <1>11, <2>1
  <2>3. ASSUME NEW m \in 1..n PROVE s[m] \in D /\ Above(D, s[m]) = n - m
    <3>1. CASE m = n
      BY <1>6, <1>10, <2>1, <3>1
    <3>2. CASE m # n
      <4>1. m \in 1..(n - 1) /\ m + 1 \in 1..l /\ l - (m + 1) + 1 = n - m
        BY <1>11, <3>2
      <4> QED
        BY <1>9, <2>1, <4>1
    <3> QED
      BY <3>1, <3>2
  <2>4. ASSUME NEW i \in D, Above(D, i) < n PROVE \E m \in 1..n : s[m] = i
    <3>1. CASE i = k
      <4>1. n \in 1..n
        OBVIOUS
      <4> QED
        BY <2>1, <3>1, <4>1
    <3>2. CASE i \in C
      <4>1. Above(C, i) \in Nat /\ Above(C, i) + 1 < n
        BY <1>5, <2>4, <3>2
      <4>2. PICK m \in 1..l : h[m] = i
        BY <1>8, <3>2, <4>1
      <4>3. l - m + 1 < n
        BY <1>7, <4>1, <4>2
      <4>4. m - 1 \in 1..(n - 1) /\ (m - 1) + 1 = m /\ m - 1 \in 1..n
        BY <1>11, <4>3
      <4>5. s[m - 1] = i
        BY <2>1, <4>2, <4>4
      <4> QED
        BY <4>4, <4>5
    <3> QED
      BY <1>10, <3>1, <3>2
  <2> QED
    BY <1>3, <2>1, <2>2, <2>3, <2>4 DEF Lists
<1>12. CASE l # n
  <2>1. /\ Len(s) = l + 1 /\ \A m \in 1..l : s[m] = h[m]
        /\ s[l + 1] = k
    BY <1>3, <1>12, Zenon DEF SlidFrom
  <2>2. Len(s) = IF Cardinality(D) < n THEN Cardinality(D) ELSE n
    BY <1>1, <1>4, <1>12, <2>1
  <2>3. ASSUME NEW m \in 1..(l + 1) PROVE s[m] \in D /\ Above(D, s[m]) = (l + 1) - m
    <3>1. CASE m = l + 1
      BY <1>6, <1>10, <2>1, <3>1
    <3>2. CASE m # l + 1
      <4>1. m \in 1..l /\ l - m + 1 = (l + 1) - m
        BY <1>1, <3>2
      <4> QED
        BY <1>9, <2>1, <4>1
    <3> QED
      BY <3>1, <3>2
  <2>4. ASSUME NEW i \in D, Above(D, i) < n PROVE \E m \in 1..(l + 1) : s[m] = i
    <3>1. CASE i = k
      <4>1. l + 1 \in 1..(l + 1)
        BY <1>1
      <4> QED
        BY <2>1, <3>1, <4>1
    <3>2. CASE i \in C
      <4>1. Above(C, i) \in Nat /\ Above(C, i) < n
        BY <1>5, <2>4, <3>2
      <4>2. PICK m \in 1..l : h[m] = i
        BY <1>8, <3>2, <4>1
      <4>3. m \in 1..(l + 1) /\ s[m] = i
        BY <1>1, <2>1, <4>2
      <4> QED
        BY <4>3
    <3> QED
      BY <1>10, <3>1, <3>2
  <2> QED
    BY <1>3, <2>1, <2>2, <2>3, <2>4 DEF Lists
<1> QED
  BY <1>11, <1>12

\* What is listed is LastOf, each member once.
LEMMA ListsLast ==
  ASSUME NEW C, NEW n \in Nat, NEW h, Lists(h, C, n), IsFiniteSet(C)
  PROVE  /\ LastOf(C, n) = {h[m] : m \in 1..Len(h)}
         /\ \A m, o \in 1..Len(h) : h[m] = h[o] => m = o
         /\ Len(h) \in Nat /\ DOMAIN h = 1..Len(h)
<1>1. /\ h \in Seq(Nat) /\ Len(h) \in Nat /\ DOMAIN h = 1..Len(h)
      /\ \A m \in 1..Len(h) : h[m] \in C /\ Above(C, h[m]) = Len(h) - m
      /\ \A i \in C : Above(C, i) < n => \E m \in 1..Len(h) : h[m] = i
  BY DEF Lists
<1>2. Len(h) <= n
  BY FS_CardinalityType DEF Lists
<1>3. \A i : i \in LastOf(C, n) <=> i \in C /\ Above(C, i) < n
  BY Zenon DEF LastOf, Above
<1>4. \A m \in 1..Len(h) : Above(C, h[m]) < n
  BY <1>1, <1>2
<1>5. LastOf(C, n) = {h[m] : m \in 1..Len(h)}
  BY <1>1, <1>3, <1>4, Zenon
<1>6. \A m, o \in 1..Len(h) : h[m] = h[o] => m = o
  <2> SUFFICES ASSUME NEW m \in 1..Len(h), NEW o \in 1..Len(h), h[m] = h[o]
               PROVE  m = o
    OBVIOUS
  <2>1. Len(h) - m = Len(h) - o
    BY <1>1
  <2> QED
    BY <1>1, <2>1
<1> QED
  BY <1>1, <1>5, <1>6

\* xs holds, oldest first, what F says of the last n members of C, or of all.
Shows(xs, C, n, F) ==
  \E h : /\ Lists(h, C, n)
         /\ Len(h) = Len(xs)
         /\ \A m \in 1..Len(h) : xs[m] = F[h[m]]

\* A window of values follows the set it shows when that gets a last member.
LEMMA ShowsOneMore ==
  ASSUME NEW S, NEW xs \in Seq(S), NEW x \in S, NEW C \in SUBSET Nat,
         IsFiniteSet(C), NEW k \in Nat, \A i \in C : i < k, NEW n \in Nat \ {0},
         NEW F, NEW G, Shows(xs, C, n, F), \A i \in C : G[i] = F[i], G[k] = x
  PROVE  /\ Slide(xs, x, n) \in Seq(S)
         /\ Len(xs) <= n
         /\ Shows(Slide(xs, x, n), C \cup {k}, n, G)
<1>1. PICK h : /\ Lists(h, C, n) /\ Len(h) = Len(xs)
               /\ \A m \in 1..Len(h) : xs[m] = F[h[m]]
  BY Zenon DEF Shows
<1>2. /\ h \in Seq(Nat) /\ Len(h) \in Nat /\ Len(h) <= n
      /\ \A m \in 1..Len(h) : h[m] \in C
  <2>1. Len(h) = IF Cardinality(C) < n THEN Cardinality(C) ELSE n
    BY <1>1 DEF Lists
  <2>2. Cardinality(C) \in Nat
    BY FS_CardinalityType
  <2>3. Len(h) <= n
    BY <2>1, <2>2
  <2> QED
    BY <1>1, <2>3 DEF Lists
<1>3. \A m \in 1..Len(h) : xs[m] = G[h[m]]
  BY <1>1, <1>2, Zenon
<1> DEFINE s == Slide(h, k, n)
           y == Slide(xs, x, n)
<1>4. Lists(s, C \cup {k}, n)
  BY <1>1, ListsOneMore
<1>5. s \in Seq(Nat) /\ SlidFrom(h, k, n, s)
  BY <1>2, SlideIs
<1>6. y \in Seq(S) /\ SlidFrom(xs, x, n, y)
  BY <1>1, <1>2, SlideIs
<1> HIDE DEF s, y
<1>7. Len(s) = Len(y) /\ \A m \in 1..Len(s) : y[m] = G[s[m]]
  <2>1. CASE Len(h) = n
    <3>1. /\ Len(s) = n /\ \A m \in 1..(n - 1) : s[m] = h[m + 1]
          /\ s[n] = k
          /\ Len(y) = n /\ \A m \in 1..(n - 1) : y[m] = xs[m + 1]
          /\ y[n] = x
      BY <1>1, <1>5, <1>6, <2>1, Zenon DEF SlidFrom
    <3>2. ASSUME NEW m \in 1..n PROVE y[m] = G[s[m]]
      <4>1. CASE m = n
        BY <3>1, <4>1
      <4>2. CASE m # n
        <5>1. m \in 1..(n - 1) /\ m + 1 \in 1..Len(h)
          BY <2>1, <4>2
        <5> QED
          BY <1>3, <3>1, <5>1
      <4> QED
        BY <4>1, <4>2
    <3> QED
      BY <3>1, <3>2
  <2>2. CASE Len(h) # n
    <3>1. /\ Len(s) = Len(h) + 1 /\ \A m \in 1..Len(h) : s[m] = h[m]
          /\ s[Len(h) + 1] = k
          /\ Len(y) = Len(h) + 1 /\ \A m \in 1..Len(h) : y[m] = xs[m]
          /\ y[Len(h) + 1] = x
      BY <1>1, <1>5, <1>6, <2>2, Zenon DEF SlidFrom
    <3>2. ASSUME NEW m \in 1..(Len(h) + 1) PROVE y[m] = G[s[m]]
      <4>1. CASE m = Len(h) + 1
        BY <3>1, <4>1
      <4>2. CASE m # Len(h) + 1
        <5>1. m \in 1..Len(h)
          BY <1>2, <4>2
        <5> QED
          BY <1>3, <3>1, <5>1
      <4> QED
        BY <4>1, <4>2
    <3> QED
      BY <3>1, <3>2
  <2> QED
    BY <2>1, <2>2
<1>8. Shows(y, C \cup {k}, n, G)
  BY <1>4, <1>7, Zenon DEF Shows
<1> QED
  BY <1>1, <1>2, <1>6, <1>8, Zenon DEF y

\* Counting the entries of a window is counting the members it shows.
CountsShown(xs, C, n, F, v) ==
  /\ Cardinality({m \in DOMAIN xs : AtMost(xs[m], v)})
       = Cardinality({j \in LastOf(C, n) : AtMost(F[j], v)})
  /\ Len(xs) = IF Cardinality(C) < n THEN Cardinality(C) ELSE n
  /\ IsFiniteSet(LastOf(C, n)) /\ Cardinality(LastOf(C, n)) = Len(xs)

LEMMA CountShown ==
  ASSUME NEW xs, NEW C, IsFiniteSet(C), NEW n \in Nat, NEW F,
         Shows(xs, C, n, F), xs \in Seq(Nat \X Nat), NEW v
  PROVE  CountsShown(xs, C, n, F, v)
<1>1. PICK h : /\ Lists(h, C, n) /\ Len(h) = Len(xs)
               /\ \A m \in 1..Len(h) : xs[m] = F[h[m]]
  BY Zenon DEF Shows
<1>2. /\ LastOf(C, n) = {h[m] : m \in 1..Len(h)}
      /\ \A m, o \in 1..Len(h) : h[m] = h[o] => m = o
      /\ Len(h) \in Nat
  <2>1. Lists(h, C, n)
    BY <1>1
  <2>2. /\ LastOf(C, n) = {h[m] : m \in 1..Len(h)}
        /\ \A m, o \in 1..Len(h) : h[m] = h[o] => m = o
        /\ Len(h) \in Nat /\ DOMAIN h = 1..Len(h)
    BY <2>1, ListsLast
  <2> QED
    BY <2>2, Zenon
<1>3. DOMAIN xs = 1..Len(h) /\ IsFiniteSet(1..Len(h)) /\ Cardinality(1..Len(h)) = Len(h)
  <2> DEFINE l == Len(h)
  <2>1. l \in Nat /\ Len(xs) = l
    BY <1>1, <1>2, Zenon
  <2> HIDE DEF l
  <2>2. DOMAIN xs = 1..l
    BY <2>1
  <2>3. IsFiniteSet(1..l) /\ Cardinality(1..l) = l
    BY <2>1, FS_Interval
  <2> QED
    BY <2>2, <2>3, Zenon DEF l
<1> DEFINE D == 1..Len(h)
           L == LastOf(C, n)
           A == {m \in D : AtMost(xs[m], v)}
           B == {j \in L : AtMost(F[j], v)}
           f == [m \in A |-> h[m]]
           g == [m \in D |-> h[m]]
<1>4. \A m \in D : AtMost(xs[m], v) <=> AtMost(F[h[m]], v)
  BY <1>1, Zenon
<1>5. IsFiniteSet(A)
  BY <1>3, FS_Subset
<1>6. (\A m \in D : h[m] \in L) /\ (\A j \in L : \E m \in D : h[m] = j)
  BY <1>2, Zenon
<1>7. Cardinality(B) = Cardinality(A)
  <2>1. f \in [A -> B] /\ \A a, b \in A : f[a] = f[b] => a = b
    <3>1. \A m \in A : h[m] \in B
      BY <1>4, <1>6, Zenon
    <3>2. \A a, b \in A : h[a] = h[b] => a = b
      BY <1>2, Zenon
    <3> HIDE DEF A, B
    <3> QED
      BY <3>1, <3>2
  <2>2. \A j \in B : \E m \in A : f[m] = j
    <3> SUFFICES ASSUME NEW j \in B PROVE \E m \in A : f[m] = j
      OBVIOUS
    <3>1. PICK m \in D : h[m] = j
      BY <1>6, Zenon
    <3>2. m \in A
      BY <1>4, <3>1, Zenon
    <3>3. f[m] = j
      <4> HIDE DEF A
      <4> QED
        BY <3>1, <3>2
    <3> QED
      BY <3>2, <3>3
  <2> HIDE DEF f, A, B
  <2>3. f \in Bijection(A, B)
    BY <2>1, <2>2, Fun_IsBij, Zenon
  <2> QED
    BY <1>5, <2>3, FS_Bijection DEF ExistsBijection
<1>8. IsFiniteSet(L) /\ Cardinality(L) = Cardinality(D)
  <2>1. g \in [D -> L] /\ \A a, b \in D : g[a] = g[b] => a = b
    <3> HIDE DEF D, L
    <3> QED
      BY <1>2, <1>6 DEF D
  <2>2. \A j \in L : \E m \in D : g[m] = j
    BY <1>6
  <2> HIDE DEF g, D, L
  <2>3. g \in Bijection(D, L)
    BY <2>1, <2>2, Fun_IsBij, Zenon
  <2> QED
    BY <1>3, <2>3, FS_Bijection DEF ExistsBijection, D
<1>9. Len(xs) = IF Cardinality(C) < n THEN Cardinality(C) ELSE n
  BY <1>1, Zenon DEF Lists
<1> QED
  BY <1>1, <1>3, <1>7, <1>8, <1>9, Zenon DEF CountsShown

-----------------------------------------------------------------------------
(* The definition of VPIN, as an operator of the buckets closed *)

\* What bucket j enters the average with: its imbalance and its volume.
TermOf(closed, window, j) ==
  <<ImbalanceThirds(closed[j].delta_p, DeltasBefore(closed, window, j)) * closed[j].volume,
    closed[j].volume>>

UpTo(closed, window, k) == {j \in Classified(closed, window) : j <= k}

\* Every vpin the engine should have returned by bucket k
VpinOn(closed, cfg, k) ==
  LET upto == UpTo(closed, cfg.sigma_window, k)
      last == LastOf(upto, cfg.vpin_window)
      terms == [j \in last |-> TermOf(closed, cfg.sigma_window, j)] IN
  IF k \in upto /\ Cardinality(upto) >= cfg.vpin_window
  THEN Some(<<Total(last, [j \in last |-> terms[j][1]]),
              3 * Total(last, [j \in last |-> terms[j][2]])>>)
  ELSE None

\* Every bucket is made of numbers.
LEMMA TermType ==
  ASSUME NEW closed \in Seq(Buckets), NEW window, NEW j \in DOMAIN closed
  PROVE  /\ TermOf(closed, window, j) \in Nat \X Nat
         /\ TermOf(closed, window, j)[1] <= 3 * TermOf(closed, window, j)[2]
         /\ TermOf(closed, window, j)[2] = closed[j].volume
<1> DEFINE thirds == ImbalanceThirds(closed[j].delta_p, DeltasBefore(closed, window, j))
           v == closed[j].volume
<1>1. thirds \in 0..3
  BY ThirdsType
<1>2. v \in Nat
  <2>1. closed[j] \in Buckets
    OBVIOUS
  <2> QED
    BY <2>1 DEF Buckets
<1> HIDE DEF thirds, v
<1>3. thirds * v \in Nat /\ thirds * v <= 3 * v
  <2>1. thirds = 0 \/ thirds = 1 \/ thirds = 2 \/ thirds = 3
    BY <1>1
  <2> QED
    BY <1>2, <2>1
<1>4. TermOf(closed, window, j) = <<thirds * v, v>>
  BY Zenon DEF TermOf, thirds, v
<1> DEFINE x == thirds * v
<1> HIDE DEF x
<1>5. <<x, v>> \in Nat \X Nat /\ <<x, v>>[1] = x /\ <<x, v>>[2] = v
  BY <1>2, <1>3 DEF x
<1> QED
  BY <1>3, <1>4, <1>5, Zenon DEF x, v

\* Classified buckets are buckets, finitely many.
LEMMA ClassifiedType ==
  ASSUME NEW closed \in Seq(Buckets), NEW window, NEW k
  PROVE  /\ Classified(closed, window) \subseteq DOMAIN closed
         /\ UpTo(closed, window, k) \subseteq DOMAIN closed
         /\ DOMAIN closed = 1..Len(closed) /\ Len(closed) \in Nat
         /\ IsFiniteSet(Classified(closed, window))
         /\ IsFiniteSet(UpTo(closed, window, k))
<1>1. DOMAIN closed = 1..Len(closed) /\ Len(closed) \in Nat
  OBVIOUS
<1>2. IsFiniteSet(DOMAIN closed)
  BY <1>1, FS_Interval
<1>3. /\ Classified(closed, window) \subseteq DOMAIN closed
      /\ UpTo(closed, window, k) \subseteq DOMAIN closed
  BY DEF Classified, UpTo
<1> QED
  BY <1>1, <1>2, <1>3, FS_Subset

\* f1 and f2 are what these buckets enter the average with.
AddsTerms(closed, window, last, f1, f2) ==
  /\ last \subseteq DOMAIN closed
  /\ \A j \in last : /\ f1[j] = TermOf(closed, window, j)[1]
                     /\ f2[j] = TermOf(closed, window, j)[2]

\* The terms of some buckets are numbers to add.
LEMMA TermsAreNumbers ==
  ASSUME NEW closed \in Seq(Buckets), NEW window, NEW last, NEW f1, NEW f2,
         AddsTerms(closed, window, last, f1, f2)
  PROVE  Numbers(last, f1) /\ Numbers(last, f2)
<1>1. IsFiniteSet(last)
  <2>1. IsFiniteSet(DOMAIN closed)
    BY ClassifiedType, FS_Interval
  <2> QED
    BY <2>1, FS_Subset DEF AddsTerms
<1>2. ASSUME NEW j \in last PROVE f1[j] \in Int /\ f2[j] \in Int
  <2>1. /\ j \in DOMAIN closed /\ f1[j] = TermOf(closed, window, j)[1]
        /\ f2[j] = TermOf(closed, window, j)[2]
    BY DEF AddsTerms
  <2>2. TermOf(closed, window, j) \in Nat \X Nat
    BY <2>1, TermType
  <2> QED
    BY <2>1, <2>2
<1> QED
  BY <1>1, <1>2 DEF Numbers

\* One more bucket changes no earlier term, and the next one is made with the
\* sigma at hand.
LEMMA TermStable ==
  ASSUME NEW closed \in Seq(Buckets), NEW b \in Buckets, NEW window \in Nat \ {0},
         NEW sigma, SigmaIs(closed, sigma, window)
  PROVE  /\ \A j \in Classified(closed, window) :
              TermOf(Append(closed, b), window, j) = TermOf(closed, window, j)
         /\ Classifiable(sigma, window) =>
              TermOf(Append(closed, b), window, Len(closed) + 1)
                = <<ImbalanceThirds(b.delta_p, sigma) * b.volume, b.volume>>
<1> DEFINE after == Append(closed, b)
           len == Len(closed)
<1>1. len \in Nat /\ sigma \in Seq(Int)
  BY DEF SigmaIs
<1>2. (\A n \in 1..len : after[n] = closed[n]) /\ after[len + 1] = b
  BY AppendProperties
<1> HIDE DEF after, len
<1>3. ASSUME NEW j \in Classified(closed, window)
      PROVE  TermOf(after, window, j) = TermOf(closed, window, j)
  <2>1. j \in 1..len /\ j > window
    BY DEF Classified, len
  <2>2. \A n \in 1..window : j - window - 1 + n \in 1..len
    BY <1>1, <2>1
  <2>3. \A n \in 1..window : after[j - window - 1 + n].delta_p
                             = closed[j - window - 1 + n].delta_p
    BY <1>2, <2>2
  <2>4. DeltasBefore(after, window, j) = DeltasBefore(closed, window, j)
    BY <2>3, Zenon DEF DeltasBefore
  <2> QED
    BY <1>2, <2>1, <2>4, Zenon DEF TermOf
<1>4. ASSUME Classifiable(sigma, window)
      PROVE  DeltasBefore(after, window, len + 1) = sigma
  <2>1. Len(sigma) = window
    BY <1>4 DEF Classifiable
  <2>2. len >= window
    BY <1>1, <2>1 DEF SigmaIs, len
  <2>3. \A n \in 1..window : sigma[n] = closed[len - window + n].delta_p
    BY <2>2 DEF SigmaIs, len
  <2>4. \A n \in 1..window : /\ (len + 1) - window - 1 + n = len - window + n
                             /\ len - window + n \in 1..len
    BY <1>1, <2>2
  <2>5. \A n \in 1..window : sigma[n] = after[(len + 1) - window - 1 + n].delta_p
    BY <1>2, <2>3, <2>4
  <2>6. sigma = [n \in 1..window |-> sigma[n]]
    BY <1>1, <2>1
  <2>7. [n \in 1..window |-> sigma[n]]
          = [n \in 1..window |-> after[(len + 1) - window - 1 + n].delta_p]
    BY <2>5, Zenon
  <2> QED
    BY <2>6, <2>7, Zenon DEF DeltasBefore
<1>5. Classifiable(sigma, window) => TermOf(after, window, len + 1)
        = <<ImbalanceThirds(b.delta_p, sigma) * b.volume, b.volume>>
  BY <1>2, <1>4, Zenon DEF TermOf
<1> QED
  BY <1>3, <1>5, Zenon DEF after, len

\* One more bucket changes no earlier definition.
LEMMA VpinStable ==
  ASSUME NEW closed \in Seq(Buckets), NEW b \in Buckets, NEW cfg,
         NEW sigma, cfg.sigma_window \in Nat \ {0},
         SigmaIs(closed, sigma, cfg.sigma_window), NEW k \in 1..Len(closed)
  PROVE  VpinOn(Append(closed, b), cfg, k) = VpinOn(closed, cfg, k)
<1> DEFINE w == cfg.sigma_window
           after == Append(closed, b)
           C == UpTo(closed, w, k)
           last == LastOf(C, cfg.vpin_window)
           t == [j \in last |-> TermOf(closed, w, j)]
           u == [j \in last |-> TermOf(after, w, j)]
<1>1. w \in Nat \ {0} /\ Len(closed) \in Nat
  OBVIOUS
<1>2. UpTo(after, w, k) = C
  <2>1. Classified(after, w) = Classified(closed, w)
          \cup (IF Classifiable(sigma, w) THEN {Len(closed) + 1} ELSE {})
    BY ClassifiedGrows, Zenon
  <2>2. ~(Len(closed) + 1 <= k)
    BY <1>1
  <2> QED
    BY <2>1, <2>2, Zenon DEF UpTo
<1>4. last \subseteq C
  BY DEF LastOf
<1>5. \A j \in last : TermOf(after, w, j) = TermOf(closed, w, j)
  BY <1>4, TermStable, Zenon DEF UpTo
<1>6. t = u
  BY <1>5, Zenon
<1> QED
  BY <1>2, <1>6, Zenon DEF VpinOn

\* What is in the averaging window: the terms of the last buckets classified.
TermsOf(closed, window) ==
  [j \in Classified(closed, window) |-> TermOf(closed, window, j)]

WindowIs(imbs, closed, cfg) ==
  Shows(imbs, Classified(closed, cfg.sigma_window), cfg.vpin_window,
        TermsOf(closed, cfg.sigma_window))

\* What a window of VPINs over this window is: with the last bucket called and
\* the window full, the one the definition gives.
LEMMA VpinOnWindow ==
  ASSUME NEW closed \in Seq(Buckets), NEW cfg, cfg.vpin_window \in Nat \ {0},
         NEW imbs \in Seq(Nat \X Nat), WindowIs(imbs, closed, cfg)
  PROVE  VpinOn(closed, cfg, Len(closed)) =
           IF /\ Len(closed) \in Classified(closed, cfg.sigma_window)
              /\ Len(imbs) = cfg.vpin_window
           THEN Some(VpinOf(imbs, cfg)) ELSE None
<1> DEFINE w == cfg.sigma_window
           vw == cfg.vpin_window
           C == Classified(closed, w)
           k == Len(closed)
           last == LastOf(C, vw)
           t == [j \in last |-> TermOf(closed, w, j)]
           f1 == [j \in last |-> t[j][1]]
           f2 == [j \in last |-> t[j][2]]
           D == DOMAIN imbs
           g1 == [m \in D |-> imbs[m][1]]
           g2 == [m \in D |-> imbs[m][2]]
<1>1. C \subseteq 1..k /\ k \in Nat /\ IsFiniteSet(C) /\ vw \in Nat /\ vw # 0
  BY ClassifiedType
<1>2. UpTo(closed, w, k) = C
  BY <1>1 DEF UpTo
<1>3. PICK h : /\ Lists(h, C, vw) /\ Len(h) = Len(imbs)
               /\ \A m \in 1..Len(h) : imbs[m] = TermOf(closed, w, h[m])
  <2>1. PICK h : /\ Lists(h, C, vw) /\ Len(h) = Len(imbs)
                 /\ \A m \in 1..Len(h) : imbs[m] = TermsOf(closed, w)[h[m]]
    BY Zenon DEF WindowIs, Shows
  <2>2. \A m \in 1..Len(h) : h[m] \in C
    BY <2>1, Zenon DEF Lists
  <2> QED
    BY <2>1, <2>2, Zenon DEF TermsOf
<1>4. Cardinality(C) >= vw <=> Len(imbs) = vw
  <2>1. Len(h) = IF Cardinality(C) < vw THEN Cardinality(C) ELSE vw
    BY <1>3 DEF Lists
  <2>2. Cardinality(C) \in Nat
    BY <1>1, FS_CardinalityType
  <2> HIDE DEF C, vw
  <2> QED
    BY <1>1, <1>3, <2>1, <2>2
<1>5. /\ last = {h[m] : m \in 1..Len(h)}
      /\ \A m, o \in 1..Len(h) : h[m] = h[o] => m = o
      /\ Len(h) \in Nat
  BY SMTT(30), <1>1, <1>3, ListsLast
<1>6. D = 1..Len(h) /\ IsFiniteSet(D)
  BY <1>3, <1>5, FS_Interval
<1>7. last \subseteq DOMAIN closed
  BY <1>1 DEF LastOf
<1>8. \A j \in last : t[j] = TermOf(closed, w, j)
  OBVIOUS
<1> HIDE DEF C, last, t, D
<1>9. Numbers(last, f1) /\ Numbers(last, f2)
  <2>1. AddsTerms(closed, w, last, f1, f2)
    BY <1>7, <1>8, Zenon DEF AddsTerms
  <2> HIDE DEF f1, f2
  <2> QED
    BY <2>1, TermsAreNumbers
<1>10. \A m \in D : h[m] \in last /\ imbs[m] = t[h[m]]
  BY <1>3, <1>5, <1>6, <1>8
<1>11. \A m \in D : /\ f1[h[m]] \in Int /\ g1[m] = f1[h[m]]
                    /\ f2[h[m]] \in Int /\ g2[m] = f2[h[m]]
  BY <1>9, <1>10 DEF Numbers
<1>12. \A m, o \in D : h[m] = h[o] => m = o
  BY <1>5, <1>6
<1> HIDE DEF f1, f2, g1, g2
<1>13. last = {h[m] : m \in D}
  BY <1>5, <1>6
<1>14. Renames(h, D, g1, last, f1) /\ Renames(h, D, g2, last, f2)
  BY <1>6, <1>11, <1>12, <1>13, Zenon DEF Renames
<1>15. Total(D, g1) = Total(last, f1) /\ Total(D, g2) = Total(last, f2)
  BY <1>14, TotalReindex
<1>16. VpinOf(imbs, cfg) = <<Total(last, f1), 3 * Total(last, f2)>>
  <2>1. VpinOf(imbs, cfg) = <<Total(D, g1), 3 * Total(D, g2)>>
    BY ImbSum, VolSum, Zenon DEF VpinOf, D, g1, g2
  <2> QED
    BY <1>15, <2>1, Zenon
<1>17. VpinOn(closed, cfg, k) =
         IF k \in C /\ Cardinality(C) >= vw
         THEN Some(<<Total(last, f1), 3 * Total(last, f2)>>) ELSE None
  BY <1>2, Zenon DEF VpinOn, last, t, f1, f2
<1> QED
  BY <1>4, <1>16, <1>17, Zenon DEF C, last

\* update_vpin keeps the window that of the last buckets classified.
LEMMA WindowAfter ==
  ASSUME NEW closed \in Seq(Buckets), NEW b \in Buckets, NEW cfg, NEW e,
         cfg.sigma_window \in Nat \ {0}, cfg.vpin_window \in Nat \ {0},
         SigmaIs(closed, e.sigma, cfg.sigma_window),
         e.imbalances \in Seq(Nat \X Nat), WindowIs(e.imbalances, closed, cfg)
  PROVE  /\ WindowIs(ImbalancesAfter(cfg, e, b), Append(closed, b), cfg)
         /\ ImbalancesAfter(cfg, e, b) \in Seq(Nat \X Nat)
<1> DEFINE w == cfg.sigma_window
           vw == cfg.vpin_window
           after == Append(closed, b)
           imbs == e.imbalances
           x == <<ImbalanceThirds(b.delta_p, e.sigma) * b.volume, b.volume>>
           C == Classified(closed, w)
           k == Len(closed) + 1
           F == TermsOf(closed, w)
           G == TermsOf(after, w)
<1>1. C \in SUBSET Nat /\ k \in Nat /\ IsFiniteSet(C) /\ \A i \in C : i < k
  <2>1. /\ C \subseteq 1..Len(closed) /\ Len(closed) \in Nat /\ IsFiniteSet(C)
    BY ClassifiedType, Zenon
  <2> HIDE DEF C
  <2> QED
    BY <2>1
<1>2. w \in Nat \ {0} /\ vw \in Nat \ {0}
  OBVIOUS
<1>3. Classified(after, w) = C \cup (IF Classifiable(e.sigma, w) THEN {k} ELSE {})
  BY <1>2, ClassifiedGrows, Zenon
<1>4. /\ \A j \in C : TermOf(after, w, j) = TermOf(closed, w, j)
      /\ Classifiable(e.sigma, w) => TermOf(after, w, k) = x
  BY <1>2, TermStable, ZenonT(40)
<1>5. Shows(imbs, C, vw, F)
  BY Zenon DEF WindowIs
<1>6. \A j \in C : G[j] = F[j]
  BY <1>3, <1>4, Zenon DEF TermsOf
<1>7. CASE Classifiable(e.sigma, w)
  <2>1. ImbalancesAfter(cfg, e, b) = Slide(imbs, x, vw) /\ Classified(after, w) = C \cup {k}
    BY <1>3, <1>7, Zenon DEF ImbalancesAfter
  <2>2. G[k] = x
    BY <1>4, <1>7, <2>1, Zenon DEF TermsOf
  <2>3. x \in Nat \X Nat
    <3> DEFINE y == ImbalanceThirds(b.delta_p, e.sigma)
    <3>1. y \in Nat /\ b.volume \in Nat
      <4>1. y \in 0..3
        BY ThirdsType, Zenon
      <4> HIDE DEF y
      <4> QED
        BY <4>1 DEF Buckets
    <3> HIDE DEF y
    <3>2. y * b.volume \in Nat
      BY <3>1
    <3> QED
      BY <3>1, <3>2, Zenon DEF y
  <2> HIDE DEF x, C, k, F, G, imbs, w, vw, after
  <2>4. imbs \in Seq(Nat \X Nat)
    BY DEF imbs
  <2>5. /\ Slide(imbs, x, vw) \in Seq(Nat \X Nat)
        /\ Shows(Slide(imbs, x, vw), C \cup {k}, vw, G)
    <3> HIDE <1>3, <1>4, <1>7
    <3> QED
      BY <1>1, <1>2, <1>5, <1>6, <2>2, <2>3, <2>4, ShowsOneMore, ZenonT(40)
  <2> QED
    BY <2>1, <2>5, Zenon DEF WindowIs, G, after, w, vw
<1>8. CASE ~Classifiable(e.sigma, w)
  <2>1. Classified(after, w) = C /\ ImbalancesAfter(cfg, e, b) = imbs
    BY <1>3, <1>8, Zenon DEF ImbalancesAfter
  <2>2. G = F
    BY <1>4, <2>1, Zenon DEF TermsOf
  <2> QED
    BY <1>5, <2>1, <2>2, Zenon DEF WindowIs
<1> QED
  BY <1>7, <1>8

---------------------------------------------------------------------
(* Scores and ranks, as operators of the buckets closed *)

\* The buckets with a VPIN, and these
ScoredIn(closed, cfg) == {j \in DOMAIN closed : VpinOn(closed, cfg, j) # None}

VpinsOf(closed, cfg) == [j \in ScoredIn(closed, cfg) |-> VpinOn(closed, cfg, j).some]

\* What is in the window of ranks: the VPINs of the last buckets scored.
CdfIs(cdf, closed, cfg) ==
  cfg.cdf_window # None =>
    /\ cdf \in Seq(Nat \X Nat)
    /\ Shows(cdf, ScoredIn(closed, cfg), cfg.cdf_window.some, VpinsOf(closed, cfg))

\* The vpin_cdf the engine should have returned with the last bucket
CdfOn(closed, cfg) ==
  LET k == Len(closed)
      n == cfg.cdf_window.some
      scored == ScoredIn(closed, cfg)
      vpins == VpinsOf(closed, cfg) IN
  IF cfg.cdf_window # None /\ k \in scored /\ Cardinality(scored) >= n
  THEN Some(<<Cardinality({j \in LastOf(scored, n) : AtMost(vpins[j], vpins[k])}), n>>)
  ELSE None

\* Scored buckets are buckets, finitely many.
LEMMA ScoredType ==
  ASSUME NEW closed \in Seq(Buckets), NEW cfg
  PROVE  ScoredIn(closed, cfg) \subseteq 1..Len(closed) /\ IsFiniteSet(ScoredIn(closed, cfg))
<1>1. DOMAIN closed = 1..Len(closed) /\ Len(closed) \in Nat
  OBVIOUS
<1>2. ScoredIn(closed, cfg) \subseteq 1..Len(closed)
  BY <1>1, Zenon DEF ScoredIn
<1>3. IsFiniteSet(1..Len(closed))
  BY <1>1, FS_Interval
<1> QED
  BY <1>2, <1>3, FS_Subset, Zenon

\* What update_vpin makes of bucket b is its VPIN by definition.
LEMMA VpinAfterIs ==
  ASSUME NEW closed \in Seq(Buckets), NEW b \in Buckets, NEW cfg, NEW e,
         cfg.sigma_window \in Nat \ {0}, cfg.vpin_window \in Nat \ {0},
         SigmaIs(closed, e.sigma, cfg.sigma_window),
         e.imbalances \in Seq(Nat \X Nat), WindowIs(e.imbalances, closed, cfg)
  PROVE  /\ VpinOn(Append(closed, b), cfg, Len(closed) + 1) = VpinAfter(cfg, e, b)
         /\ VpinAfter(cfg, e, b) # None => VpinAfter(cfg, e, b).some \in Nat \X Nat
<1> DEFINE w == cfg.sigma_window
           after == Append(closed, b)
           k == Len(closed) + 1
           imbs == ImbalancesAfter(cfg, e, b)
           called == Classifiable(e.sigma, w)
<1>1. WindowIs(imbs, after, cfg) /\ imbs \in Seq(Nat \X Nat)
  BY WindowAfter
<1>2. after \in Seq(Buckets) /\ Len(after) = k
  OBVIOUS
<1>3. k \in Classified(after, w) <=> called
  <2>1. Classified(after, w)
          = Classified(closed, w) \cup (IF called THEN {k} ELSE {})
    BY ClassifiedGrows, Zenon
  <2>2. Classified(closed, w) \subseteq 1..Len(closed) /\ Len(closed) \in Nat
    BY ClassifiedType
  <2>3. k \notin Classified(closed, w)
    BY <2>2
  <2> HIDE DEF called, k
  <2> QED
    BY <2>1, <2>3
<1> HIDE DEF after, imbs
<1>4. VpinOn(after, cfg, Len(after)) =
        IF Len(after) \in Classified(after, w) /\ Len(imbs) = cfg.vpin_window
        THEN Some(VpinOf(imbs, cfg)) ELSE None
  BY <1>1, <1>2, VpinOnWindow
<1>5. VpinAfter(cfg, e, b) = IF called /\ Len(imbs) = cfg.vpin_window
                             THEN Some(VpinOf(imbs, cfg)) ELSE None
  BY Zenon DEF VpinAfter, imbs
<1>6. VpinOf(imbs, cfg) \in Nat \X Nat
  BY <1>1, VpinType, Zenon
<1>7. VpinOn(after, cfg, k) = VpinAfter(cfg, e, b)
  BY <1>2, <1>3, <1>4, <1>5, Zenon
<1>8. VpinAfter(cfg, e, b) # None => VpinAfter(cfg, e, b).some \in Nat \X Nat
  BY <1>5, <1>6, SomeOrNone, Zenon
<1> QED
  BY <1>7, <1>8, Zenon DEF after

\* A bucket more: it is the last one scored, if it has this VPIN, and nothing
\* else changes.
ScoresWith(closed, b, cfg, vpin) ==
  LET k == Len(closed) + 1
      scored == ScoredIn(closed, cfg)
      after == Append(closed, b) IN
  /\ ScoredIn(after, cfg) = IF vpin # None THEN scored \cup {k} ELSE scored
  /\ k \notin scored
  /\ \A j \in scored : VpinsOf(after, cfg)[j] = VpinsOf(closed, cfg)[j]
  /\ vpin # None => VpinsOf(after, cfg)[k] = vpin.some

LEMMA ScoresGrow ==
  ASSUME NEW closed \in Seq(Buckets), NEW b \in Buckets, NEW cfg, NEW e,
         cfg.sigma_window \in Nat \ {0}, cfg.vpin_window \in Nat \ {0},
         SigmaIs(closed, e.sigma, cfg.sigma_window),
         e.imbalances \in Seq(Nat \X Nat), WindowIs(e.imbalances, closed, cfg)
  PROVE  ScoresWith(closed, b, cfg, VpinAfter(cfg, e, b))
<1> DEFINE w == cfg.sigma_window
           vpin == VpinAfter(cfg, e, b)
           k == Len(closed) + 1
           scored == ScoredIn(closed, cfg)
           longer == Append(closed, b)
           after == ScoredIn(longer, cfg)
<1>1. Len(closed) \in Nat /\ DOMAIN closed = 1..Len(closed) /\ DOMAIN longer = 1..k
  OBVIOUS
<1>2. \A j \in 1..Len(closed) : VpinOn(longer, cfg, j) = VpinOn(closed, cfg, j)
  BY VpinStable, Zenon
<1>3. VpinOn(longer, cfg, k) = vpin
  BY VpinAfterIs, Zenon
<1>4. \A j : j \in 1..k <=> j \in 1..Len(closed) \/ j = k
  BY <1>1
<1>5. k \notin 1..Len(closed)
  BY <1>1
<1> HIDE DEF vpin, k, longer
<1>6. \A j : j \in scored <=> j \in 1..Len(closed) /\ VpinOn(closed, cfg, j) # None
  BY <1>1, Zenon DEF ScoredIn
<1>7. \A j : j \in after <=> j \in 1..k /\ VpinOn(longer, cfg, j) # None
  BY <1>1, Zenon DEF ScoredIn
<1>8. /\ \A j \in scored : VpinsOf(closed, cfg)[j] = VpinOn(closed, cfg, j).some
      /\ \A j \in after : VpinsOf(longer, cfg)[j] = VpinOn(longer, cfg, j).some
  BY Zenon DEF VpinsOf
<1> HIDE DEF scored, after
<1>9. after = IF vpin # None THEN scored \cup {k} ELSE scored
  BY <1>2, <1>3, <1>4, <1>6, <1>7, Zenon
<1>10. k \notin scored
  BY <1>5, <1>6, Zenon
<1>11. \A j \in scored : VpinsOf(longer, cfg)[j] = VpinsOf(closed, cfg)[j]
  BY <1>2, <1>6, <1>8, <1>9, Zenon
<1>12. vpin # None => VpinsOf(longer, cfg)[k] = vpin.some
  BY <1>3, <1>8, <1>9, Zenon
<1> QED
  BY <1>9, <1>10, <1>11, <1>12, Zenon DEF ScoresWith, vpin, k, scored, longer, after

\* push keeps the window that of the last buckets scored, and b's rank in it
\* is its rank by definition.
LEMMA RankAfterIs ==
  ASSUME NEW closed \in Seq(Buckets), NEW b \in Buckets, NEW cfg, NEW e,
         cfg.sigma_window \in Nat \ {0}, cfg.vpin_window \in Nat \ {0},
         cfg.cdf_window # None => cfg.cdf_window.some \in Nat \ {0},
         SigmaIs(closed, e.sigma, cfg.sigma_window),
         e.imbalances \in Seq(Nat \X Nat), WindowIs(e.imbalances, closed, cfg),
         CdfIs(e.cdf, closed, cfg)
  PROVE  /\ CdfIs(CdfAfter(cfg, e, b), Append(closed, b), cfg)
         /\ RankAfter(cfg, e, b) = CdfOn(Append(closed, b), cfg)
<1> DEFINE n == cfg.cdf_window.some
           after == Append(closed, b)
           vpin == VpinAfter(cfg, e, b)
           k == Len(closed) + 1
           scored == ScoredIn(closed, cfg)
           F == VpinsOf(closed, cfg)
           G == VpinsOf(after, cfg)
           cdf == CdfAfter(cfg, e, b)
<1>1. CASE cfg.cdf_window = None
  BY <1>1, Zenon DEF CdfIs, CdfOn, RankAfter
<1>2. CASE cfg.cdf_window # None
  <2>1. /\ ScoredIn(after, cfg) = IF vpin # None THEN scored \cup {k} ELSE scored
        /\ k \notin scored
        /\ \A j \in scored : G[j] = F[j]
        /\ vpin # None => G[k] = vpin.some
    <3>1. ScoresWith(closed, b, cfg, vpin)
      BY ScoresGrow
    <3> QED
      BY <3>1, Zenon DEF ScoresWith
  <2>2. n \in Nat \ {0} /\ e.cdf \in Seq(Nat \X Nat) /\ Shows(e.cdf, scored, n, F)
    BY <1>2, Zenon DEF CdfIs
  <2>3. vpin # None => vpin.some \in Nat \X Nat
    BY VpinAfterIs, Zenon
  <2>4. scored \in SUBSET Nat /\ IsFiniteSet(scored) /\ k \in Nat /\ \A j \in scored : j < k
    <3>1. scored \subseteq 1..Len(closed) /\ IsFiniteSet(scored)
      BY ScoredType
    <3> HIDE DEF scored
    <3> QED
      BY <3>1
  <2>5. Len(after) = k
    OBVIOUS
  <2>6. CASE vpin = None
    <3>1. /\ cdf = e.cdf /\ RankAfter(cfg, e, b) = None
          /\ ScoredIn(after, cfg) = scored
      BY <2>1, <2>6, Zenon DEF CdfAfter, RankAfter
    <3>2. Shows(cdf, scored, n, G)
      <4> HIDE DEF F, G, scored, n
      <4>1. PICK h : /\ Lists(h, scored, n) /\ Len(h) = Len(e.cdf)
                     /\ \A m \in 1..Len(h) : e.cdf[m] = F[h[m]]
        BY <2>2, Zenon DEF Shows
      <4>2. \A m \in 1..Len(h) : h[m] \in scored
        BY <4>1, Zenon DEF Lists
      <4>3. \A m \in 1..Len(h) : cdf[m] = G[h[m]]
        BY <2>1, <3>1, <4>1, <4>2, Zenon
      <4> QED
        BY <3>1, <4>1, <4>3, Zenon DEF Shows
    <3>3. CdfOn(after, cfg) = None
      BY <2>1, <2>5, <3>1, Zenon DEF CdfOn
    <3> QED
      BY <2>2, <3>1, <3>2, <3>3, Zenon DEF CdfIs
  <2>7. CASE vpin # None
    <3>1. /\ cdf = Slide(e.cdf, vpin.some, n)
          /\ RankAfter(cfg, e, b) = Rank(cdf, n, vpin.some)
          /\ ScoredIn(after, cfg) = scored \cup {k}
      BY <1>2, <2>1, <2>7, Zenon DEF CdfAfter, RankAfter
    <3> DEFINE v == vpin.some
               S == scored \cup {k}
    <3>2. v \in Nat \X Nat /\ G[k] = v
      BY <2>1, <2>3, <2>7, Zenon
    <3>3. IsFiniteSet(S)
      BY <2>4, FS_AddElement
    <3> HIDE DEF v, S, F, G, scored, n, cdf, k, after
    <3>4. cdf \in Seq(Nat \X Nat) /\ Shows(cdf, S, n, G)
      <4> DEFINE old == e.cdf
      <4>1. old \in Seq(Nat \X Nat) /\ Shows(old, scored, n, F)
        BY <2>2
      <4> HIDE DEF old
      <4>2. /\ Slide(old, v, n) \in Seq(Nat \X Nat)
            /\ Shows(Slide(old, v, n), scored \cup {k}, n, G)
        BY <2>1, <2>2, <2>4, <3>2, <4>1, ShowsOneMore
      <4> QED
        BY <3>1, <4>2, Zenon DEF old, v, S
    <3>5. CdfIs(cdf, after, cfg)
      BY <3>1, <3>4, Zenon DEF CdfIs, S, n, G
    <3>6. /\ Cardinality({m \in DOMAIN cdf : AtMost(cdf[m], v)})
               = Cardinality({j \in LastOf(S, n) : AtMost(G[j], v)})
          /\ Len(cdf) = IF Cardinality(S) < n THEN Cardinality(S) ELSE n
      <4>1. n \in Nat
        BY <2>2
      <4>2. CountsShown(cdf, S, n, G, v)
        BY <3>3, <3>4, <4>1, CountShown
      <4> QED
        BY <4>2, Zenon DEF CountsShown
    <3>7. Len(cdf) < n <=> ~(Cardinality(S) >= n)
      <4>1. Cardinality(S) \in Nat
        BY <3>3, FS_CardinalityType
      <4> QED
        BY <2>2, <3>6, <4>1
    <3>8. k \in S
      BY DEF S
    <3>9. CdfOn(after, cfg) =
            IF Cardinality(S) >= n
            THEN Some(<<Cardinality({j \in LastOf(S, n) : AtMost(G[j], G[k])}), n>>)
            ELSE None
      BY <1>2, <2>5, <3>1, <3>8, Zenon DEF CdfOn, S, n, G
    <3>10. Rank(cdf, n, v) = CdfOn(after, cfg)
      BY <3>2, <3>6, <3>7, <3>9, Zenon DEF Rank
    <3> QED
      BY <3>1, <3>5, <3>10, Zenon DEF cdf, after, v
  <2> QED
    BY <2>6, <2>7
<1> QED
  BY <1>1, <1>2

---------------------------------------------------------------------
(* The engine and the history of its buckets *)

\* The sum of DefinedVpin's numerator.
LEMMA ImbalanceSum ==
  ASSUME NEW closed \in Seq(Buckets), NEW window, NEW S, S \subseteq DOMAIN closed
  PROVE  SumOver(S, LAMBDA j : closed[j].volume *
           ImbalanceThirds(closed[j].delta_p, DeltasBefore(closed, window, j)))
         = Total(S, [j \in S |-> TermOf(closed, window, j)[1]])
<1> DEFINE g == [j \in S |-> TermOf(closed, window, j)[1]]
           f == [j \in S |-> TermOf(closed, window, j)[2]]
           Body(j) == closed[j].volume *
             ImbalanceThirds(closed[j].delta_p, DeltasBefore(closed, window, j))
           Fold(it) == it = [s \in SUBSET S |->
                              IF s = {} THEN 0
                              ELSE Body(PickOf(s)) + it[s \ {PickOf(s)}]]
           own == CHOOSE it : Fold(it)
<1>1. SumOver(S, LAMBDA j : Body(j)) = own[S]
  BY Zenon DEF SumOver, MapThenSumSet, MapThenFoldSet, PickOf
<1>2. ASSUME NEW j \in S PROVE Body(j) = g[j]
  <2> DEFINE v == closed[j].volume
             y == ImbalanceThirds(closed[j].delta_p, DeltasBefore(closed, window, j))
  <2>1. closed[j] \in Buckets
    OBVIOUS
  <2>2. v \in Nat /\ y \in Nat
    <3>1. y \in 0..3
      BY ThirdsType
    <3>2. v \in Nat
      BY <2>1 DEF Buckets
    <3> HIDE DEF y, v
    <3> QED
      BY <3>1, <3>2
  <2>3. g[j] = TermOf(closed, window, j)[1] /\ TermOf(closed, window, j) = <<y * v, v>>
    BY Zenon DEF TermOf
  <2> HIDE DEF v, y, g
  <2>4. v * y = y * v
    BY <2>2
  <2> DEFINE z == y * v
  <2> HIDE DEF z
  <2>5. <<z, v>>[1] = z
    OBVIOUS
  <2> QED
    BY <2>3, <2>4, <2>5, Zenon DEF z, v, y
<1>3. Numbers(S, g)
  <2>1. AddsTerms(closed, window, S, g, f)
    BY Zenon DEF AddsTerms
  <2> HIDE DEF g, f
  <2> QED
    BY <2>1, TermsAreNumbers
<1>4. \A s \in SUBSET S : s # {} => PickOf(s) \in S
  BY PickIn
<1> HIDE DEF Body, g
<1>5. ASSUME NEW it PROVE Fold(it) <=> IsSum(it, S, g)
  <2>1. \A s \in SUBSET S : (IF s = {} THEN 0 ELSE Body(PickOf(s)) + it[s \ {PickOf(s)}])
                              = SumBody(it, s, g)
    BY <1>2, <1>4, Zenon DEF SumBody
  <2> QED
    BY <2>1, Zenon DEF IsSum
<1>6. \E it : IsSum(it, S, g)
  BY <1>3, SumExists, Zenon
<1>7. IsSum(own, S, g)
  BY <1>5, <1>6, Zenon
<1> HIDE DEF own
<1>8. Total(S, g) = own[S]
  BY <1>3, <1>7, TotalFrom
<1> QED
  BY <1>1, <1>8, Zenon DEF Body, g

\* The sum of its denominator.
LEMMA VolumeSum ==
  ASSUME NEW closed \in Seq(Buckets), NEW window, NEW S, S \subseteq DOMAIN closed
  PROVE  SumOver(S, LAMBDA j : closed[j].volume)
         = Total(S, [j \in S |-> TermOf(closed, window, j)[2]])
<1> DEFINE g == [j \in S |-> TermOf(closed, window, j)[1]]
           f == [j \in S |-> TermOf(closed, window, j)[2]]
           h == VolumesOf(closed)
<1>1. \A j \in S : f[j] = h[j]
  <2>1. \A j \in S : TermOf(closed, window, j)[2] = closed[j].volume
    BY TermType
  <2> QED
    BY <2>1, Zenon DEF VolumesOf
<1>2. Numbers(S, f)
  <2>1. AddsTerms(closed, window, S, g, f)
    BY Zenon DEF AddsTerms
  <2> HIDE DEF g, f
  <2> QED
    BY <2>1, TermsAreNumbers
<1> HIDE DEF f, h
<1>3. Numbers(S, h) /\ Total(S, f) = Total(S, h)
  <2>1. Numbers(S, h)
    BY <1>1, <1>2 DEF Numbers
  <2> QED
    BY <1>1, <1>2, <2>1, TotalCongruence
<1>4. SumOver(S, LAMBDA j : closed[j].volume) = Total(S, h)
  BY <1>3, SumOfVolumes, Zenon DEF h
<1> QED
  BY <1>3, <1>4, Zenon DEF f

\* The definitions over a whole pass are those of its closed buckets.
LEMMA DefinedIs ==
  ASSUME NEW i, NEW k, pass[i].closed \in Seq(Buckets)
  PROVE  DefinedVpin(i, k) = VpinOn(pass[i].closed, Config(i), k)
<1> DEFINE closed == pass[i].closed
           w == Config(i).sigma_window
           vw == Config(i).vpin_window
           upto == UpTo(closed, w, k)
           last == LastOf(upto, vw)
           terms == [j \in last |-> TermOf(closed, w, j)]
           g == [j \in last |-> terms[j][1]]
           f == [j \in last |-> terms[j][2]]
<1>1. last \subseteq DOMAIN closed
  <2>1. upto \subseteq DOMAIN closed
    BY ClassifiedType
  <2> QED
    BY <2>1 DEF LastOf
<1>2. g = [j \in last |-> TermOf(closed, w, j)[1]] /\ f = [j \in last |-> TermOf(closed, w, j)[2]]
  <2>1. \A j \in last : terms[j] = TermOf(closed, w, j)
    OBVIOUS
  <2> HIDE DEF terms, last
  <2> QED
    BY <2>1, Zenon
<1> HIDE DEF last, g, f
<1>3. /\ SumOver(last, LAMBDA j : closed[j].volume *
           ImbalanceThirds(closed[j].delta_p, DeltasBefore(closed, w, j))) = Total(last, g)
      /\ SumOver(last, LAMBDA j : closed[j].volume) = Total(last, f)
  <2>1. SumOver(last, LAMBDA j : closed[j].volume *
           ImbalanceThirds(closed[j].delta_p, DeltasBefore(closed, w, j))) = Total(last, g)
    BY <1>1, <1>2, ImbalanceSum, Zenon
  <2>2. SumOver(last, LAMBDA j : closed[j].volume) = Total(last, f)
    BY <1>1, <1>2, VolumeSum, Zenon
  <2> QED
    BY <2>1, <2>2
<1>4. VpinOn(closed, Config(i), k) =
        IF k \in upto /\ Cardinality(upto) >= vw
        THEN Some(<<Total(last, g), 3 * Total(last, f)>>) ELSE None
  BY Zenon DEF VpinOn, last, g, f
<1>5. DefinedVpin(i, k) =
        IF k \in upto /\ Cardinality(upto) >= vw
        THEN Some(<<SumOver(last, LAMBDA j : closed[j].volume *
                      ImbalanceThirds(closed[j].delta_p, DeltasBefore(closed, w, j))),
                    3 * SumOver(last, LAMBDA j : closed[j].volume)>>)
        ELSE None
  BY Zenon DEF DefinedVpin, UpTo, last
<1> QED
  BY <1>3, <1>4, <1>5, Zenon

\* vpin_cdf at the last bucket of a pass.
LEMMA DefinedCdfIs ==
  ASSUME NEW i \in Accepted, pass[i].closed \in Seq(Buckets)
  PROVE  DefinedCdf(i, Len(pass[i].closed)) = CdfOn(pass[i].closed, Config(i))
<1> DEFINE closed == pass[i].closed
           cfg == Config(i)
           k == Len(closed)
           scored == ScoredIn(closed, cfg)
           n == CdfWindow.some
           vpins == VpinsOf(closed, cfg)
           A == {j \in LastOf(scored, n) : AtMost(DefinedVpin(i, j).some, DefinedVpin(i, k).some)}
           B == {j \in LastOf(scored, n) : AtMost(vpins[j], vpins[k])}
<1>1. \A j : DefinedVpin(i, j) = VpinOn(closed, cfg, j)
  BY DefinedIs, Zenon
<1>2. DOMAIN closed = 1..k
  OBVIOUS
<1> HIDE DEF closed, k
<1>3. {j \in 1..k : DefinedVpin(i, j) # None} = scored
  <2> DEFINE X == {j \in 1..k : DefinedVpin(i, j) # None}
  <2>1. \A j : j \in X <=> j \in 1..k /\ DefinedVpin(i, j) # None
    BY Zenon
  <2>2. \A j : j \in scored <=> j \in DOMAIN closed /\ VpinOn(closed, cfg, j) # None
    BY Zenon DEF ScoredIn
  <2> HIDE DEF X, scored
  <2>3. \A j : j \in X <=> j \in scored
    BY <1>1, <1>2, <2>1, <2>2, Zenon
  <2> QED
    BY <2>3, Zenon DEF X
<1>4. \A j \in scored : vpins[j] = DefinedVpin(i, j).some
  BY <1>1, Zenon DEF VpinsOf
<1>5. LastOf(scored, n) \subseteq scored
  BY Zenon DEF LastOf
<1>6. cfg.cdf_window = CdfWindow
  BY AcceptedConfig, Zenon
<1>7. DefinedCdf(i, k) =
        IF CdfWindow # None /\ k \in scored /\ Cardinality(scored) >= n
        THEN Some(<<Cardinality(A), n>>) ELSE None
  BY <1>3, Zenon DEF DefinedCdf
<1>8. CdfOn(closed, cfg) =
        IF CdfWindow # None /\ k \in scored /\ Cardinality(scored) >= n
        THEN Some(<<Cardinality(B), n>>) ELSE None
  BY <1>6, Zenon DEF CdfOn, k
<1>9. ASSUME k \in scored PROVE A = B
  BY <1>4, <1>5, <1>9, Zenon
<1> HIDE DEF A, B, scored
<1> DEFINE Full == CdfWindow # None /\ k \in scored /\ Cardinality(scored) >= n
<1>10. DefinedCdf(i, k) = CdfOn(closed, cfg)
  <2>1. CASE Full
    <3>1. A = B
      BY <1>9, <2>1
    <3>2. DefinedCdf(i, k) = Some(<<Cardinality(A), n>>)
      BY <1>7, <2>1, Zenon
    <3>3. CdfOn(closed, cfg) = Some(<<Cardinality(B), n>>)
      BY <1>8, <2>1, Zenon
    <3> QED
      BY <3>1, <3>2, <3>3
  <2>2. CASE ~Full
    <3>1. DefinedCdf(i, k) = None
      BY <1>7, <2>2, Zenon
    <3>2. CdfOn(closed, cfg) = None
      BY <1>8, <2>2, Zenon
    <3> QED
      BY <3>1, <3>2
  <2> QED
    BY <2>1, <2>2
<1> QED
  BY <1>10, Zenon DEF closed, k

\* What the engine keeps between trades, and its last reading, are what the
\* definitions say of the buckets closed so far.
History(p, cfg) ==
  LET k == Len(p.closed)
      r == p.reading.some IN
  /\ p.engine.bucketer.bucket_id = k
  /\ \A j \in DOMAIN p.closed : p.closed[j].volume >= cfg.bucket_volume
  /\ WindowIs(p.engine.imbalances, p.closed, cfg)
  /\ CdfIs(p.engine.cdf, p.closed, cfg)
  /\ p.reading # None =>
       /\ r.bucket.bucket_id = k - 1
       /\ r.vpin = VpinOn(p.closed, cfg, k)
       /\ r.vpin_cdf = CdfOn(p.closed, cfg)

HistoryInv == \A i \in Accepted : History(pass[i], Config(i))

\* Nothing is listed of nothing.
LEMMA ShowsNothing ==
  ASSUME NEW n \in Nat, NEW F
  PROVE  Shows(<<>>, {}, n, F)
<1>1. Lists(<<>>, {}, n)
  BY ListsNothing
<1>2. Len(<<>>) = 0 /\ 1..0 = {}
  OBVIOUS
<1> QED
  BY <1>1, <1>2 DEF Shows

LEMMA HistoryStarts == Init => HistoryInv
<1> SUFFICES ASSUME Init, NEW i \in Accepted
             PROVE  History(pass[i], Config(i))
  BY Zenon DEF HistoryInv
<1> DEFINE p == pass[i]
           cfg == Config(i)
<1>1. /\ cfg.vpin_window \in Nat \ {0} /\ cfg.cdf_window = CdfWindow
      /\ CdfWindow # None => CdfWindow.some \in Nat \ {0}
  BY AcceptedConfig
<1>2. p = [engine |-> NewEngine, reading |-> None, intensity |-> <<>>,
           closed |-> <<>>, scored |-> <<>>]
  BY Zenon DEF Init
<1> HIDE DEF p, cfg
<1>3. /\ p.closed = <<>> /\ p.reading = None /\ p.engine.bucketer.bucket_id = 0
      /\ p.engine.imbalances = <<>> /\ p.engine.cdf = <<>>
  BY <1>2 DEF NewEngine, NewBucketer
<1>4. Classified(<<>>, cfg.sigma_window) = {} /\ ScoredIn(<<>>, cfg) = {}
  BY DEF Classified, ScoredIn
<1>5. WindowIs(<<>>, <<>>, cfg)
  <2>1. Shows(<<>>, {}, cfg.vpin_window, TermsOf(<<>>, cfg.sigma_window))
    BY <1>1, ShowsNothing
  <2> QED
    BY <1>4, <2>1, Zenon DEF WindowIs
<1>6. CdfIs(<<>>, <<>>, cfg)
  <2> SUFFICES ASSUME cfg.cdf_window # None
               PROVE  /\ <<>> \in Seq(Nat \X Nat)
                      /\ Shows(<<>>, {}, cfg.cdf_window.some, VpinsOf(<<>>, cfg))
    BY <1>4, Zenon DEF CdfIs
  <2>1. cfg.cdf_window.some \in Nat
    BY <1>1
  <2>2. <<>> \in Seq(Nat \X Nat)
    OBVIOUS
  <2> QED
    BY <2>1, <2>2, ShowsNothing
<1>7. Len(<<>>) = 0 /\ DOMAIN <<>> = {}
  OBVIOUS
<1> QED
  BY <1>3, <1>5, <1>6, <1>7, Zenon DEF History, p, cfg

LEMMA HistoryGrows ==
  ASSUME NEW i \in Accepted, NEW p, NEW s, NEW t \in Trades,
         s.bucketer \in Bucketers, InStep(p, s, Config(i)), History(p, Config(i))
  PROVE  History(CalibrateOne(i, p, t), Config(i))
<1> DEFINE cfg == Config(i)
           e == p.engine
           np == CalibrateOne(i, p, t)
           pushed == BucketerPush(e.bucketer, cfg.bucket_volume, t.price, t.volume)
           b == pushed.closed.some
           k == Len(p.closed)
<1>1. /\ cfg.bucket_volume \in Nat /\ cfg.sigma_window \in Nat \ {0}
      /\ cfg.vpin_window \in Nat \ {0}
      /\ cfg.cdf_window # None => cfg.cdf_window.some \in Nat \ {0}
  BY AcceptedConfig
<1>2. /\ IsPass(p) /\ p.closed \in Seq(Buckets) /\ e.bucketer = s.bucketer
      /\ SigmaIs(p.closed, e.sigma, cfg.sigma_window)
      /\ e.imbalances \in Seq(Nat \X Nat)
  BY Zenon DEF InStep
<1>3. /\ e.bucketer.bucket_id = k
      /\ \A j \in DOMAIN p.closed : p.closed[j].volume >= cfg.bucket_volume
      /\ WindowIs(e.imbalances, p.closed, cfg)
      /\ CdfIs(e.cdf, p.closed, cfg)
  BY Zenon DEF History
<1>4. t.price \in Nat /\ t.volume \in Nat
  BY DEF Trades
<1>5. IsPush(pushed) /\ PushStep(e.bucketer, cfg.bucket_volume, t.volume, pushed)
  BY <1>1, <1>2, <1>4, BucketerPushType, Zenon
<1>6. PassStep(cfg, p, np, pushed)
  <2> HIDE DEF pushed
  <2> QED
    BY <1>2, PassAfter DEF pushed
<1> HIDE DEF np, pushed, cfg
<1> SUFFICES History(np, cfg)
  BY Zenon DEF np, cfg
<1>7. CASE pushed.closed = None
  <2>1. /\ np.engine.bucketer = pushed.bucketer /\ np.engine.imbalances = e.imbalances
        /\ np.engine.cdf = e.cdf /\ np.reading = None /\ np.closed = p.closed
    BY <1>6, <1>7, Zenon DEF PassStep
  <2>2. pushed.bucketer.bucket_id = k
    BY <1>3, <1>5, <1>7, Zenon DEF PushStep
  <2> QED
    BY <1>3, <2>1, <2>2, Zenon DEF History
<1>8. CASE pushed.closed # None
  <2> DEFINE after == Append(p.closed, b)
  <2>1. b \in Buckets
    BY <1>5, <1>8, SomeOrNone, Zenon DEF IsPush
  <2>2. /\ np.engine.bucketer = pushed.bucketer
        /\ np.engine.imbalances = ImbalancesAfter(cfg, e, b)
        /\ np.engine.cdf = CdfAfter(cfg, e, b)
        /\ np.reading = Some([bucket |-> b, vpin |-> VpinAfter(cfg, e, b),
                              vpin_cdf |-> RankAfter(cfg, e, b)])
        /\ np.closed = after
    BY <1>6, <1>8, Zenon DEF PassStep
  <2>3. /\ b.bucket_id = k /\ pushed.bucketer.bucket_id = k + 1
        /\ b.volume = e.bucketer.acc_volume + t.volume
        /\ ~(e.bucketer.acc_volume + t.volume < cfg.bucket_volume)
    BY <1>3, <1>5, <1>8, Zenon DEF PushStep
  <2>4. b.volume >= cfg.bucket_volume
    <3>1. b.volume \in Nat
      BY <2>1 DEF Buckets
    <3>2. ~(b.volume < cfg.bucket_volume)
      BY <2>3, Zenon
    <3> HIDE DEF b
    <3> QED
      BY <1>1, <3>1, <3>2
  <2> HIDE DEF b
  <2>5. k \in Nat /\ Len(after) = k + 1 /\ DOMAIN after = 1..(k + 1)
        /\ (\A j \in 1..k : after[j] = p.closed[j]) /\ after[k + 1] = b
    BY <1>2, <2>1
  <2>6. \A j \in DOMAIN after : after[j].volume >= cfg.bucket_volume
    <3>1. \A j \in 1..k : p.closed[j].volume >= cfg.bucket_volume
      BY <1>2, <1>3
    <3>2. \A j \in DOMAIN after : j \in 1..k \/ j = k + 1
      BY <2>5
    <3> QED
      BY <2>4, <2>5, <3>1, <3>2, Zenon
  <2>7. WindowIs(ImbalancesAfter(cfg, e, b), after, cfg)
    BY <1>1, <1>2, <1>3, <2>1, WindowAfter, Zenon
  <2>8. /\ CdfIs(CdfAfter(cfg, e, b), after, cfg)
        /\ RankAfter(cfg, e, b) = CdfOn(after, cfg)
    BY <1>1, <1>2, <1>3, <2>1, RankAfterIs, Zenon
  <2>9. VpinOn(after, cfg, k + 1) = VpinAfter(cfg, e, b)
    BY <1>1, <1>2, <1>3, <2>1, VpinAfterIs, Zenon
  <2>10. /\ np.reading.some.bucket = b
         /\ np.reading.some.vpin = VpinAfter(cfg, e, b)
         /\ np.reading.some.vpin_cdf = RankAfter(cfg, e, b)
    <3> DEFINE v == VpinAfter(cfg, e, b)
               c == RankAfter(cfg, e, b)
               r == [bucket |-> b, vpin |-> v, vpin_cdf |-> c]
    <3>1. np.reading.some = r
      BY <2>2, SomeOrNone, Zenon
    <3> HIDE DEF v, c
    <3>2. /\ np.reading.some.bucket = b /\ np.reading.some.vpin = v
          /\ np.reading.some.vpin_cdf = c
      BY <3>1
    <3> QED
      BY <3>2, Zenon DEF v, c
  <2>11. b.bucket_id = (k + 1) - 1
    BY <2>3, <2>5
  <2> HIDE DEF after, k
  <2> QED
    BY <2>2, <2>3, <2>5, <2>6, <2>7, <2>8, <2>9, <2>10, <2>11, Zenon DEF History
<1> QED
  BY <1>7, <1>8

\* A trade keeps every engine at its definitions.
LEMMA HistoryStep == SweepInv /\ HistoryInv /\ [Next]_vars => HistoryInv'
<1> SUFFICES ASSUME SweepInv, HistoryInv, [Next]_vars PROVE HistoryInv'
  OBVIOUS
<1>1. CASE Next
  <2>1. PICK t \in TradesAt(Len(tape) + 1) : ReplayTrade(t)
    BY <1>1 DEF Next
  <2>2. t \in Trades
    <3>1. tape \in Seq(Trades) /\ Len(tape) < MaxTrades
      BY <2>1 DEF SweepInv, ReplayTrade
    <3>2. Len(tape) + 1 \in 1..MaxTrades
      BY <3>1, CalibrateAssumption
    <3> QED
      BY <2>1, <3>2, CalibrateAssumption
  <2>3. \A i \in Accepted : pass'[i] = CalibrateOne(i, pass[i], t)
    BY <2>1, Zenon DEF ReplayTrade
  <2>4. ASSUME NEW i \in Accepted PROVE History(pass[i], Config(i))'
    <3> DEFINE p == pass[i]
               s == bvc[Pair(i)]
    <3>1. Pair(i) \in AcceptedPairs
      BY AcceptedConfig
    <3>2. s.bucketer \in Bucketers /\ InStep(p, s, Config(i)) /\ History(p, Config(i))
      BY <3>1, Zenon DEF SweepInv, Tallied, HistoryInv
    <3>3. History(CalibrateOne(i, p, t), Config(i))
      <4> HIDE DEF p, s
      <4> QED
        BY <2>2, <3>2, HistoryGrows
    <3>4. History(pass'[i], Config(i))
      BY <2>3, <3>3, Zenon
    <3> QED
      BY <3>4
  <2> QED
    BY <2>4, Zenon DEF HistoryInv
<1>2. CASE UNCHANGED vars
  BY <1>2, Zenon DEF vars, HistoryInv
<1> QED
  BY <1>1, <1>2

\* The invariant that the engine's windows and readings are those defined, on
\* every tape.
THEOREM HistoryInductive == Spec => []HistoryInv
<1> QED
  BY HistoryStarts, HistoryStep, SweepInductive, PTL DEF Spec

\* vpin.rs:338-345, 374-392: for every configuration and tape, the streaming
\* engine with its three windows returns what the definition says of the whole
\* history of buckets.
THEOREM EngineMatchesDefinition == Spec => []MatchesDefinition
<1>1. SweepInv /\ HistoryInv => MatchesDefinition
  <2> SUFFICES ASSUME SweepInv, HistoryInv, NEW i \in Accepted, pass[i].reading # None
               PROVE  LET k == Len(pass[i].closed)
                          r == pass[i].reading.some IN
                      /\ r.bucket.bucket_id = k - 1
                      /\ r.vpin = DefinedVpin(i, k)
                      /\ r.vpin_cdf = DefinedCdf(i, k)
    BY Zenon DEF MatchesDefinition
  <2>1. pass[i].closed \in Seq(Buckets)
    BY Zenon DEF SweepInv, InStep
  <2>2. History(pass[i], Config(i))
    BY Zenon DEF HistoryInv
  <2>3. /\ DefinedVpin(i, Len(pass[i].closed))
             = VpinOn(pass[i].closed, Config(i), Len(pass[i].closed))
        /\ DefinedCdf(i, Len(pass[i].closed)) = CdfOn(pass[i].closed, Config(i))
    BY <2>1, DefinedIs, DefinedCdfIs, Zenon
  <2> QED
    BY <2>2, <2>3, Zenon DEF History
<1> QED
  BY <1>1, SweepInductive, HistoryInductive, PTL

\* A VPIN is a fraction: no imbalance is above its bucket's volume, and the
\* window of a scored bucket has that bucket.
LEMMA VpinIsFraction ==
  ASSUME NEW closed \in Seq(Buckets), NEW cfg, cfg.vpin_window \in Nat \ {0},
         \A j \in DOMAIN closed : closed[j].volume > 0,
         NEW k, VpinOn(closed, cfg, k) # None
  PROVE  /\ k \in DOMAIN closed
         /\ VpinOn(closed, cfg, k).some \in Nat \X Nat
         /\ IsFraction(VpinOn(closed, cfg, k).some)
<1> DEFINE w == cfg.sigma_window
           upto == UpTo(closed, w, k)
           last == LastOf(upto, cfg.vpin_window)
           terms == [j \in last |-> TermOf(closed, w, j)]
           f1 == [j \in last |-> terms[j][1]]
           f2 == [j \in last |-> terms[j][2]]
           S1 == Total(last, f1)
           S2 == Total(last, f2)
<1>1. upto \subseteq DOMAIN closed /\ DOMAIN closed = 1..Len(closed) /\ Len(closed) \in Nat
  BY ClassifiedType
<1>2. VpinOn(closed, cfg, k) = IF k \in upto /\ Cardinality(upto) >= cfg.vpin_window
                               THEN Some(<<S1, 3 * S2>>) ELSE None
  BY Zenon DEF VpinOn
<1>3. k \in upto /\ VpinOn(closed, cfg, k).some = <<S1, 3 * S2>>
  BY <1>2, SomeOrNone, Zenon
<1>4. k \in last
  <2>1. {j \in upto : j > k} = {}
    <3>1. \A j \in upto : j \in Nat /\ j <= k
      BY <1>1 DEF UpTo
    <3>2. k \in Nat
      BY <1>1, <1>3
    <3> HIDE DEF upto
    <3> QED
      BY <3>1, <3>2
  <2>2. Cardinality({j \in upto : j > k}) = 0
    BY <2>1, FS_EmptySet
  <2> QED
    BY <1>3, <2>2 DEF LastOf
<1>5. last \subseteq DOMAIN closed
  BY <1>1 DEF LastOf
<1>6. AddsTerms(closed, w, last, f1, f2)
  <2>1. \A j \in last : terms[j] = TermOf(closed, w, j)
    OBVIOUS
  <2> HIDE DEF terms, last
  <2> QED
    BY <1>5, <2>1, Zenon DEF AddsTerms
<1>7. ASSUME NEW j \in last
      PROVE  0 <= f1[j] /\ f1[j] <= 3 * f2[j] /\ 0 <= f2[j] /\ f2[j] <= 1 * f2[j] /\ f2[j] > 0
  <2>1. f1[j] = TermOf(closed, w, j)[1] /\ f2[j] = TermOf(closed, w, j)[2]
    BY <1>6, Zenon DEF AddsTerms
  <2>2. /\ TermOf(closed, w, j) \in Nat \X Nat
        /\ TermOf(closed, w, j)[1] <= 3 * TermOf(closed, w, j)[2]
        /\ TermOf(closed, w, j)[2] = closed[j].volume
    BY <1>5, TermType
  <2>3. closed[j].volume > 0
    BY <1>5
  <2> DEFINE x == TermOf(closed, w, j)[1]
             y == TermOf(closed, w, j)[2]
  <2>4. x \in Nat /\ y \in Nat /\ x <= 3 * y /\ y > 0
    BY <2>2, <2>3
  <2> HIDE DEF x, y
  <2>5. 0 <= x /\ x <= 3 * y /\ 0 <= y /\ y <= 1 * y /\ y > 0
    BY <2>4
  <2> QED
    BY <2>1, <2>5, Zenon DEF x, y
<1> HIDE DEF last, f1, f2, S1, S2
<1>8. Numbers(last, f1) /\ Numbers(last, f2)
  BY <1>6, TermsAreNumbers
<1>9. S1 \in Int /\ S2 \in Int
  BY <1>8, TotalType DEF S1, S2
<1>10. 0 <= S1 /\ S1 <= 3 * S2
  BY <1>7, <1>8, TotalBounds DEF S1, S2
<1>11. f2[k] <= S2
  BY <1>4, <1>7, <1>8, TermInTotal DEF S2
<1>12. S2 > 0
  <2>1. f2[k] > 0 /\ f2[k] \in Int
    BY <1>4, <1>7, <1>8 DEF Numbers
  <2> QED
    BY <1>9, <1>11, <2>1
<1>13. S1 \in Nat /\ 3 * S2 \in Nat /\ 3 * S2 > 0
  BY <1>9, <1>10, <1>12
<1>14. <<S1, 3 * S2>> \in Nat \X Nat /\ IsFraction(<<S1, 3 * S2>>)
  BY <1>10, <1>13 DEF IsFraction
<1> QED
  BY <1>1, <1>3, <1>14, Zenon

\* vpin.rs:368-373: for every configuration and tape, a VPIN is between 0 and 1
\* and a rank a fraction of its window that counts the value itself.
THEOREM FractionsOnly == Spec => []ScoresAreFractions
<1>1. SweepInv /\ HistoryInv => ScoresAreFractions
  <2> SUFFICES ASSUME SweepInv, HistoryInv, NEW i \in Accepted, pass[i].reading # None
               PROVE  LET r == pass[i].reading.some IN
                      /\ r.vpin # None => IsFraction(r.vpin.some)
                      /\ r.vpin_cdf # None => /\ IsFraction(r.vpin_cdf.some)
                                              /\ r.vpin_cdf.some[1] > 0
    BY Zenon DEF ScoresAreFractions
  <2> DEFINE closed == pass[i].closed
             cfg == Config(i)
             cdf == pass[i].engine.cdf
             k == Len(closed)
             n == cfg.cdf_window.some
             scored == ScoredIn(closed, cfg)
             vpins == VpinsOf(closed, cfg)
             A == {j \in LastOf(scored, n) : AtMost(vpins[j], vpins[k])}
  <2>1. closed \in Seq(Buckets)
    BY Zenon DEF SweepInv, InStep
  <2>2. /\ \A j \in DOMAIN closed : closed[j].volume >= cfg.bucket_volume
        /\ CdfIs(cdf, closed, cfg)
        /\ pass[i].reading.some.vpin = VpinOn(closed, cfg, k)
        /\ pass[i].reading.some.vpin_cdf = CdfOn(closed, cfg)
    BY Zenon DEF HistoryInv, History
  <2>3. /\ cfg.bucket_volume \in Nat /\ cfg.bucket_volume # 0
        /\ cfg.vpin_window \in Nat \ {0}
        /\ cfg.cdf_window # None => n \in Nat \ {0}
    BY AcceptedConfig
  <2>4. \A j \in DOMAIN closed : closed[j].volume > 0
    <3> SUFFICES ASSUME NEW j \in DOMAIN closed PROVE closed[j].volume > 0
      OBVIOUS
    <3>1. closed[j] \in Buckets /\ closed[j].volume >= cfg.bucket_volume
      BY <2>1, <2>2
    <3>2. closed[j].volume \in Nat
      BY <3>1 DEF Buckets
    <3> QED
      BY <2>3, <3>1, <3>2
  <2> HIDE DEF closed, cfg, cdf
  <2>5. \A j : VpinOn(closed, cfg, j) # None =>
          /\ VpinOn(closed, cfg, j).some \in Nat \X Nat
          /\ IsFraction(VpinOn(closed, cfg, j).some)
    BY <2>1, <2>3, <2>4, VpinIsFraction, Zenon
  <2>6. ASSUME CdfOn(closed, cfg) # None
        PROVE  IsFraction(CdfOn(closed, cfg).some) /\ CdfOn(closed, cfg).some[1] > 0
    <3>1. /\ cfg.cdf_window # None /\ k \in scored
          /\ CdfOn(closed, cfg).some = <<Cardinality(A), n>>
      BY <2>6, SomeOrNone, Zenon DEF CdfOn
    <3>2. cdf \in Seq(Nat \X Nat) /\ Shows(cdf, scored, n, vpins)
      BY <2>2, <3>1, Zenon DEF CdfIs
    <3>3. n \in Nat /\ n # 0
      BY <2>3, <3>1
    <3>4. scored \subseteq 1..Len(closed) /\ IsFiniteSet(scored)
      BY <2>1, ScoredType
    <3>5. /\ Len(cdf) = IF Cardinality(scored) < n THEN Cardinality(scored) ELSE n
          /\ IsFiniteSet(LastOf(scored, n)) /\ Cardinality(LastOf(scored, n)) = Len(cdf)
      <4>1. CountsShown(cdf, scored, n, vpins, vpins[k])
        <5> HIDE DEF scored, n, vpins
        <5> QED
          BY <3>2, <3>3, <3>4, CountShown
      <4> QED
        BY <4>1, Zenon DEF CountsShown
    <3>6. IsFiniteSet(A) /\ Cardinality(A) \in Nat /\ Cardinality(A) <= Cardinality(LastOf(scored, n))
      <4> DEFINE last == LastOf(scored, n)
      <4>1. A \subseteq last /\ IsFiniteSet(last)
        BY <3>5
      <4> HIDE DEF A, last
      <4> QED
        BY <4>1, FS_Subset, FS_CardinalityType DEF last
    <3>7. k \in A
      <4>1. vpins[k] \in Nat \X Nat
        <5>1. vpins[k] = VpinOn(closed, cfg, k).some /\ VpinOn(closed, cfg, k) # None
          BY <3>1, Zenon DEF VpinsOf, ScoredIn
        <5> QED
          BY <2>5, <5>1, Zenon
      <4>2. AtMost(vpins[k], vpins[k])
        <5> DEFINE v == vpins[k]
        <5> HIDE DEF v
        <5>1. v[1] \in Nat /\ v[2] \in Nat
          BY <4>1 DEF v
        <5>2. v[1] * v[2] \in Nat
          BY <5>1
        <5>3. AtMost(v, v)
          BY <5>2 DEF AtMost
        <5> QED
          BY <5>3 DEF v
      <4>3. {j \in scored : j > k} = {}
        <5> HIDE DEF scored
        <5>1. \A j \in scored : ~(j > k)
          BY <2>1, <3>4
        <5> QED
          BY <5>1, Zenon
      <4>4. Cardinality({j \in scored : j > k}) = 0
        BY <4>3, FS_EmptySet
      <4>5. k \in LastOf(scored, n)
        <5> HIDE DEF scored, n, k
        <5> QED
          BY <3>1, <3>3, <4>4 DEF LastOf
      <4> QED
        BY <4>2, <4>5, Zenon
    <3> DEFINE c == Cardinality(A)
    <3>8. c # 0
      <4> HIDE DEF A
      <4> QED
        BY <3>6, <3>7, FS_EmptySet
    <3>9. c \in Nat /\ c <= n
      <4>1. Cardinality(scored) \in Nat
        BY <3>4, FS_CardinalityType
      <4> HIDE DEF A, scored, n
      <4> QED
        BY <3>3, <3>5, <3>6, <4>1
    <3> HIDE DEF A, n, c
    <3>10. IsFraction(<<c, n>>) /\ <<c, n>>[1] > 0
      BY <3>3, <3>8, <3>9 DEF IsFraction
    <3> QED
      BY <3>1, <3>10, Zenon DEF c
  <2> QED
    BY <2>2, <2>5, <2>6, Zenon
<1> QED
  BY <1>1, SweepInductive, HistoryInductive, PTL

---------------------------------------------------------------------
(* Buckets and the trades they are made of *)

\* Trades and buckets have numbers to add.
LEMMA BucketNumbers ==
  ASSUME NEW s, s \in Seq(Buckets) \/ s \in Seq(Trades)
  PROVE  /\ Len(s) \in Nat /\ DOMAIN s = 1..Len(s)
         /\ Numbers(1..Len(s), VolumesOf(s))
         /\ \A j \in 1..Len(s) : VolumesOf(s)[j] = s[j].volume /\ s[j].volume \in Nat
         /\ s \in Seq(Buckets) =>
              /\ Numbers(1..Len(s), CountsOf(s))
              /\ \A j \in 1..Len(s) : /\ CountsOf(s)[j] = s[j].trade_count
                                      /\ s[j].trade_count \in Nat
<1>1. Len(s) \in Nat /\ DOMAIN s = 1..Len(s)
  OBVIOUS
<1>2. IsFiniteSet(1..Len(s))
  BY <1>1, FS_Interval
<1>3. \A j \in 1..Len(s) : VolumesOf(s)[j] = s[j].volume /\ CountsOf(s)[j] = s[j].trade_count
  BY <1>1, Zenon DEF VolumesOf, CountsOf
<1>4. \A j \in 1..Len(s) : s[j].volume \in Nat
  <2>1. CASE s \in Seq(Buckets)
    <3>1. \A j \in 1..Len(s) : s[j] \in Buckets
      BY <2>1
    <3> QED
      BY <3>1 DEF Buckets
  <2>2. CASE s \in Seq(Trades)
    <3>1. \A j \in 1..Len(s) : s[j] \in Trades
      BY <2>2
    <3> QED
      BY <3>1 DEF Trades
  <2> QED
    BY <2>1, <2>2
<1>5. ASSUME s \in Seq(Buckets) PROVE \A j \in 1..Len(s) : s[j].trade_count \in Nat
  <2>1. \A j \in 1..Len(s) : s[j] \in Buckets
    BY <1>5
  <2> QED
    BY <2>1 DEF Buckets
<1>6. Numbers(1..Len(s), VolumesOf(s))
  <2>1. \A j \in 1..Len(s) : VolumesOf(s)[j] \in Int
    <3>1. \A j \in 1..Len(s) : VolumesOf(s)[j] \in Nat
      BY <1>3, <1>4, Zenon
    <3>2. \A v \in Nat : v \in Int
      OBVIOUS
    <3> QED
      BY <3>1, <3>2, Zenon
  <2> QED
    BY <1>2, <2>1, Zenon DEF Numbers
<1>7. s \in Seq(Buckets) => Numbers(1..Len(s), CountsOf(s))
  <2> SUFFICES ASSUME s \in Seq(Buckets) PROVE \A j \in 1..Len(s) : CountsOf(s)[j] \in Int
    BY <1>2, Zenon DEF Numbers
  <2>1. \A j \in 1..Len(s) : CountsOf(s)[j] \in Nat
    BY <1>3, <1>5, Zenon
  <2>2. \A v \in Nat : v \in Int
    OBVIOUS
  <2> QED
    BY <2>1, <2>2, Zenon
<1> QED
  BY <1>1, <1>3, <1>4, <1>5, <1>6, <1>7, Zenon

\* The last trade of the j-th bucket
LastTrade(closed, j) == Total(1..j, CountsOf(closed))

LEMMA SumIsLastTrade ==
  ASSUME NEW closed \in Seq(Buckets), NEW k \in 1..Len(closed)
  PROVE  SumOver(1..k, LAMBDA j : closed[j].trade_count) = LastTrade(closed, k)
<1> DEFINE m == Len(closed)
<1>1. m \in Nat /\ DOMAIN closed = 1..m /\ Numbers(1..m, CountsOf(closed))
  BY BucketNumbers, Zenon
<1>2. 1..k \subseteq 1..m /\ k \in Nat
  BY <1>1
<1>3. Numbers(1..k, CountsOf(closed))
  <2>1. IsFiniteSet(1..k)
    BY <1>2, FS_Interval
  <2> QED
    BY <1>1, <1>2, <2>1, Zenon DEF Numbers
<1>4. 1..k \subseteq DOMAIN closed
  BY <1>1, <1>2
<1> QED
  BY <1>3, <1>4, SumOfCounts, Zenon DEF LastTrade

\* The trades are those of the closed buckets and of the open one, in order, and
\* no bucket had reached the target before its last trade.
Partition(p, trades, cfg) ==
  LET n == Len(trades)
      k == Len(p.closed)
      open == p.engine.bucketer IN
  /\ Total(1..n, VolumesOf(trades)) = Total(1..k, VolumesOf(p.closed)) + open.acc_volume
  /\ n = LastTrade(p.closed, k) + open.trade_count
  /\ open.acc_volume < cfg.bucket_volume
  /\ \A j \in 1..k :
       /\ LastTrade(p.closed, j) \in 1..n
       /\ p.closed[j].volume - trades[LastTrade(p.closed, j)].volume < cfg.bucket_volume

PartitionInv == \A i \in Accepted : Partition(pass[i], tape, Config(i))

\* Nothing read is nothing in a bucket.
LEMMA PartitionStarts == Init => PartitionInv
<1> SUFFICES ASSUME Init, NEW i \in Accepted
             PROVE  Partition(pass[i], tape, Config(i))
  BY Zenon DEF PartitionInv
<1> DEFINE p == pass[i]
           cfg == Config(i)
<1>1. cfg.bucket_volume \in Nat /\ cfg.bucket_volume # 0
  BY AcceptedConfig
<1>2. p = [engine |-> NewEngine, reading |-> None, intensity |-> <<>>,
           closed |-> <<>>, scored |-> <<>>] /\ tape = <<>>
  BY Zenon DEF Init
<1> HIDE DEF p, cfg
<1>3. /\ p.closed = <<>> /\ p.engine.bucketer.acc_volume = 0
      /\ p.engine.bucketer.trade_count = 0 /\ tape = <<>>
  BY <1>2 DEF NewEngine, NewBucketer
<1>4. Len(<<>>) = 0 /\ 1..0 = {}
  OBVIOUS
<1>5. \A g : Total(1..0, g) = 0
  BY <1>4, TotalEmpty, Zenon
<1>6. LastTrade(<<>>, 0) = 0
  BY <1>5, Zenon DEF LastTrade
<1>7. 0 = 0 + 0 /\ 0 < cfg.bucket_volume
  BY <1>1
<1>8. \A j \in 1..0 : FALSE
  BY <1>4
<1> QED
  BY <1>3, <1>4, <1>5, <1>6, <1>7, <1>8, Zenon DEF Partition, p, cfg

\* A trade goes to the open bucket, which closes with it or stays open.
LEMMA PartitionGrows ==
  ASSUME NEW i \in Accepted, NEW p, NEW s, NEW t \in Trades, NEW trades \in Seq(Trades),
         s.bucketer \in Bucketers, InStep(p, s, Config(i)),
         Partition(p, trades, Config(i))
  PROVE  Partition(CalibrateOne(i, p, t), Append(trades, t), Config(i))
<1> DEFINE cfg == Config(i)
           target == cfg.bucket_volume
           e == p.engine
           open == e.bucketer
           np == CalibrateOne(i, p, t)
           pushed == BucketerPush(open, target, t.price, t.volume)
           b == pushed.closed.some
           closed == p.closed
           n == Len(trades)
           k == Len(closed)
           longer == Append(trades, t)
           paid == VolumesOf(trades)
           vols == VolumesOf(closed)
           counts == CountsOf(closed)
           acc == open.acc_volume
           tc == open.trade_count
<1>1. target \in Nat /\ target # 0
  BY AcceptedConfig
<1>2. IsPass(p) /\ closed \in Seq(Buckets) /\ open = s.bucketer
  BY Zenon DEF InStep
<1>3. /\ Total(1..n, paid) = Total(1..k, vols) + acc
      /\ n = LastTrade(closed, k) + tc
      /\ acc < target
      /\ \A j \in 1..k :
           /\ LastTrade(closed, j) \in 1..n
           /\ closed[j].volume - trades[LastTrade(closed, j)].volume < target
  BY Zenon DEF Partition
<1>4. t.price \in Nat /\ t.volume \in Nat
  BY DEF Trades
<1>5. IsPush(pushed) /\ PushStep(open, target, t.volume, pushed)
  BY <1>1, <1>2, <1>4, BucketerPushType, Zenon
<1>6. PassStep(cfg, p, np, pushed)
  <2> HIDE DEF pushed
  <2> QED
    BY <1>2, PassAfter DEF pushed
<1>7. acc \in Nat /\ tc \in Nat
  <2>1. open \in Bucketers
    BY <1>2, Zenon
  <2> QED
    BY <2>1 DEF Bucketers
<1>8. /\ n \in Nat /\ Numbers(1..n, paid)
      /\ \A j \in 1..n : paid[j] = trades[j].volume /\ trades[j].volume \in Nat
  BY BucketNumbers, Zenon
<1>9. /\ k \in Nat /\ Numbers(1..k, vols) /\ Numbers(1..k, counts)
      /\ \A j \in 1..k : /\ vols[j] = closed[j].volume /\ closed[j].volume \in Nat
                         /\ counts[j] = closed[j].trade_count
  BY <1>2, BucketNumbers, Zenon
<1>10. /\ longer \in Seq(Trades) /\ Len(longer) = n + 1
       /\ (\A j \in 1..n : longer[j] = trades[j]) /\ longer[n + 1] = t
  OBVIOUS
<1> DEFINE paid2 == VolumesOf(longer)
<1>11. Total(1..(n + 1), paid2) = Total(1..n, paid) + t.volume
  <2>1. \A j \in 1..(n + 1) : paid2[j] = longer[j].volume
    BY <1>10, BucketNumbers, Zenon
  <2>2. \A j \in 1..n : j \in 1..(n + 1)
    BY <1>8
  <2>3. \A j \in 1..n : paid2[j] = paid[j]
    BY <1>8, <1>10, <2>1, <2>2, Zenon
  <2>4. n + 1 \in 1..(n + 1)
    BY <1>8
  <2>5. paid2[n + 1] = t.volume
    BY <1>10, <2>1, <2>4, Zenon
  <2>6. paid2[n + 1] \in Int
    BY <1>4, <2>5
  <2> HIDE DEF paid, paid2, n
  <2>7. Total(1..(n + 1), paid2) = Total(1..n, paid) + paid2[n + 1]
    BY <1>8, <2>3, <2>6, TotalNext
  <2> QED
    BY <2>5, <2>7, Zenon
<1> HIDE DEF paid2
<1>12. Total(1..n, paid) \in Int /\ Total(1..k, vols) \in Int /\ LastTrade(closed, k) \in Int
  BY <1>8, <1>9, TotalType, Zenon DEF LastTrade
<1> HIDE DEF np, pushed, cfg, paid, vols, counts, longer
<1> SUFFICES Partition(np, longer, cfg)
  BY Zenon DEF np, cfg, longer
<1>13. CASE pushed.closed = None
  <2> DEFINE after == pushed.bucketer
  <2>1. np.engine.bucketer = after /\ np.closed = closed
    BY <1>6, <1>13, Zenon DEF PassStep
  <2>2. /\ acc + t.volume < target /\ after.acc_volume = acc + t.volume
        /\ after.trade_count = tc + 1
    BY <1>5, <1>13, Zenon DEF PushStep
  <2> DEFINE T == Total(1..n, paid)
             V == Total(1..k, vols)
             L == LastTrade(closed, k)
             v == t.volume
  <2>3. T + v = V + (acc + v) /\ n + 1 = L + (tc + 1)
    <3>1. T = V + acc /\ n = L + tc /\ T \in Int /\ V \in Int /\ L \in Int /\ v \in Nat
      BY <1>3, <1>4, <1>12
    <3> HIDE DEF T, V, L, v, n, tc, acc
    <3> QED
      BY <1>7, <1>8, <3>1
  <2>4. ASSUME NEW j \in 1..k
        PROVE  /\ LastTrade(closed, j) \in 1..(n + 1)
               /\ closed[j].volume - longer[LastTrade(closed, j)].volume < target
    <3>1. /\ LastTrade(closed, j) \in 1..n
          /\ closed[j].volume - trades[LastTrade(closed, j)].volume < target
      BY <1>3
    <3>2. LastTrade(closed, j) \in 1..(n + 1)
      BY <1>8, <3>1
    <3> QED
      BY <1>10, <3>1, <3>2, Zenon
  <2>5. Total(1..(n + 1), paid2) = Total(1..k, vols) + after.acc_volume
    BY <1>11, <2>2, <2>3, Zenon
  <2>6. n + 1 = LastTrade(closed, k) + after.trade_count
    BY <2>2, <2>3, Zenon
  <2> HIDE DEF after
  <2> QED
    BY <1>10, <2>1, <2>2, <2>4, <2>5, <2>6, Zenon DEF Partition, paid2, vols, cfg
<1>14. CASE pushed.closed # None
  <2> DEFINE after == pushed.bucketer
             more == Append(closed, b)
             vols2 == VolumesOf(more)
             counts2 == CountsOf(more)
  <2>1. b \in Buckets
    BY <1>5, <1>14, SomeOrNone, Zenon DEF IsPush
  <2>2. np.engine.bucketer = after /\ np.closed = more
    BY <1>6, <1>14, Zenon DEF PassStep
  <2>3. /\ b.volume = acc + t.volume /\ b.trade_count = tc + 1
        /\ after.acc_volume = 0 /\ after.trade_count = 0
    BY <1>5, <1>14, Zenon DEF PushStep
  <2> HIDE DEF b
  <2>4. /\ more \in Seq(Buckets) /\ Len(more) = k + 1
        /\ (\A j \in 1..k : more[j] = closed[j]) /\ more[k + 1] = b
    BY <1>2, <2>1
  <2> HIDE DEF more
  <2>5. \A j \in 1..(k + 1) : /\ vols2[j] = more[j].volume
                              /\ counts2[j] = more[j].trade_count
    BY <2>4, BucketNumbers, Zenon
  <2>6. /\ \A j \in 1..k : vols2[j] = vols[j] /\ counts2[j] = counts[j]
        /\ vols2[k + 1] = acc + t.volume /\ counts2[k + 1] = tc + 1
    <3>1. (\A j \in 1..k : j \in 1..(k + 1)) /\ k + 1 \in 1..(k + 1)
      BY <1>9
    <3> HIDE DEF vols2, counts2, k
    <3> QED
      BY <1>9, <2>3, <2>4, <2>5, <3>1, Zenon
  <2>7. acc + t.volume \in Int /\ tc + 1 \in Int
    BY <1>4, <1>7
  <2> HIDE DEF vols2, counts2
  <2>8. Total(1..(k + 1), vols2) = Total(1..k, vols) + (acc + t.volume)
    <3> DEFINE x == acc + t.volume
    <3>1. vols2[k + 1] = x /\ vols2[k + 1] \in Int
      BY <2>6, <2>7
    <3>2. k \in Nat /\ Numbers(1..k, vols) /\ \A j \in 1..k : vols2[j] = vols[j]
      BY <1>9, <2>6, Zenon
    <3> HIDE DEF k, x
    <3>3. Total(1..(k + 1), vols2) = Total(1..k, vols) + vols2[k + 1]
      BY <3>1, <3>2, TotalNext
    <3> QED
      BY <3>1, <3>3, Zenon DEF x
  <2>9. /\ \A j \in 0..k : LastTrade(more, j) = LastTrade(closed, j)
        /\ LastTrade(more, k + 1) = LastTrade(closed, k) + (tc + 1)
    <3> DEFINE x == tc + 1
    <3>1. counts2[k + 1] = x /\ counts2[k + 1] \in Int
      BY <2>6, <2>7
    <3>2. k \in Nat /\ Numbers(1..k, counts) /\ \A j \in 1..k : counts2[j] = counts[j]
      BY <1>9, <2>6, Zenon
    <3> HIDE DEF k, x
    <3>3. /\ \A j \in 0..k : Total(1..j, counts2) = Total(1..j, counts)
          /\ Total(1..(k + 1), counts2) = Total(1..k, counts) + counts2[k + 1]
      BY <3>1, <3>2, TotalNext
    <3> QED
      BY <3>1, <3>3, Zenon DEF LastTrade, counts, counts2, x
  <2> DEFINE T == Total(1..n, paid)
             V == Total(1..k, vols)
             L == LastTrade(closed, k)
             v == t.volume
  <2>10. /\ T + v = (V + (acc + v)) + 0 /\ n + 1 = (L + (tc + 1)) + 0
         /\ L + (tc + 1) = n + 1
    <3>1. T = V + acc /\ n = L + tc /\ T \in Int /\ V \in Int /\ L \in Int /\ v \in Nat
      BY <1>3, <1>4, <1>12
    <3> HIDE DEF T, V, L, v, n, tc, acc
    <3> QED
      BY <1>7, <1>8, <3>1
  <2>11. ASSUME NEW j \in 1..(k + 1)
         PROVE  /\ LastTrade(more, j) \in 1..(n + 1)
                /\ more[j].volume - longer[LastTrade(more, j)].volume < target
    <3>1. CASE j \in 1..k
      <4>1. /\ LastTrade(closed, j) \in 1..n
            /\ closed[j].volume - trades[LastTrade(closed, j)].volume < target
        BY <1>3, <3>1
      <4>2. j \in 0..k
        BY <1>9, <3>1
      <4>3. LastTrade(more, j) = LastTrade(closed, j) /\ more[j] = closed[j]
        BY <2>4, <2>9, <3>1, <4>2
      <4>4. LastTrade(closed, j) \in 1..(n + 1)
        BY <1>8, <4>1
      <4> QED
        BY <1>10, <4>1, <4>3, <4>4, Zenon
    <3>2. CASE j = k + 1
      <4>1. LastTrade(more, j) = n + 1 /\ more[j].volume = acc + t.volume
        BY <2>3, <2>4, <2>9, <2>10, <3>2, Zenon
      <4>2. longer[LastTrade(more, j)].volume = t.volume
        BY <1>10, <4>1, Zenon
      <4>3. (acc + t.volume) - t.volume < target /\ n + 1 \in 1..(n + 1)
        BY <1>1, <1>3, <1>4, <1>7, <1>8
      <4> QED
        BY <4>1, <4>2, <4>3, Zenon
    <3> QED
      BY <1>9, <3>1, <3>2
  <2>12. Total(1..(n + 1), paid2) = Total(1..(k + 1), vols2) + after.acc_volume
    BY <1>11, <2>3, <2>8, <2>10, Zenon
  <2>13. n + 1 = LastTrade(more, k + 1) + after.trade_count
    BY <2>3, <2>9, <2>10, Zenon
  <2>14. after.acc_volume < target
    BY <1>1, <2>3
  <2> HIDE DEF after
  <2> QED
    BY <1>10, <2>2, <2>4, <2>11, <2>12, <2>13, <2>14, Zenon DEF Partition, paid2, vols2, cfg
<1> QED
  BY <1>13, <1>14

\* A trade read by every pass keeps every partition.
LEMMA PartitionStep == SweepInv /\ PartitionInv /\ [Next]_vars => PartitionInv'
<1> SUFFICES ASSUME SweepInv, PartitionInv, [Next]_vars PROVE PartitionInv'
  OBVIOUS
<1>1. CASE Next
  <2>1. PICK t \in TradesAt(Len(tape) + 1) : ReplayTrade(t)
    BY <1>1 DEF Next
  <2>2. tape \in Seq(Trades) /\ t \in Trades
    <3>1. tape \in Seq(Trades) /\ Len(tape) < MaxTrades
      BY <2>1 DEF SweepInv, ReplayTrade
    <3>2. Len(tape) + 1 \in 1..MaxTrades
      BY <3>1, CalibrateAssumption
    <3> QED
      BY <2>1, <3>1, <3>2, CalibrateAssumption
  <2>3. /\ \A i \in Accepted : pass'[i] = CalibrateOne(i, pass[i], t)
        /\ tape' = Append(tape, t)
    BY <2>1, Zenon DEF ReplayTrade
  <2>4. ASSUME NEW i \in Accepted PROVE Partition(pass[i], tape, Config(i))'
    <3> DEFINE p == pass[i]
               s == bvc[Pair(i)]
    <3>1. Pair(i) \in AcceptedPairs
      BY AcceptedConfig
    <3>2. /\ s.bucketer \in Bucketers /\ InStep(p, s, Config(i))
          /\ Partition(p, tape, Config(i))
      BY <3>1, Zenon DEF SweepInv, Tallied, PartitionInv
    <3>3. Partition(CalibrateOne(i, p, t), Append(tape, t), Config(i))
      <4> HIDE DEF p, s
      <4> QED
        BY <2>2, <3>2, PartitionGrows
    <3>4. Partition(pass'[i], tape', Config(i))
      BY <2>3, <3>3, Zenon
    <3> QED
      BY <3>4
  <2> QED
    BY <2>4, Zenon DEF PartitionInv
<1>2. CASE UNCHANGED vars
  BY <1>2, Zenon DEF vars, PartitionInv
<1> QED
  BY <1>1, <1>2

\* The invariant that the buckets partition the trades, on every tape.
THEOREM PartitionInductive == Spec => []PartitionInv
<1> QED
  BY PartitionStarts, PartitionStep, SweepInductive, PTL DEF Spec

\* bucket.rs:59-71: for every configuration and tape, no volume and no trade is
\* lost or counted twice between buckets, and every closed bucket reached the
\* target with its last trade and not before.
THEOREM TradesArePartitioned == Spec => []BucketsPartitionTrades
<1>1. SweepInv /\ HistoryInv /\ PartitionInv => BucketsPartitionTrades
  <2> SUFFICES ASSUME SweepInv, HistoryInv, PartitionInv, NEW i \in Accepted
               PROVE  LET closed == pass[i].closed
                          open == pass[i].engine.bucketer
                          target == Config(i).bucket_volume IN
                      /\ SeqSum(tape, LAMBDA t : t.volume) =
                           SeqSum(closed, LAMBDA b : b.volume) + open.acc_volume
                      /\ Len(tape) = SeqSum(closed, LAMBDA b : b.trade_count)
                                       + open.trade_count
                      /\ \A k \in DOMAIN closed :
                           LET last == SumOver(1..k, LAMBDA j : closed[j].trade_count) IN
                           /\ closed[k].volume >= target
                           /\ closed[k].volume - tape[last].volume < target
    BY Zenon DEF BucketsPartitionTrades
  <2> DEFINE closed == pass[i].closed
             open == pass[i].engine.bucketer
             target == Config(i).bucket_volume
             n == Len(tape)
             m == Len(closed)
  <2>1. tape \in Seq(Trades) /\ closed \in Seq(Buckets)
    BY Zenon DEF SweepInv, InStep
  <2>2. /\ Total(1..n, VolumesOf(tape)) = Total(1..m, VolumesOf(closed)) + open.acc_volume
        /\ n = LastTrade(closed, m) + open.trade_count
        /\ \A j \in 1..m :
             closed[j].volume - tape[LastTrade(closed, j)].volume < target
    BY Zenon DEF PartitionInv, Partition
  <2>3. \A j \in DOMAIN closed : closed[j].volume >= target
    BY Zenon DEF HistoryInv, History
  <2> HIDE DEF closed, open, target
  <2>4. n \in Nat /\ DOMAIN tape = 1..n /\ Numbers(1..n, VolumesOf(tape))
    BY <2>1, BucketNumbers, Zenon
  <2>5. /\ m \in Nat /\ DOMAIN closed = 1..m
        /\ Numbers(1..m, VolumesOf(closed)) /\ Numbers(1..m, CountsOf(closed))
    BY <2>1, BucketNumbers, Zenon
  <2>6. SeqSum(tape, LAMBDA t : t.volume) = Total(1..n, VolumesOf(tape))
    <3>1. SumOver(1..n, LAMBDA j : tape[j].volume) = Total(1..n, VolumesOf(tape))
      <4>1. 1..n \subseteq DOMAIN tape
        BY <2>4
      <4> QED
        BY <2>4, <4>1, SumOfVolumes, Zenon
    <3> QED
      BY <2>4, <3>1, Zenon DEF SeqSum
  <2>7. SeqSum(closed, LAMBDA b : b.volume) = Total(1..m, VolumesOf(closed))
    <3>1. SumOver(1..m, LAMBDA j : closed[j].volume) = Total(1..m, VolumesOf(closed))
      <4>1. 1..m \subseteq DOMAIN closed
        BY <2>5
      <4> QED
        BY <2>5, <4>1, SumOfVolumes, Zenon
    <3> QED
      BY <2>5, <3>1, Zenon DEF SeqSum
  <2>8. \A k \in 1..m : SumOver(1..k, LAMBDA j : closed[j].trade_count) = LastTrade(closed, k)
    BY <2>1, SumIsLastTrade, Zenon
  <2>9. SeqSum(closed, LAMBDA b : b.trade_count) = LastTrade(closed, m)
    <3>1. SumOver(1..m, LAMBDA j : closed[j].trade_count) = Total(1..m, CountsOf(closed))
      <4>1. 1..m \subseteq DOMAIN closed
        BY <2>5
      <4> QED
        BY <2>5, <4>1, SumOfCounts, Zenon
    <3> QED
      BY <2>5, <3>1, Zenon DEF SeqSum, LastTrade
  <2>10. ASSUME NEW k \in DOMAIN closed
         PROVE  LET last == SumOver(1..k, LAMBDA j : closed[j].trade_count) IN
                /\ closed[k].volume >= target
                /\ closed[k].volume - tape[last].volume < target
    BY <2>2, <2>3, <2>5, <2>8, Zenon
  <2>11. /\ SeqSum(tape, LAMBDA t : t.volume) =
              SeqSum(closed, LAMBDA b : b.volume) + open.acc_volume
         /\ Len(tape) = SeqSum(closed, LAMBDA b : b.trade_count) + open.trade_count
    BY <2>2, <2>6, <2>7, <2>9, Zenon
  <2> QED
    BY <2>10, <2>11, Zenon DEF closed, open, target
<1> QED
  BY <1>1, SweepInductive, HistoryInductive, PartitionInductive, PTL

-----------------------------------------------------------------------------
(* Calls and the taker volumes they are compared with *)

\* The trades of the j-th bucket closed and of the open one
TradesIn(closed, j) ==
  (LastTrade(closed, j) - closed[j].trade_count + 1)..LastTrade(closed, j)

OpenTrades(trades, open) == (Len(trades) - open.trade_count + 1)..Len(trades)

\* What the takers of one side traded of these trades
OnSide(trades, T, side) == {n \in T : trades[n].taker_side = side}
SideVolume(trades, T, side) == Total(OnSide(trades, T, side), VolumesOf(trades))

\* BVC's call on the j-th bucket agrees with the taker sides of its trades.
RightCall(closed, trades, j) ==
  (closed[j].delta_p > 0) = (SideVolume(trades, TradesIn(closed, j), "Buy")
                               > SideVolume(trades, TradesIn(closed, j), "Sell"))

RightCalls(closed, trades, window) ==
  {j \in Classified(closed, window) : RightCall(closed, trades, j)}

\* The side volumes are those of the open bucket's trades, and the count of
\* right calls is that of the buckets closed.
Sides(p, s, trades, cfg) ==
  LET open == OpenTrades(trades, p.engine.bucketer) IN
  /\ \A j \in 1..Len(p.closed) : TradesIn(p.closed, j) \subseteq 1..Len(trades)
  /\ s.buy_vol = SideVolume(trades, open, "Buy")
  /\ s.sell_vol = SideVolume(trades, open, "Sell")
  /\ s.correct = Cardinality(RightCalls(p.closed, trades, cfg.sigma_window))

SidesInv == \A i \in Accepted : Sides(pass[i], bvc[Pair(i)], tape, Config(i))

\* The volume of trade t, if its taker is on this side.
TakerVolume(t, side) == IF t.taker_side = side THEN t.volume ELSE 0

\* From s to next on trade t: the side volumes grow until a bucket closes, and
\* are compared then.
SideStep(s, next, t, pushed, window) ==
  LET buy == s.buy_vol + TakerVolume(t, "Buy")
      sell == s.sell_vol + TakerVolume(t, "Sell")
      right == (pushed.closed.some.delta_p > 0) = (buy > sell) IN
  /\ pushed.closed = None =>
       /\ next.buy_vol = buy
       /\ next.sell_vol = sell
       /\ next.correct = s.correct
  /\ pushed.closed # None =>
       /\ next.buy_vol = 0
       /\ next.sell_vol = 0
       /\ next.correct = IF Classifiable(s.sigma, window) /\ right
                         THEN s.correct + 1 ELSE s.correct

LEMMA SidesAfter ==
  ASSUME NEW q, NEW s, IsTally(s), NEW t, NEW pushed,
         pushed = BucketerPush(s.bucketer, q[1], t.price, t.volume)
  PROVE  SideStep(s, BvcAccuracyStats(q, s, t), t, pushed, q[2])
<1> DEFINE next == BvcAccuracyStats(q, s, t)
           called == Classifiable(s.sigma, q[2])
           b == pushed.closed.some
           buy == s.buy_vol + TakerVolume(t, "Buy")
           sell == s.sell_vol + TakerVolume(t, "Sell")
           right == (b.delta_p > 0) = (buy > sell)
           slid == Slide(s.sigma, b.delta_p, q[2])
           correct == IF called /\ right THEN s.correct + 1 ELSE s.correct
           compared == IF called THEN s.compared + 1 ELSE s.compared
<1>1. next = IF pushed.closed = None
             THEN [s EXCEPT !.bucketer = pushed.bucketer, !.buy_vol = buy, !.sell_vol = sell]
             ELSE [[s EXCEPT !.buy_vol = 0, !.sell_vol = 0] EXCEPT
                     !.bucketer = pushed.bucketer,
                     !.sigma = Slide(@, b.delta_p, q[2]),
                     !.correct = IF called /\ right THEN @ + 1 ELSE @,
                     !.compared = IF called THEN @ + 1 ELSE @]
  BY Zenon DEF BvcAccuracyStats, SideVolumesReset, SigmaOfCall, TakerVolume
<1>2. CASE pushed.closed = None
  <2>1. next = [bucketer |-> pushed.bucketer, sigma |-> s.sigma, buy_vol |-> buy,
                sell_vol |-> sell, correct |-> s.correct, compared |-> s.compared]
    <3> HIDE DEF next, buy, sell
    <3> QED
      BY <1>1, <1>2 DEF IsTally
  <2> HIDE DEF next, buy, sell
  <2>2. next.buy_vol = buy /\ next.sell_vol = sell /\ next.correct = s.correct
    BY <2>1
  <2> QED
    BY <1>2, <2>2, Zenon DEF SideStep, next, buy, sell
<1>3. CASE pushed.closed # None
  <2>1. next = [bucketer |-> pushed.bucketer, sigma |-> slid, buy_vol |-> 0,
                sell_vol |-> 0, correct |-> correct, compared |-> compared]
    <3> HIDE DEF next, called, right, b
    <3> QED
      BY <1>1, <1>3 DEF IsTally
  <2> HIDE DEF next, correct
  <2>2. next.buy_vol = 0 /\ next.sell_vol = 0 /\ next.correct = correct
    BY <2>1
  <2> QED
    BY <1>3, <2>2, Zenon DEF SideStep, next, correct
<1> QED
  BY <1>2, <1>3

\* A trade more changes no volume of earlier trades, and adds its own.
LEMMA SideVolumeNext ==
  ASSUME NEW trades \in Seq(Trades), NEW t \in Trades, NEW side, NEW T,
         T \subseteq 1..Len(trades)
  PROVE  /\ SideVolume(Append(trades, t), T, side) = SideVolume(trades, T, side)
         /\ SideVolume(Append(trades, t), T \cup {Len(trades) + 1}, side)
              = SideVolume(trades, T, side) + TakerVolume(t, side)
<1> DEFINE n == Len(trades)
           x == n + 1
           more == Append(trades, t)
           f == VolumesOf(trades)
           g == VolumesOf(more)
           S == OnSide(trades, T, side)
<1>1. /\ n \in Nat /\ Numbers(1..n, f)
      /\ \A j \in 1..n : f[j] = trades[j].volume
  BY BucketNumbers, Zenon
<1>2. /\ more \in Seq(Trades) /\ Len(more) = x
      /\ (\A j \in 1..n : more[j] = trades[j]) /\ more[x] = t
  OBVIOUS
<1>3. \A j \in 1..x : g[j] = more[j].volume
  BY <1>2, BucketNumbers, Zenon
<1>4. x \notin 1..n /\ x \in 1..x /\ \A j \in 1..n : j \in 1..x
  BY <1>1
<1>5. t.volume \in Int
  BY DEF Trades
<1> HIDE DEF x, more, f, g, n
<1>6. T \subseteq 1..n
  BY DEF n
<1>7. /\ \A j \in T : f[j] = g[j] /\ more[j].taker_side = trades[j].taker_side
      /\ g[x] = t.volume /\ more[x] = t /\ x \notin T
  BY <1>1, <1>2, <1>3, <1>4, <1>6, Zenon
<1>8. OnSide(more, T, side) = S
  <2>1. \A j : j \in OnSide(more, T, side) <=> j \in S
    BY <1>7, Zenon DEF OnSide
  <2> QED
    BY <2>1, Zenon
<1>9. OnSide(more, T \cup {x}, side) = IF t.taker_side = side THEN S \cup {x} ELSE S
  <2>1. \A j : j \in OnSide(more, T \cup {x}, side)
               <=> j \in S \/ (j = x /\ t.taker_side = side)
    BY <1>7, Zenon DEF OnSide
  <2> HIDE DEF S
  <2> QED
    BY <2>1, Zenon
<1>10. S \subseteq T
  BY Zenon DEF OnSide
<1> HIDE DEF S
<1>11. Numbers(S, f) /\ Numbers(S, g) /\ Total(S, f) = Total(S, g)
  <2>1. S \subseteq 1..n /\ IsFiniteSet(S)
    BY <1>1, <1>6, <1>10, FS_Subset DEF Numbers
  <2>2. Numbers(S, f)
    BY <1>1, <2>1 DEF Numbers
  <2>3. \A j \in S : f[j] = g[j]
    BY <1>7, <1>10, Zenon
  <2>4. Numbers(S, g)
    BY <2>2, <2>3 DEF Numbers
  <2> QED
    BY <2>2, <2>3, <2>4, TotalCongruence
<1>12. x \notin S /\ g[x] \in Int
  BY <1>5, <1>7, <1>10
<1>13. Total(S \cup {x}, g) = Total(S, g) + g[x] /\ Total(S, g) \in Int
  BY <1>11, <1>12, TotalAdd, TotalType
<1>14. SideVolume(more, T, side) = Total(S, f) /\ SideVolume(trades, T, side) = Total(S, f)
  BY <1>8, <1>11, Zenon DEF SideVolume, S, f, g
<1>15. SideVolume(more, T \cup {x}, side) = Total(S, f) + TakerVolume(t, side)
  <2>1. CASE t.taker_side = side
    <3>1. SideVolume(more, T \cup {x}, side) = Total(S \cup {x}, g)
      BY <1>9, <2>1, Zenon DEF SideVolume, g
    <3>2. TakerVolume(t, side) = g[x]
      BY <1>7, <2>1, Zenon DEF TakerVolume
    <3> QED
      BY <1>11, <1>13, <3>1, <3>2, Zenon
  <2>2. CASE t.taker_side # side
    <3>1. SideVolume(more, T \cup {x}, side) = Total(S, g)
      BY <1>9, <2>2, Zenon DEF SideVolume, g
    <3>2. TakerVolume(t, side) = 0
      BY <2>2, Zenon DEF TakerVolume
    <3>3. Total(S, g) = Total(S, g) + 0
      BY <1>13
    <3> QED
      BY <1>11, <3>1, <3>2, <3>3, Zenon
  <2> QED
    BY <2>1, <2>2
<1> QED
  BY <1>14, <1>15, Zenon DEF more, x, n

\* No trades, no volume.
LEMMA SideVolumeNone == \A trades, side : SideVolume(trades, {}, side) = 0
<1> TAKE trades, side
<1>1. OnSide(trades, {}, side) = {}
  BY DEF OnSide
<1> QED
  BY <1>1, TotalEmpty, Zenon DEF SideVolume

\* Nothing traded and no bucket closed, so nothing to compare.
LEMMA SidesStarts == Init => SidesInv
<1> SUFFICES ASSUME Init, NEW i \in Accepted
             PROVE  Sides(pass[i], bvc[Pair(i)], tape, Config(i))
  BY Zenon DEF SidesInv
<1> DEFINE p == pass[i]
           s == bvc[Pair(i)]
           cfg == Config(i)
<1>1. Pair(i) \in AcceptedPairs
  BY AcceptedConfig
<1>2. /\ p = [engine |-> NewEngine, reading |-> None, intensity |-> <<>>,
              closed |-> <<>>, scored |-> <<>>]
      /\ tape = <<>>
      /\ s = [bucketer |-> NewBucketer, sigma |-> <<>>, buy_vol |-> 0,
              sell_vol |-> 0, correct |-> 0, compared |-> 0]
  BY <1>1, Zenon DEF Init
<1> HIDE DEF p, s, cfg
<1>3. /\ p.closed = <<>> /\ p.engine.bucketer.trade_count = 0 /\ tape = <<>>
      /\ s.buy_vol = 0 /\ s.sell_vol = 0 /\ s.correct = 0
  BY <1>2 DEF NewEngine, NewBucketer
<1>4. Len(<<>>) = 0 /\ (\A j \in 1..0 : FALSE) /\ (0 - 0 + 1)..0 = {}
  OBVIOUS
<1>5. OpenTrades(tape, p.engine.bucketer) = {}
  BY <1>3, <1>4, Zenon DEF OpenTrades
<1>6. Cardinality(RightCalls(<<>>, tape, cfg.sigma_window)) = 0
  <2>1. RightCalls(<<>>, tape, cfg.sigma_window) = {}
    BY DEF RightCalls, Classified
  <2> QED
    BY <2>1, FS_EmptySet
<1> QED
  BY <1>3, <1>4, <1>5, <1>6, SideVolumeNone, Zenon DEF Sides, p, s, cfg

\* A trade counts for the open bucket, and a bucket is compared when it closes,
\* with the volumes of its own trades.
LEMMA SidesGrow ==
  ASSUME NEW i \in Accepted, NEW p, NEW s, NEW t \in Trades, NEW trades \in Seq(Trades),
         IsTally(s), s.bucketer \in Bucketers, InStep(p, s, Config(i)),
         Partition(p, trades, Config(i)), Sides(p, s, trades, Config(i))
  PROVE  Sides(CalibrateOne(i, p, t), BvcAccuracyStats(Pair(i), s, t),
               Append(trades, t), Config(i))
<1> DEFINE cfg == Config(i)
           q == Pair(i)
           w == cfg.sigma_window
           e == p.engine
           open == e.bucketer
           np == CalibrateOne(i, p, t)
           ns == BvcAccuracyStats(q, s, t)
           pushed == BucketerPush(open, cfg.bucket_volume, t.price, t.volume)
           b == pushed.closed.some
           closed == p.closed
           n == Len(trades)
           k == Len(closed)
           longer == Append(trades, t)
           T == OpenTrades(trades, open)
           buy == s.buy_vol + TakerVolume(t, "Buy")
           sell == s.sell_vol + TakerVolume(t, "Sell")
           tc == open.trade_count
<1>1. /\ cfg.bucket_volume \in Nat /\ w \in Nat \ {0}
      /\ q[1] = cfg.bucket_volume /\ q[2] = w
  BY AcceptedConfig
<1>2. /\ IsPass(p) /\ closed \in Seq(Buckets) /\ open = s.bucketer
      /\ e.sigma = s.sigma /\ SigmaIs(closed, s.sigma, w)
  BY Zenon DEF InStep
<1>3. /\ \A j \in 1..k : TradesIn(closed, j) \subseteq 1..n
      /\ s.buy_vol = SideVolume(trades, T, "Buy")
      /\ s.sell_vol = SideVolume(trades, T, "Sell")
      /\ s.correct = Cardinality(RightCalls(closed, trades, w))
  BY Zenon DEF Sides
<1>4. /\ n = LastTrade(closed, k) + tc
      /\ \A j \in 1..k : LastTrade(closed, j) \in 1..n
  BY Zenon DEF Partition
<1>5. t.price \in Nat /\ t.volume \in Nat
  BY DEF Trades
<1>6. IsPush(pushed) /\ PushStep(open, cfg.bucket_volume, t.volume, pushed)
  BY <1>1, <1>2, <1>5, BucketerPushType, Zenon
<1>7. PassStep(cfg, p, np, pushed)
  <2> HIDE DEF pushed
  <2> QED
    BY <1>2, PassAfter DEF pushed
<1>8. SideStep(s, ns, t, pushed, w)
  <2>1. pushed = BucketerPush(s.bucketer, q[1], t.price, t.volume)
    BY <1>1, <1>2, Zenon
  <2> HIDE DEF pushed, q
  <2>2. SideStep(s, ns, t, pushed, q[2])
    BY <2>1, SidesAfter
  <2> QED
    BY <1>1, <2>2, Zenon
<1>9. tc \in Nat /\ n \in Nat /\ k \in Nat
  <2>1. open \in Bucketers
    BY <1>2, Zenon
  <2>2. tc \in Nat
    BY <2>1 DEF Bucketers
  <2> QED
    BY <1>2, <2>2
<1>10. LastTrade(closed, k) \in Nat
  <2>1. CASE k = 0
    <3>1. 1..0 = {}
      OBVIOUS
    <3>2. LastTrade(closed, 0) = 0
      BY <3>1, TotalEmpty, Zenon DEF LastTrade
    <3> QED
      BY <2>1, <3>2
  <2>2. CASE k # 0
    <3>1. LastTrade(closed, k) \in 1..n
      BY <1>4, <1>9, <2>2
    <3> QED
      BY <3>1
  <2> QED
    BY <2>1, <2>2
<1>11. /\ longer \in Seq(Trades) /\ Len(longer) = n + 1
  OBVIOUS
<1>12. T = (n - tc + 1)..n
  BY Zenon DEF OpenTrades
<1> HIDE DEF np, ns, pushed, cfg, q, T, longer, n, tc
<1>13. T \subseteq 1..n
  BY <1>4, <1>9, <1>10, <1>12
<1>14. T \cup {n + 1} = (n - tc + 1)..(n + 1)
  <2>1. n - tc + 1 <= n + 1
    BY <1>9
  <2> QED
    BY <1>9, <1>12, <2>1
<1>15. /\ SideVolume(longer, T \cup {n + 1}, "Buy") = buy
       /\ SideVolume(longer, T \cup {n + 1}, "Sell") = sell
  <2>1. \A side : SideVolume(longer, T \cup {n + 1}, side)
                    = SideVolume(trades, T, side) + TakerVolume(t, side)
    BY <1>13, SideVolumeNext, ZenonT(40) DEF longer, n
  <2>2. /\ SideVolume(trades, T, "Buy") = s.buy_vol
        /\ SideVolume(trades, T, "Sell") = s.sell_vol
    BY <1>3, Zenon DEF T
  <2> QED
    BY <2>1, <2>2, Zenon
<1>16. ASSUME NEW j \in 1..k, NEW side
       PROVE  SideVolume(longer, TradesIn(closed, j), side)
                = SideVolume(trades, TradesIn(closed, j), side)
  BY <1>3, SideVolumeNext, Zenon DEF longer, n
<1>17. \A j \in 1..k : TradesIn(closed, j) \subseteq 1..(n + 1)
  BY <1>3, <1>9
<1>18. Classified(closed, w) \subseteq 1..k
  BY <1>2, ClassifiedType, Zenon
<1> SUFFICES Sides(np, ns, longer, cfg)
  BY Zenon DEF np, ns, longer, cfg, q
<1>19. CASE pushed.closed = None
  <2> DEFINE after == pushed.bucketer
  <2>1. np.engine.bucketer = after /\ np.closed = closed
    BY <1>7, <1>19, Zenon DEF PassStep
  <2>2. after.trade_count = tc + 1
    BY <1>6, <1>19, Zenon DEF PushStep, tc
  <2>3. ns.buy_vol = buy /\ ns.sell_vol = sell /\ ns.correct = s.correct
    BY <1>8, <1>19, Zenon DEF SideStep
  <2>4. OpenTrades(longer, after) = T \cup {n + 1}
    <3>1. OpenTrades(longer, after) = ((n + 1) - (tc + 1) + 1)..(n + 1)
      BY <1>11, <2>2, Zenon DEF OpenTrades
    <3>2. (n + 1) - (tc + 1) + 1 = n - tc + 1
      BY <1>9
    <3> QED
      BY <1>14, <3>1, <3>2, Zenon
  <2>5. RightCalls(closed, longer, w) = RightCalls(closed, trades, w)
    <3>1. \A j \in Classified(closed, w) :
            RightCall(closed, longer, j) <=> RightCall(closed, trades, j)
      BY <1>16, <1>18, Zenon DEF RightCall
    <3>2. \A j : j \in RightCalls(closed, longer, w) <=> j \in RightCalls(closed, trades, w)
      BY <3>1, Zenon DEF RightCalls
    <3> QED
      BY <3>2, Zenon
  <2> HIDE DEF after
  <2> QED
    BY <1>3, <1>11, <1>15, <1>17, <2>1, <2>3, <2>4, <2>5, Zenon DEF Sides, w
<1>20. CASE pushed.closed # None
  <2> DEFINE after == pushed.bucketer
             more == Append(closed, b)
             x == k + 1
             called == Classifiable(s.sigma, w)
             right == (b.delta_p > 0) = (buy > sell)
             R == RightCalls(closed, trades, w)
  <2>1. b \in Buckets
    BY <1>6, <1>20, SomeOrNone, Zenon DEF IsPush
  <2>2. np.engine.bucketer = after /\ np.closed = more
    BY <1>7, <1>20, Zenon DEF PassStep
  <2>3. b.trade_count = tc + 1 /\ after.trade_count = 0
    BY <1>6, <1>20, Zenon DEF PushStep, tc
  <2>4. /\ ns.buy_vol = 0 /\ ns.sell_vol = 0
        /\ ns.correct = IF called /\ right THEN s.correct + 1 ELSE s.correct
    BY <1>8, <1>20, Zenon DEF SideStep
  <2>5. Classified(more, w) = Classified(closed, w) \cup (IF called THEN {x} ELSE {})
    <3>1. /\ w \in Nat \ {0} /\ closed \in Seq(Buckets)
          /\ SigmaIs(closed, s.sigma, w)
      BY <1>1, <1>2, Zenon
    <3> HIDE DEF w, b, closed
    <3> QED
      BY <2>1, <3>1, ClassifiedGrows, Zenon
  <2> HIDE DEF b
  <2>6. /\ more \in Seq(Buckets) /\ Len(more) = x
        /\ (\A j \in 1..k : more[j] = closed[j]) /\ more[x] = b
    BY <1>2, <2>1
  <2>7. /\ \A j \in 1..k : LastTrade(more, j) = LastTrade(closed, j)
        /\ LastTrade(more, x) = n + 1
    <3> DEFINE counts == CountsOf(closed)
               counts2 == CountsOf(more)
               y == tc + 1
    <3>1. k \in Nat /\ Numbers(1..k, counts) /\ \A j \in 1..k : counts[j] = closed[j].trade_count
      BY <1>2, BucketNumbers, Zenon
    <3>2. \A j \in 1..x : counts2[j] = more[j].trade_count
      BY <2>6, BucketNumbers, Zenon
    <3>3. (\A j \in 1..k : j \in 1..x /\ j \in 0..k) /\ x \in 1..x
      BY <1>9
    <3>4. y \in Int
      BY <1>9
    <3> HIDE DEF counts, counts2, k, y, more
    <3>5. counts2[x] = y /\ \A j \in 1..k : counts2[j] = counts[j]
      BY <2>3, <2>6, <3>1, <3>2, <3>3, Zenon DEF y
    <3>6. counts2[k + 1] \in Int /\ \A j \in 1..k : counts2[j] = counts[j]
      BY <3>4, <3>5, Zenon
    <3>7. /\ \A j \in 0..k : Total(1..j, counts2) = Total(1..j, counts)
          /\ Total(1..(k + 1), counts2) = Total(1..k, counts) + counts2[k + 1]
      BY <3>1, <3>6, TotalNext
    <3>8. \A j \in 1..k : LastTrade(more, j) = LastTrade(closed, j)
      BY <3>3, <3>7, Zenon DEF LastTrade, counts, counts2
    <3>9. LastTrade(more, x) = LastTrade(closed, k) + y
      BY <3>5, <3>7, Zenon DEF LastTrade, counts, counts2
    <3>10. LastTrade(closed, k) + (tc + 1) = n + 1
      BY <1>4, <1>9, <1>10
    <3> QED
      BY <3>8, <3>9, <3>10, Zenon DEF y
  <2> HIDE DEF more, after, called, right, R, buy, sell
  <2>8. \A j \in 1..k : TradesIn(more, j) = TradesIn(closed, j)
    BY <2>6, <2>7, Zenon DEF TradesIn
  <2>9. TradesIn(more, x) = T \cup {n + 1}
    <3>1. TradesIn(more, x) = ((n + 1) - (tc + 1) + 1)..(n + 1)
      BY <2>3, <2>6, <2>7, Zenon DEF TradesIn
    <3>2. (n + 1) - (tc + 1) + 1 = n - tc + 1
      BY <1>9
    <3> QED
      BY <1>14, <3>1, <3>2, Zenon
  <2>10. \A j \in 1..x : TradesIn(more, j) \subseteq 1..(n + 1)
    <3>1. TradesIn(more, x) \subseteq 1..(n + 1)
      <4>1. T \cup {n + 1} \subseteq 1..(n + 1)
        BY <1>9, <1>13
      <4> QED
        BY <2>9, <4>1, Zenon
    <3>2. \A j \in 1..x : j \in 1..k \/ j = x
      BY <1>9
    <3> QED
      BY <1>17, <2>8, <3>1, <3>2, Zenon
  <2>11. OpenTrades(longer, after) = {}
    <3>1. OpenTrades(longer, after) = ((n + 1) - 0 + 1)..(n + 1)
      BY <1>11, <2>3, Zenon DEF OpenTrades
    <3>2. ((n + 1) - 0 + 1)..(n + 1) = {}
      BY <1>9
    <3> QED
      BY <3>1, <3>2, Zenon
  <2>12. \A j \in Classified(closed, w) :
           RightCall(more, longer, j) <=> RightCall(closed, trades, j)
    BY <1>16, <1>18, <2>6, <2>8, Zenon DEF RightCall
  <2>13. RightCall(more, longer, x) <=> right
    BY <1>15, <2>6, <2>9, Zenon DEF RightCall, right
  <2>14. RightCalls(more, longer, w) = IF called /\ right THEN R \cup {x} ELSE R
    <3>1. \A j : j \in RightCalls(more, longer, w)
                 <=> \/ j \in Classified(closed, w) /\ RightCall(closed, trades, j)
                     \/ called /\ j = x /\ right
      BY <2>5, <2>12, <2>13, Zenon DEF RightCalls
    <3>2. \A j : j \in R <=> j \in Classified(closed, w) /\ RightCall(closed, trades, j)
      BY Zenon DEF R, RightCalls
    <3>3. CASE called /\ right
      <4>1. \A j : j \in RightCalls(more, longer, w) <=> j \in R \cup {x}
        BY <3>1, <3>2, <3>3, Zenon
      <4> QED
        BY <3>3, <4>1, Zenon
    <3>4. CASE ~(called /\ right)
      <4>1. \A j : j \in RightCalls(more, longer, w) <=> j \in R
        BY <3>1, <3>2, <3>4, Zenon
      <4> QED
        BY <3>4, <4>1, Zenon
    <3> QED
      BY <3>3, <3>4
  <2>15. IsFiniteSet(R) /\ x \notin R
    <3>1. R \subseteq Classified(closed, w) /\ IsFiniteSet(Classified(closed, w))
      BY <1>2, ClassifiedType DEF R, RightCalls
    <3>2. x \notin 1..k
      BY <1>9
    <3> HIDE DEF x
    <3> QED
      BY <1>18, <3>1, <3>2, FS_Subset
  <2>16. Cardinality(R \cup {x}) = Cardinality(R) + 1
    <3> HIDE DEF x
    <3> QED
      BY <2>15, FS_AddElement
  <2>17. ns.correct = Cardinality(RightCalls(more, longer, w))
    <3>1. s.correct = Cardinality(R)
      BY <1>3, Zenon DEF R
    <3>2. CASE called /\ right
      BY <2>4, <2>14, <2>16, <3>1, <3>2, Zenon
    <3>3. CASE ~(called /\ right)
      BY <2>4, <2>14, <3>1, <3>3, Zenon
    <3> QED
      BY <3>2, <3>3
  <2> HIDE DEF x
  <2> QED
    BY <1>11, <2>2, <2>4, <2>6, <2>10, <2>11, <2>17, SideVolumeNone, Zenon DEF Sides, w
<1> QED
  BY <1>19, <1>20

\* A trade read by both passes keeps every count.
LEMMA SidesStep == SweepInv /\ PartitionInv /\ SidesInv /\ [Next]_vars => SidesInv'
<1> SUFFICES ASSUME SweepInv, PartitionInv, SidesInv, [Next]_vars PROVE SidesInv'
  OBVIOUS
<1>1. CASE Next
  <2>1. PICK t \in TradesAt(Len(tape) + 1) : ReplayTrade(t)
    BY <1>1 DEF Next
  <2>2. tape \in Seq(Trades) /\ t \in Trades
    <3>1. tape \in Seq(Trades) /\ Len(tape) < MaxTrades
      BY <2>1 DEF SweepInv, ReplayTrade
    <3>2. Len(tape) + 1 \in 1..MaxTrades
      BY <3>1, CalibrateAssumption
    <3> QED
      BY <2>1, <3>1, <3>2, CalibrateAssumption
  <2>3. /\ \A i \in Accepted : pass'[i] = CalibrateOne(i, pass[i], t)
        /\ \A q \in AcceptedPairs : bvc'[q] = BvcAccuracyStats(q, bvc[q], t)
        /\ tape' = Append(tape, t)
    BY <2>1, Zenon DEF ReplayTrade
  <2>4. ASSUME NEW i \in Accepted PROVE Sides(pass[i], bvc[Pair(i)], tape, Config(i))'
    <3> DEFINE p == pass[i]
               s == bvc[Pair(i)]
    <3>1. Pair(i) \in AcceptedPairs
      BY AcceptedConfig
    <3>2. /\ IsTally(s) /\ s.bucketer \in Bucketers /\ InStep(p, s, Config(i))
          /\ Partition(p, tape, Config(i)) /\ Sides(p, s, tape, Config(i))
      BY <3>1, Zenon DEF SweepInv, Tallied, PartitionInv, SidesInv
    <3>3. Sides(CalibrateOne(i, p, t), BvcAccuracyStats(Pair(i), s, t), Append(tape, t), Config(i))
      <4> HIDE DEF p, s
      <4> QED
        BY <2>2, <3>2, SidesGrow
    <3>4. Sides(pass'[i], bvc'[Pair(i)], tape', Config(i))
      BY <2>3, <3>1, <3>3, Zenon
    <3> QED
      BY <3>4
  <2> QED
    BY <2>4, Zenon DEF SidesInv
<1>2. CASE UNCHANGED vars
  BY <1>2, Zenon DEF vars, SidesInv
<1> QED
  BY <1>1, <1>2

\* The invariant that the side volumes are those of the open bucket's trades,
\* on every tape.
THEOREM SidesInductive == Spec => []SidesInv
<1> QED
  BY SidesStarts, SidesStep, SweepInductive, PartitionInductive, PTL DEF Spec

\* main.rs:175-181, 289-312: for every configuration and tape, BVC's call on a
\* bucket is compared with the taker volumes of that bucket's own trades and of
\* no others.
THEOREM CallsComparedPerBucket == Spec => []AccuracyIsPerBucket
<1>1. SweepInv /\ SidesInv => AccuracyIsPerBucket
  <2> SUFFICES ASSUME SweepInv, SidesInv, NEW i \in Accepted
               PROVE  LET closed == pass[i].closed
                          Side(k, side) == SumOver({n \in TradesOf(closed, k) : tape[n].taker_side = side},
                                                   LAMBDA n : tape[n].volume)
                      IN bvc[Pair(i)].correct =
                           Cardinality({k \in Classified(closed, Config(i).sigma_window) :
                             (closed[k].delta_p > 0) = (Side(k, "Buy") > Side(k, "Sell"))})
    BY Zenon DEF AccuracyIsPerBucket
  <2> DEFINE closed == pass[i].closed
             w == Config(i).sigma_window
             m == Len(closed)
             Side(k, side) == SumOver({n \in TradesOf(closed, k) : tape[n].taker_side = side},
                                      LAMBDA n : tape[n].volume)
             Agrees(k) == (closed[k].delta_p > 0) = (Side(k, "Buy") > Side(k, "Sell"))
             C == Classified(closed, w)
  <2>1. tape \in Seq(Trades) /\ closed \in Seq(Buckets)
    BY Zenon DEF SweepInv, InStep
  <2>2. /\ \A j \in 1..m : TradesIn(closed, j) \subseteq 1..Len(tape)
        /\ bvc[Pair(i)].correct = Cardinality(RightCalls(closed, tape, w))
    BY Zenon DEF SidesInv, Sides
  <2> HIDE DEF closed, w
  <2>3. DOMAIN tape = 1..Len(tape) /\ Numbers(1..Len(tape), VolumesOf(tape))
    BY <2>1, BucketNumbers, Zenon
  <2>4. C \subseteq 1..m
    BY <2>1, ClassifiedType, Zenon
  <2>5. ASSUME NEW k \in 1..m PROVE TradesOf(closed, k) = TradesIn(closed, k)
    <3>1. SumOver(1..k, LAMBDA j : closed[j].trade_count) = LastTrade(closed, k)
      BY <2>1, SumIsLastTrade, Zenon
    <3> QED
      BY <3>1, Zenon DEF TradesOf, TradesIn
  <2>6. ASSUME NEW k \in 1..m, NEW side
        PROVE  Side(k, side) = SideVolume(tape, TradesIn(closed, k), side)
    <3> DEFINE S == OnSide(tape, TradesIn(closed, k), side)
    <3>1. S \subseteq 1..Len(tape) /\ IsFiniteSet(1..Len(tape))
      BY <2>2, <2>3 DEF OnSide, Numbers
    <3>2. Numbers(S, VolumesOf(tape)) /\ S \subseteq DOMAIN tape
      BY <2>3, <3>1, FS_Subset DEF Numbers
    <3>3. {n \in TradesOf(closed, k) : tape[n].taker_side = side} = S
      BY <2>5, Zenon DEF OnSide
    <3> HIDE DEF S
    <3>4. SumOver(S, LAMBDA n : tape[n].volume) = Total(S, VolumesOf(tape))
      BY <3>2, SumOfVolumes, Zenon
    <3> QED
      BY <3>3, <3>4, Zenon DEF SideVolume, S
  <2> HIDE DEF Side
  <2>7. \A k \in C : Agrees(k) <=> RightCall(closed, tape, k)
    BY <2>4, <2>6, Zenon DEF RightCall
  <2> HIDE DEF Agrees, C
  <2>8. {k \in C : Agrees(k)} = RightCalls(closed, tape, w)
    <3>1. \A k : k \in {j \in C : Agrees(j)} <=> k \in RightCalls(closed, tape, w)
      BY <2>7, Zenon DEF RightCalls, C
    <3> QED
      BY <3>1, Zenon
  <2>9. bvc[Pair(i)].correct = Cardinality({k \in C : Agrees(k)})
    BY <2>2, <2>8, Zenon
  <2> QED
    BY <2>9, Zenon DEF Agrees, Side, C, closed, w
<1> QED
  BY <1>1, SweepInductive, SidesInductive, PTL

-----------------------------------------------------------------------------
(* Types and the sizes of windows *)

Fractions == Nat \X Nat
ScoredValues == Fractions \X Nat

\* How long the intensity window is after this many scores
WindowLen(scores) == IF scores < IntensityWindow THEN scores ELSE IntensityWindow

\* The scores of a pass, and the windows over them
Values(p, cfg) ==
  /\ p.engine.cdf \in Seq(Fractions)
  /\ cfg.cdf_window # None => Len(p.engine.cdf) <= cfg.cdf_window.some
  /\ p.scored \in Seq(ScoredValues)
  /\ p.intensity \in Seq(ScoredValues)
  /\ Len(p.intensity) <= IntensityWindow
  /\ Len(p.intensity) = WindowLen(Len(p.scored))

\* The sigma of the second pass
OwnSigma(s, window) == s.sigma \in Seq(Int) /\ Len(s.sigma) <= window

WindowsInv ==
  /\ \A i \in Accepted : Values(pass[i], Config(i))
  /\ \A q \in AcceptedPairs : OwnSigma(bvc[q], q[2])

\* A window never holds more than it is made for.
LEMMA SlideFits ==
  ASSUME NEW S, NEW buf \in Seq(S), NEW x \in S, NEW window \in Nat \ {0},
         Len(buf) <= window
  PROVE  /\ Slide(buf, x, window) \in Seq(S)
         /\ Len(Slide(buf, x, window)) <= window
<1> DEFINE slid == Slide(buf, x, window)
<1>1. slid \in Seq(S) /\ SlidFrom(buf, x, window, slid)
  BY SlideIs
<1>2. Len(buf) \in Nat
  OBVIOUS
<1> HIDE DEF slid
<1>3. \/ Len(buf) = window /\ Len(slid) = window
      \/ Len(buf) # window /\ Len(slid) = Len(buf) + 1
  BY <1>1, Zenon DEF SlidFrom
<1>4. Len(slid) <= window
  BY <1>2, <1>3
<1> QED
  BY <1>1, <1>4, Zenon DEF slid

\* The intensity window grows with the scores until it is full.
LEMMA WindowLenGrows ==
  ASSUME NEW S, NEW buf \in Seq(S), NEW x \in S, NEW n \in Nat, Len(buf) = WindowLen(n)
  PROVE  Len(Slide(buf, x, IntensityWindow)) = WindowLen(n + 1)
<1> DEFINE slid == Slide(buf, x, IntensityWindow)
<1>1. IntensityWindow \in Nat \ {0}
  BY CalibrateAssumption
<1>2. Len(buf) \in Nat /\ Len(buf) <= IntensityWindow
  BY <1>1 DEF WindowLen
<1>3. SlidFrom(buf, x, IntensityWindow, slid)
  BY <1>1, <1>2, SlideIs
<1> HIDE DEF slid
<1>4. \/ Len(buf) = IntensityWindow /\ Len(slid) = IntensityWindow
      \/ Len(buf) # IntensityWindow /\ Len(slid) = Len(buf) + 1
  BY <1>3, Zenon DEF SlidFrom
<1>5. Len(slid) = WindowLen(n + 1)
  BY <1>1, <1>2, <1>4 DEF WindowLen
<1> QED
  BY <1>5, Zenon DEF slid

\* An accepted pair has a volume and a sigma window.
LEMMA AcceptedPair ==
  ASSUME NEW q \in AcceptedPairs
  PROVE  q[1] \in Nat /\ q[2] \in Nat \ {0}
<1>1. PICK i \in 1..Combinations : q = Pair(i) /\ ValidPair(q[1], q[2])
  BY Zenon DEF AcceptedPairs, Pairs
<1>2. Config(i).bucket_volume \in Nat /\ Config(i).sigma_window \in Nat
  BY ConfigType
<1>3. q[1] \in Nat /\ q[2] \in Nat
  BY <1>1, <1>2 DEF Pair
<1> QED
  BY <1>1, <1>3 DEF ValidPair

\* All windows start empty.
LEMMA WindowsStart == Init => WindowsInv
<1> SUFFICES ASSUME Init PROVE WindowsInv
  OBVIOUS
<1>1. /\ <<>> \in Seq(Fractions) /\ <<>> \in Seq(ScoredValues) /\ <<>> \in Seq(Int)
      /\ Len(<<>>) = 0 /\ 0 <= IntensityWindow /\ WindowLen(0) = 0
  BY CalibrateAssumption DEF WindowLen
<1>2. ASSUME NEW i \in Accepted PROVE Values(pass[i], Config(i))
  <2> DEFINE p == pass[i]
             cfg == Config(i)
  <2>1. /\ p = [engine |-> NewEngine, reading |-> None, intensity |-> <<>>,
                closed |-> <<>>, scored |-> <<>>]
    BY Zenon DEF Init
  <2>2. cfg.cdf_window # None => cfg.cdf_window.some \in Nat
    BY AcceptedConfig
  <2> HIDE DEF p, cfg
  <2>3. p.engine.cdf = <<>> /\ p.scored = <<>> /\ p.intensity = <<>>
    BY <2>1 DEF NewEngine
  <2>4. cfg.cdf_window # None => 0 <= cfg.cdf_window.some
    BY <2>2
  <2> QED
    BY <1>1, <2>3, <2>4, Zenon DEF Values, p, cfg
<1>3. ASSUME NEW q \in AcceptedPairs PROVE OwnSigma(bvc[q], q[2])
  <2>1. bvc[q] = [bucketer |-> NewBucketer, sigma |-> <<>>, buy_vol |-> 0,
                  sell_vol |-> 0, correct |-> 0, compared |-> 0]
    BY Zenon DEF Init
  <2>2. bvc[q].sigma = <<>> /\ 0 <= q[2]
    BY <2>1, AcceptedPair
  <2> QED
    BY <1>1, <2>2, Zenon DEF OwnSigma
<1> QED
  BY <1>2, <1>3, Zenon DEF WindowsInv

\* A scored bucket enters two windows, and neither overflows.
LEMMA ValuesGrow ==
  ASSUME NEW i \in Accepted, NEW p, NEW s, NEW t \in Trades,
         s.bucketer \in Bucketers, InStep(p, s, Config(i)), History(p, Config(i)),
         Values(p, Config(i))
  PROVE  Values(CalibrateOne(i, p, t), Config(i))
<1> DEFINE cfg == Config(i)
           e == p.engine
           np == CalibrateOne(i, p, t)
           pushed == BucketerPush(e.bucketer, cfg.bucket_volume, t.price, t.volume)
           b == pushed.closed.some
           vpin == VpinAfter(cfg, e, b)
           score == ScoreOf(cfg, e, b)
<1>1. /\ cfg.bucket_volume \in Nat /\ cfg.sigma_window \in Nat \ {0}
      /\ cfg.vpin_window \in Nat \ {0}
      /\ cfg.cdf_window # None => cfg.cdf_window.some \in Nat \ {0}
  BY AcceptedConfig
<1>2. /\ IsPass(p) /\ p.closed \in Seq(Buckets) /\ e.bucketer = s.bucketer
      /\ SigmaIs(p.closed, e.sigma, cfg.sigma_window)
      /\ e.imbalances \in Seq(Nat \X Nat)
  BY Zenon DEF InStep
<1>3. WindowIs(e.imbalances, p.closed, cfg)
  BY Zenon DEF History
<1>4. t.price \in Nat /\ t.volume \in Nat
  BY DEF Trades
<1>5. IsPush(pushed)
  BY <1>1, <1>2, <1>4, BucketerPushType, Zenon
<1>6. PassStep(cfg, p, np, pushed)
  <2> HIDE DEF pushed
  <2> QED
    BY <1>2, PassAfter DEF pushed
<1>7. /\ e.cdf \in Seq(Fractions)
      /\ cfg.cdf_window # None => Len(e.cdf) <= cfg.cdf_window.some
      /\ p.scored \in Seq(ScoredValues)
      /\ p.intensity \in Seq(ScoredValues)
      /\ Len(p.intensity) <= IntensityWindow
      /\ Len(p.intensity) = WindowLen(Len(p.scored))
  BY Zenon DEF Values
<1> HIDE DEF np, pushed, cfg
<1> SUFFICES Values(np, cfg)
  BY Zenon DEF np, cfg
<1>8. CASE pushed.closed = None
  BY <1>6, <1>7, <1>8, Zenon DEF PassStep, Values
<1>9. CASE pushed.closed # None
  <2>1. b \in Buckets
    BY <1>5, <1>9, SomeOrNone, Zenon DEF IsPush
  <2>2. /\ np.engine.cdf = CdfAfter(cfg, e, b)
        /\ vpin = None => np.scored = p.scored /\ np.intensity = p.intensity
        /\ vpin # None =>
             /\ np.scored = Append(p.scored, score)
             /\ np.intensity = Slide(p.intensity, score, IntensityWindow)
    BY <1>6, <1>9, Zenon DEF PassStep
  <2> HIDE DEF b
  <2>3. vpin # None => vpin.some \in Fractions
    BY <1>1, <1>2, <1>3, <2>1, VpinAfterIs, Zenon DEF Fractions
  <2>4. vpin # None => score \in ScoredValues
    <3> SUFFICES ASSUME vpin # None PROVE score \in ScoredValues
      OBVIOUS
    <3>1. vpin.some \in Fractions /\ b.trade_count \in Nat
      BY <2>1, <2>3 DEF Buckets
    <3>2. score = <<vpin.some, b.trade_count>>
      BY Zenon DEF ScoreOf
    <3> HIDE DEF vpin, score
    <3> QED
      BY <3>1, <3>2, Zenon DEF ScoredValues
  <2> HIDE DEF vpin, score
  <2>5. CASE vpin = None
    <3>1. np.engine.cdf = e.cdf
      BY <2>2, <2>5, Zenon DEF CdfAfter, vpin
    <3> QED
      BY <1>7, <2>2, <2>5, <3>1, Zenon DEF Values
  <2>6. CASE vpin # None
    <3>1. /\ np.scored \in Seq(ScoredValues)
          /\ Len(p.scored) \in Nat /\ Len(np.scored) = Len(p.scored) + 1
      <4>1. /\ Append(p.scored, score) \in Seq(ScoredValues)
            /\ Len(p.scored) \in Nat
            /\ Len(Append(p.scored, score)) = Len(p.scored) + 1
        BY <1>7, <2>4, <2>6
      <4> QED
        BY <2>2, <2>6, <4>1, Zenon
    <3>2. /\ np.intensity \in Seq(ScoredValues) /\ Len(np.intensity) <= IntensityWindow
          /\ Len(np.intensity) = WindowLen(Len(np.scored))
      <4>1. IntensityWindow \in Nat \ {0} /\ score \in ScoredValues
        BY <2>4, <2>6, CalibrateAssumption
      <4>2. /\ Slide(p.intensity, score, IntensityWindow) \in Seq(ScoredValues)
            /\ Len(Slide(p.intensity, score, IntensityWindow)) <= IntensityWindow
        BY <1>7, <4>1, SlideFits
      <4>3. Len(Slide(p.intensity, score, IntensityWindow)) = WindowLen(Len(p.scored) + 1)
        BY <1>7, <3>1, <4>1, WindowLenGrows
      <4> QED
        BY <2>2, <2>6, <3>1, <4>2, <4>3, Zenon
    <3>3. /\ np.engine.cdf \in Seq(Fractions)
          /\ cfg.cdf_window # None => Len(np.engine.cdf) <= cfg.cdf_window.some
      <4>1. CASE cfg.cdf_window = None
        <5>1. np.engine.cdf = e.cdf
          BY <2>2, <4>1, Zenon DEF CdfAfter
        <5> QED
          BY <1>7, <4>1, <5>1, Zenon
      <4>2. CASE cfg.cdf_window # None
        <5> DEFINE w == cfg.cdf_window.some
        <5>1. np.engine.cdf = Slide(e.cdf, vpin.some, w)
          BY <2>2, <2>6, <4>2, Zenon DEF CdfAfter, vpin
        <5>2. /\ w \in Nat \ {0} /\ Len(e.cdf) <= w /\ vpin.some \in Fractions
              /\ e.cdf \in Seq(Fractions)
          BY <1>1, <1>7, <2>3, <2>6, <4>2, Zenon
        <5> HIDE DEF w
        <5>3. /\ Slide(e.cdf, vpin.some, w) \in Seq(Fractions)
              /\ Len(Slide(e.cdf, vpin.some, w)) <= w
          BY <5>2, SlideFits
        <5> QED
          BY <5>1, <5>3, Zenon DEF w
      <4> QED
        BY <4>1, <4>2
    <3> QED
      BY <3>1, <3>2, <3>3, Zenon DEF Values
  <2> QED
    BY <2>5, <2>6
<1> QED
  BY <1>8, <1>9

\* The second pass's sigma slides when a bucket closes.
LEMMA OwnSigmaSlides ==
  ASSUME NEW q \in AcceptedPairs, NEW s, NEW t \in Trades, IsTally(s),
         s.bucketer \in Bucketers, s.correct \in Nat, s.compared \in Nat,
         OwnSigma(s, q[2])
  PROVE  OwnSigma(BvcAccuracyStats(q, s, t), q[2])
<1> DEFINE pushed == BucketerPush(s.bucketer, q[1], t.price, t.volume)
           ns == BvcAccuracyStats(q, s, t)
           x == pushed.closed.some.delta_p
           w == q[2]
<1>1. q[1] \in Nat /\ w \in Nat \ {0}
  BY AcceptedPair
<1>2. t.price \in Nat /\ t.volume \in Nat
  BY DEF Trades
<1>3. IsPush(pushed)
  BY <1>1, <1>2, BucketerPushType
<1> HIDE DEF pushed
<1>4. TallyStep(s, ns, pushed, w)
  BY TallyAfter DEF pushed
<1>5. s.sigma \in Seq(Int) /\ Len(s.sigma) <= w
  BY Zenon DEF OwnSigma
<1> HIDE DEF ns, w
<1>6. CASE pushed.closed = None
  BY <1>4, <1>5, <1>6, Zenon DEF TallyStep, OwnSigma, ns, w
<1>7. CASE pushed.closed # None
  <2>1. ns.sigma = Slide(s.sigma, x, w)
    BY <1>4, <1>7, Zenon DEF TallyStep
  <2>2. pushed.closed.some \in Buckets
    BY <1>3, <1>7, SomeOrNone, Zenon DEF IsPush
  <2>3. x \in Int
    BY <2>2 DEF Buckets
  <2> HIDE DEF x
  <2>4. Slide(s.sigma, x, w) \in Seq(Int) /\ Len(Slide(s.sigma, x, w)) <= w
    BY <1>1, <1>5, <2>3, SlideFits
  <2> QED
    BY <2>1, <2>4, Zenon DEF OwnSigma, ns, w
<1> QED
  BY <1>6, <1>7

\* A trade overfills no window.
LEMMA WindowsStep ==
  SweepInv /\ HistoryInv /\ WindowsInv /\ [Next]_vars => WindowsInv'
<1> SUFFICES ASSUME SweepInv, HistoryInv, WindowsInv, [Next]_vars PROVE WindowsInv'
  OBVIOUS
<1>1. CASE Next
  <2>1. PICK t \in TradesAt(Len(tape) + 1) : ReplayTrade(t)
    BY <1>1 DEF Next
  <2>2. t \in Trades
    <3>1. tape \in Seq(Trades) /\ Len(tape) < MaxTrades
      BY <2>1 DEF SweepInv, ReplayTrade
    <3>2. Len(tape) + 1 \in 1..MaxTrades
      BY <3>1, CalibrateAssumption
    <3> QED
      BY <2>1, <3>2, CalibrateAssumption
  <2>3. /\ \A i \in Accepted : pass'[i] = CalibrateOne(i, pass[i], t)
        /\ \A q \in AcceptedPairs : bvc'[q] = BvcAccuracyStats(q, bvc[q], t)
    BY <2>1, Zenon DEF ReplayTrade
  <2>4. ASSUME NEW i \in Accepted PROVE Values(pass[i], Config(i))'
    <3> DEFINE p == pass[i]
               s == bvc[Pair(i)]
    <3>1. Pair(i) \in AcceptedPairs
      BY AcceptedConfig
    <3>2. /\ s.bucketer \in Bucketers /\ InStep(p, s, Config(i))
          /\ History(p, Config(i)) /\ Values(p, Config(i))
      BY <3>1, Zenon DEF SweepInv, Tallied, HistoryInv, WindowsInv
    <3>3. Values(CalibrateOne(i, p, t), Config(i))
      <4> HIDE DEF p, s
      <4> QED
        BY <2>2, <3>2, ValuesGrow
    <3>4. Values(pass'[i], Config(i))
      BY <2>3, <3>3, Zenon
    <3> QED
      BY <3>4
  <2>5. ASSUME NEW q \in AcceptedPairs PROVE OwnSigma(bvc[q], q[2])'
    <3> DEFINE s == bvc[q]
    <3>1. /\ IsTally(s) /\ s.bucketer \in Bucketers /\ s.correct \in Nat
          /\ s.compared \in Nat /\ OwnSigma(s, q[2])
      BY Zenon DEF SweepInv, Tallied, WindowsInv
    <3>2. OwnSigma(BvcAccuracyStats(q, s, t), q[2])
      <4> HIDE DEF s
      <4> QED
        BY <2>2, <3>1, OwnSigmaSlides
    <3>3. OwnSigma(bvc'[q], q[2])
      BY <2>3, <3>2, Zenon
    <3> QED
      BY <3>3
  <2> QED
    BY <2>4, <2>5, Zenon DEF WindowsInv
<1>2. CASE UNCHANGED vars
  BY <1>2, Zenon DEF vars, WindowsInv
<1> QED
  BY <1>1, <1>2

\* The invariant that no window overflows, on every tape.
THEOREM WindowsInductive == Spec => []WindowsInv
<1> QED
  BY WindowsStart, WindowsStep, SweepInductive, HistoryInductive, PTL DEF Spec

\* vpin.rs:47-52, 374-392, main.rs:275-329: for every sweep and tape, every
\* value has its type, the open bucket is below its target, and sigma, the
\* averaging window, the ranking windows and the count of right calls keep
\* within their bounds, in both passes.
THEOREM CalibrateTypeCorrect == Spec => []TypeOK
<1>1. SweepInv /\ PartitionInv /\ WindowsInv => TypeOK
  <2> SUFFICES ASSUME SweepInv, PartitionInv, WindowsInv PROVE TypeOK
    OBVIOUS
  <2>1. tape \in Seq(Trades)
    BY Zenon DEF SweepInv
  <2>2. ASSUME NEW i \in Accepted
        PROVE  LET p == pass[i] IN
               /\ [engine |-> p.engine, closed |-> p.closed, scored |-> p.scored] \in Passes
               /\ p.engine.bucketer.acc_volume < Config(i).bucket_volume
               /\ Len(p.engine.sigma) <= Config(i).sigma_window
               /\ Len(p.engine.imbalances) <= Config(i).vpin_window
               /\ CdfWindow # None => Len(p.engine.cdf) <= CdfWindow.some
               /\ Len(p.intensity) <= IntensityWindow
    <3> DEFINE p == pass[i]
               e == p.engine
               s == bvc[Pair(i)]
               cfg == Config(i)
    <3>1. /\ Pair(i) \in AcceptedPairs /\ cfg.cdf_window = CdfWindow
          /\ cfg.sigma_window \in Nat \ {0} /\ cfg.vpin_window \in Nat \ {0}
      BY AcceptedConfig
    <3>2. /\ s.bucketer \in Bucketers /\ InStep(p, s, cfg) /\ Values(p, cfg)
          /\ Partition(p, tape, cfg) /\ s.compared \in Nat
      BY <3>1, Zenon DEF SweepInv, Tallied, PartitionInv, WindowsInv
    <3> HIDE DEF p, s, cfg
    <3>3. /\ IsPass(p) /\ p.closed \in Seq(Buckets) /\ e.bucketer \in Bucketers
          /\ SigmaIs(p.closed, e.sigma, cfg.sigma_window)
          /\ e.imbalances \in Seq(Nat \X Nat)
          /\ Len(e.imbalances) =
               IF s.compared < cfg.vpin_window THEN s.compared ELSE cfg.vpin_window
      BY <3>2, Zenon DEF InStep
    <3>4. /\ e.cdf \in Seq(Nat \X Nat)
          /\ cfg.cdf_window # None => Len(e.cdf) <= cfg.cdf_window.some
          /\ p.scored \in Seq((Nat \X Nat) \X Nat)
          /\ Len(p.intensity) <= IntensityWindow
      BY <3>2, Zenon DEF Values, Fractions, ScoredValues
    <3>5. e.bucketer.acc_volume < cfg.bucket_volume
      BY <3>2, Zenon DEF Partition
    <3>6. e.sigma \in Seq(Int) /\ Len(e.sigma) <= cfg.sigma_window
      <4>1. Len(p.closed) \in Nat
        BY <3>3
      <4> QED
        BY <3>1, <3>3, <4>1 DEF SigmaIs
    <3>7. Len(e.imbalances) <= cfg.vpin_window
      BY <3>1, <3>2, <3>3
    <3>8. e = [bucketer |-> e.bucketer, sigma |-> e.sigma,
               imbalances |-> e.imbalances, cdf |-> e.cdf]
      BY <3>3, Zenon DEF IsPass
    <3> HIDE DEF e
    <3>9. e \in [bucketer : Bucketers, sigma : Seq(Int),
                 imbalances : Seq(Nat \X Nat), cdf : Seq(Nat \X Nat)]
      BY <3>3, <3>4, <3>6, <3>8, Zenon
    <3>10. [engine |-> e, closed |-> p.closed, scored |-> p.scored] \in Passes
      BY <3>3, <3>4, <3>9, Zenon DEF Passes
    <3> QED
      BY <3>1, <3>4, <3>5, <3>6, <3>7, <3>10, Zenon DEF e, p, cfg
  <2>3. ASSUME NEW q \in AcceptedPairs
        PROVE  /\ bvc[q].bucketer \in Bucketers
               /\ Len(bvc[q].sigma) <= q[2]
               /\ bvc[q].correct <= bvc[q].compared
    BY Zenon DEF SweepInv, Tallied, WindowsInv, OwnSigma
  <2> QED
    BY <2>1, <2>2, <2>3, Zenon DEF TypeOK
<1> QED
  BY <1>1, SweepInductive, PartitionInductive, WindowsInductive, PTL

-----------------------------------------------------------------------------
(* Intervals and intensity ranks *)

\* The averaging window of a reading with a VPIN has buckets, all with volume.
LEMMA ScoredWindow ==
  ASSUME SweepInv, HistoryInv, NEW i \in Accepted, pass[i].reading # None,
         pass[i].reading.some.vpin # None
  PROVE  /\ pass[i].engine.imbalances \in Seq(Nat \X Nat)
         /\ Len(pass[i].engine.imbalances) # 0
         /\ \A m \in DOMAIN pass[i].engine.imbalances :
              pass[i].engine.imbalances[m][2] > 0
<1> DEFINE closed == pass[i].closed
           cfg == Config(i)
           imbs == pass[i].engine.imbalances
           C == Classified(closed, cfg.sigma_window)
<1>1. closed \in Seq(Buckets) /\ imbs \in Seq(Nat \X Nat)
  BY Zenon DEF SweepInv, InStep
<1>2. /\ \A j \in DOMAIN closed : closed[j].volume >= cfg.bucket_volume
      /\ WindowIs(imbs, closed, cfg)
      /\ pass[i].reading.some.vpin = VpinOn(closed, cfg, Len(closed))
  BY Zenon DEF HistoryInv, History
<1>3. /\ cfg.bucket_volume \in Nat /\ cfg.bucket_volume # 0
      /\ cfg.vpin_window \in Nat \ {0}
  BY AcceptedConfig
<1> HIDE DEF closed, cfg, imbs
<1>4. VpinOn(closed, cfg, Len(closed)) # None
  BY <1>2, Zenon
<1>5. Len(imbs) # 0
  <2>1. Len(imbs) = cfg.vpin_window
    BY <1>1, <1>2, <1>3, <1>4, VpinOnWindow, Zenon
  <2> QED
    BY <1>3, <2>1
<1>6. PICK h : /\ Lists(h, C, cfg.vpin_window)
               /\ Len(h) = Len(imbs)
               /\ \A m \in 1..Len(h) : imbs[m] = TermsOf(closed, cfg.sigma_window)[h[m]]
  BY <1>2, Zenon DEF WindowIs, Shows
<1>7. ASSUME NEW m \in DOMAIN imbs PROVE imbs[m][2] > 0
  <2>1. m \in 1..Len(h)
    BY <1>1, <1>6
  <2>2. h[m] \in C /\ imbs[m] = TermsOf(closed, cfg.sigma_window)[h[m]]
    BY <1>6, <2>1, Zenon DEF Lists
  <2> DEFINE j == h[m]
  <2>3. j \in DOMAIN closed
    BY <1>1, <2>2, ClassifiedType
  <2>4. imbs[m] = TermOf(closed, cfg.sigma_window, j)
    BY <2>2, Zenon DEF TermsOf
  <2> HIDE DEF j
  <2>5. imbs[m][2] = closed[j].volume
    <3>1. TermOf(closed, cfg.sigma_window, j)[2] = closed[j].volume
      BY <1>1, <2>3, TermType
    <3> QED
      BY <2>4, <3>1, Zenon
  <2>6. closed[j] \in Buckets /\ closed[j].volume >= cfg.bucket_volume
    BY <1>1, <1>2, <2>3
  <2>7. closed[j].volume > 0
    <3>1. closed[j].volume \in Nat
      BY <2>6 DEF Buckets
    <3> QED
      BY <1>3, <2>6, <3>1
  <2> QED
    BY <2>5, <2>7, Zenon
<1> QED
  BY <1>1, <1>5, <1>7, Zenon DEF imbs

\* vpin.rs:139-188: for every window and whatever the generator draws, the ends
\* of a bootstrap interval are ordered and lie between the smallest and the
\* largest imbalance of a bucket in the window.
THEOREM IntervalsWithin == Spec => []IntervalWithinWindow
<1>1. SweepInv /\ HistoryInv => IntervalWithinWindow
  <2> SUFFICES ASSUME SweepInv, HistoryInv, NEW i \in Accepted, pass[i].reading # None,
                      pass[i].reading.some.vpin # None,
                      NEW draws \in [1..Bootstrap.samples ->
                                       Resamples(Len(pass[i].engine.imbalances))]
               PROVE  LET imbs == pass[i].engine.imbalances
                          ci == BootstrapCi(imbs, draws, Bootstrap.level)
                          Within(x) ==
                            /\ \E k \in DOMAIN imbs : AtMost(<<imbs[k][1], 3 * imbs[k][2]>>, x)
                            /\ \E k \in DOMAIN imbs : AtMost(x, <<imbs[k][1], 3 * imbs[k][2]>>)
                      IN AtMost(ci.low, ci.high) /\ Within(ci.low) /\ Within(ci.high)
    BY Zenon DEF IntervalWithinWindow
  <2> DEFINE imbs == pass[i].engine.imbalances
             n == Bootstrap.samples
             level == Bootstrap.level
             ci == BootstrapCi(imbs, draws, level)
  <2>1. /\ imbs \in Seq(Nat \X Nat) /\ Len(imbs) # 0
        /\ \A m \in DOMAIN imbs : imbs[m][2] > 0
    BY ScoredWindow, Zenon
  <2>2. /\ n \in Nat \ {0} /\ level \in Nat \X Nat
        /\ 0 < level[1] /\ level[1] < level[2]
    BY CalibrateAssumption
  <2>3. draws \in [1..n -> Resamples(Len(imbs))]
    BY Zenon
  <2>4. AtMost(ci.low, ci.high) /\ Between(imbs, ci.low) /\ Between(imbs, ci.high)
    <3> HIDE DEF imbs, n, level
    <3> QED
      BY <2>1, <2>2, <2>3, IntervalIs
  <2> HIDE DEF ci
  <2> QED
    BY <2>4, Zenon DEF Between, Ratio, imbs, ci, level
<1> QED
  BY <1>1, SweepInductive, HistoryInductive, PTL

\* intensity.rs:45-84: for every window and tape, once the window is full a
\* score is ranked among those of the window on its own side of the median
\* trade count, and the busy side is at least half of the window.
THEOREM RanksInCohort == Spec => []IntensityRanksInCohort
<1>1. WindowsInv => IntensityRanksInCohort
  <2> SUFFICES ASSUME WindowsInv, NEW i \in Accepted
               PROVE  LET h == pass[i].intensity
                          r == IntensityRank(h, IntensityWindow)
                          Below(x) == Cardinality({j \in DOMAIN h : h[j][2] < x})
                          busy == {j \in DOMAIN h : 2 * Below(h[j][2] + 1) > Len(h)}
                          newest == Len(h)
                          cohort == IF newest \in busy THEN busy ELSE DOMAIN h \ busy
                      IN
                      /\ r = None <=> Len(pass[i].scored) < IntensityWindow
                      /\ r # None =>
                           /\ 2 * Cardinality(busy) >= Len(h)
                           /\ r.some[2] = Cardinality(cohort)
                           /\ r.some[1] = Cardinality({j \in cohort :
                                            AtMost(h[j][1], h[newest][1])})
    BY Zenon DEF IntensityRanksInCohort
  <2> DEFINE h == pass[i].intensity
             r == IntensityRank(h, IntensityWindow)
             scores == Len(pass[i].scored)
             c == CohortOf(h)
             below == Cardinality({j \in c : AtMost(h[j][1], h[Len(h)][1])})
             all == Cardinality(c)
  <2>1. /\ h \in Seq(Fractions \X Nat) /\ Len(h) = WindowLen(scores)
        /\ pass[i].scored \in Seq(ScoredValues)
    BY Zenon DEF WindowsInv, Values, ScoredValues
  <2>2. scores \in Nat
    BY <2>1
  <2> HIDE DEF h, scores
  <2>3. /\ IntensityWindow \in Nat /\ IntensityWindow >= 4
        /\ Len(h) < IntensityWindow <=> scores < IntensityWindow
        /\ Len(h) < IntensityWindow \/ Len(h) # 0
    BY <2>1, <2>2, CalibrateAssumption DEF WindowLen
  <2>4. CASE Len(h) < IntensityWindow
    <3>1. r = None
      BY <2>4, Zenon DEF IntensityRank
    <3> QED
      BY <2>3, <2>4, <3>1, Zenon DEF h, scores
  <2>5. CASE ~(Len(h) < IntensityWindow)
    <3>1. Len(h) # 0
      BY <2>3, <2>5
    <3>2. r = Some(<<below, all>>)
      BY <2>1, <2>5, <3>1, IntensityIs, Zenon
    <3>3. 2 * Cardinality(Busy(h)) >= Len(h)
      BY <2>1, <3>1, BusyIs
    <3> HIDE DEF below, all, r
    <3>4. r # None /\ r.some = <<below, all>>
      BY <3>2, SomeOrNone, Zenon
    <3>5. r.some[1] = below /\ r.some[2] = all
      BY <3>4
    <3> QED
      BY <2>3, <2>5, <3>3, <3>4, <3>5, Zenon DEF below, all, r, CohortOf, Busy, h, scores
  <2> QED
    BY <2>4, <2>5
<1> QED
  BY <1>1, WindowsInductive, PTL

-----------------------------------------------------------------------------
(* The report *)

\* What an accuracy is, where there is one.
LEMMA AccuracyIs ==
  ASSUME Tallied
  PROVE  /\ Ranked \subseteq 1..Combinations
         /\ \A i \in Ranked :
              /\ i \in Accepted
              /\ bvc[Pair(i)].compared \in Nat \ {0}
              /\ bvc[Pair(i)].correct \in Nat
              /\ Accuracy(i) # None
              /\ Accuracy(i).some = <<bvc[Pair(i)].correct, bvc[Pair(i)].compared>>
<1>1. Ranked \subseteq 1..Combinations
  BY DEF Ranked, Accepted
<1>2. ASSUME NEW i \in Ranked
      PROVE  /\ i \in Accepted
             /\ bvc[Pair(i)].compared \in Nat \ {0}
             /\ bvc[Pair(i)].correct \in Nat
             /\ Accuracy(i) # None
             /\ Accuracy(i).some = <<bvc[Pair(i)].correct, bvc[Pair(i)].compared>>
  <2>1. i \in Accepted /\ Accuracy(i) # None
    BY DEF Ranked
  <2>2. bvc[Pair(i)].compared \in Nat /\ bvc[Pair(i)].correct \in Nat
    BY <2>1, AcceptedConfig, Zenon DEF Tallied
  <2>3. /\ bvc[Pair(i)].compared > 0
        /\ Accuracy(i) = Some(<<bvc[Pair(i)].correct, bvc[Pair(i)].compared>>)
    BY <2>1, Zenon DEF Accuracy
  <2>4. Accuracy(i).some = <<bvc[Pair(i)].correct, bvc[Pair(i)].compared>>
    BY <2>3, SomeOrNone, Zenon
  <2>5. bvc[Pair(i)].compared \in Nat \ {0}
    BY <2>2, <2>3
  <2> QED
    BY <2>1, <2>2, <2>4, <2>5
<1> QED
  BY <1>1, <1>2, Zenon

\* No other configuration of S has a higher accuracy than i.
Tops(i, S) == \A j \in S : AtMost(Accuracy(j).some, Accuracy(i).some)

\* Accuracies are ordered.
LEMMA AccuracyOrder ==
  ASSUME Tallied
  PROVE  /\ \A i \in Ranked : AtMost(Accuracy(i).some, Accuracy(i).some)
         /\ \A i, j \in Ranked : \/ AtMost(Accuracy(i).some, Accuracy(j).some)
                                \/ AtMost(Accuracy(j).some, Accuracy(i).some)
         /\ \A i, j, k \in Ranked :
              /\ AtMost(Accuracy(i).some, Accuracy(j).some)
              /\ AtMost(Accuracy(j).some, Accuracy(k).some)
              => AtMost(Accuracy(i).some, Accuracy(k).some)
<1> DEFINE Num(i) == bvc[Pair(i)].correct
           Den(i) == bvc[Pair(i)].compared
<1>1. \A i \in Ranked : Num(i) \in Nat /\ Den(i) \in Nat \ {0}
  BY AccuracyIs, Zenon
<1>2. \A i \in Ranked : Accuracy(i).some[1] = Num(i) /\ Accuracy(i).some[2] = Den(i)
  <2> SUFFICES ASSUME NEW i \in Ranked
               PROVE  Accuracy(i).some[1] = Num(i) /\ Accuracy(i).some[2] = Den(i)
    OBVIOUS
  <2>1. Accuracy(i).some = <<Num(i), Den(i)>>
    BY AccuracyIs, Zenon
  <2> HIDE DEF Num, Den
  <2> QED
    BY <2>1
<1> HIDE DEF Num, Den
<1>3. \A i, j \in Ranked : AtMost(Accuracy(i).some, Accuracy(j).some)
                          <=> Num(i) * Den(j) <= Num(j) * Den(i)
  BY <1>2, Zenon DEF AtMost
<1>4. \A i, j \in Ranked : Num(i) * Den(j) \in Nat
  <2> SUFFICES ASSUME NEW i \in Ranked, NEW j \in Ranked PROVE Num(i) * Den(j) \in Nat
    OBVIOUS
  <2> DEFINE n == Num(i)
             d == Den(j)
  <2>1. n \in Nat /\ d \in Nat
    BY <1>1
  <2> HIDE DEF n, d
  <2>2. n * d \in Nat
    BY <2>1
  <2> QED
    BY <2>2 DEF n, d
<1>5. \A i, j \in Ranked : \/ Num(i) * Den(j) <= Num(j) * Den(i)
                          \/ Num(j) * Den(i) <= Num(i) * Den(j)
  <2> SUFFICES ASSUME NEW i \in Ranked, NEW j \in Ranked
               PROVE  \/ Num(i) * Den(j) <= Num(j) * Den(i)
                      \/ Num(j) * Den(i) <= Num(i) * Den(j)
    BY Zenon
  <2> DEFINE x == Num(i) * Den(j)
             y == Num(j) * Den(i)
  <2>1. x \in Nat /\ y \in Nat
    BY <1>4
  <2> HIDE DEF x, y
  <2>2. x <= y \/ y <= x
    BY <2>1
  <2> QED
    BY <2>2, Zenon DEF x, y
<1>6. \A i, j, k \in Ranked :
        /\ Num(i) * Den(j) <= Num(j) * Den(i)
        /\ Num(j) * Den(k) <= Num(k) * Den(j)
        => Num(i) * Den(k) <= Num(k) * Den(i)
  <2> SUFFICES ASSUME NEW i \in Ranked, NEW j \in Ranked, NEW k \in Ranked,
                      Num(i) * Den(j) <= Num(j) * Den(i),
                      Num(j) * Den(k) <= Num(k) * Den(j)
               PROVE  Num(i) * Den(k) <= Num(k) * Den(i)
    BY Zenon
  <2>1. /\ Num(i) \in Nat /\ Den(i) \in Nat \ {0}
        /\ Num(j) \in Nat /\ Den(j) \in Nat \ {0}
        /\ Num(k) \in Nat /\ Den(k) \in Nat \ {0}
    BY <1>1, Zenon
  <2> QED
    BY <2>1, AtMostTransitive, Zenon
<1>7. \A i \in Ranked : AtMost(Accuracy(i).some, Accuracy(i).some)
  BY <1>3, <1>5, Zenon
<1>8. \A i, j \in Ranked : \/ AtMost(Accuracy(i).some, Accuracy(j).some)
                          \/ AtMost(Accuracy(j).some, Accuracy(i).some)
  BY <1>3, <1>5, Zenon
<1>9. \A i, j, k \in Ranked :
        /\ AtMost(Accuracy(i).some, Accuracy(j).some)
        /\ AtMost(Accuracy(j).some, Accuracy(k).some)
        => AtMost(Accuracy(i).some, Accuracy(k).some)
  BY <1>3, <1>6, Zenon
<1> QED
  BY <1>7, <1>8, <1>9, Zenon

\* If any configuration has an accuracy, one has the highest.
LEMMA BestExists ==
  ASSUME Tallied, Ranked # {}
  PROVE  \E i \in Ranked : Tops(i, Ranked)
<1> DEFINE Upto(n) == Ranked \cap (1..n)
           Bad == {n \in Nat : Upto(n) # {} /\ ~ \E i \in Upto(n) : Tops(i, Upto(n))}
<1>1. Ranked \subseteq 1..Combinations
  BY AccuracyIs
<1>2. Combinations \in Nat
  BY CombinationsIsNat
<1>3. Upto(Combinations) = Ranked
  BY <1>1
<1>4. Bad = {}
  <2> SUFFICES ASSUME Bad # {} PROVE FALSE
    OBVIOUS
  <2>1. PICK n \in Bad : \A m \in Bad : n <= m
    <3>1. Bad \in SUBSET Nat
      OBVIOUS
    <3> HIDE DEF Bad
    <3> QED
      BY <3>1, FirstOf
  <2>2. n \in Nat /\ Upto(n) # {} /\ ~ \E i \in Upto(n) : Tops(i, Upto(n))
    BY <2>1
  <2>3. n # 0
    BY <2>2
  <2>4. n - 1 \in Nat /\ ~(n <= n - 1)
    BY <2>2, <2>3
  <2>5. n - 1 \notin Bad
    BY <2>1, <2>4
  <2>6. Upto(n - 1) = {} \/ \E i \in Upto(n - 1) : Tops(i, Upto(n - 1))
    BY <2>4, <2>5
  <2>7. \A j \in Upto(n) : j \in Ranked /\ (j \in Upto(n - 1) \/ j = n)
    BY <1>1, <2>2, <2>4
  <2>8. \A j \in Upto(n - 1) : j \in Ranked /\ j \in Upto(n)
    BY <1>1, <2>2, <2>4
  <2> HIDE DEF Upto, Bad
  <2>9. CASE Upto(n - 1) = {}
    <3>1. n \in Upto(n) /\ \A j \in Upto(n) : j = n
      BY <2>2, <2>7, <2>9
    <3>2. Tops(n, Upto(n))
      BY <2>7, <3>1, AccuracyOrder, Zenon DEF Tops
    <3> QED
      BY <2>2, <3>1, <3>2
  <2>10. CASE \E i \in Upto(n - 1) : Tops(i, Upto(n - 1))
    <3>1. PICK i \in Upto(n - 1) : Tops(i, Upto(n - 1))
      BY <2>10
    <3>2. i \in Ranked /\ i \in Upto(n)
      BY <2>8
    <3>3. CASE n \in Upto(n)
      <4>1. n \in Ranked
        BY <2>7, <3>3
      <4>2. CASE AtMost(Accuracy(n).some, Accuracy(i).some)
        <5>1. Tops(i, Upto(n))
          BY <2>7, <3>1, <4>2, Zenon DEF Tops
        <5> QED
          BY <2>2, <3>2, <5>1
      <4>3. CASE AtMost(Accuracy(i).some, Accuracy(n).some)
        <5>1. \A j \in Upto(n - 1) : AtMost(Accuracy(j).some, Accuracy(n).some)
          BY <2>8, <3>1, <3>2, <4>1, <4>3, AccuracyOrder, Zenon DEF Tops
        <5>2. AtMost(Accuracy(n).some, Accuracy(n).some)
          BY <4>1, AccuracyOrder, Zenon
        <5>3. Tops(n, Upto(n))
          BY <2>7, <5>1, <5>2, Zenon DEF Tops
        <5> QED
          BY <2>2, <3>3, <5>3
      <4> QED
        BY <3>2, <4>1, <4>2, <4>3, AccuracyOrder, Zenon
    <3>4. CASE n \notin Upto(n)
      <4>1. Tops(i, Upto(n))
        BY <2>7, <3>1, <3>4, Zenon DEF Tops
      <4> QED
        BY <2>2, <3>2, <4>1
    <3> QED
      BY <3>3, <3>4
  <2> QED
    BY <2>6, <2>9, <2>10
<1>5. Combinations \notin Bad
  BY <1>4
<1> HIDE DEF Tops
<1> QED
  BY <1>2, <1>3, <1>5, Zenon

\* best_idx is the index of a configuration with the highest accuracy.
LEMMA BestIdxIsBest ==
  ASSUME Tallied, Ranked # {}
  PROVE  BestIdx \in Ranked /\ Tops(BestIdx, Ranked)
<1> DEFINE S == {i \in Ranked : Tops(i, Ranked)}
<1>1. S # {}
  BY BestExists
<1>2. S \in SUBSET (1..Combinations)
  BY AccuracyIs
<1>3. Combinations \in Nat
  BY CombinationsIsNat
<1>4. BestIdx = Max(S)
  BY Zenon DEF BestIdx, Tops
<1> HIDE DEF S
<1>5. Max(S) \in S
  BY <1>1, <1>2, <1>3, LastIsThere
<1> QED
  BY <1>4, <1>5 DEF S

\* main.rs:190-199: for every sweep and tape, once all that have an accuracy
\* compared enough buckets, each has a p-value but one, which no other beats.
\* best_idx exists among them, whatever else was rejected or never compared.
THEOREM RivalsCompared == Spec => []EveryRivalIsCompared
<1>1. SweepInv => EveryRivalIsCompared
  <2> SUFFICES ASSUME Tallied, Ranked # {},
                      \A i \in Ranked : bvc[Pair(i)].compared >= MIN_COMPARED
               PROVE  \E best \in Ranked :
                        /\ \A i \in Ranked : AtMost(Accuracy(i).some, Accuracy(best).some)
                        /\ \A i \in Accepted : PValue(i) = None <=> i = best \/ i \notin Ranked
    BY Zenon DEF SweepInv, EveryRivalIsCompared
  <2>1. BestIdx \in Ranked /\ Tops(BestIdx, Ranked)
    BY BestIdxIsBest
  <2>2. ASSUME NEW i \in Ranked
        PROVE  /\ Accuracy(i) # None
               /\ Accuracy(i).some[2] = bvc[Pair(i)].compared
               /\ ~(Accuracy(i).some[2] < MIN_COMPARED)
    <3>1. /\ Accuracy(i) # None
          /\ Accuracy(i).some = <<bvc[Pair(i)].correct, bvc[Pair(i)].compared>>
          /\ bvc[Pair(i)].compared \in Nat
      BY AccuracyIs
    <3> DEFINE c == bvc[Pair(i)].compared
               n == bvc[Pair(i)].correct
    <3>2. c \in Nat /\ c >= MIN_COMPARED /\ Accuracy(i).some = <<n, c>>
      BY <3>1, Zenon
    <3> HIDE DEF c, n
    <3>3. Accuracy(i).some[2] = c /\ ~(c < MIN_COMPARED)
      BY <3>2, CalibrateAssumption
    <3> QED
      BY <3>1, <3>3, Zenon DEF c
  <2>3. ASSUME NEW a, NEW b, ~(a[2] < MIN_COMPARED), ~(b[2] < MIN_COMPARED)
        PROVE  TwoProportion(a, b) # None
    <3>1. \/ TwoProportion(a, b) = Some(<<0, 1>>)
          \/ \E x : TwoProportion(a, b) = Some(x)
      BY <2>3, Zenon DEF TwoProportion
    <3> QED
      BY <3>1, SomeOrNone, Zenon
  <2>4. ASSUME NEW i \in Accepted
        PROVE  PValue(i) = None <=> i = BestIdx \/ i \notin Ranked
    <3>1. CASE i \in Ranked /\ BestIdx # i
      <4>1. PValue(i) = TwoProportion(Accuracy(i).some, Accuracy(BestIdx).some)
        BY <2>1, <2>2, <3>1, Zenon DEF PValue
      <4>2. TwoProportion(Accuracy(i).some, Accuracy(BestIdx).some) # None
        BY <2>1, <2>2, <2>3, <3>1, Zenon
      <4> QED
        BY <3>1, <4>1, <4>2, Zenon
    <3>2. CASE ~(i \in Ranked /\ BestIdx # i)
      BY <3>2, Zenon DEF PValue
    <3> QED
      BY <3>1, <3>2
  <2> QED
    BY <2>1, <2>4, Zenon DEF Tops
<1> QED
  BY <1>1, SweepInductive, PTL
=============================================================================
