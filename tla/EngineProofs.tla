---------------------------- MODULE EngineProofs ----------------------------
(***************************************************************************)
(* Facts about the operators of vpin-engine, for every window and value.   *)
(*                                                                         *)
(* Its sums are totals (module Sums).  The last three sections are about   *)
(* sorting: what a position of a sorted copy holds, what a percentile      *)
(* between two of them may be, and how the median splits a window.         *)
(***************************************************************************)
EXTENDS Engine, Sums, SequenceTheorems

-----------------------------------------------------------------------------
(* The sums the model takes, as totals *)

\* Total is what the model's sums mean.
LEMMA SumOverIs ==
  ASSUME NEW S, NEW g
  PROVE  SumOver(S, LAMBDA i : g[i]) = Total(S, g)
BY Zenon DEF SumOver, MapThenSumSet, MapThenFoldSet, Total, IsSum, SumBody, PickOf

\* imb_sum
LEMMA ImbSum ==
  ASSUME NEW imbs \in Seq(Nat \X Nat)
  PROVE  SeqSum(imbs, LAMBDA p : p[1])
           = Total(DOMAIN imbs, [m \in DOMAIN imbs |-> imbs[m][1]])
<1> DEFINE D == DOMAIN imbs
           g == [m \in D |-> imbs[m][1]]
           Fold(it) == it = [s \in SUBSET D |->
                              IF s = {} THEN 0
                              ELSE imbs[PickOf(s)][1] + it[s \ {PickOf(s)}]]
           own == CHOOSE it : Fold(it)
<1>1. SeqSum(imbs, LAMBDA p : p[1]) = own[D]
  BY Zenon DEF SeqSum, SumOver, MapThenSumSet, MapThenFoldSet, PickOf
<1>2. ASSUME NEW it PROVE Fold(it) <=> IsSum(it, D, g)
  <2>1. \A s \in SUBSET D : (IF s = {} THEN 0 ELSE imbs[PickOf(s)][1] + it[s \ {PickOf(s)}])
                              = SumBody(it, s, g)
    <3>1. \A s \in SUBSET D : s # {} => PickOf(s) \in D
      BY PickIn
    <3> QED
      BY <3>1, Zenon DEF SumBody
  <2> QED
    BY <2>1, Zenon DEF IsSum
<1>3. Numbers(D, g)
  <2>1. IsFiniteSet(D)
    BY FS_Interval
  <2>2. \A m \in D : g[m] \in Int
    OBVIOUS
  <2> HIDE DEF D, g, own
  <2> QED
    BY <2>1, <2>2, Zenon DEF Numbers
<1>4. \E it : IsSum(it, D, g)
  BY <1>3, SumExists, Zenon
<1>5. IsSum(own, D, g)
  BY <1>2, <1>4, Zenon
<1> HIDE DEF own, D, g
<1>6. Total(D, g) = own[D]
  BY <1>3, <1>5, TotalFrom
<1> QED
  BY <1>1, <1>6, Zenon DEF D, g

\* vol_sum
LEMMA VolSum ==
  ASSUME NEW imbs \in Seq(Nat \X Nat)
  PROVE  SeqSum(imbs, LAMBDA p : p[2])
           = Total(DOMAIN imbs, [m \in DOMAIN imbs |-> imbs[m][2]])
<1> DEFINE D == DOMAIN imbs
           g == [m \in D |-> imbs[m][2]]
           Fold(it) == it = [s \in SUBSET D |->
                              IF s = {} THEN 0
                              ELSE imbs[PickOf(s)][2] + it[s \ {PickOf(s)}]]
           own == CHOOSE it : Fold(it)
<1>1. SeqSum(imbs, LAMBDA p : p[2]) = own[D]
  BY Zenon DEF SeqSum, SumOver, MapThenSumSet, MapThenFoldSet, PickOf
<1>2. ASSUME NEW it PROVE Fold(it) <=> IsSum(it, D, g)
  <2>1. \A s \in SUBSET D : (IF s = {} THEN 0 ELSE imbs[PickOf(s)][2] + it[s \ {PickOf(s)}])
                              = SumBody(it, s, g)
    <3>1. \A s \in SUBSET D : s # {} => PickOf(s) \in D
      BY PickIn
    <3> QED
      BY <3>1, Zenon DEF SumBody
  <2> QED
    BY <2>1, Zenon DEF IsSum
<1>3. Numbers(D, g)
  <2>1. IsFiniteSet(D)
    BY FS_Interval
  <2>2. \A m \in D : g[m] \in Int
    OBVIOUS
  <2> HIDE DEF D, g, own
  <2> QED
    BY <2>1, <2>2, Zenon DEF Numbers
<1>4. \E it : IsSum(it, D, g)
  BY <1>3, SumExists, Zenon
<1>5. IsSum(own, D, g)
  BY <1>2, <1>4, Zenon
<1> HIDE DEF own, D, g
<1>6. Total(D, g) = own[D]
  BY <1>3, <1>5, TotalFrom
<1> QED
  BY <1>1, <1>6, Zenon DEF D, g

VolumesOf(s) == [j \in DOMAIN s |-> s[j].volume]
CountsOf(s) == [j \in DOMAIN s |-> s[j].trade_count]

\* The volume of some entries of a sequence of trades or of buckets.
LEMMA SumOfVolumes ==
  ASSUME NEW s, NEW S, S \subseteq DOMAIN s, Numbers(S, VolumesOf(s))
  PROVE  SumOver(S, LAMBDA j : s[j].volume) = Total(S, VolumesOf(s))
<1> DEFINE g == VolumesOf(s)
           Fold(it) == it = [u \in SUBSET S |->
                              IF u = {} THEN 0
                              ELSE s[PickOf(u)].volume + it[u \ {PickOf(u)}]]
           own == CHOOSE it : Fold(it)
<1>1. SumOver(S, LAMBDA j : s[j].volume) = own[S]
  BY Zenon DEF SumOver, MapThenSumSet, MapThenFoldSet, PickOf
<1>2. \A u \in SUBSET S : u # {} => PickOf(u) \in S
  BY PickIn
<1>3. \A j \in S : s[j].volume = g[j]
  BY Zenon DEF VolumesOf
<1> HIDE DEF g
<1>4. ASSUME NEW it PROVE Fold(it) <=> IsSum(it, S, g)
  <2>1. \A u \in SUBSET S : (IF u = {} THEN 0 ELSE s[PickOf(u)].volume + it[u \ {PickOf(u)}])
                              = SumBody(it, u, g)
    BY <1>2, <1>3, Zenon DEF SumBody
  <2> QED
    BY <2>1, Zenon DEF IsSum
<1>5. Numbers(S, g)
  BY DEF g
<1>6. \E it : IsSum(it, S, g)
  BY <1>5, SumExists, Zenon
<1>7. IsSum(own, S, g)
  BY <1>4, <1>6, Zenon
<1> HIDE DEF own
<1>8. Total(S, g) = own[S]
  BY <1>5, <1>7, TotalFrom
<1> QED
  BY <1>1, <1>8, Zenon DEF g

\* The number of trades of some buckets.
LEMMA SumOfCounts ==
  ASSUME NEW s, NEW S, S \subseteq DOMAIN s, Numbers(S, CountsOf(s))
  PROVE  SumOver(S, LAMBDA j : s[j].trade_count) = Total(S, CountsOf(s))
<1> DEFINE g == CountsOf(s)
           Fold(it) == it = [u \in SUBSET S |->
                              IF u = {} THEN 0
                              ELSE s[PickOf(u)].trade_count + it[u \ {PickOf(u)}]]
           own == CHOOSE it : Fold(it)
<1>1. SumOver(S, LAMBDA j : s[j].trade_count) = own[S]
  BY Zenon DEF SumOver, MapThenSumSet, MapThenFoldSet, PickOf
<1>2. \A u \in SUBSET S : u # {} => PickOf(u) \in S
  BY PickIn
<1>3. \A j \in S : s[j].trade_count = g[j]
  BY Zenon DEF CountsOf
<1> HIDE DEF g
<1>4. ASSUME NEW it PROVE Fold(it) <=> IsSum(it, S, g)
  <2>1. \A u \in SUBSET S : (IF u = {} THEN 0 ELSE s[PickOf(u)].trade_count + it[u \ {PickOf(u)}])
                              = SumBody(it, u, g)
    BY <1>2, <1>3, Zenon DEF SumBody
  <2> QED
    BY <2>1, Zenon DEF IsSum
<1>5. Numbers(S, g)
  BY DEF g
<1>6. \E it : IsSum(it, S, g)
  BY <1>5, SumExists, Zenon
<1>7. IsSum(own, S, g)
  BY <1>4, <1>6, Zenon
<1> HIDE DEF own
<1>8. Total(S, g) = own[S]
  BY <1>5, <1>7, TotalFrom
<1> QED
  BY <1>1, <1>8, Zenon DEF g

\* The sum of a sequence that gets a last entry.
LEMMA TotalNext ==
  ASSUME NEW n \in Nat, NEW f, NEW g, Numbers(1..n, f),
         \A j \in 1..n : g[j] = f[j], g[n + 1] \in Int
  PROVE  /\ Numbers(1..(n + 1), g)
         /\ \A k \in 0..n : Total(1..k, g) = Total(1..k, f)
         /\ Total(1..(n + 1), g) = Total(1..n, f) + g[n + 1]
<1>1. ASSUME NEW k \in 0..n
      PROVE  Total(1..k, g) = Total(1..k, f)
  <2>1. IsFiniteSet(1..k) /\ 1..k \subseteq 1..n
    BY FS_Interval
  <2>2. Numbers(1..k, f) /\ \A j \in 1..k : f[j] = g[j]
    BY <2>1 DEF Numbers
  <2> QED
    BY <2>2, TotalCongruence
<1>2. Numbers(1..n, g)
  BY DEF Numbers
<1>3. n + 1 \notin 1..n /\ 1..(n + 1) = (1..n) \cup {n + 1} /\ n \in 0..n
  OBVIOUS
<1> DEFINE S == 1..n
           x == n + 1
<1>4. Numbers(S \cup {x}, g) /\ Total(S \cup {x}, g) = Total(S, g) + g[x]
  <2>1. x \notin S /\ Numbers(S, g) /\ g[x] \in Int
    BY <1>2, <1>3
  <2> HIDE DEF S, x
  <2> QED
    BY <2>1, TotalAdd
<1>5. Total(S, g) = Total(S, f)
  BY <1>1, <1>3
<1> QED
  BY <1>1, <1>3, <1>4, <1>5, Zenon

-----------------------------------------------------------------------------
(* The engine's operators *)

\* An Option is one or the other.
LEMMA SomeOrNone ==
  ASSUME NEW x
  PROVE  Some(x) # None /\ Some(x).some = x
<1>1. "some" \in DOMAIN Some(x) /\ "some" \notin DOMAIN None
  BY DEF Some, None
<1>2. Some(x) # None
  BY <1>1, Zenon
<1> QED
  BY <1>2 DEF Some

\* The bucketer once a bucket has closed.
LEMMA NextBucketType ==
  ASSUME NEW b \in Bucketers, NEW price \in Nat, NEW acc, acc = 0
  PROVE  [b EXCEPT !.bucket_id = @ + 1, !.trade_count = 0, !.acc_volume = acc,
                   !.prev_close = price] \in Bucketers
<1>1. b.bucket_id + 1 \in Nat /\ 0 \in Nat
  BY DEF Bucketers
<1> QED
  BY <1>1 DEF Bucketers

\* What a push returns: a bucketer, and a bucket if one closed.
IsPush(pushed) ==
  /\ pushed.bucketer \in Bucketers
  /\ pushed.closed = None \/ \E x \in Buckets : pushed.closed = Some(x)

\* A push from b: below the target the bucket stays open, and otherwise all of
\* it closes and the next one starts empty.
PushStep(b, target, volume, pushed) ==
  LET total == b.acc_volume + volume
      after == pushed.bucketer
      x == pushed.closed.some IN
  /\ total < target =>
       /\ pushed.closed = None
       /\ after.bucket_id = b.bucket_id
       /\ after.acc_volume = total
       /\ after.trade_count = b.trade_count + 1
  /\ ~(total < target) =>
       /\ pushed.closed # None
       /\ x.bucket_id = b.bucket_id
       /\ x.volume = total
       /\ x.trade_count = b.trade_count + 1
       /\ after.bucket_id = b.bucket_id + 1
       /\ after.acc_volume = 0
       /\ after.trade_count = 0

\* VolumeBucketer::push returns the next bucketer, and a bucket or nothing.
LEMMA BucketerPushType ==
  ASSUME NEW b \in Bucketers, NEW target \in Nat, NEW price \in Nat,
         NEW volume \in Nat
  PROVE  /\ IsPush(BucketerPush(b, target, price, volume))
         /\ PushStep(b, target, volume, BucketerPush(b, target, price, volume))
<1> DEFINE prev == IF b.started THEN b.prev_close ELSE price
           total == b.acc_volume + volume
           open == [b EXCEPT !.started = TRUE, !.prev_close = prev,
                             !.acc_volume = total, !.trade_count = @ + 1]
           fresh == [open EXCEPT !.bucket_id = @ + 1, !.trade_count = 0,
                                  !.acc_volume = AccAfterClose(total, target),
                                  !.prev_close = price]
           full == [bucket_id |-> b.bucket_id, delta_p |-> price - prev,
                    volume |-> total, trade_count |-> b.trade_count + 1]
<1>1. /\ b.bucket_id \in Nat /\ b.acc_volume \in Nat /\ b.prev_close \in Nat
      /\ b.trade_count \in Nat
  BY DEF Bucketers
<1>2. prev \in Nat /\ total \in Nat /\ price - prev \in Int /\ b.trade_count + 1 \in Nat
  BY <1>1
<1>3. AccAfterClose(total, target) = 0
  BY DEF AccAfterClose
<1>4. open \in Bucketers
  <2> HIDE DEF prev, total
  <2> QED
    BY <1>2 DEF Bucketers
<1>5. fresh \in Bucketers
  <2> HIDE DEF open, total
  <2> QED
    BY <1>3, <1>4, NextBucketType, Zenon
<1>6. full \in Buckets
  <2> HIDE DEF prev, total
  <2> QED
    BY <1>1, <1>2 DEF Buckets
<1> DEFINE pushed == BucketerPush(b, target, price, volume)
<1>7. pushed = IF total < target THEN [bucketer |-> open, closed |-> None]
               ELSE [bucketer |-> fresh, closed |-> Some(full)]
  BY Zenon DEF BucketerPush
<1>8. /\ open.bucket_id = b.bucket_id /\ open.acc_volume = total
      /\ open.trade_count = b.trade_count + 1
      /\ fresh.bucket_id = b.bucket_id + 1 /\ fresh.acc_volume = 0
      /\ fresh.trade_count = 0
      /\ full.bucket_id = b.bucket_id /\ full.volume = total
      /\ full.trade_count = b.trade_count + 1
  <2> HIDE DEF prev, total
  <2> QED
    BY <1>3 DEF Bucketers
<1>9. Some(full) # None /\ Some(full).some = full
  BY SomeOrNone
<1> HIDE DEF pushed, total, open, fresh, full
<1>10. CASE total < target
  <2>1. pushed.bucketer = open /\ pushed.closed = None
    BY <1>7, <1>10
  <2> QED
    BY <1>4, <1>8, <1>10, <2>1, Zenon DEF IsPush, PushStep, pushed, total
<1>11. CASE ~(total < target)
  <2>1. pushed.bucketer = fresh /\ pushed.closed = Some(full)
    BY <1>7, <1>11
  <2> QED
    BY <1>5, <1>6, <1>8, <1>9, <1>11, <2>1, Zenon DEF IsPush, PushStep, pushed, total
<1> QED
  BY <1>10, <1>11

\* slid is buf after pop_front when full, then push_back.
SlidFrom(buf, x, window, slid) ==
  /\ Len(buf) = window =>
       /\ Len(slid) = window
       /\ \A n \in 1..(window - 1) : slid[n] = buf[n + 1]
       /\ slid[window] = x
  /\ Len(buf) # window =>
       /\ Len(slid) = Len(buf) + 1
       /\ \A n \in 1..Len(buf) : slid[n] = buf[n]
       /\ slid[Len(buf) + 1] = x

\* A window of values takes a value, and forgets its oldest when full.
LEMMA SlideIs ==
  ASSUME NEW S, NEW buf \in Seq(S), NEW x \in S, NEW window \in Nat \ {0},
         Len(buf) <= window
  PROVE  /\ Slide(buf, x, window) \in Seq(S)
         /\ SlidFrom(buf, x, window, Slide(buf, x, window))
<1>1. Len(buf) \in Nat
  OBVIOUS
<1>2. CASE Len(buf) = window
  <2> DEFINE t == Tail(buf)
  <2>1. buf # <<>>
    BY <1>1, <1>2
  <2>2. /\ t \in Seq(S) /\ Len(t) = window - 1
        /\ \A n \in 1..(window - 1) : t[n] = buf[n + 1]
    BY <1>2, <2>1, HeadTailProperties
  <2> HIDE DEF t
  <2>3. /\ Append(t, x) \in Seq(S) /\ Len(Append(t, x)) = Len(t) + 1
        /\ \A n \in 1..Len(t) : Append(t, x)[n] = t[n]
        /\ Append(t, x)[Len(t) + 1] = x
    BY <2>2, AppendProperties
  <2>4. Slide(buf, x, window) = Append(t, x)
    BY <1>2 DEF Slide, t
  <2>5. (window - 1) + 1 = window
    OBVIOUS
  <2> QED
    BY <1>2, <2>2, <2>3, <2>4, <2>5, Zenon DEF SlidFrom
<1>3. CASE Len(buf) # window
  <2>1. Slide(buf, x, window) = Append(buf, x)
    BY <1>3 DEF Slide
  <2>2. /\ Append(buf, x) \in Seq(S) /\ Len(Append(buf, x)) = Len(buf) + 1
        /\ \A n \in 1..Len(buf) : Append(buf, x)[n] = buf[n]
        /\ Append(buf, x)[Len(buf) + 1] = x
    BY AppendProperties
  <2> QED
    BY <1>3, <2>1, <2>2, Zenon DEF SlidFrom
<1> QED
  BY <1>2, <1>3

\* |2 Phi(z) - 1| in thirds, whatever the spread.
LEMMA ThirdsType ==
  ASSUME NEW delta, NEW s
  PROVE  ImbalanceThirds(delta, s) \in 0..3
BY DEF ImbalanceThirds

\* Comparing fractions crosswise is transitive where denominators are positive.
LEMMA AtMostTransitive ==
  ASSUME NEW a1 \in Nat, NEW a2 \in Nat \ {0}, NEW b1 \in Nat, NEW b2 \in Nat \ {0},
         NEW c1 \in Nat, NEW c2 \in Nat \ {0},
         a1 * b2 <= b1 * a2, b1 * c2 <= c1 * b2
  PROVE  a1 * c2 <= c1 * a2
<1>1. (a1 * b2) * c2 <= (b1 * a2) * c2
  OBVIOUS
<1>2. (b1 * c2) * a2 <= (c1 * b2) * a2
  OBVIOUS
<1>3. (b1 * a2) * c2 = (b1 * c2) * a2
  OBVIOUS
<1> DEFINE x == a1 * c2
           y == c1 * a2
<1>4. x \in Nat /\ y \in Nat
  OBVIOUS
<1>5. b2 * x = (a1 * b2) * c2 /\ b2 * y = (c1 * b2) * a2
  OBVIOUS
<1>6. b2 * x <= b2 * y
  BY <1>1, <1>2, <1>3, <1>5
<1> HIDE DEF x, y
<1>7. x <= y
  <2> SUFFICES ASSUME x >= y + 1 PROVE FALSE
    BY <1>4
  <2>1. b2 * x >= b2 * (y + 1)
    BY <1>4
  <2>2. b2 * (y + 1) = b2 * y + b2
    BY <1>4
  <2>3. b2 * y \in Nat /\ b2 * x \in Nat
    BY <1>4
  <2> QED
    BY <1>6, <2>1, <2>2, <2>3
<1> QED
  BY <1>7 DEF x, y

\* A VPIN is a pair of numbers, at most 1 if no imbalance exceeds its volume,
\* and has a denominator if there is a volume to average over.
LEMMA VpinType ==
  ASSUME NEW imbs \in Seq(Nat \X Nat), NEW cfg
  PROVE  /\ VpinOf(imbs, cfg) \in Nat \X Nat
         /\ VpinOf(imbs, cfg)[1] = Total(DOMAIN imbs, [m \in DOMAIN imbs |-> imbs[m][1]])
         /\ VpinOf(imbs, cfg)[2] = 3 * Total(DOMAIN imbs, [m \in DOMAIN imbs |-> imbs[m][2]])
         /\ (\A m \in DOMAIN imbs : imbs[m][1] <= 3 * imbs[m][2]) =>
              VpinOf(imbs, cfg)[1] <= VpinOf(imbs, cfg)[2]
         /\ (imbs # <<>> /\ \A m \in DOMAIN imbs : imbs[m][2] > 0) =>
              VpinOf(imbs, cfg)[2] > 0
<1> DEFINE D == DOMAIN imbs
           g == [m \in D |-> imbs[m][1]]
           f == [m \in D |-> imbs[m][2]]
           num == Total(D, g)
           vol == Total(D, f)
<1>1. IsFiniteSet(D)
  BY FS_Interval
<1>2. \A m \in D : imbs[m][1] \in Nat /\ imbs[m][2] \in Nat
  OBVIOUS
<1>3. \A m \in D : g[m] = imbs[m][1] /\ f[m] = imbs[m][2]
  OBVIOUS
<1>4. VpinOf(imbs, cfg) = <<num, 3 * vol>>
  BY ImbSum, VolSum, Zenon DEF VpinOf
<1> DEFINE vpin == VpinOf(imbs, cfg)
<1> HIDE DEF D, g, f, vpin
<1>5. Numbers(D, g) /\ Numbers(D, f)
  BY <1>1, <1>2, <1>3 DEF Numbers
<1>6. \A m \in D : 0 <= g[m] /\ 0 <= f[m] /\ g[m] <= 1 * g[m] /\ f[m] <= 1 * f[m]
  BY <1>2, <1>3
<1>7. num \in Nat /\ vol \in Nat
  <2>1. num \in Int /\ vol \in Int
    BY <1>5, TotalType
  <2>2. 0 <= num /\ 0 <= vol
    BY <1>5, <1>6, TotalBounds
  <2> HIDE DEF num, vol
  <2> QED
    BY <2>1, <2>2
<1>8. (\A m \in D : imbs[m][1] <= 3 * imbs[m][2]) => num <= 3 * vol
  <2> SUFFICES ASSUME \A m \in D : imbs[m][1] <= 3 * imbs[m][2] PROVE num <= 3 * vol
    OBVIOUS
  <2>1. \A m \in D : 0 <= g[m] /\ g[m] <= 3 * f[m]
    BY <1>3, <1>6
  <2> QED
    BY <1>5, <2>1, TotalBounds
<1>9. (imbs # <<>> /\ \A m \in D : imbs[m][2] > 0) => vol > 0
  <2> SUFFICES ASSUME imbs # <<>>, \A m \in D : imbs[m][2] > 0 PROVE vol > 0
    OBVIOUS
  <2>1. 1 \in D
    BY DEF D
  <2>2. f[1] <= vol
    BY <1>5, <1>6, <2>1, TermInTotal
  <2>3. f[1] \in Nat /\ f[1] > 0
    BY <1>2, <1>3, <2>1
  <2> HIDE DEF num, vol
  <2> QED
    BY <1>7, <2>2, <2>3
<1> HIDE DEF num, vol
<1>10. vpin = <<num, 3 * vol>>
  BY <1>4 DEF vpin
<1>11. /\ vpin \in Nat \X Nat /\ vpin[1] = num /\ vpin[2] = 3 * vol
       /\ vol > 0 => vpin[2] > 0
  BY <1>7, <1>10
<1> QED
  BY <1>8, <1>9, <1>11, Zenon DEF vpin, D, g, f, num, vol

-----------------------------------------------------------------------------
(* Sorting *)

\* The i of D not above j, and those below j, in the order R
NotAbove(D, R, j) == {i \in D : <<i, j>> \in R}
Under(D, R, j) == {i \in D : <<j, i>> \notin R}

\* R orders D, possibly with ties.
Orders(R, D) ==
  /\ \A i, j \in D : <<i, j>> \in R \/ <<j, i>> \in R
  /\ \A i, j, k \in D : <<i, j>> \in R /\ <<j, k>> \in R => <<i, k>> \in R

\* Member i of D may be the k-th in the order R.
IsKth(i, k, D, R) ==
  /\ i \in D
  /\ Cardinality(Under(D, R, i)) < k
  /\ k <= Cardinality(NotAbove(D, R, i))

\* Some member of a finite set has the largest of some numbers up to n.
LEMMA Largest ==
  ASSUME NEW D, D # {}, NEW n \in Nat, NEW f, \A i \in D : f[i] \in 0..n
  PROVE  \E i \in D : \A j \in D : f[j] <= f[i]
<1> DEFINE S == {n - f[i] : i \in D}
<1>1. S \in SUBSET Nat /\ S # {}
  <2>1. \A i \in D : n - f[i] \in Nat
    OBVIOUS
  <2> QED
    BY <2>1
<1>2. PICK x \in S : \A y \in S : x <= y
  <2> HIDE DEF S
  <2> QED
    BY <1>1, FirstOf, Zenon
<1>3. PICK i \in D : x = n - f[i]
  BY <1>2
<1>4. \A j \in D : n - f[i] <= n - f[j]
  BY <1>2, <1>3
<1>5. \A j \in D : f[j] <= f[i]
  BY <1>4
<1> QED
  BY <1>5

\* Sets of an order grow along it, strictly where it is strict.
LEMMA NotAboveGrows ==
  ASSUME NEW D, IsFiniteSet(D), NEW R, Orders(R, D)
  PROVE  /\ \A i \in D : /\ Cardinality(NotAbove(D, R, i)) \in 0..Cardinality(D)
                         /\ i \in NotAbove(D, R, i)
                         /\ IsFiniteSet(NotAbove(D, R, i))
         /\ \A i, j \in D : <<j, i>> \notin R =>
              Cardinality(NotAbove(D, R, i)) < Cardinality(NotAbove(D, R, j))
<1>1. ASSUME NEW i \in D
      PROVE  /\ Cardinality(NotAbove(D, R, i)) \in 0..Cardinality(D)
             /\ i \in NotAbove(D, R, i)
             /\ IsFiniteSet(NotAbove(D, R, i))
  <2> DEFINE A == NotAbove(D, R, i)
  <2>1. A \subseteq D /\ i \in A
    BY Zenon DEF NotAbove, Orders
  <2> HIDE DEF A
  <2>2. /\ IsFiniteSet(A) /\ Cardinality(A) \in Nat /\ Cardinality(D) \in Nat
        /\ Cardinality(A) <= Cardinality(D)
    BY <2>1, FS_Subset, FS_CardinalityType
  <2>3. Cardinality(A) \in 0..Cardinality(D)
    BY <2>2
  <2> QED
    BY <2>1, <2>2, <2>3, Zenon DEF A
<1>2. ASSUME NEW i \in D, NEW j \in D, <<j, i>> \notin R
      PROVE  Cardinality(NotAbove(D, R, i)) < Cardinality(NotAbove(D, R, j))
  <2> DEFINE A == NotAbove(D, R, i)
             B == NotAbove(D, R, j)
  <2>1. A \subseteq B /\ j \in B /\ j \notin A
    BY <1>1, <1>2, Zenon DEF NotAbove, Orders
  <2>2. IsFiniteSet(B)
    BY <1>1, Zenon
  <2> HIDE DEF A, B
  <2>3. Cardinality(A) <= Cardinality(B) /\ (Cardinality(A) = Cardinality(B) => A = B)
    BY <2>1, <2>2, FS_Subset
  <2>4. Cardinality(A) \in Nat /\ Cardinality(B) \in Nat
    BY <2>1, <2>2, FS_Subset, FS_CardinalityType
  <2>5. Cardinality(A) # Cardinality(B)
    BY <2>1, <2>3
  <2>6. Cardinality(A) < Cardinality(B)
    BY <2>3, <2>4, <2>5
  <2> QED
    BY <2>6, Zenon DEF A, B
<1> QED
  BY <1>1, <1>2, Zenon

\* There is one at every position.
LEMMA KthExists ==
  ASSUME NEW D, IsFiniteSet(D), NEW R, Orders(R, D), NEW k \in 1..Cardinality(D)
  PROVE  \E i \in D : IsKth(i, k, D, R)
<1> DEFINE n == Cardinality(D)
           f == [i \in D |-> Cardinality(NotAbove(D, R, i))]
           S == {i \in D : f[i] >= k}
<1>1. n \in Nat /\ k \in Nat /\ k <= n /\ k >= 1
  BY FS_CardinalityType
<1>2. \A i \in D : f[i] = Cardinality(NotAbove(D, R, i)) /\ f[i] \in 0..n
  BY NotAboveGrows, Zenon
<1>3. D # {}
  <2>1. D = {} => n = 0
    BY FS_EmptySet
  <2> QED
    BY <1>1, <2>1
<1> HIDE DEF f, n
<1>4. PICK top \in D : \A j \in D : f[j] <= f[top]
  BY <1>1, <1>2, <1>3, Largest
<1>5. \A i, j \in D : <<j, i>> \notin R => f[i] < f[j]
  BY <1>2, NotAboveGrows, Zenon
<1>6. f[top] = n
  <2>1. \A j \in D : <<j, top>> \in R
    <3> SUFFICES ASSUME NEW j \in D, <<j, top>> \notin R PROVE FALSE
      OBVIOUS
    <3>1. f[top] < f[j] /\ f[j] <= f[top] /\ f[top] \in Int /\ f[j] \in Int
      BY <1>2, <1>4, <1>5
    <3> QED
      BY <3>1
  <2>2. NotAbove(D, R, top) = D
    BY <2>1 DEF NotAbove
  <2> QED
    BY <1>2, <2>2, Zenon DEF n
<1>7. top \in S
  BY <1>1, <1>6
<1>8. PICK i \in S : \A j \in S : f[i] <= f[j]
  <2> DEFINE N == {f[j] : j \in S}
  <2>1. N \in SUBSET Nat /\ N # {}
    BY <1>2, <1>7
  <2>2. PICK x \in N : \A y \in N : x <= y
    <3> HIDE DEF N
    <3> QED
      BY <2>1, FirstOf, Zenon
  <2> QED
    BY <2>2
<1>9. i \in D /\ k <= f[i]
  BY <1>1, <1>2, <1>8
<1>10. Cardinality(Under(D, R, i)) < k
  <2> DEFINE B == Under(D, R, i)
  <2>1. B \subseteq D /\ \A j \in B : <<i, j>> \notin R
    BY DEF Under
  <2>2. CASE B = {}
    <3>1. Cardinality(B) = 0
      BY <2>2, FS_EmptySet
    <3> QED
      BY <1>1, <3>1
  <2>3. CASE B # {}
    <3> HIDE DEF B, S
    <3>1. \A j \in B : f[j] \in 0..n
      BY <1>2, <2>1
    <3>2. PICK j \in B : \A m \in B : f[m] <= f[j]
      BY <1>1, <2>3, <3>1, Largest
    <3>3. B \subseteq NotAbove(D, R, j)
      <4> SUFFICES ASSUME NEW m \in B, <<m, j>> \notin R PROVE FALSE
        BY <2>1 DEF NotAbove
      <4>1. f[j] < f[m] /\ f[m] <= f[j] /\ f[j] \in Int /\ f[m] \in Int
        BY <1>5, <2>1, <3>1, <3>2
      <4> QED
        BY <4>1
    <3>4. IsFiniteSet(NotAbove(D, R, j)) /\ f[j] = Cardinality(NotAbove(D, R, j))
      BY <1>2, <2>1, <3>2, NotAboveGrows, Zenon
    <3>5. Cardinality(B) <= f[j] /\ Cardinality(B) \in Nat
      BY <3>3, <3>4, FS_Subset, FS_CardinalityType
    <3>6. f[j] < f[i] /\ f[j] \in Int /\ f[i] \in Int
      <4>1. j \in D /\ <<i, j>> \notin R
        BY <2>1, <3>2, Zenon
      <4>2. f[j] < f[i]
        BY <1>5, <1>9, <4>1, Zenon
      <4> QED
        BY <1>2, <1>9, <4>1, <4>2
    <3>7. j \notin S
      BY <1>8, <3>6
    <3>8. f[j] < k
      BY <1>1, <2>1, <3>2, <3>6, <3>7 DEF S
    <3> DEFINE b == Cardinality(B)
               y == f[j]
    <3>9. b \in Nat /\ y \in Int /\ b <= y /\ y < k
      BY <3>5, <3>6, <3>8
    <3> HIDE DEF b, y
    <3>10. b < k
      BY <1>1, <3>9
    <3> QED
      BY <3>10 DEF b, B
  <2> QED
    BY <2>2, <2>3
<1> QED
  BY <1>2, <1>9, <1>10, Zenon DEF IsKth

\* Positions are in order.
LEMMA KthInOrder ==
  ASSUME NEW D, IsFiniteSet(D), NEW R, Orders(R, D), NEW k \in Nat, NEW l \in Nat,
         k <= l, NEW i, NEW j, IsKth(i, k, D, R), IsKth(j, l, D, R)
  PROVE  <<i, j>> \in R
<1> SUFFICES ASSUME <<i, j>> \notin R PROVE FALSE
  OBVIOUS
<1> DEFINE A == NotAbove(D, R, j)
           B == Under(D, R, i)
<1>1. /\ i \in D /\ j \in D
      /\ Cardinality(B) < k /\ l <= Cardinality(A)
  BY Zenon DEF IsKth
<1>2. A \subseteq B /\ B \subseteq D
  BY <1>1, Zenon DEF NotAbove, Under, Orders
<1> HIDE DEF A, B
<1>3. /\ Cardinality(A) <= Cardinality(B)
      /\ Cardinality(A) \in Nat /\ Cardinality(B) \in Nat
  <2>1. IsFiniteSet(B)
    BY <1>2, FS_Subset
  <2> QED
    BY <1>2, <2>1, FS_Subset, FS_CardinalityType
<1> QED
  BY <1>1, <1>3

-----------------------------------------------------------------------------
(* Percentiles *)

\* A fraction has a positive denominator: the volume of a closed bucket is.
PosFractions == Nat \X (Nat \ {0})

\* The positions of s, in the order of their fractions
OrderOf(s) == {x \in (DOMAIN s) \X (DOMAIN s) : AtMost(s[x[1]], s[x[2]])}

\* What that order says of two positions.
LEMMA OrderOfIs ==
  ASSUME NEW s, NEW i \in DOMAIN s, NEW j \in DOMAIN s
  PROVE  <<i, j>> \in OrderOf(s) <=> AtMost(s[i], s[j])
<1> DEFINE D == DOMAIN s
<1>1. i \in D /\ j \in D
  OBVIOUS
<1> HIDE DEF D
<1>2. <<i, j>> \in D \X D /\ <<i, j>>[1] = i /\ <<i, j>>[2] = j
  BY <1>1
<1> QED
  BY <1>2, Zenon DEF OrderOf, D

\* v ascends, as sort_by leaves it.
Ascending(v, n) ==
  /\ \A k \in 1..n : v[k] \in PosFractions
  /\ \A k, l \in 1..n : k <= l => AtMost(v[k], v[l])

\* A copy of s that sort_by has sorted
SortedCopy(s) == [k \in 1..Len(s) |-> SortedAt(s, k, AtMost)]

\* Crosswise comparison is an order.
LEMMA FractionOrder ==
  ASSUME NEW a \in PosFractions, NEW b \in PosFractions, NEW c \in PosFractions
  PROVE  /\ AtMost(a, a)
         /\ AtMost(a, b) \/ AtMost(b, a)
         /\ AtMost(a, b) /\ AtMost(b, c) => AtMost(a, c)
<1> DEFINE a1 == a[1]
           a2 == a[2]
           b1 == b[1]
           b2 == b[2]
           c1 == c[1]
           c2 == c[2]
<1>1. /\ a1 \in Nat /\ a2 \in Nat \ {0} /\ b1 \in Nat /\ b2 \in Nat \ {0}
      /\ c1 \in Nat /\ c2 \in Nat \ {0}
  BY DEF PosFractions
<1>2. AtMost(a, a) /\ (AtMost(a, b) <=> a1 * b2 <= b1 * a2)
      /\ (AtMost(b, a) <=> b1 * a2 <= a1 * b2)
      /\ (AtMost(b, c) <=> b1 * c2 <= c1 * b2)
      /\ (AtMost(a, c) <=> a1 * c2 <= c1 * a2)
  <2>1. a1 * a2 <= a1 * a2
    BY <1>1
  <2> QED
    BY <2>1, Zenon DEF AtMost
<1> HIDE DEF a1, a2, b1, b2, c1, c2
<1>3. a1 * b2 <= b1 * a2 /\ b1 * c2 <= c1 * b2 => a1 * c2 <= c1 * a2
  BY <1>1, AtMostTransitive
<1>4. a1 * b2 <= b1 * a2 \/ b1 * a2 <= a1 * b2
  <2>1. a1 * b2 \in Nat /\ b1 * a2 \in Nat
    BY <1>1
  <2> QED
    BY <2>1
<1> QED
  BY <1>2, <1>3, <1>4, Zenon

\* What sort_by puts at position k is one of the values, the k-th of them.
LEMMA SortedIsKth ==
  ASSUME NEW s \in Seq(PosFractions), NEW k \in 1..Len(s)
  PROVE  /\ Orders(OrderOf(s), DOMAIN s)
         /\ \E i \in DOMAIN s : /\ SortedAt(s, k, AtMost) = s[i]
                                /\ IsKth(i, k, DOMAIN s, OrderOf(s))
<1> DEFINE D == DOMAIN s
           R == OrderOf(s)
           P(i) == /\ Cardinality({j \in D : ~AtMost(s[i], s[j])}) < k
                   /\ k <= Cardinality({j \in D : AtMost(s[j], s[i])})
<1>1. /\ IsFiniteSet(D) /\ Cardinality(D) = Len(s)
      /\ \A i \in D : s[i] \in PosFractions
  <2>1. D = 1..Len(s) /\ Len(s) \in Nat
    OBVIOUS
  <2>2. IsFiniteSet(1..Len(s)) /\ Cardinality(1..Len(s)) = Len(s)
    BY <2>1, FS_Interval
  <2>3. \A i \in D : s[i] \in PosFractions
    OBVIOUS
  <2> QED
    BY <2>1, <2>2, <2>3, Zenon
<1>2. \A i, j \in D : <<i, j>> \in R <=> AtMost(s[i], s[j])
  BY OrderOfIs, Zenon
<1> HIDE DEF R, D
<1>3. Orders(R, D)
  BY <1>1, <1>2, FractionOrder, Zenon DEF Orders
<1>4. \A i \in D : /\ Under(D, R, i) = {j \in D : ~AtMost(s[i], s[j])}
                   /\ NotAbove(D, R, i) = {j \in D : AtMost(s[j], s[i])}
  BY <1>2 DEF Under, NotAbove
<1>5. \E i \in D : IsKth(i, k, D, R)
  BY <1>1, <1>3, KthExists
<1>6. \A i \in D : P(i) <=> IsKth(i, k, D, R)
  BY <1>4, Zenon DEF IsKth
<1> DEFINE i0 == CHOOSE i \in D : P(i)
<1>7. i0 \in D /\ P(i0)
  <2> HIDE DEF P
  <2> QED
    BY <1>5, <1>6, Zenon
<1>8. SortedAt(s, k, AtMost) = s[i0]
  BY Zenon DEF SortedAt, D
<1> HIDE DEF P, i0
<1> QED
  BY <1>3, <1>6, <1>7, <1>8, Zenon DEF D, R

\* A sorted copy ascends.
LEMMA SortedAscends ==
  ASSUME NEW s \in Seq(PosFractions)
  PROVE  /\ Ascending(SortedCopy(s), Len(s))
         /\ \A k \in 1..Len(s) : \E i \in DOMAIN s : SortedCopy(s)[k] = s[i]
<1> DEFINE D == DOMAIN s
           n == Len(s)
           R == OrderOf(s)
           v == SortedCopy(s)
<1>1. /\ n \in Nat /\ IsFiniteSet(D) /\ \A i \in D : s[i] \in PosFractions
  <2>1. D = 1..n /\ n \in Nat /\ \A i \in D : s[i] \in PosFractions
    OBVIOUS
  <2> QED
    BY <2>1, FS_Interval
<1>2. \A k \in 1..n : v[k] = SortedAt(s, k, AtMost)
  BY DEF SortedCopy
<1>3. \A k \in 1..n : \E i \in D : v[k] = s[i] /\ IsKth(i, k, D, R)
  BY <1>2, SortedIsKth, Zenon
<1>4. \A i, j \in D : <<i, j>> \in R => AtMost(s[i], s[j])
  BY OrderOfIs, Zenon
<1> HIDE DEF D, n, R, v
<1>5. ASSUME NEW k \in 1..n, NEW l \in 1..n, k <= l
      PROVE  AtMost(v[k], v[l])
  <2>1. PICK i \in D : v[k] = s[i] /\ IsKth(i, k, D, R)
    BY <1>3
  <2>2. PICK j \in D : v[l] = s[j] /\ IsKth(j, l, D, R)
    BY <1>3
  <2>3. Orders(R, D)
    BY SortedIsKth, Zenon DEF R, D, n
  <2>4. <<i, j>> \in R
    BY <1>1, <1>5, <2>1, <2>2, <2>3, KthInOrder
  <2> QED
    BY <1>4, <2>1, <2>2, <2>4, Zenon
<1> QED
  BY <1>1, <1>3, <1>5, Zenon DEF Ascending, D, n, v

\* Between two values, f parts in d of the way
Interp(a, b, f, d) ==
  <<a[1] * b[2] * (d - f) + b[1] * a[2] * f, a[2] * b[2] * d>>

\* Linear interpolation of numerators over one denominator.
LEMMA Mixed ==
  ASSUME NEW u \in Nat, NEW v \in Nat, u <= v, NEW d \in Nat, NEW f \in 0..d, NEW g \in f..d
  PROVE  /\ u * (d - f) + v * f \in Nat
         /\ u * d <= u * (d - f) + v * f
         /\ u * (d - f) + v * f <= v * d
         /\ u * (d - f) + v * f <= u * (d - g) + v * g
<1>1. PICK e \in Nat : v = u + e
  <2>1. v - u \in Nat /\ v = u + (v - u)
    OBVIOUS
  <2> QED
    BY <2>1
<1>2. PICK h \in Nat : g = f + h
  <2>1. g - f \in Nat /\ g = f + (g - f)
    OBVIOUS
  <2> QED
    BY <2>1
<1>3. PICK m \in Nat : d = g + m
  <2>1. d - g \in Nat /\ d = g + (d - g)
    OBVIOUS
  <2> QED
    BY <2>1
<1>4. f \in Nat /\ d - f = h + m /\ d - g = m /\ d = f + h + m
  BY <1>2, <1>3
<1>5. /\ u * (d - f) + v * f = u * d + e * f
      /\ u * (d - g) + v * g = u * d + e * f + e * h
      /\ v * d = u * d + e * f + e * h + e * m
  <2>1. /\ u * (h + m) + (u + e) * f = u * (f + h + m) + e * f
        /\ u * m + (u + e) * (f + h) = u * (f + h + m) + e * f + e * h
        /\ (u + e) * (f + h + m) = u * (f + h + m) + e * f + e * h + e * m
    BY <1>4
  <2> QED
    BY <1>1, <1>2, <1>4, <2>1, Zenon
<1>6. u * d \in Nat /\ e * f \in Nat /\ e * h \in Nat /\ e * m \in Nat
  BY <1>4
<1> QED
  BY <1>5, <1>6

\* Multiplying keeps an order of numbers.
LEMMA TimesMonotone ==
  ASSUME NEW x \in Nat, NEW y \in Nat, NEW z \in Nat, x <= y
  PROVE  x * z <= y * z
<1>1. PICK e \in Nat : y = x + e
  <2>1. y - x \in Nat /\ y = x + (y - x)
    OBVIOUS
  <2> QED
    BY <2>1
<1>2. y * z = x * z + e * z /\ x * z \in Nat /\ e * z \in Nat
  BY <1>1
<1> QED
  BY <1>2

\* Interpolation stays between the two, and grows on the way.
LEMMA InterpBetween ==
  ASSUME NEW a \in PosFractions, NEW b \in PosFractions, AtMost(a, b),
         NEW d \in Nat \ {0}, NEW f \in 0..d, NEW g \in f..d
  PROVE  /\ Interp(a, b, f, d) \in PosFractions
         /\ AtMost(a, Interp(a, b, f, d))
         /\ AtMost(Interp(a, b, f, d), b)
         /\ AtMost(Interp(a, b, f, d), Interp(a, b, g, d))
<1> DEFINE a1 == a[1]
           a2 == a[2]
           b1 == b[1]
           b2 == b[2]
           u == a1 * b2
           v == b1 * a2
           w == u * (d - f) + v * f
           x == u * (d - g) + v * g
           z == a2 * b2 * d
<1>1. /\ a1 \in Nat /\ a2 \in Nat \ {0} /\ b1 \in Nat /\ b2 \in Nat \ {0}
  BY DEF PosFractions
<1>2. u <= v
  BY Zenon DEF AtMost
<1>3. Interp(a, b, f, d) = <<w, z>> /\ Interp(a, b, g, d) = <<x, z>>
  BY Zenon DEF Interp
<1>4. /\ AtMost(a, <<w, z>>) <=> a1 * z <= w * a2
      /\ AtMost(<<w, z>>, b) <=> w * b2 <= b1 * z
      /\ AtMost(<<w, z>>, <<x, z>>) <=> w * z <= x * z
  <2> HIDE DEF w, x, z
  <2> QED
    BY DEF AtMost
<1> HIDE DEF a1, a2, b1, b2
<1>5. u \in Nat /\ v \in Nat
  BY <1>1
<1>6. z \in Nat \ {0}
  <2>1. a2 * b2 \in Nat /\ a2 * b2 > 0
    BY <1>1
  <2> DEFINE y == a2 * b2
  <2>2. y \in Nat /\ y > 0
    BY <2>1
  <2> HIDE DEF y
  <2>3. y * d \in Nat /\ y * d > 0
    BY <2>2
  <2>4. y * d \in Nat \ {0}
    BY <2>3
  <2> QED
    BY <2>4, Zenon DEF y
<1>7. a1 * z = (u * d) * a2 /\ b1 * z = (v * d) * b2
  BY <1>1
<1> HIDE DEF u, v, z
<1>8. /\ w \in Nat /\ u * d <= w /\ w <= v * d /\ w <= x
  BY <1>2, <1>5, Mixed
<1>9. x \in Nat
  BY <1>2, <1>5, Mixed
<1>10. u * d \in Nat /\ v * d \in Nat
  BY <1>5
<1> HIDE DEF w, x
<1>11. (u * d) * a2 <= w * a2 /\ w * b2 <= (v * d) * b2 /\ w * z <= x * z
  BY <1>1, <1>6, <1>8, <1>9, <1>10, TimesMonotone
<1>12. <<w, z>> \in PosFractions
  BY <1>6, <1>8 DEF PosFractions
<1> QED
  BY <1>3, <1>4, <1>7, <1>11, <1>12, Zenon

\* The percentile of n ascending values at rank r / d
PercentileOf(v, r, d) ==
  IF r % d = 0 THEN v[(r \div d) + 1]
  ELSE Interp(v[(r \div d) + 1], v[(r \div d) + 2], r % d, d)

\* A rank falls on a position, or between it and the next one.
LEMMA RankSplits ==
  ASSUME NEW n \in Nat \ {0}, NEW d \in Nat \ {0}, NEW r \in Nat, r <= d * (n - 1)
  PROVE  /\ r \div d \in Nat /\ r % d \in 0..(d - 1)
         /\ r = d * (r \div d) + (r % d)
         /\ (r \div d) + 1 \in 1..n
         /\ r % d # 0 => (r \div d) + 2 \in 1..n
<1> DEFINE lo == r \div d
           f == r % d
           m == n - 1
<1>1. lo \in Int /\ f \in 0..(d - 1) /\ r = d * lo + f
  OBVIOUS
<1>2. m \in Nat /\ n = m + 1 /\ r <= d * m
  OBVIOUS
<1> HIDE DEF lo, f, m
<1>3. lo >= 0
  <2> SUFFICES ASSUME lo <= -1 PROVE FALSE
    BY <1>1
  <2>1. d * lo <= -d
    <3>1. PICK e \in Nat : lo = -1 - e
      <4>1. -1 - lo \in Nat /\ lo = -1 - (-1 - lo)
        BY <1>1
      <4> QED
        BY <4>1
    <3>2. d * lo = -d - d * e /\ d * e \in Nat
      BY <3>1
    <3> QED
      BY <3>2
  <2> QED
    BY <1>1, <2>1
<1>4. ASSUME NEW x \in Nat, x > m PROVE d * x >= d * m + d
  <2>1. PICK e \in Nat : x = m + 1 + e
    <3>1. x - m - 1 \in Nat /\ x = m + 1 + (x - m - 1)
      BY <1>2, <1>4
    <3> QED
      BY <3>1
  <2>2. d * x = d * m + d + d * e /\ d * e \in Nat /\ d * m \in Nat
    BY <1>2, <2>1
  <2> QED
    BY <2>2
<1>5. d * m \in Nat /\ lo \in Nat
  BY <1>1, <1>2, <1>3
<1>6. lo <= m
  <2> SUFFICES ASSUME lo > m PROVE FALSE
    BY <1>2, <1>5
  <2>1. d * lo >= d * m + d
    BY <1>4, <1>5
  <2> QED
    BY <1>1, <1>2, <1>5, <2>1
<1>7. f # 0 => lo # m
  <2> SUFFICES ASSUME f # 0, lo = m PROVE FALSE
    OBVIOUS
  <2>1. r = d * m + f
    BY <1>1
  <2> QED
    BY <1>1, <1>2, <1>5, <2>1
<1>8. lo + 1 \in 1..n /\ (f # 0 => lo + 2 \in 1..n)
  BY <1>2, <1>5, <1>6, <1>7
<1> QED
  BY <1>1, <1>5, <1>8, Zenon DEF lo, f

\* A percentile lies between the values at its positions.
LEMMA PercentileBetween ==
  ASSUME NEW n \in Nat \ {0}, NEW d \in Nat \ {0}, NEW r \in Nat, r <= d * (n - 1),
         NEW v, Ascending(v, n)
  PROVE  /\ PercentileOf(v, r, d) \in PosFractions
         /\ AtMost(v[(r \div d) + 1], PercentileOf(v, r, d))
         /\ r % d = 0 => PercentileOf(v, r, d) = v[(r \div d) + 1]
         /\ r % d # 0 => AtMost(PercentileOf(v, r, d), v[(r \div d) + 2])
<1> DEFINE lo == r \div d
           f == r % d
           p == PercentileOf(v, r, d)
<1>1. /\ lo \in Nat /\ f \in 0..(d - 1) /\ lo + 1 \in 1..n
      /\ f # 0 => lo + 2 \in 1..n
  BY RankSplits, Zenon
<1>2. p = IF f = 0 THEN v[lo + 1] ELSE Interp(v[lo + 1], v[lo + 2], f, d)
  BY Zenon DEF PercentileOf
<1>3. v[lo + 1] \in PosFractions /\ AtMost(v[lo + 1], v[lo + 1])
  <2>1. v[lo + 1] \in PosFractions
    BY <1>1, Zenon DEF Ascending
  <2> QED
    BY <2>1, FractionOrder, ZenonT(60)
<1> HIDE DEF p, lo, f
<1>4. CASE f = 0
  BY <1>2, <1>3, <1>4, Zenon DEF p, lo, f
<1>5. CASE f # 0
  <2>1. lo + 1 <= lo + 2
    BY <1>1
  <2>2. v[lo + 2] \in PosFractions /\ AtMost(v[lo + 1], v[lo + 2])
    BY <1>1, <1>5, <2>1, Zenon DEF Ascending
  <2>3. f \in 0..d /\ d \in f..d
    BY <1>1
  <2> DEFINE i == Interp(v[lo + 1], v[lo + 2], f, d)
  <2>4. i \in PosFractions /\ AtMost(v[lo + 1], i) /\ AtMost(i, v[lo + 2])
    BY <1>3, <2>2, <2>3, InterpBetween
  <2>5. p = i
    BY <1>2, <1>5, Zenon
  <2> HIDE DEF i
  <2> QED
    BY <1>5, <2>4, <2>5, Zenon DEF p, lo, f
<1> QED
  BY <1>4, <1>5

\* The percentile of a larger rank is no smaller.
LEMMA PercentilesAscend ==
  ASSUME NEW n \in Nat \ {0}, NEW d \in Nat \ {0}, NEW r \in Nat, NEW q \in Nat,
         r <= q, q <= d * (n - 1), NEW v, Ascending(v, n)
  PROVE  AtMost(PercentileOf(v, r, d), PercentileOf(v, q, d))
<1> DEFINE lo == r \div d
           f == r % d
           hi == q \div d
           g == q % d
           x == PercentileOf(v, r, d)
           y == PercentileOf(v, q, d)
<1>1. r <= d * (n - 1)
  <2> DEFINE m == d * (n - 1)
  <2>1. m \in Int /\ q <= m
    OBVIOUS
  <2> HIDE DEF m
  <2>2. r <= m
    BY <2>1
  <2> QED
    BY <2>2 DEF m
<1>2. /\ lo \in Nat /\ f \in 0..(d - 1) /\ r = d * lo + f /\ lo + 1 \in 1..n
      /\ f # 0 => lo + 2 \in 1..n
  BY <1>1, RankSplits, Zenon
<1>3. /\ hi \in Nat /\ g \in 0..(d - 1) /\ q = d * hi + g /\ hi + 1 \in 1..n
      /\ g # 0 => hi + 2 \in 1..n
  BY RankSplits, Zenon
<1>4. /\ x \in PosFractions /\ AtMost(v[lo + 1], x)
      /\ f = 0 => x = v[lo + 1]
      /\ f # 0 => AtMost(x, v[lo + 2])
  BY <1>1, PercentileBetween, Zenon
<1>5. y \in PosFractions /\ AtMost(v[hi + 1], y)
  BY PercentileBetween, Zenon
<1>6. (f # 0 => x = Interp(v[lo + 1], v[lo + 2], f, d))
      /\ (g # 0 => y = Interp(v[hi + 1], v[hi + 2], g, d))
  BY Zenon DEF PercentileOf
<1> HIDE DEF lo, f, hi, g, x, y
<1>7. lo <= hi
  <2> SUFFICES ASSUME hi < lo PROVE FALSE
    BY <1>2, <1>3
  <2>1. PICK e \in Nat : lo = hi + 1 + e
    <3>1. lo - hi - 1 \in Nat /\ lo = hi + 1 + (lo - hi - 1)
      BY <1>2, <1>3
    <3> QED
      BY <3>1
  <2>2. d * lo = d * hi + d + d * e /\ d * e \in Nat /\ d * hi \in Nat
    BY <1>3, <2>1
  <2>3. r >= d * hi + d
    BY <1>2, <2>2
  <2>4. q < d * hi + d
    BY <1>3, <2>2
  <2> QED
    BY <2>2, <2>3, <2>4
<1>8. /\ v[lo + 1] \in PosFractions /\ v[hi + 1] \in PosFractions
      /\ f # 0 => v[lo + 2] \in PosFractions
      /\ g # 0 => v[hi + 2] \in PosFractions
  BY <1>2, <1>3, Zenon DEF Ascending
<1>9. CASE f = 0
  <2>1. lo + 1 <= hi + 1
    BY <1>2, <1>3, <1>7
  <2>2. AtMost(v[lo + 1], v[hi + 1])
    BY <1>2, <1>3, <2>1, Zenon DEF Ascending
  <2>3. AtMost(v[lo + 1], y)
    BY <1>5, <1>8, <2>2, FractionOrder, ZenonT(60)
  <2> QED
    BY <1>4, <1>9, <2>3, Zenon DEF x, y
<1>10. CASE f # 0 /\ lo < hi
  <2>1. lo + 2 <= hi + 1
    BY <1>2, <1>3, <1>10
  <2>2. AtMost(v[lo + 2], v[hi + 1])
    BY <1>2, <1>3, <1>10, <2>1, Zenon DEF Ascending
  <2>3. AtMost(v[lo + 2], y)
    BY <1>5, <1>8, <1>10, <2>2, FractionOrder, ZenonT(60)
  <2>4. AtMost(x, y)
    BY <1>4, <1>5, <1>8, <1>10, <2>3, FractionOrder, ZenonT(60)
  <2> QED
    BY <2>4, Zenon DEF x, y
<1>11. CASE f # 0 /\ lo = hi
  <2>1. f <= g
    <3>1. d * hi \in Nat /\ r = d * hi + f
      BY <1>2, <1>3, <1>11
    <3> DEFINE z == d * hi
    <3> HIDE DEF z
    <3>2. z \in Nat /\ r = z + f /\ q = z + g
      BY <1>3, <3>1 DEF z
    <3> QED
      BY <1>2, <1>3, <3>2
  <2>2. g # 0 /\ f \in 0..d /\ g \in f..d
    BY <1>2, <1>3, <1>11, <2>1
  <2>3. AtMost(v[lo + 1], v[lo + 2])
    <3>1. lo + 1 <= lo + 2
      BY <1>2
    <3> QED
      BY <1>2, <1>11, <3>1, Zenon DEF Ascending
  <2> DEFINE a == v[lo + 1]
             b == v[lo + 2]
  <2>4. a \in PosFractions /\ b \in PosFractions /\ AtMost(a, b)
    BY <1>8, <1>11, <2>3, Zenon
  <2>5. x = Interp(a, b, f, d) /\ y = Interp(a, b, g, d)
    BY <1>6, <1>11, <2>2, Zenon
  <2> HIDE DEF a, b
  <2>6. AtMost(Interp(a, b, f, d), Interp(a, b, g, d))
    BY <2>2, <2>4, InterpBetween
  <2> QED
    BY <2>5, <2>6, Zenon DEF x, y
<1>12. lo < hi \/ lo = hi
  BY <1>2, <1>3, <1>7
<1> QED
  BY <1>9, <1>10, <1>11, <1>12

\* percentile sorts and interpolates.
LEMMA PercentileIs ==
  ASSUME NEW s \in Seq(PosFractions), Len(s) # 0, NEW p, p[1] \in Nat,
         p[2] \in Nat \ {0}, p[1] * (Len(s) - 1) <= p[2] * (Len(s) - 1)
  PROVE  Percentile(s, p) = PercentileOf(SortedCopy(s), p[1] * (Len(s) - 1), p[2])
<1> DEFINE n == Len(s)
           r == p[1] * (n - 1)
           d == p[2]
           v == SortedCopy(s)
           lo == r \div d
           f == r % d
<1>1. n \in Nat \ {0} /\ r \in Nat /\ d \in Nat \ {0} /\ r <= d * (n - 1)
  OBVIOUS
<1> HIDE DEF r, n, d
<1>2. lo + 1 \in 1..n /\ (f # 0 => lo + 2 \in 1..n)
  BY <1>1, RankSplits, Zenon
<1>3. \A k \in 1..n : v[k] = SortedAt(s, k, AtMost)
  BY DEF SortedCopy, n
<1> HIDE DEF v, lo, f
<1>4. Percentile(s, p) = IF f = 0 THEN SortedAt(s, lo + 1, AtMost)
                         ELSE Interp(SortedAt(s, lo + 1, AtMost),
                                     SortedAt(s, lo + 2, AtMost), f, d)
  BY Zenon DEF Percentile, Interp, r, n, d, lo, f
<1>5. PercentileOf(v, r, d) = IF f = 0 THEN v[lo + 1] ELSE Interp(v[lo + 1], v[lo + 2], f, d)
  BY Zenon DEF PercentileOf, lo, f
<1>6. Percentile(s, p) = PercentileOf(v, r, d)
  BY <1>2, <1>3, <1>4, <1>5, Zenon
<1> QED
  BY <1>6, Zenon DEF v, r, n, d

\* The least and the greatest of fractions
LEMMA Extremes ==
  ASSUME NEW s \in Seq(PosFractions), Len(s) # 0
  PROVE  /\ \E i \in DOMAIN s : \A j \in DOMAIN s : AtMost(s[i], s[j])
         /\ \E i \in DOMAIN s : \A j \in DOMAIN s : AtMost(s[j], s[i])
<1> DEFINE D == DOMAIN s
           n == Len(s)
           R == OrderOf(s)
<1>1. /\ n \in Nat /\ IsFiniteSet(D) /\ Cardinality(D) = n /\ 1 \in 1..n /\ n \in 1..n
  <2>1. D = 1..n /\ n \in Nat /\ 1 \in 1..n /\ n \in 1..n
    OBVIOUS
  <2>2. IsFiniteSet(1..n) /\ Cardinality(1..n) = n
    BY <2>1, FS_Interval
  <2> QED
    BY <2>1, <2>2, Zenon
<1>2. PICK i \in D : IsKth(i, 1, D, R)
  BY <1>1, SortedIsKth, Zenon
<1>3. PICK k \in D : IsKth(k, n, D, R)
  BY <1>1, SortedIsKth, Zenon
<1>4. \A a, b \in D : <<a, b>> \in R => AtMost(s[a], s[b])
  BY OrderOfIs, Zenon
<1> HIDE DEF D, R, n
<1>5. \A j \in D : <<i, j>> \in R
  <2> DEFINE U == Under(D, R, i)
  <2>1. U \subseteq D /\ Cardinality(U) < 1
    BY <1>2, Zenon DEF IsKth, Under
  <2> HIDE DEF U
  <2>2. IsFiniteSet(U) /\ Cardinality(U) = 0
    BY <1>1, <2>1, FS_Subset, FS_CardinalityType
  <2>3. U = {}
    BY <2>2, FS_EmptySet
  <2> QED
    BY <2>3, Zenon DEF U, Under
<1>6. \A j \in D : <<j, k>> \in R
  <2> DEFINE A == NotAbove(D, R, k)
  <2>1. A \subseteq D /\ n <= Cardinality(A)
    BY <1>3, Zenon DEF IsKth, NotAbove
  <2> HIDE DEF A
  <2>2. Cardinality(A) \in Nat /\ Cardinality(A) <= n /\ (Cardinality(A) = n => A = D)
    BY <1>1, <2>1, FS_Subset, FS_CardinalityType
  <2>3. A = D
    BY <1>1, <2>1, <2>2
  <2> QED
    BY <2>3, Zenon DEF A, NotAbove
<1> QED
  BY <1>2, <1>3, <1>4, <1>5, <1>6, Zenon DEF D

\* Sums compare as their terms do.
LEMMA TotalCompare ==
  ASSUME NEW S, NEW g, NEW f, NEW a \in Nat, NEW b \in Nat,
         Numbers(S, g), Numbers(S, f), \A x \in S : a * g[x] <= b * f[x]
  PROVE  a * Total(S, g) <= b * Total(S, f)
<1> DEFINE P == {s \in SUBSET S : a * Total(s, g) <= b * Total(s, f)}
<1>1. {} \in P
  <2>1. a * 0 <= b * 0
    OBVIOUS
  <2>2. Total({}, g) = 0 /\ Total({}, f) = 0
    BY TotalEmpty
  <2> QED
    BY <2>1, <2>2, Zenon
<1>2. ASSUME NEW s \in SUBSET S, NEW x \in S \ s, s \in P
      PROVE  s \cup {x} \in P
  <2>1. Numbers(s, g) /\ Numbers(s, f)
    <3>1. IsFiniteSet(s)
      BY FS_Subset DEF Numbers
    <3> QED
      BY <3>1 DEF Numbers
  <2> DEFINE G == Total(s, g)
             F == Total(s, f)
             y == g[x]
             z == f[x]
  <2>2. y \in Int /\ z \in Int /\ a * y <= b * z
    BY DEF Numbers
  <2>3. G \in Int /\ F \in Int
    BY <2>1, TotalType
  <2>4. a * G <= b * F
    BY <1>2
  <2>5. Total(s \cup {x}, g) = G + y /\ Total(s \cup {x}, f) = F + z
    BY <2>1, <2>2, TotalAdd
  <2> HIDE DEF G, F, y, z, P
  <2>6. a * (G + y) = a * G + a * y /\ b * (F + z) = b * F + b * z
    BY <2>2, <2>3
  <2>7. a * G \in Int /\ a * y \in Int /\ b * F \in Int /\ b * z \in Int
    BY <2>2, <2>3
  <2>8. a * (G + y) <= b * (F + z)
    BY <2>2, <2>4, <2>6, <2>7
  <2>9. s \cup {x} \in SUBSET S
    OBVIOUS
  <2> QED
    BY <2>5, <2>8, <2>9, Zenon DEF P
<1> HIDE DEF P
<1>3. IsFiniteSet(S)
  BY DEF Numbers
<1>4. S \in P
  BY <1>1, <1>2, <1>3, SetInduction
<1> QED
  BY <1>4, Zenon DEF P

\* The imbalance of one bucket, as a fraction
Ratio(x) == <<x[1], 3 * x[2]>>

\* A resample lies between any bounds of the buckets it draws from.
LEMMA ResampleWithin ==
  ASSUME NEW imbs \in Seq(Nat \X Nat), Len(imbs) # 0,
         \A m \in DOMAIN imbs : imbs[m][2] > 0, NEW draw \in Resamples(Len(imbs))
  PROVE  /\ Resample(imbs, draw) \in PosFractions
         /\ \A k \in DOMAIN imbs :
              (\A m \in DOMAIN imbs : AtMost(Ratio(imbs[k]), Ratio(imbs[m]))) =>
                AtMost(Ratio(imbs[k]), Resample(imbs, draw))
         /\ \A k \in DOMAIN imbs :
              (\A m \in DOMAIN imbs : AtMost(Ratio(imbs[m]), Ratio(imbs[k]))) =>
                AtMost(Resample(imbs, draw), Ratio(imbs[k]))
<1> DEFINE D == DOMAIN imbs
           drawn == [k \in D |-> imbs[draw[k]]]
           g == [m \in D |-> drawn[m][1]]
           f == [m \in D |-> drawn[m][2]]
           F == Total(D, f)
           G == Total(D, g)
<1>1. D = 1..Len(imbs) /\ Len(imbs) \in Nat /\ 1 \in D
  OBVIOUS
<1>2. \A m \in D : draw[m] \in D /\ imbs[m] \in Nat \X Nat
  BY <1>1 DEF Resamples
<1>3. drawn \in Seq(Nat \X Nat) /\ DOMAIN drawn = D
  BY <1>1, <1>2
<1>4. /\ SeqSum(drawn, LAMBDA p : p[1]) = Total(DOMAIN drawn, [m \in DOMAIN drawn |-> drawn[m][1]])
      /\ SeqSum(drawn, LAMBDA p : p[2]) = Total(DOMAIN drawn, [m \in DOMAIN drawn |-> drawn[m][2]])
  <2> HIDE DEF drawn, D
  <2>1. SeqSum(drawn, LAMBDA p : p[1]) = Total(DOMAIN drawn, [m \in DOMAIN drawn |-> drawn[m][1]])
    BY <1>3, ImbSum, Zenon
  <2>2. SeqSum(drawn, LAMBDA p : p[2]) = Total(DOMAIN drawn, [m \in DOMAIN drawn |-> drawn[m][2]])
    BY <1>3, VolSum, Zenon
  <2> QED
    BY <2>1, <2>2
<1>5. Resample(imbs, draw) = <<G, 3 * F>>
  <2>1. Resample(imbs, draw) = <<SeqSum(drawn, LAMBDA p : p[1]), 3 * SeqSum(drawn, LAMBDA p : p[2])>>
    BY Zenon DEF Resample
  <2> QED
    BY <1>3, <1>4, <2>1, Zenon
<1>6. \A m \in D : /\ g[m] = imbs[draw[m]][1] /\ f[m] = imbs[draw[m]][2]
                   /\ g[m] \in Nat /\ f[m] \in Nat /\ f[m] > 0
  BY <1>2
<1>7. IsFiniteSet(D)
  BY <1>1, FS_Interval
<1> HIDE DEF D, drawn, g, f
<1>8. Numbers(D, g) /\ Numbers(D, f)
  BY <1>6, <1>7 DEF Numbers
<1>9. G \in Int /\ F \in Int
  BY <1>8, TotalType
<1>10. 0 <= G
  <2>1. \A m \in D : 0 <= g[m] /\ g[m] <= 1 * g[m]
    BY <1>6
  <2> QED
    BY <1>8, <2>1, TotalBounds
<1>11. F > 0
  <2>1. \A m \in D : 0 <= f[m]
    BY <1>6
  <2>2. f[1] <= F
    BY <1>1, <1>8, <2>1, TermInTotal
  <2>3. f[1] \in Nat /\ f[1] > 0
    BY <1>1, <1>6
  <2> HIDE DEF F
  <2> QED
    BY <1>9, <2>2, <2>3
<1>12. <<G, 3 * F>> \in PosFractions
  <2> HIDE DEF F, G
  <2>1. G \in Nat /\ 3 * F \in Nat \ {0}
    BY <1>9, <1>10, <1>11
  <2> QED
    BY <2>1, Zenon DEF PosFractions
<1> HIDE DEF F, G
<1>13. ASSUME NEW k \in D, \A m \in D : AtMost(Ratio(imbs[k]), Ratio(imbs[m]))
       PROVE  AtMost(Ratio(imbs[k]), <<G, 3 * F>>)
  <2> DEFINE a == imbs[k][1]
             b == imbs[k][2]
  <2>1. a \in Nat /\ b \in Nat
    BY <1>2
  <2>2. \A m \in D : a * f[m] <= b * g[m]
    <3> SUFFICES ASSUME NEW m \in D PROVE a * f[m] <= b * g[m]
      OBVIOUS
    <3> DEFINE x == imbs[draw[m]][1]
               y == imbs[draw[m]][2]
    <3>1. AtMost(Ratio(imbs[k]), Ratio(imbs[draw[m]]))
      BY <1>2, <1>13, Zenon
    <3>2. a * (3 * y) <= x * (3 * b)
      BY <3>1 DEF AtMost, Ratio
    <3>3. g[m] = x /\ f[m] = y /\ x \in Nat /\ y \in Nat
      BY <1>6
    <3> HIDE DEF a, b, x, y
    <3>4. a * y <= b * x
      <4>1. a * (3 * y) = 3 * (a * y) /\ x * (3 * b) = 3 * (b * x)
        BY <2>1, <3>3
      <4>2. a * y \in Nat /\ b * x \in Nat
        BY <2>1, <3>3
      <4> QED
        BY <3>2, <4>1, <4>2
    <3> QED
      BY <3>3, <3>4, Zenon
  <2> HIDE DEF a, b
  <2>3. a * F <= b * G
    BY <1>8, <2>1, <2>2, TotalCompare DEF F, G
  <2>4. a * (3 * F) <= G * (3 * b)
    <3>1. a * (3 * F) = 3 * (a * F) /\ G * (3 * b) = 3 * (b * G)
      BY <1>9, <2>1
    <3>2. a * F \in Int /\ b * G \in Int
      BY <1>9, <2>1
    <3> QED
      BY <2>3, <3>1, <3>2
  <2> QED
    BY <2>4 DEF AtMost, Ratio, a, b
<1>14. ASSUME NEW k \in D, \A m \in D : AtMost(Ratio(imbs[m]), Ratio(imbs[k]))
       PROVE  AtMost(<<G, 3 * F>>, Ratio(imbs[k]))
  <2> DEFINE a == imbs[k][1]
             b == imbs[k][2]
  <2>1. a \in Nat /\ b \in Nat
    BY <1>2
  <2>2. \A m \in D : b * g[m] <= a * f[m]
    <3> SUFFICES ASSUME NEW m \in D PROVE b * g[m] <= a * f[m]
      OBVIOUS
    <3> DEFINE x == imbs[draw[m]][1]
               y == imbs[draw[m]][2]
    <3>1. AtMost(Ratio(imbs[draw[m]]), Ratio(imbs[k]))
      BY <1>2, <1>14, Zenon
    <3>2. x * (3 * b) <= a * (3 * y)
      BY <3>1 DEF AtMost, Ratio
    <3>3. g[m] = x /\ f[m] = y /\ x \in Nat /\ y \in Nat
      BY <1>6
    <3> HIDE DEF a, b, x, y
    <3>4. b * x <= a * y
      <4>1. a * (3 * y) = 3 * (a * y) /\ x * (3 * b) = 3 * (b * x)
        BY <2>1, <3>3
      <4>2. a * y \in Nat /\ b * x \in Nat
        BY <2>1, <3>3
      <4> QED
        BY <3>2, <4>1, <4>2
    <3> QED
      BY <3>3, <3>4, Zenon
  <2> HIDE DEF a, b
  <2>3. b * G <= a * F
    BY <1>8, <2>1, <2>2, TotalCompare DEF F, G
  <2>4. G * (3 * b) <= a * (3 * F)
    <3>1. a * (3 * F) = 3 * (a * F) /\ G * (3 * b) = 3 * (b * G)
      BY <1>9, <2>1
    <3>2. a * F \in Int /\ b * G \in Int
      BY <1>9, <2>1
    <3> QED
      BY <2>3, <3>1, <3>2
  <2> QED
    BY <2>4 DEF AtMost, Ratio, a, b
<1> QED
  BY <1>5, <1>12, <1>13, <1>14, Zenon DEF D

\* A percentile lies between any bounds of the values.
LEMMA PercentileWithin ==
  ASSUME NEW s \in Seq(PosFractions), Len(s) # 0, NEW d \in Nat \ {0}, NEW r \in Nat,
         r <= d * (Len(s) - 1),
         NEW least \in PosFractions, \A i \in DOMAIN s : AtMost(least, s[i]),
         NEW most \in PosFractions, \A i \in DOMAIN s : AtMost(s[i], most)
  PROVE  /\ AtMost(least, PercentileOf(SortedCopy(s), r, d))
         /\ AtMost(PercentileOf(SortedCopy(s), r, d), most)
<1> DEFINE n == Len(s)
           v == SortedCopy(s)
           p == PercentileOf(v, r, d)
           lo == r \div d
           f == r % d
<1>1. n \in Nat \ {0} /\ r <= d * (n - 1)
  OBVIOUS
<1>2. Ascending(v, n) /\ \A k \in 1..n : \E i \in DOMAIN s : v[k] = s[i]
  BY SortedAscends, Zenon
<1>3. \A k \in 1..n : v[k] \in PosFractions /\ AtMost(least, v[k]) /\ AtMost(v[k], most)
  BY <1>2, Zenon DEF Ascending
<1> HIDE DEF v, n
<1>4. lo + 1 \in 1..n /\ (f # 0 => lo + 2 \in 1..n)
  BY <1>1, RankSplits, Zenon
<1>5. /\ p \in PosFractions /\ AtMost(v[lo + 1], p)
      /\ f = 0 => p = v[lo + 1]
      /\ f # 0 => AtMost(p, v[lo + 2])
  BY <1>1, <1>2, PercentileBetween, ZenonT(60)
<1> HIDE DEF lo, f, p
<1>6. AtMost(least, p)
  <2>1. v[lo + 1] \in PosFractions /\ AtMost(least, v[lo + 1])
    BY <1>3, <1>4, Zenon
  <2> QED
    BY <1>5, <2>1, FractionOrder, ZenonT(60)
<1>7. AtMost(p, most)
  <2>1. CASE f = 0
    BY <1>3, <1>4, <1>5, <2>1, Zenon
  <2>2. CASE f # 0
    <3>1. v[lo + 2] \in PosFractions /\ AtMost(v[lo + 2], most)
      BY <1>3, <1>4, <2>2, Zenon
    <3> QED
      BY <1>5, <2>2, <3>1, FractionOrder, ZenonT(60)
  <2> QED
    BY <2>1, <2>2
<1> QED
  BY <1>6, <1>7, Zenon DEF p, v

\* Some bucket of the window is no more imbalanced than x, and some no less.
Between(imbs, x) ==
  /\ \E k \in DOMAIN imbs : AtMost(Ratio(imbs[k]), x)
  /\ \E k \in DOMAIN imbs : AtMost(x, Ratio(imbs[k]))

\* The ends of an interval are ordered and within the window, whatever is drawn.
LEMMA IntervalIs ==
  ASSUME NEW imbs \in Seq(Nat \X Nat), Len(imbs) # 0,
         \A m \in DOMAIN imbs : imbs[m][2] > 0,
         NEW n \in Nat \ {0}, NEW draws \in [1..n -> Resamples(Len(imbs))],
         NEW level \in Nat \X Nat, 0 < level[1], level[1] < level[2]
  PROVE  /\ AtMost(BootstrapCi(imbs, draws, level).low, BootstrapCi(imbs, draws, level).high)
         /\ Between(imbs, BootstrapCi(imbs, draws, level).low)
         /\ Between(imbs, BootstrapCi(imbs, draws, level).high)
<1> DEFINE samples == [k \in DOMAIN draws |-> Resample(imbs, draws[k])]
           half == <<level[2] - level[1], 2 * level[2]>>
           rest == <<half[2] - half[1], half[2]>>
           h == level[2] - level[1]
           d == 2 * level[2]
           g == d - h
           v == SortedCopy(samples)
           low == PercentileOf(v, h * (n - 1), d)
           high == PercentileOf(v, g * (n - 1), d)
           D == DOMAIN imbs
           ratios == [m \in D |-> Ratio(imbs[m])]
<1>1. /\ h \in Nat /\ g \in Nat /\ d \in Nat \ {0} /\ h <= g /\ g <= d /\ h <= d
      /\ n - 1 \in Nat /\ n # 0 /\ n \in Nat
  OBVIOUS
<1>2. half[1] = h /\ half[2] = d /\ rest[1] = g /\ rest[2] = d
  OBVIOUS
<1>3. /\ BootstrapCi(imbs, draws, level).low = Percentile(samples, half)
      /\ BootstrapCi(imbs, draws, level).high = Percentile(samples, rest)
  BY DEF BootstrapCi
<1>4. /\ DOMAIN draws = 1..n
      /\ \A k \in 1..n : draws[k] \in Resamples(Len(imbs))
  OBVIOUS
<1>5. \A k \in 1..n : samples[k] = Resample(imbs, draws[k]) /\ samples[k] \in PosFractions
  <2> SUFFICES ASSUME NEW k \in 1..n
               PROVE  samples[k] = Resample(imbs, draws[k]) /\ samples[k] \in PosFractions
    BY Zenon
  <2>1. samples[k] = Resample(imbs, draws[k])
    BY <1>4
  <2>2. Resample(imbs, draws[k]) \in PosFractions
    BY <1>4, ResampleWithin
  <2> HIDE DEF samples
  <2> QED
    BY <2>1, <2>2, Zenon
<1>6. samples \in Seq(PosFractions) /\ Len(samples) = n /\ DOMAIN samples = 1..n
  <2>1. DOMAIN samples = 1..n /\ samples = [k \in 1..n |-> samples[k]]
    BY <1>4, Zenon
  <2> HIDE DEF samples
  <2>2. samples \in [1..n -> PosFractions]
    BY <1>5, <2>1, Zenon
  <2>3. samples \in Seq(PosFractions) /\ Len(samples) = n
    BY <1>1, <2>2
  <2> QED
    BY <2>1, <2>3
<1> HIDE DEF samples, half, rest, h, g, d
<1>7. h * (n - 1) <= g * (n - 1) /\ g * (n - 1) <= d * (n - 1) /\ h * (n - 1) <= d * (n - 1)
  BY <1>1, TimesMonotone
<1>8. Percentile(samples, half) = low
  <2>1. /\ half[1] \in Nat /\ half[2] \in Nat \ {0} /\ Len(samples) # 0
        /\ half[1] * (Len(samples) - 1) <= half[2] * (Len(samples) - 1)
    BY <1>1, <1>2, <1>6, <1>7, Zenon
  <2>2. Percentile(samples, half)
          = PercentileOf(SortedCopy(samples), half[1] * (Len(samples) - 1), half[2])
    BY <1>6, <2>1, PercentileIs, Zenon
  <2> QED
    BY <1>2, <1>6, <2>2, Zenon
<1>9. Percentile(samples, rest) = high
  <2>1. /\ rest[1] \in Nat /\ rest[2] \in Nat \ {0} /\ Len(samples) # 0
        /\ rest[1] * (Len(samples) - 1) <= rest[2] * (Len(samples) - 1)
    BY <1>1, <1>2, <1>6, <1>7, Zenon
  <2>2. Percentile(samples, rest)
          = PercentileOf(SortedCopy(samples), rest[1] * (Len(samples) - 1), rest[2])
    BY <1>6, <2>1, PercentileIs, Zenon
  <2> QED
    BY <1>2, <1>6, <2>2, Zenon
<1>10. h * (n - 1) \in Nat /\ g * (n - 1) \in Nat
  BY <1>1
<1>11. AtMost(low, high)
  <2>1. Ascending(v, n)
    BY <1>6, SortedAscends, Zenon
  <2> HIDE DEF v
  <2> QED
    BY <1>1, <1>7, <1>10, <2>1, PercentilesAscend
<1>12. D = 1..Len(imbs) /\ Len(imbs) \in Nat /\ DOMAIN ratios = D
  OBVIOUS
<1>13. \A m \in D : ratios[m] = Ratio(imbs[m]) /\ ratios[m] \in PosFractions
  <2> SUFFICES ASSUME NEW m \in D PROVE ratios[m] \in PosFractions
    BY Zenon
  <2>1. imbs[m][1] \in Nat /\ 3 * imbs[m][2] \in Nat \ {0}
    <3>1. imbs[m] \in Nat \X Nat /\ imbs[m][2] > 0
      OBVIOUS
    <3> QED
      BY <3>1
  <2>2. Ratio(imbs[m]) \in PosFractions
    BY <2>1, Zenon DEF Ratio, PosFractions
  <2> QED
    BY <2>2, Zenon
<1>14. ratios \in Seq(PosFractions) /\ Len(ratios) # 0
  <2>1. ratios = [m \in 1..Len(imbs) |-> ratios[m]]
    BY <1>12, Zenon
  <2> HIDE DEF ratios
  <2> QED
    BY <1>12, <1>13, <2>1
<1>15. PICK a \in D : \A m \in D : AtMost(Ratio(imbs[a]), Ratio(imbs[m]))
  <2>1. \E i \in DOMAIN ratios : \A j \in DOMAIN ratios : AtMost(ratios[i], ratios[j])
    <3> HIDE DEF ratios
    <3> QED
      BY <1>14, Extremes, Zenon
  <2> QED
    BY <1>12, <1>13, <2>1, Zenon
<1>16. PICK b \in D : \A m \in D : AtMost(Ratio(imbs[m]), Ratio(imbs[b]))
  <2>1. \E i \in DOMAIN ratios : \A j \in DOMAIN ratios : AtMost(ratios[j], ratios[i])
    <3> HIDE DEF ratios
    <3> QED
      BY <1>14, Extremes, Zenon
  <2> QED
    BY <1>12, <1>13, <2>1, Zenon
<1> HIDE DEF ratios
<1>17. Ratio(imbs[a]) \in PosFractions /\ Ratio(imbs[b]) \in PosFractions
  BY <1>13, Zenon
<1>18. \A k \in 1..n : AtMost(Ratio(imbs[a]), samples[k]) /\ AtMost(samples[k], Ratio(imbs[b]))
  <2> SUFFICES ASSUME NEW k \in 1..n
               PROVE  /\ AtMost(Ratio(imbs[a]), Resample(imbs, draws[k]))
                      /\ AtMost(Resample(imbs, draws[k]), Ratio(imbs[b]))
    BY <1>5, Zenon
  <2>1. draws[k] \in Resamples(Len(imbs))
    BY <1>4
  <2> DEFINE x == draws[k]
  <2> HIDE DEF x, D
  <2>2. x \in Resamples(Len(imbs))
    BY <2>1 DEF x
  <2>3. /\ \A j \in DOMAIN imbs :
             (\A m \in DOMAIN imbs : AtMost(Ratio(imbs[j]), Ratio(imbs[m]))) =>
               AtMost(Ratio(imbs[j]), Resample(imbs, x))
        /\ \A j \in DOMAIN imbs :
             (\A m \in DOMAIN imbs : AtMost(Ratio(imbs[m]), Ratio(imbs[j]))) =>
               AtMost(Resample(imbs, x), Ratio(imbs[j]))
    BY <2>2, ResampleWithin
  <2> QED
    BY <1>15, <1>16, <2>3, Zenon DEF x, D
<1>19. \A r \in Nat : r <= d * (n - 1) =>
         Between(imbs, PercentileOf(v, r, d))
  <2> SUFFICES ASSUME NEW r \in Nat, r <= d * (n - 1)
               PROVE  Between(imbs, PercentileOf(v, r, d))
    BY Zenon
  <2>1. \A k \in DOMAIN samples : /\ AtMost(Ratio(imbs[a]), samples[k])
                                  /\ AtMost(samples[k], Ratio(imbs[b]))
    BY <1>6, <1>18, Zenon
  <2>2. Len(samples) # 0 /\ r <= d * (Len(samples) - 1)
    BY <1>1, <1>6, Zenon
  <2>3. /\ AtMost(Ratio(imbs[a]), PercentileOf(v, r, d))
        /\ AtMost(PercentileOf(v, r, d), Ratio(imbs[b]))
    BY <1>1, <1>6, <1>17, <2>1, <2>2, PercentileWithin, Zenon
  <2> QED
    BY <2>3, Zenon DEF Between
<1>20. Between(imbs, low) /\ Between(imbs, high)
  <2> HIDE DEF v
  <2> QED
    BY <1>7, <1>10, <1>19, Zenon
<1> QED
  BY <1>3, <1>8, <1>9, <1>11, <1>20, Zenon

-----------------------------------------------------------------------------
(* The median of the trade counts *)

\* The positions of s, in the order of their numbers
NumberOrder(s) == {x \in (DOMAIN s) \X (DOMAIN s) : s[x[1]] <= s[x[2]]}

\* The positions of s with less than x, and with no more
LessThan(s, x) == {j \in DOMAIN s : s[j] < x}
NoMoreThan(s, x) == {j \in DOMAIN s : s[j] <= x}

\* median_u32 is one of the values: at most half of them are below it, and more
\* than half are not above it.
LEMMA MedianIs ==
  ASSUME NEW s \in Seq(Nat), Len(s) # 0
  PROVE  /\ MedianU32(s) \in Nat
         /\ 2 * Cardinality(LessThan(s, MedianU32(s))) <= Len(s)
         /\ 2 * Cardinality(NoMoreThan(s, MedianU32(s))) > Len(s)
<1> DEFINE D == DOMAIN s
           n == Len(s)
           k == (n \div 2) + 1
           R == NumberOrder(s)
           P(i) == /\ Cardinality({j \in D : ~(s[i] <= s[j])}) < k
                   /\ k <= Cardinality({j \in D : s[j] <= s[i]})
<1>1. /\ n \in Nat /\ IsFiniteSet(D) /\ Cardinality(D) = n
      /\ \A i \in D : s[i] \in Nat
  <2>1. D = 1..n /\ n \in Nat /\ \A i \in D : s[i] \in Nat
    OBVIOUS
  <2>2. IsFiniteSet(1..n) /\ Cardinality(1..n) = n
    BY <2>1, FS_Interval
  <2> QED
    BY <2>1, <2>2, Zenon
<1>2. k \in 1..n /\ 2 * k > n /\ 2 * (k - 1) <= n /\ k \in Nat
  BY <1>1
<1>3. \A i, j \in D : <<i, j>> \in R <=> s[i] <= s[j]
  <2> HIDE DEF D
  <2>1. \A i, j \in D : <<i, j>> \in D \X D /\ <<i, j>>[1] = i /\ <<i, j>>[2] = j
    OBVIOUS
  <2> QED
    BY <2>1, Zenon DEF NumberOrder, D
<1> HIDE DEF R, D, n, k
<1>4. Orders(R, D)
  <2>1. \A i, j \in D : s[i] <= s[j] \/ s[j] <= s[i]
    BY <1>1
  <2>2. \A i, j, l \in D : s[i] <= s[j] /\ s[j] <= s[l] => s[i] <= s[l]
    BY <1>1
  <2> QED
    BY <1>3, <2>1, <2>2, Zenon DEF Orders
<1>5. \A i \in D : /\ Under(D, R, i) = {j \in D : ~(s[i] <= s[j])}
                   /\ NotAbove(D, R, i) = {j \in D : s[j] <= s[i]}
  BY <1>3 DEF Under, NotAbove
<1>6. \E i \in D : IsKth(i, k, D, R)
  BY <1>1, <1>2, <1>4, KthExists
<1>7. \E i \in D : P(i)
  BY <1>5, <1>6, Zenon DEF IsKth
<1> DEFINE i0 == CHOOSE i \in D : P(i)
<1>8. i0 \in D /\ P(i0)
  <2> HIDE DEF P
  <2> QED
    BY <1>7, Zenon
<1>9. MedianU32(s) = s[i0]
  BY Zenon DEF MedianU32, SortedAt, D, n, k
<1> HIDE DEF P, i0
<1>10. s[i0] \in Nat
  BY <1>1, <1>8
<1> DEFINE x == s[i0]
<1>11. LessThan(s, x) = {j \in D : ~(x <= s[j])} /\ NoMoreThan(s, x) = {j \in D : s[j] <= x}
  <2>1. \A j \in D : s[j] < x <=> ~(x <= s[j])
    BY <1>1, <1>10
  <2> QED
    BY <2>1 DEF LessThan, NoMoreThan, D
<1>12. Cardinality(LessThan(s, x)) < k /\ k <= Cardinality(NoMoreThan(s, x))
  BY <1>8, <1>11, Zenon DEF P
<1>13. Cardinality(LessThan(s, x)) \in Nat /\ Cardinality(NoMoreThan(s, x)) \in Nat
  <2>1. LessThan(s, x) \subseteq D /\ NoMoreThan(s, x) \subseteq D
    BY DEF LessThan, NoMoreThan, D
  <2> QED
    BY <1>1, <2>1, FS_Subset, FS_CardinalityType
<1> HIDE DEF x
<1> DEFINE a == Cardinality(LessThan(s, x))
           b == Cardinality(NoMoreThan(s, x))
<1>14. a \in Nat /\ b \in Nat /\ a < k /\ k <= b
  BY <1>12, <1>13, Zenon
<1> HIDE DEF a, b
<1>15. 2 * a <= n /\ 2 * b > n
  BY <1>1, <1>2, <1>14
<1> QED
  BY <1>9, <1>10, <1>15, Zenon DEF a, b, x, n

\* The trade counts of a window of scores
TradeCounts(h) == [i \in DOMAIN h |-> h[i][2]]

\* The scores that more than half of the window has no more trades than
Busy(h) ==
  {j \in DOMAIN h : 2 * Cardinality({i \in DOMAIN h : h[i][2] < h[j][2] + 1}) > Len(h)}

\* Those on the newest one's side
CohortOf(h) == IF Len(h) \in Busy(h) THEN Busy(h) ELSE DOMAIN h \ Busy(h)

\* The median splits a window into the busy half and the rest.
LEMMA BusyIs ==
  ASSUME NEW T, NEW h \in Seq(T \X Nat), Len(h) # 0
  PROVE  /\ \A j \in DOMAIN h : j \in Busy(h) <=> h[j][2] >= MedianU32(TradeCounts(h))
         /\ 2 * Cardinality(Busy(h)) >= Len(h)
<1> DEFINE D == DOMAIN h
           n == Len(h)
           c == TradeCounts(h)
           m == MedianU32(c)
<1>1. /\ n \in Nat /\ n # 0 /\ D = 1..n /\ IsFiniteSet(D) /\ Cardinality(D) = n
      /\ \A i \in D : h[i][2] \in Nat
  <2>1. D = 1..n /\ n \in Nat /\ \A i \in D : h[i][2] \in Nat
    OBVIOUS
  <2>2. IsFiniteSet(1..n) /\ Cardinality(1..n) = n
    BY <2>1, FS_Interval
  <2> QED
    BY <2>1, <2>2, Zenon
<1>2. DOMAIN c = D /\ \A i \in D : c[i] = h[i][2]
  BY DEF TradeCounts
<1>3. c \in Seq(Nat) /\ Len(c) = n
  <2>1. c \in [1..n -> Nat]
    BY <1>1 DEF TradeCounts
  <2> HIDE DEF c
  <2> QED
    BY <1>1, <2>1
<1> HIDE DEF c
<1>4. m \in Nat /\ 2 * Cardinality(LessThan(c, m)) <= n /\ 2 * Cardinality(NoMoreThan(c, m)) > n
  <2>1. Len(c) # 0
    BY <1>1, <1>3
  <2>2. /\ m \in Nat /\ 2 * Cardinality(LessThan(c, m)) <= Len(c)
        /\ 2 * Cardinality(NoMoreThan(c, m)) > Len(c)
    BY <1>3, <2>1, MedianIs
  <2> QED
    BY <1>3, <2>2, Zenon
<1> DEFINE less == LessThan(c, m)
           most == NoMoreThan(c, m)
<1>5. less = {i \in D : h[i][2] < m} /\ most = {i \in D : h[i][2] <= m}
  <2> HIDE DEF m, D
  <2> QED
    BY <1>2 DEF LessThan, NoMoreThan
<1> HIDE DEF m, D, n, less, most
<1>6. less \subseteq D /\ most \subseteq D
  BY <1>5
<1>7. /\ IsFiniteSet(less) /\ Cardinality(less) \in Nat
      /\ IsFiniteSet(most) /\ Cardinality(most) \in Nat
  BY <1>1, <1>6, FS_Subset, FS_CardinalityType
<1>8. ASSUME NEW j \in D PROVE j \in Busy(h) <=> h[j][2] >= m
  <2> DEFINE y == h[j][2]
             upto == {i \in D : h[i][2] < y + 1}
  <2>1. y \in Nat
    BY <1>1
  <2>2. upto \subseteq D
    OBVIOUS
  <2>3. IsFiniteSet(upto) /\ Cardinality(upto) \in Nat
    <3> HIDE DEF upto
    <3> QED
      BY <1>1, <2>2, FS_Subset, FS_CardinalityType
  <2>4. j \in Busy(h) <=> 2 * Cardinality(upto) > n
    BY Zenon DEF Busy, D, n
  <2>5. CASE y >= m
    <3>1. most \subseteq upto
      BY <1>1, <1>4, <1>5, <2>1, <2>5
    <3> HIDE DEF upto
    <3>2. Cardinality(most) <= Cardinality(upto)
      BY <2>3, <3>1, FS_Subset
    <3>3. 2 * Cardinality(most) > n
      BY <1>4, Zenon DEF most
    <3>4. 2 * Cardinality(upto) > n
      BY <1>1, <1>7, <2>3, <3>2, <3>3
    <3> QED
      BY <2>4, <2>5, <3>4
  <2>6. CASE ~(y >= m)
    <3>1. upto \subseteq less
      BY <1>1, <1>4, <1>5, <2>1, <2>6
    <3> HIDE DEF upto
    <3>2. Cardinality(upto) <= Cardinality(less)
      BY <1>7, <3>1, FS_Subset
    <3>3. 2 * Cardinality(less) <= n
      BY <1>4, Zenon DEF less
    <3>4. ~(2 * Cardinality(upto) > n)
      BY <1>1, <1>7, <2>3, <3>2, <3>3
    <3> QED
      BY <2>4, <2>6, <3>4
  <2> QED
    BY <2>5, <2>6
<1>9. Busy(h) = D \ less
  <2>1. \A j \in D : h[j][2] >= m <=> ~(h[j][2] < m)
    BY <1>1, <1>4
  <2>2. Busy(h) \subseteq D
    BY DEF Busy, D
  <2> QED
    BY <1>5, <1>8, <2>1, <2>2
<1>10. Cardinality(Busy(h)) = n - Cardinality(less)
  <2>1. Cardinality(D \ less) = Cardinality(D) - Cardinality(D \cap less)
    BY <1>1, FS_Difference
  <2>2. D \cap less = less
    BY <1>6
  <2> QED
    BY <1>1, <1>9, <2>1, <2>2
<1>11. 2 * Cardinality(Busy(h)) >= n
  <2> DEFINE a == Cardinality(less)
  <2>1. a \in Nat /\ 2 * a <= n
    BY <1>4, <1>7, Zenon DEF less
  <2> HIDE DEF a
  <2>2. 2 * (n - a) >= n
    BY <1>1, <2>1
  <2> QED
    BY <1>10, <2>2 DEF a
<1> QED
  BY <1>8, <1>11, Zenon DEF D, n, m, c

\* IntensityAdjustedCdf.push ranks the newest score among its cohort.
LEMMA IntensityIs ==
  ASSUME NEW T, NEW h \in Seq(T \X Nat), Len(h) # 0, NEW window
  PROVE  IntensityRank(h, window) =
           IF Len(h) < window THEN None
           ELSE Some(<<Cardinality({i \in CohortOf(h) : AtMost(h[i][1], h[Len(h)][1])}),
                       Cardinality(CohortOf(h))>>)
<1> DEFINE m == MedianU32(TradeCounts(h))
           D == DOMAIN h
           newest == h[Len(h)]
           cohort == {i \in D : (h[i][2] >= m) = (newest[2] >= m)}
<1>1. Len(h) \in D
  OBVIOUS
<1>2. \A j \in D : j \in Busy(h) <=> h[j][2] >= m
  BY BusyIs, Zenon
<1>3. IntensityRank(h, window) =
        IF Len(h) < window THEN None
        ELSE Some(<<Cardinality({i \in cohort : AtMost(h[i][1], newest[1])}),
                    Cardinality(cohort)>>)
  BY Zenon DEF IntensityRank, TradeCounts
<1>4. Busy(h) \subseteq D
  BY DEF Busy
<1> HIDE DEF D, m
<1>5. cohort = CohortOf(h)
  <2>1. \A i \in D : i \in cohort <=> ((i \in Busy(h)) <=> (Len(h) \in Busy(h)))
    <3> SUFFICES ASSUME NEW i \in D
                 PROVE  i \in cohort <=> ((i \in Busy(h)) <=> (Len(h) \in Busy(h)))
      OBVIOUS
    <3>1. i \in cohort <=> ((h[i][2] >= m) = (newest[2] >= m))
      OBVIOUS
    <3>2. ((h[i][2] >= m) = (newest[2] >= m)) <=> ((h[i][2] >= m) <=> (newest[2] >= m))
      OBVIOUS
    <3> HIDE DEF cohort
    <3> QED
      BY <1>1, <1>2, <3>1, <3>2, Zenon
  <2>2. \A i \in D : i \in CohortOf(h) <=> ((i \in Busy(h)) <=> (Len(h) \in Busy(h)))
    BY DEF CohortOf, D
  <2>3. cohort \subseteq D /\ CohortOf(h) \subseteq D
    BY <1>4 DEF CohortOf, D
  <2> HIDE DEF cohort
  <2> QED
    BY <2>1, <2>2, <2>3
<1> HIDE DEF cohort
<1> QED
  BY <1>3, <1>5, Zenon
=============================================================================
