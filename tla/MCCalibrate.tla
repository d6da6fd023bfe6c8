----------------------------- MODULE MCCalibrate -----------------------------
(* Calibrate for TLC.  The short tapes start with one trade and go on with   *)
(* any of four, so that buckets of one and of several trades, moves of 0, 1, *)
(* 2 and 3, equal moves in a row and all taker splits occur.  The long tape  *)
(* is one tape.                                                              *)
EXTENDS Calibrate

Trade(p, v, s) == [price |-> p, volume |-> v, taker_side |-> s]

ShortTapes(n) ==
  IF n = 1 THEN {Trade(10, 3, "Buy")}
  ELSE {Trade(10, 3, "Buy"), Trade(13, 3, "Sell"), Trade(11, 1, "Sell"), Trade(12, 1, "Buy")}

ShortVolumes == <<2, 5>>
ShortSigmas == <<1, 2>>
ShortVpins == <<1, 2>>
ShortCdf == Some(2)
ShortBootstrap == [samples |-> 2, level |-> <<1, 2>>]

\* A sale of 1 that lifts the price by 3, then a purchase of 2 that takes it
\* down by 1 or 2.  One by one the prices move against the takers, two by two
\* they follow them.
LongTape(n) ==
  LET k == (n - 1) \div 2
      before == 100 + 2 * k - (k \div 2) IN
  {IF n % 2 = 1 THEN Trade(before + 3, 1, "Sell")
   ELSE Trade(before + (IF k % 2 = 0 THEN 2 ELSE 1), 2, "Buy")}

LongVolumes == <<1, 3>>
LongSigmas == <<2>>
LongVpins == <<1>>
NoCdf == None
=============================================================================
