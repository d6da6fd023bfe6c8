------------------------------- MODULE Fixed8 -------------------------------
(***************************************************************************)
(* parse_fixed8 (trade-ingest/src/types.rs): a decimal text of an exchange *)
(* to fixed-point units, with integer arithmetic that is checked for       *)
(* overflow.  Module Adapter only asks whether a price or quantity is      *)
(* accepted; here is what is accepted, and as what.                        *)
(*                                                                         *)
(* Text is a sequence of characters.  The scale and the width are          *)
(* parameters, so that every text of a few characters includes the ones at *)
(* both limits.                                                            *)
(***************************************************************************)
EXTENDS Naturals, Sequences, SequencesExt, FiniteSetsExt

CONSTANTS
  FRAC,      \* decimals kept; 8 in the code
  U64Max,    \* the largest value of the integer type
  Alphabet,  \* characters of the texts
  MaxText    \* bound: length of a text

Digits == {"0", "1", "2", "3", "4", "5", "6", "7", "8", "9"}
DigitOf(c) == SelectInSeq(<<"0", "1", "2", "3", "4", "5", "6", "7", "8", "9">>,
                          LAMBDA d : d = c) - 1

\* Powers of ten, by recursion: `^` is opaque to the provers.
Pow10[k \in Nat] == IF k = 0 THEN 1 ELSE 10 * Pow10[k - 1]

ASSUME Fixed8Assumption ==
  /\ FRAC \in Nat \ {0}
  /\ U64Max \in Nat /\ Pow10[FRAC] <= U64Max
  /\ Alphabet \subseteq Digits \cup {" ", "+", "-", "."}
  /\ MaxText \in Nat

Texts == UNION {[1..n -> Alphabet] : n \in 0..MaxText}

Rejected == [bad_decimal |-> TRUE]
Accepted(n) == [raw |-> n]

\* str::trim
Trim(s) ==
  LET kept == {i \in DOMAIN s : s[i] # " "} IN
  IF kept = {} THEN <<>> ELSE SubSeq(s, Min(kept), Max(kept))

\* External: u64::from_str takes an optional plus sign and at least one digit,
\* and checks for overflow.
ParseU64(s) ==
  LET digits == IF s # <<>> /\ Head(s) = "+" THEN Tail(s) ELSE s
      value == FoldLeft(LAMBDA n, c : 10 * n + DigitOf(c), 0, digits)
  IN
  IF digits # <<>> /\ ToSet(digits) \subseteq Digits /\ value <= U64Max
  THEN Accepted(value)
  ELSE Rejected

Zeros(n) == [i \in 1..n |-> "0"]

\* Plausible bug: the zeros are put in front.
PadFront(frac) == Zeros(FRAC - Len(frac)) \o frac

\* The fraction, filled up to FRAC places
Pad(frac) == frac \o Zeros(FRAC - Len(frac))

\* n as a u64, if it is one: checked_mul and checked_add
Checked(n) == IF n <= U64Max THEN Accepted(n) ELSE Rejected

ParseFixed8(text) ==
  LET s == Trim(text)
      dot == SelectInSeq(s, LAMBDA c : c = ".")
      int_part == IF dot = 0 THEN s ELSE SubSeq(s, 1, dot - 1)
      frac_part == IF dot = 0 THEN <<>> ELSE SubSeq(s, dot + 1, Len(s))
      int_val == ParseU64(int_part)
      scaled == Checked(int_val.raw * Pow10[FRAC])
      frac_val == ParseU64(Pad(frac_part))
  IN
  IF s = <<>> \/ Head(s) = "-" \/ Len(frac_part) > FRAC THEN Rejected
  ELSE IF int_val = Rejected \/ scaled = Rejected THEN Rejected
  ELSE IF frac_part = <<>> THEN scaled
  ELSE IF frac_val = Rejected THEN Rejected
  ELSE Checked(scaled.raw + frac_val.raw)

-----------------------------------------------------------------------------
(* What a text means *)

\* s is a decimal whose point is at p, or follows the last character
PointAt(s, p) ==
  /\ p <= Len(s) => s[p] = "."
  /\ \A i \in DOMAIN s \ {p} : s[i] \in Digits \/ (i = 1 /\ s[i] = "+")
  /\ \E i \in 1..(p - 1) : s[i] \in Digits
  /\ Len(s) <= p + FRAC

\* The places' values, in units of 10^-FRAC
Quoted(s, p) ==
  MapThenSumSet(LAMBDA i : DigitOf(s[i]) * Pow10[IF i < p THEN FRAC + p - 1 - i
                                                 ELSE FRAC + p - i],
                {i \in DOMAIN s : s[i] \in Digits})

\* A plus sign right behind the point
SignedFraction(s) == \E i \in DOMAIN s : i > 1 /\ s[i] = "+" /\ s[i-1] = "."

\* types.rs:49-58: a text is accepted exactly if it is a decimal with no more
\* than FRAC places whose value fits, and then as that value, digit by digit:
\* nothing is rounded, cut off or wrapped around at either limit.  (The one
\* text beside these that gets through has a plus sign behind its point, which
\* the integer parser of the fraction takes for its own.)
ParsesExactly ==
  \A text \in Texts :
    LET s == Trim(text)
        meant == {Quoted(s, p) : p \in {q \in 2..(Len(s) + 1) : PointAt(s, q)}}
    IN ~SignedFraction(s) =>
         IF ParseFixed8(text) = Rejected
         THEN \A n \in meant : n > U64Max
         ELSE meant = {ParseFixed8(text).raw}
=============================================================================
