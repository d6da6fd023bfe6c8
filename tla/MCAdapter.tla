------------------------------ MODULE MCAdapter ------------------------------
(* Adapter for TLC: every frame of up to three trades, good and bad, and no  *)
(* frame at all for a peer that accepts and closes.  Prices are texts of a   *)
(* few characters, at two decimals and a largest value of 1990.              *)
EXTENDS Adapter, Fixed8

SmallFrames == UNION { [1..n -> {"ok", "bad"}] : n \in 0..3 }
NoFrames == {}
PriceCharacters == {" ", "+", "-", ".", "0", "1", "9"}

\* types.rs:49-58: whatever text an open session receives as a price or a
\* quantity, decode accepts it only as the exact value it denotes.
PricesAreExact == pc = "open" => ParsesExactly
=============================================================================
