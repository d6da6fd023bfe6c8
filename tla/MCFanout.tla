------------------------------ MODULE MCFanout ------------------------------
(* Fanout for TLC.  Client names are interchangeable: the safety runs use    *)
(* them as a symmetry set, the liveness run does not.                        *)
EXTENDS Fanout, TLC

ClientSymmetry == Permutations(Clients)
=============================================================================
