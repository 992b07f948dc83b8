---------------------------- MODULE MCAccountBlock ----------------------------
(* An account with interchangeable requests and attempts.                    *)
EXTENDS AccountBlock, TLC

MCSymmetry == Permutations(Requests) \cup Permutations(Attempts)
=============================================================================
