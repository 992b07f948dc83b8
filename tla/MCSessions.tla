------------------------------ MODULE MCSessions ------------------------------
(* An account with interchangeable requests, links and tokens.                *)
EXTENDS Sessions, TLC

MCSymmetry == Permutations(Requests) \cup Permutations(Links) \cup Permutations(Tokens)
=============================================================================
