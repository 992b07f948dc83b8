------------------------------- MODULE MCCodes -------------------------------
(* One address with interchangeable requests, registrations and codes.        *)
EXTENDS Codes, TLC

MCSymmetry == Permutations(Requests) \cup Permutations(Forms) \cup Permutations(Codes)
=============================================================================
