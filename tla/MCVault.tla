------------------------------- MODULE MCVault -------------------------------
(* A vault with interchangeable requests.                                     *)
EXTENDS Vault, TLC

MCAlterable == (Files \X {"content"}) \cup (Images \X {"key"})

MCSymmetry == Permutations(Requests)
=============================================================================
