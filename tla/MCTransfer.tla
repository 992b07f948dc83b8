----------------------------- MODULE MCTransfer ------------------------------
(* A room of three users, one of whom a file is not meant for.              *)
EXTENDS Transfer, TLC

CONSTANTS alice, bob, carol

MCUserOf == (alice :> "u1") @@ (bob :> "u2") @@ (carol :> "u3")
=============================================================================
