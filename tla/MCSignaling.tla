----------------------------- MODULE MCSignaling -----------------------------
(* Small rooms for TLC: two connections with a peer id each.                   *)
EXTENDS Signaling, TLC

CONSTANTS c1, c2, p1, p2

MCOwnPeer == (c1 :> {p1}) @@ (c2 :> {p2})

\* Swapping the two clients together with their peer ids changes nothing.
MCSwap == {(c1 :> c2) @@ (c2 :> c1) @@ (p1 :> p2) @@ (p2 :> p1),
           (c1 :> c1) @@ (c2 :> c2) @@ (p1 :> p1) @@ (p2 :> p2)}
=============================================================================
