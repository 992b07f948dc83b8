------------------------------- MODULE MCThreat -------------------------------
(* Three places, the first of them far apart from the two others.            *)
EXTENDS Threat, TLC

CONSTANTS p1, p2, p3

MCFar == {{p1, p3}, {p1, p2}}
MCMiddle == {{p2, p3}}
MCWeight == [a \in Rules \cup {"place"} |-> IF a \in {"travel", "rapid", "device"} THEN 1 ELSE 0]

MCNotified == {"travel"}

\* Requests are alike, and so are the two places far from the first: nothing
\* changes if either are swapped.
MCSymmetry == {f @@ g : f \in Permutations(Requests), g \in Permutations({p2, p3})}
=============================================================================
