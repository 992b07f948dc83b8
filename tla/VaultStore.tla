------------------------------ MODULE VaultStore ------------------------------
(***************************************************************************)
(* What the vault promises of a file or an image: it is there from one     *)
(* moment to a later one, and a request is granted its content, with an    *)
(* entry in the log the owner can ask for unless it came by a share link,  *)
(* only in between.  A request that was granted the content may still hand *)
(* it out when the thing has been removed, or die before it does.          *)
(***************************************************************************)
EXTENDS Naturals

CONSTANTS Things, Requests

VARIABLES
    stored,   \* "fresh" before the upload, then "live", then "gone"
    entries,  \* entries of the log the owner can ask for
    granted   \* requests that may hand the content out

storeVars == <<stored, entries, granted>>

Init ==
    /\ stored = [x \in Things |-> "fresh"]
    /\ entries = [x \in Things |-> 0]
    /\ granted = [x \in Things |-> {}]

Store(x) ==
    /\ stored[x] = "fresh"
    /\ stored' = [stored EXCEPT ![x] = "live"]
    /\ entries' = [entries EXCEPT ![x] = 1]
    /\ UNCHANGED granted

Read(r, x) ==
    /\ stored[x] = "live"
    /\ entries' = [entries EXCEPT ![x] = @ + 1]
    /\ granted' = [granted EXCEPT ![x] = @ \cup {r}]
    /\ UNCHANGED stored

Share(r, x) ==
    /\ stored[x] = "live"
    /\ granted' = [granted EXCEPT ![x] = @ \cup {r}]
    /\ UNCHANGED <<stored, entries>>

\* The content is handed out, or the request dies.
Finish(r, x) ==
    /\ r \in granted[x]
    /\ granted' = [granted EXCEPT ![x] = @ \ {r}]
    /\ UNCHANGED <<stored, entries>>

Remove(x) ==
    /\ stored[x] = "live"
    /\ stored' = [stored EXCEPT ![x] = "gone"]
    /\ entries' = [entries EXCEPT ![x] = 0]
    /\ UNCHANGED granted

Next == \E x \in Things :
    \/ Store(x) \/ Remove(x)
    \/ \E r \in Requests : Read(r, x) \/ Share(r, x) \/ Finish(r, x)

Spec == Init /\ [][Next]_storeVars
=============================================================================
