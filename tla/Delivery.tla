------------------------------- MODULE Delivery -------------------------------
(***************************************************************************)
(* What the record of a file transfer promises its two clients, whatever   *)
(* the server reads, saves and overwrites on the way: a file is offered    *)
(* once, what the server knows of its progress only grows and is never     *)
(* more than the receiver keeps, and a resumed transfer goes on after the  *)
(* last chunk that is known of, or from the start.                         *)
(***************************************************************************)
EXTENDS Naturals

CONSTANTS
    Files,   \* files that may be offered
    Clients, \* clients they may be offered to
    Size,    \* chunks of a file
    Nobody   \* a file nobody asked to resume

VARIABLES
    offered, \* pairs <<f, c>>: file f was offered to client c
    kept,    \* kept[f]: chunks of f the receiving client keeps
    known,   \* known[f]: chunks of f the server knows to be kept
    resume   \* resume[f]: the chunk the sender was told to go on after

deliveryVars == <<offered, kept, known, resume>>

Init ==
    /\ offered = {}
    /\ kept = [f \in Files |-> 0]
    /\ known = [f \in Files |-> 0]
    /\ resume = [f \in Files |-> Nobody]

Offer(f, c) ==
    /\ \A d \in Clients : <<f, d>> \notin offered
    /\ offered' = offered \cup {<<f, c>>}
    /\ UNCHANGED <<kept, known, resume>>

Keep(f) ==
    /\ \E c \in Clients : <<f, c>> \in offered
    /\ kept[f] < Size
    /\ kept' = [kept EXCEPT ![f] = @ + 1]
    /\ UNCHANGED <<offered, known, resume>>

\* News of the chunks may come late or skip some, and is never taken back.
Learn(f) ==
    /\ \E n \in known[f] + 1 .. kept[f] : known' = [known EXCEPT ![f] = n]
    /\ UNCHANGED <<offered, kept, resume>>

\* Chunks are counted from 0: the last of n known chunks is n - 1.
Resume(f) ==
    /\ \E c \in Clients : <<f, c>> \in offered
    /\ \E i \in 0 .. Size : /\ i = 0 \/ i + 1 = known[f]
                            /\ resume' = [resume EXCEPT ![f] = i]
    /\ UNCHANGED <<offered, kept, known>>

Next ==
    \E f \in Files :
        Keep(f) \/ Learn(f) \/ Resume(f) \/ \E c \in Clients : Offer(f, c)

Spec == Init /\ [][Next]_deliveryVars
=============================================================================
