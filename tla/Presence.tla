------------------------------- MODULE Presence -------------------------------
(***************************************************************************)
(* What a room promises its clients: an announcement reaches everybody in  *)
(* the room at one moment, the same for all, whatever waits in a channel   *)
(* and however slowly each client reads.  told[c] is whom client c has     *)
(* been told of when it has read what is under way to it.  Nothing changes *)
(* it but an announcement, the list the client asks for, and a loss, which *)
(* is marked in missed and undoes no more than the news that is lost.      *)
(***************************************************************************)
CONSTANTS Conns, Peers

VARIABLES
    members,  \* connections in the room
    present,  \* peers whose row is connected
    told,     \* told[c]: peers c shows, or will when it has read its news
    missed    \* missed[c]: kinds of news about a peer that c did not get

roomVars == <<members, present, told, missed>>

Init ==
    /\ members = {}
    /\ present = {}
    /\ told = [c \in Conns |-> {}]
    /\ missed = [c \in Conns |-> {}]

Enter(c) ==
    /\ c \notin members
    /\ members' = members \cup {c}
    /\ UNCHANGED <<present, missed, told>>

Exit(c) ==
    /\ c \in members
    /\ members' = members \ {c}
    /\ UNCHANGED present
    /\ missed' = [missed EXCEPT ![c] = {}]
    /\ told' = [told EXCEPT ![c] = {}]

Appear(p) ==
    /\ present' = present \cup {p}
    /\ UNCHANGED <<members, missed, told>>

Vanish(p) ==
    /\ present' = present \ {p}
    /\ UNCHANGED <<members, missed, told>>

\* Some news of p reaches those who hear; the deaf are marked until they hear
\* news of that kind.
Tell(kind, p, hear, deaf) ==
    /\ UNCHANGED <<members, present>>
    /\ missed' = [x \in Conns |->
                  CASE x \in hear -> missed[x] \ {<<kind, p>>}
                    [] x \in deaf -> missed[x] \cup {<<kind, p>>}
                    [] x \notin hear \cup deaf -> missed[x]]
    /\ told' = [x \in Conns |->
                  CASE x \notin hear -> told[x]
                    [] x \in hear /\ kind = "joined" -> told[x] \cup {p}
                    [] x \in hear /\ kind = "left" -> told[x] \ {p}]

\* Who announces p is in the room; who withdraws it may have left it before.
Announce(c, p) ==
    /\ c \in members
    /\ \E deaf \in SUBSET (members \ {c}) : Tell("joined", p, members \ (deaf \cup {c}), deaf)

Withdraw(c, p) ==
    \E deaf \in SUBSET (members \ {c}) : Tell("left", p, members \ (deaf \cup {c}), deaf)

\* The list has all that are present but the client itself, and makes up for
\* what it missed of them; news still to be read may hide some.
List(c) ==
    /\ c \in members
    /\ UNCHANGED <<members, present>>
    /\ \E own \in Peers, hidden \in SUBSET Peers :
          /\ missed' = [missed EXCEPT ![c] = {l \in @ : l[1] = "joined" => l[2] \in hidden}]
          /\ told' = [told EXCEPT ![c] = @ \cup (present \ (hidden \cup {own}))]

\* News is lost on its way: it is as if it had not been told.
Lose(c, kind, p) ==
    /\ c \in members
    /\ UNCHANGED <<members, present>>
    /\ missed' = [missed EXCEPT ![c] = @ \cup {<<kind, p>>}]
    /\ told' \in {told, [told EXCEPT ![c] = IF kind = "joined" THEN @ \ {p} ELSE @ \cup {p}]}

Next ==
    \/ \E p \in Peers : Appear(p) \/ Vanish(p)
    \/ \E c \in Conns : Enter(c) \/ Exit(c) \/ List(c)
    \/ \E c \in Conns, p \in Peers :
          Announce(c, p) \/ Withdraw(c, p) \/ \E kind \in {"joined", "left"} : Lose(c, kind, p)

Spec == Init /\ [][Next]_roomVars
=============================================================================
