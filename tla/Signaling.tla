------------------------------ MODULE Signaling ------------------------------
(***************************************************************************)
(* Presence in one P2P room: who is in it, and who each client has been    *)
(* told is in it.  It models SignalingConsumer (api/consumers.py: connect, *)
(* authenticate, join, leave, disconnect and the peer_joined / peer_left   *)
(* events) together with RoomJoinView (api/views.py), which writes the     *)
(* same Peer rows from REST requests.                                      *)
(*                                                                         *)
(* One consumer serves one WebSocket.  It handles its client's frames and  *)
(* the events of its channel one at a time, so a handler is atomic up to   *)
(* the next await at which another consumer or a REST request can act: an  *)
(* action below runs from one database call or group_send to the next, and *)
(* pc names the await at which the handler is suspended.                   *)
(***************************************************************************)
EXTENDS Naturals, Sequences, FiniteSets

CONSTANTS
    Conns,      \* WebSocket connections (a closed one may be opened again)
    Peers,      \* values of the client-chosen peer_id
    MayUse,     \* MayUse[c]: the peer ids the client of c authenticates with
    MaxPeers,   \* Room.max_peers
    Capacity,   \* events the channel layer keeps for one channel
    Faults,     \* the faults that may happen
    NoPeer      \* peer_id = None

ASSUME ConstantsAssumption ==
    /\ MayUse \in [Conns -> SUBSET Peers]
    /\ MaxPeers \in Nat
    /\ Capacity \in Nat
    /\ Faults \subseteq {"crash", "database", "expiry"}
    /\ NoPeer \notin Peers

VARIABLES
    pc,         \* pc[c]: where the consumer of c is suspended
    peerId,     \* peerId[c]: self.peer_id
    group,      \* channels in the room's group
    queue,      \* queue[c]: events waiting in c's channel
    online,     \* peer ids whose Peer row is authenticated and connected
    joining,    \* peer ids whose REST join passed its check and has not written
    view,       \* view[c]: the peers the client of c has been told are there
    listed,     \* listed[c]: c was sent the list of connected peers
    announced,  \* announced[c]: how c's last peer_joined broadcast stands
    lost,       \* lost[c]: the kinds of others' events about a peer that c missed
    orphan      \* peer ids whose consumer died without running disconnect

dbVars == <<online, joining>>
connVars == <<pc, peerId, group, listed>>
history == <<announced, orphan>>
channelVars == <<queue, view, lost>>
vars == <<pc, peerId, group, queue, online, joining, view, listed, announced,
          lost, orphan>>

Event == [type : {"joined", "left"}, peer : Peers, sender : Conns]

\* What is known of a broadcast: none stands; it was made while the Peer row
\* was online; it was made, or outlived, while the row was not.
Announcement == {"none", "authenticated", "bare"}

TypeOK ==
    /\ pc \in [Conns -> {"closed", "idle", "joinSend", "leaveSend",
                         "discRow", "discSend"}]
    /\ peerId \in [Conns -> Peers \cup {NoPeer}]
    /\ group \in SUBSET Conns
    /\ queue \in [Conns -> Seq(Event)]
    /\ online \in SUBSET Peers
    /\ joining \in SUBSET Peers
    /\ view \in [Conns -> SUBSET Peers]
    /\ listed \in [Conns -> BOOLEAN]
    /\ announced \in [Conns -> Announcement]
    /\ lost \in [Conns -> SUBSET ({"joined", "left"} \X Peers)]
    /\ orphan \in SUBSET Peers

Init ==
    /\ pc = [c \in Conns |-> "closed"]
    /\ peerId = [c \in Conns |-> NoPeer]
    /\ group = {}
    /\ queue = [c \in Conns |-> << >>]
    /\ online = {}
    /\ joining = {}
    /\ view = [c \in Conns |-> {}]
    /\ listed = [c \in Conns |-> FALSE]
    /\ announced = [c \in Conns |-> "none"]
    /\ lost = [c \in Conns |-> {}]
    /\ orphan = {}

-----------------------------------------------------------------------------
(* The channel layer (channels_redis).  group_send appends the event to    *)
(* the channel of every member, the sender's own included, and drops it,   *)
(* without an error, where the channel is full.                            *)

\* Event e is of that type, about p, and comes from another connection than c.
About(e, c, type, p) == e.sender # c /\ e.type = type /\ e.peer = p

Waiting(q, c, type, p) == \E i \in DOMAIN q : About(q[i], c, type, p)

Full(c) == Len(queue[c]) >= Capacity

Broadcast(e) ==
    /\ queue' = [x \in Conns |-> IF x \in group /\ ~Full(x)
                                 THEN Append(queue[x], e) ELSE queue[x]]
    /\ lost' = [x \in Conns |->
                  CASE x \notin group \ {e.sender} -> lost[x]
                    [] x \in group \ {e.sender} /\ Full(x) -> lost[x] \cup {<<e.type, e.peer>>}
                    [] x \in group \ {e.sender} /\ ~Full(x) -> lost[x] \ {<<e.type, e.peer>>}]

\* An event that waits longer than the layer's expiry is discarded.
Expire(c) ==
    /\ "expiry" \in Faults
    /\ pc[c] # "closed"
    /\ queue[c] # << >>
    /\ queue' = [queue EXCEPT ![c] = Tail(@)]
    /\ LET e == Head(queue[c])
       IN  lost' = [lost EXCEPT ![c] =
                      IF e.sender = c THEN @ ELSE @ \cup {<<e.type, e.peer>>}]
    /\ UNCHANGED <<pc, peerId, group, online, joining, view, listed, announced, orphan>>

-----------------------------------------------------------------------------
(* The consumer: frames of the client.                                     *)

\* Mutant of Connect: no group_add.
ConnectWithoutGroup(c) ==
    /\ pc[c] = "closed"
    /\ pc' = [pc EXCEPT ![c] = "idle"]
    /\ UNCHANGED <<peerId, group, listed, dbVars, history, channelVars>>

\* connect: the channel enters the group before the socket is accepted.  A
\* refused connection (anonymous or blocked user) leaves no trace.
Connect(c) ==
    /\ pc[c] = "closed"
    /\ pc' = [pc EXCEPT ![c] = "idle"]
    /\ group' = group \cup {c}
    /\ UNCHANGED <<peerId, listed, dbVars, history, channelVars>>

\* handle_authentication: self.peer_id is set first and stays set when
\* create_or_update_peer fails.  Until the row is written nobody else can
\* tell, so both are one step.
SetPeerId(c, p) ==
    /\ pc[c] = "idle"
    /\ p \in MayUse[c]
    /\ peerId' = [peerId EXCEPT ![c] = p]
    /\ announced' = [announced EXCEPT ![c] = IF peerId[c] = p THEN @ ELSE "none"]
    /\ UNCHANGED <<pc, group, listed, joining, orphan, channelVars>>

\* Mutant of Authenticate: the row of the id the consumer had before.
AuthenticateOldId(c, p) ==
    /\ SetPeerId(c, p)
    /\ online' = online \cup {peerId[c]}

Authenticate(c, p) ==
    /\ SetPeerId(c, p)
    /\ online' = online \cup {p}

AuthenticateFails(c, p) ==
    /\ "database" \in Faults
    /\ SetPeerId(c, p)
    /\ UNCHANGED online

\* Mutant of Join: the client is not told of the peers already there.
JoinWithoutList(c) ==
    /\ pc[c] = "idle"
    /\ peerId[c] # NoPeer
    /\ pc' = [pc EXCEPT ![c] = "joinSend"]
    /\ listed' = [listed EXCEPT ![c] = TRUE]
    /\ UNCHANGED <<peerId, group, queue, view, lost, announced, orphan, dbVars>>

\* handle_join up to the group_send: the client is told of every connected
\* peer but itself.  That makes up for a lost peer_joined, except where an
\* older peer_left of the same peer is still to be read and will hide it again.
\* A failing query is answered with an empty list.
Join(c) ==
    /\ pc[c] = "idle"
    /\ peerId[c] # NoPeer
    /\ pc' = [pc EXCEPT ![c] = "joinSend"]
    /\ view' = [view EXCEPT ![c] = @ \cup (online \ {peerId[c]})]
    /\ listed' = [listed EXCEPT ![c] = TRUE]
    /\ lost' = [lost EXCEPT ![c] =
          {l \in @ : l[1] = "joined" => Waiting(queue[c], c, "left", l[2])}]
    /\ UNCHANGED <<peerId, group, queue, announced, orphan, dbVars>>

JoinListFails(c) ==
    /\ "database" \in Faults
    /\ pc[c] = "idle"
    /\ peerId[c] # NoPeer
    /\ pc' = [pc EXCEPT ![c] = "joinSend"]
    /\ UNCHANGED <<peerId, group, listed, announced, orphan, dbVars, channelVars>>

\* handle_join, the group_send of peer_joined.
SendJoined(c) ==
    /\ pc[c] = "joinSend"
    /\ Broadcast([type |-> "joined", peer |-> peerId[c], sender |-> c])
    /\ pc' = [pc EXCEPT ![c] = "idle"]
    /\ announced' = [announced EXCEPT ![c] =
                       IF peerId[c] \in online THEN "authenticated" ELSE "bare"]
    /\ UNCHANGED <<peerId, group, view, listed, orphan, dbVars>>

\* update_peer_status(False); a broadcast made before now outlives the row.
DropRow(c) ==
    /\ online' = online \ {peerId[c]}
    /\ announced' = [announced EXCEPT ![c] = IF @ = "none" THEN @ ELSE "bare"]

\* handle_leave: the row, then the broadcast.  peer_id is kept.
Leave(c) ==
    /\ pc[c] = "idle"
    /\ peerId[c] # NoPeer
    /\ DropRow(c)
    /\ pc' = [pc EXCEPT ![c] = "leaveSend"]
    /\ UNCHANGED <<peerId, group, listed, joining, orphan, channelVars>>

\* The consumer leaves the group and reads neither frames nor events again.
StopReading(c) ==
    /\ group' = group \ {c}
    /\ queue' = [queue EXCEPT ![c] = << >>]
    /\ view' = [view EXCEPT ![c] = {}]
    /\ listed' = [listed EXCEPT ![c] = FALSE]
    /\ lost' = [lost EXCEPT ![c] = {}]

\* disconnect: group_discard, then the row, then the broadcast.
Disconnect(c) ==
    /\ pc[c] = "idle"
    /\ StopReading(c)
    /\ pc' = [pc EXCEPT ![c] = IF peerId[c] = NoPeer THEN "closed" ELSE "discRow"]
    /\ UNCHANGED <<peerId, dbVars, history>>

DisconnectRow(c) ==
    /\ pc[c] = "discRow"
    /\ DropRow(c)
    /\ pc' = [pc EXCEPT ![c] = "discSend"]
    /\ UNCHANGED <<peerId, group, listed, joining, orphan, channelVars>>

\* Mutant of SendLeft: disconnect tells nobody.
SendLeftOnLeaveOnly(c) ==
    /\ pc[c] \in {"leaveSend", "discSend"}
    /\ IF pc[c] = "leaveSend"
       THEN Broadcast([type |-> "left", peer |-> peerId[c], sender |-> c])
       ELSE UNCHANGED <<queue, lost>>
    /\ pc' = [pc EXCEPT ![c] = IF @ = "leaveSend" THEN "idle" ELSE "closed"]
    /\ peerId' = [peerId EXCEPT ![c] = IF pc[c] = "leaveSend" THEN @ ELSE NoPeer]
    /\ announced' = [announced EXCEPT ![c] = "none"]
    /\ orphan' = orphan \ {peerId[c]}
    /\ UNCHANGED <<group, view, listed, dbVars>>

\* The group_send of peer_left that ends both handlers.
SendLeft(c) ==
    /\ pc[c] \in {"leaveSend", "discSend"}
    /\ Broadcast([type |-> "left", peer |-> peerId[c], sender |-> c])
    /\ pc' = [pc EXCEPT ![c] = IF @ = "leaveSend" THEN "idle" ELSE "closed"]
    /\ peerId' = [peerId EXCEPT ![c] = IF pc[c] = "leaveSend" THEN @ ELSE NoPeer]
    /\ announced' = [announced EXCEPT ![c] = "none"]
    /\ orphan' = orphan \ {peerId[c]}
    /\ UNCHANGED <<group, view, listed, dbVars>>

-----------------------------------------------------------------------------
(* The consumer: events of its channel.                                    *)

\* Mutant of HandleEvent: a client that has not joined is not told who left.
HandleEventOnceListed(c) ==
    /\ pc[c] = "idle"
    /\ queue[c] # << >>
    /\ LET e == Head(queue[c])
       IN  view' = [view EXCEPT ![c] =
                      CASE e.sender = c \/ (~listed[c] /\ e.type = "left") -> @
                        [] e.sender # c /\ e.type = "joined" -> @ \cup {e.peer}
                        [] e.sender # c /\ e.type = "left" /\ listed[c] -> @ \ {e.peer}]
    /\ queue' = [queue EXCEPT ![c] = Tail(@)]
    /\ UNCHANGED <<lost, connVars, dbVars, history>>

\* Mutant of HandleEvent: the sender check keeps others' events from the client.
HandleOwnEvents(c) ==
    /\ pc[c] = "idle"
    /\ queue[c] # << >>
    /\ LET e == Head(queue[c])
       IN  view' = [view EXCEPT ![c] =
                      CASE e.sender # c -> @
                        [] e.sender = c /\ e.type = "joined" -> @ \cup {e.peer}
                        [] e.sender = c /\ e.type = "left" -> @ \ {e.peer}]
    /\ queue' = [queue EXCEPT ![c] = Tail(@)]
    /\ UNCHANGED <<lost, connVars, dbVars, history>>

\* peer_joined and peer_left: forwarded to the client unless the consumer
\* sent the event itself.
HandleEvent(c) ==
    /\ pc[c] = "idle"
    /\ queue[c] # << >>
    /\ LET e == Head(queue[c])
       IN  view' = [view EXCEPT ![c] =
                      CASE e.sender = c -> @
                        [] e.sender # c /\ e.type = "joined" -> @ \cup {e.peer}
                        [] e.sender # c /\ e.type = "left" -> @ \ {e.peer}]
    /\ queue' = [queue EXCEPT ![c] = Tail(@)]
    /\ UNCHANGED <<lost, connVars, dbVars, history>>

\* The server process dies, or an exception ends the consumer, at any await:
\* disconnect does not run.  No one reads the channel any more.
Crash(c) ==
    /\ "crash" \in Faults
    /\ pc[c] # "closed"
    /\ StopReading(c)
    /\ pc' = [pc EXCEPT ![c] = "closed"]
    /\ peerId' = [peerId EXCEPT ![c] = NoPeer]
    /\ announced' = [announced EXCEPT ![c] = "none"]
    /\ orphan' = orphan \cup ({peerId[c]} \ {NoPeer})
    /\ UNCHANGED dbVars

-----------------------------------------------------------------------------
(* RoomJoinView.post: the capacity check and the update_or_create are two  *)
(* database calls, and other requests run between them.                    *)

RestJoinCheck(p) ==
    /\ Cardinality(online) < MaxPeers
    /\ joining' = joining \cup {p}
    /\ UNCHANGED <<online, connVars, history, channelVars>>

RestJoinWrite(p) ==
    /\ p \in joining
    /\ joining' = joining \ {p}
    /\ online' = online \cup {p}
    /\ UNCHANGED <<connVars, history, channelVars>>

-----------------------------------------------------------------------------
Frame(c) ==
    \/ Connect(c)
    \/ \E p \in Peers : Authenticate(c, p) \/ AuthenticateFails(c, p)
    \/ Join(c) \/ JoinListFails(c)
    \/ Leave(c)
    \/ Disconnect(c)

\* What the server does on its own once a frame or an event has arrived.
Proceed(c) == SendJoined(c) \/ DisconnectRow(c) \/ SendLeft(c)

Next ==
    \/ \E c \in Conns : Frame(c) \/ Proceed(c) \/ HandleEvent(c)
                        \/ Expire(c) \/ Crash(c)
    \/ \E p \in Peers : RestJoinCheck(p) \/ RestJoinWrite(p)

Spec == Init /\ [][Next]_vars

\* A suspended handler is resumed, and the consumer's loop takes turns between
\* the client's frames and the channel's events, so that a waiting event is
\* not put off for ever.  Nothing is assumed of clients, crashes or requests.
Fairness == \A c \in Conns : WF_vars(Proceed(c)) /\ SF_vars(HandleEvent(c))

FairSpec == Spec /\ Fairness

-----------------------------------------------------------------------------
(* Properties.                                                             *)

\* Each client keeps to one peer id, and no two clients share one.  Both
\* directions of "the views are right" below hold under this discipline only.
DistinctPeers ==
    /\ \A c \in Conns : \A p, q \in MayUse[c] : p = q
    /\ \A c, d \in Conns : c # d => MayUse[c] \cap MayUse[d] = {}

Live(c) == pc[c] \in {"idle", "joinSend", "leaveSend"}

\* The channel q of c holds a peer_joined of p and no later peer_left.
JoinedLast(q, c, p) ==
    \E i \in DOMAIN q :
        /\ About(q[i], c, "joined", p)
        /\ \A j \in DOMAIN q : j > i => ~About(q[j], c, "left", p)

\* Client c ends up seeing p when it has read what is in its channel now.
WillSee(c, p) ==
    \/ p \in view[c] /\ ~Waiting(queue[c], c, "left", p)
    \/ JoinedLast(queue[c], c, p)

\* Discovery: once a peer has authenticated and joined, every client that has
\* joined, before or after it and however their handlers interleave, sees it or
\* is about to, unless the channel layer lost the event.  handle_join reads the
\* rows and broadcasts in two steps; this is what the two together must give.
Discovery ==
    \A c, d \in Conns :
        /\ c # d /\ Live(c) /\ listed[c]
        /\ announced[d] = "authenticated"
        /\ <<"joined", peerId[d]>> \notin lost[c]
        => WillSee(c, peerId[d])

Leaving(p) == \E d \in Conns : pc[d] \in {"leaveSend", "discSend"} /\ peerId[d] = p

Stands(p) == \E d \in Conns : announced[d] # "none" /\ peerId[d] = p

\* The room has no trace of p that could justify showing it.
Departed(p) == p \notin online \cup orphan /\ ~Leaving(p) /\ ~Stands(p)

\* NoStalePeer: a peer whose row is disconnected, with no announcement standing
\* and no peer_left still to be sent, disappears from every client that reads
\* its channel, unless the peer_left was lost.  disconnect and handle_leave
\* write the row first and broadcast second for this.
NoStalePeer ==
    \A c \in Conns, p \in Peers :
        Live(c) /\ Departed(p) /\ <<"left", p>> \notin lost[c] => ~WillSee(c, p)

\* RoomSpec: the room as its clients may take it (Presence).  What a channel
\* holds counts as told, so an announcement reaches all of the room at one
\* moment, and reading a channel, whenever and however slowly, changes nothing.
Told(c) == {p \in Peers : WillSee(c, p)}
Room == INSTANCE Presence
    WITH members <- group, present <- online, missed <- lost,
         told <- [c \in Conns |-> Told(c)]
RoomSpec == Room!Spec

\* EventuallySeen: a joined client does not stay ignorant of an authenticated,
\* joined peer: the peer_joined waiting in its channel is delivered.
EventuallySeen ==
    \A c, d \in Conns :
        []<>~( /\ c # d /\ Live(c) /\ listed[c]
               /\ announced[d] = "authenticated"
               /\ <<"joined", peerId[d]>> \notin lost[c]
               /\ peerId[d] \notin view[c])

\* EventuallyGone: a client does not go on showing a peer that has left.
EventuallyGone ==
    \A c \in Conns, p \in Peers :
        []<>~( /\ Live(c) /\ p \notin online \cup orphan /\ ~Stands(p)
               /\ <<"left", p>> \notin lost[c]
               /\ p \in view[c])

\* Why the two hold: an inductive invariant, for clients with distinct peer ids.
Bookkeeping ==
    /\ group = {c \in Conns : Live(c)}
    /\ \A c \in Conns :
          /\ peerId[c] \in MayUse[c] \cup {NoPeer}
          /\ pc[c] = "closed" => peerId[c] = NoPeer
          /\ announced[c] # "none" => peerId[c] # NoPeer
          /\ announced[c] = "authenticated" => peerId[c] \in online
          /\ ~Live(c) => queue[c] = << >> /\ view[c] = {} /\ ~listed[c]
          /\ view[c] \cap MayUse[c] = {}
          /\ \A i \in DOMAIN queue[c] : queue[c][i].peer \in MayUse[queue[c][i].sender]

\* Discovery, and what a client that has not joined yet must find when it does:
\* a peer_left in its channel is not the last word on a peer that is there.
DiscoveryInv ==
    \A c, d \in Conns :
        /\ c # d /\ Live(c)
        /\ announced[d] = "authenticated"
        /\ <<"joined", peerId[d]>> \notin lost[c]
        => \/ JoinedLast(queue[c], c, peerId[d])
           \/ /\ ~Waiting(queue[c], c, "left", peerId[d])
              /\ listed[c] => peerId[d] \in view[c]

\* PresenceInv: the inductive invariant of the two handshakes, rows first and
\* broadcast second on leaving, group first and list second on arriving.
PresenceInv == Bookkeeping /\ DiscoveryInv /\ NoStalePeer

=============================================================================
