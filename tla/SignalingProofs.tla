--------------------------- MODULE SignalingProofs ---------------------------
(***************************************************************************)
(* Proofs about Signaling for every number of connections, every channel   *)
(* capacity and every combination of faults: type correctness, that the    *)
(* consumers implement Presence, and, when clients keep to distinct peer   *)
(* ids, Discovery and NoStalePeer.                                         *)
(***************************************************************************)
EXTENDS Signaling, TLAPS

-----------------------------------------------------------------------------
(* What appending to and reading from a channel does to what it announces. *)

\* Appending an event that tells client c nothing of p changes nothing of p.
LEMMA AppendUnrelated ==
    ASSUME NEW q \in Seq(Event), NEW e \in Event, NEW c, NEW p,
           ~About(e, c, "joined", p), ~About(e, c, "left", p)
    PROVE  /\ Waiting(Append(q, e), c, "left", p) <=> Waiting(q, c, "left", p)
           /\ JoinedLast(Append(q, e), c, p) <=> JoinedLast(q, c, p)
<1> DEFINE a == Append(q, e)
<1>1. /\ a \in Seq(Event)
      /\ Len(a) = Len(q) + 1
      /\ Len(q) \in Nat
      /\ \A i \in 1 .. Len(q) : a[i] = q[i]
      /\ a[Len(q) + 1] = e
      /\ DOMAIN a = 1 .. Len(a) /\ DOMAIN q = 1 .. Len(q)
  OBVIOUS
<1> HIDE DEF a
<1>2. \A i \in DOMAIN a : i \in DOMAIN q \/ a[i] = e
  BY <1>1
<1>3. \A i \in DOMAIN q : i \in DOMAIN a /\ a[i] = q[i]
  BY <1>1
<1>4. Waiting(a, c, "left", p) <=> Waiting(q, c, "left", p)
  BY <1>2, <1>3 DEF Waiting
<1>5. JoinedLast(a, c, p) <=> JoinedLast(q, c, p)
  BY <1>2, <1>3 DEF JoinedLast
<1> QED BY <1>4, <1>5 DEF a

\* Appending a peer_joined of p makes it the last word on p.
LEMMA AppendJoined ==
    ASSUME NEW q \in Seq(Event), NEW e \in Event, NEW c, NEW p,
           About(e, c, "joined", p)
    PROVE  JoinedLast(Append(q, e), c, p)
<1>1. /\ Len(q) + 1 \in DOMAIN Append(q, e)
      /\ Append(q, e)[Len(q) + 1] = e
      /\ \A j \in DOMAIN Append(q, e) : ~(j > Len(q) + 1)
  OBVIOUS
<1> QED BY <1>1 DEF JoinedLast

\* Appending a peer_left of p revokes every earlier peer_joined.
LEMMA AppendLeft ==
    ASSUME NEW q \in Seq(Event), NEW e \in Event, NEW c, NEW p,
           About(e, c, "left", p)
    PROVE  /\ Waiting(Append(q, e), c, "left", p)
           /\ ~JoinedLast(Append(q, e), c, p)
<1>1. /\ Len(q) + 1 \in DOMAIN Append(q, e)
      /\ Append(q, e)[Len(q) + 1] = e
      /\ \A j \in DOMAIN Append(q, e) : j = Len(q) + 1 \/ Len(q) + 1 > j
  OBVIOUS
<1>2. ~About(e, c, "joined", p)
  BY DEF About
<1> QED BY <1>1, <1>2 DEF JoinedLast, Waiting

\* What a channel says of p, from its first event and the rest.
LEMMA HeadAndTail ==
    ASSUME NEW q \in Seq(Event), q # << >>, NEW c, NEW p
    PROVE  /\ Tail(q) \in Seq(Event)
           /\ Head(q) \in Event
           /\ Waiting(q, c, "left", p) <=>
                 About(Head(q), c, "left", p) \/ Waiting(Tail(q), c, "left", p)
           /\ JoinedLast(q, c, p) <=>
                 \/ About(Head(q), c, "joined", p) /\ ~Waiting(Tail(q), c, "left", p)
                 \/ JoinedLast(Tail(q), c, p)
<1> DEFINE t == Tail(q)
           h == Head(q)
<1>1. /\ t \in Seq(Event) /\ h \in Event
      /\ Len(q) \in Nat /\ Len(q) > 0
      /\ Len(t) = Len(q) - 1
      /\ DOMAIN q = 1 .. Len(q) /\ DOMAIN t = 1 .. Len(q) - 1
      /\ \A i \in 1 .. Len(q) - 1 : t[i] = q[i + 1]
      /\ h = q[1]
  OBVIOUS
<1> HIDE DEF t, h
<1>2. /\ 1 \in DOMAIN q
      /\ \A i \in DOMAIN t : i + 1 \in DOMAIN q /\ q[i + 1] = t[i] /\ i + 1 > 1
      /\ \A i \in DOMAIN q : i = 1 \/ (i - 1 \in DOMAIN t /\ t[i - 1] = q[i])
  BY <1>1
<1>3. Waiting(q, c, "left", p) <=>
         About(h, c, "left", p) \/ Waiting(t, c, "left", p)
  BY <1>1, <1>2 DEF Waiting
<1>4. ASSUME JoinedLast(q, c, p)
      PROVE  \/ About(h, c, "joined", p) /\ ~Waiting(t, c, "left", p)
             \/ JoinedLast(t, c, p)
  <2>1. PICK i \in DOMAIN q : /\ About(q[i], c, "joined", p)
                              /\ \A j \in DOMAIN q : j > i => ~About(q[j], c, "left", p)
    BY <1>4 DEF JoinedLast
  <2>2. CASE i = 1
    BY <2>1, <2>2, <1>1, <1>2 DEF Waiting
  <2>3. CASE i # 1
    <3>1. i - 1 \in DOMAIN t /\ About(t[i - 1], c, "joined", p)
      BY <2>1, <2>3, <1>2
    <3>2. ASSUME NEW j \in DOMAIN t, j > i - 1
          PROVE  ~About(t[j], c, "left", p)
      <4>1. j + 1 \in DOMAIN q /\ q[j + 1] = t[j]
        BY <1>2
      <4>2. j + 1 > i
        BY <3>2, <1>1
      <4> QED BY <4>1, <4>2, <2>1
    <3> QED BY <3>1, <3>2 DEF JoinedLast
  <2> QED BY <2>2, <2>3
<1>5. ASSUME About(h, c, "joined", p), ~Waiting(t, c, "left", p)
      PROVE  JoinedLast(q, c, p)
  <2>1. ASSUME NEW j \in DOMAIN q, j > 1
        PROVE  ~About(q[j], c, "left", p)
    BY <2>1, <1>2, <1>5 DEF Waiting
  <2> QED BY <2>1, <1>1, <1>2, <1>5 DEF JoinedLast
<1>6. ASSUME JoinedLast(t, c, p)
      PROVE  JoinedLast(q, c, p)
  <2>1. PICK i \in DOMAIN t : /\ About(t[i], c, "joined", p)
                              /\ \A j \in DOMAIN t : j > i => ~About(t[j], c, "left", p)
    BY <1>6 DEF JoinedLast
  <2>2. i + 1 \in DOMAIN q /\ About(q[i + 1], c, "joined", p)
    BY <2>1, <1>2
  <2>3. ASSUME NEW j \in DOMAIN q, j > i + 1
        PROVE  ~About(q[j], c, "left", p)
    <3>1. j - 1 \in DOMAIN t /\ t[j - 1] = q[j]
      BY <2>3, <1>2, <1>1
    <3>2. j - 1 > i
      BY <2>3, <1>1
    <3> QED BY <3>1, <3>2, <2>1
  <2> QED BY <2>2, <2>3 DEF JoinedLast
<1> QED BY <1>1, <1>3, <1>4, <1>5, <1>6 DEF t, h

-----------------------------------------------------------------------------
(* Type correctness.                                                       *)

LEMMA BroadcastTypes ==
    ASSUME TypeOK, NEW e \in Event, Broadcast(e)
    PROVE  /\ queue' \in [Conns -> Seq(Event)]
           /\ lost' \in [Conns -> SUBSET ({"joined", "left"} \X Peers)]
<1>1. ASSUME NEW x \in Conns
      PROVE  (IF x \in group /\ ~Full(x) THEN Append(queue[x], e) ELSE queue[x])
                \in Seq(Event)
  BY DEF TypeOK
<1>2. <<e.type, e.peer>> \in {"joined", "left"} \X Peers
  BY DEF Event
<1>3. ASSUME NEW x \in Conns
      PROVE  lost'[x] \in SUBSET ({"joined", "left"} \X Peers)
  <2>1. lost'[x] \in {lost[x], lost[x] \cup {<<e.type, e.peer>>},
                      lost[x] \ {<<e.type, e.peer>>}}
    BY <1>3 DEF Broadcast
  <2>2. lost[x] \in SUBSET ({"joined", "left"} \X Peers)
    BY <1>3 DEF TypeOK
  <2> QED BY <1>2, <2>1, <2>2
<1>4. lost' = [x \in Conns |-> lost'[x]]
  BY DEF Broadcast
<1> QED BY <1>1, <1>3, <1>4 DEF Broadcast

\* A consumer suspended in a handler that broadcasts has a peer id.
PeerIdSet ==
    \A c \in Conns : pc[c] \in {"joinSend", "leaveSend", "discRow", "discSend"}
                     => peerId[c] \in Peers

LEMMA TypeInit == Init => TypeOK /\ PeerIdSet
BY DEF Init, TypeOK, PeerIdSet, Announcement

LEMMA TypeStep ==
    ASSUME TypeOK, PeerIdSet, [Next]_vars
    PROVE  (TypeOK /\ PeerIdSet)'
<1> USE DEF TypeOK, PeerIdSet, Announcement, dbVars, connVars, history, channelVars
<1>1. ASSUME NEW c \in Conns, Connect(c)
      PROVE  (TypeOK /\ PeerIdSet)'
  BY <1>1 DEF Connect
<1>2. ASSUME NEW c \in Conns, NEW p \in Peers, SetPeerId(c, p), online' \in SUBSET Peers
      PROVE  (TypeOK /\ PeerIdSet)'
  BY <1>2 DEF SetPeerId
<1>3. ASSUME NEW c \in Conns, NEW p \in Peers, Authenticate(c, p) \/ AuthenticateFails(c, p)
      PROVE  (TypeOK /\ PeerIdSet)'
  BY <1>2, <1>3 DEF Authenticate, AuthenticateFails
<1>4. ASSUME NEW c \in Conns, Join(c)
      PROVE  (TypeOK /\ PeerIdSet)'
  BY <1>4 DEF Join
<1>5. ASSUME NEW c \in Conns, JoinListFails(c)
      PROVE  (TypeOK /\ PeerIdSet)'
  BY <1>5 DEF JoinListFails
<1>6. ASSUME NEW c \in Conns, SendJoined(c)
      PROVE  (TypeOK /\ PeerIdSet)'
  <2>1. [type |-> "joined", peer |-> peerId[c], sender |-> c] \in Event
    BY <1>6 DEF SendJoined, Event
  <2>2. /\ queue' \in [Conns -> Seq(Event)]
        /\ lost' \in [Conns -> SUBSET ({"joined", "left"} \X Peers)]
    BY <1>6, <2>1, BroadcastTypes DEF SendJoined
  <2> QED BY <1>6, <2>2 DEF SendJoined
<1>7. ASSUME NEW c \in Conns, Leave(c) \/ DisconnectRow(c)
      PROVE  (TypeOK /\ PeerIdSet)'
  BY <1>7 DEF Leave, DisconnectRow, DropRow
<1>8. ASSUME NEW c \in Conns, Disconnect(c)
      PROVE  (TypeOK /\ PeerIdSet)'
  <2>1. << >> \in Seq(Event)
    OBVIOUS
  <2> QED BY <1>8, <2>1 DEF Disconnect, StopReading
<1>9. ASSUME NEW c \in Conns, SendLeft(c)
      PROVE  (TypeOK /\ PeerIdSet)'
  <2>1. [type |-> "left", peer |-> peerId[c], sender |-> c] \in Event
    BY <1>9 DEF SendLeft, Event
  <2>2. /\ queue' \in [Conns -> Seq(Event)]
        /\ lost' \in [Conns -> SUBSET ({"joined", "left"} \X Peers)]
    BY <1>9, <2>1, BroadcastTypes DEF SendLeft
  <2> QED BY <1>9, <2>2 DEF SendLeft
<1>10. ASSUME NEW c \in Conns, HandleEvent(c)
       PROVE  (TypeOK /\ PeerIdSet)'
  <2>1. Tail(queue[c]) \in Seq(Event) /\ Head(queue[c]) \in Event
    BY <1>10, HeadAndTail DEF HandleEvent
  <2>2. queue' \in [Conns -> Seq(Event)]
    BY <1>10, <2>1 DEF HandleEvent
  <2>3. Head(queue[c]).peer \in Peers
    BY <2>1 DEF Event
  <2>4. /\ view' = [view EXCEPT ![c] = view'[c]]
        /\ view'[c] \in {view[c], view[c] \cup {Head(queue[c]).peer},
                         view[c] \ {Head(queue[c]).peer}}
    BY <1>10, <2>1 DEF HandleEvent, Event
  <2>5. view[c] \in SUBSET Peers
    OBVIOUS
  <2>6. view'[c] \in SUBSET Peers
    BY <2>3, <2>4, <2>5
  <2>7. view' \in [Conns -> SUBSET Peers]
    BY <2>4, <2>6
  <2> QED BY <1>10, <2>2, <2>7 DEF HandleEvent
<1>11. ASSUME NEW c \in Conns, Expire(c)
       PROVE  (TypeOK /\ PeerIdSet)'
  <2>1. Tail(queue[c]) \in Seq(Event) /\ Head(queue[c]) \in Event
    BY <1>11, HeadAndTail DEF Expire
  <2>2. queue' \in [Conns -> Seq(Event)]
    BY <1>11, <2>1 DEF Expire
  <2>3. lost' \in [Conns -> SUBSET ({"joined", "left"} \X Peers)]
    BY <1>11, <2>1 DEF Expire, Event
  <2> QED BY <1>11, <2>2, <2>3 DEF Expire
<1>12. ASSUME NEW c \in Conns, Crash(c)
       PROVE  (TypeOK /\ PeerIdSet)'
  <2>1. << >> \in Seq(Event)
    OBVIOUS
  <2> QED BY <1>12, <2>1 DEF Crash, StopReading
<1>13. ASSUME NEW p \in Peers, RestJoinCheck(p) \/ RestJoinWrite(p)
       PROVE  (TypeOK /\ PeerIdSet)'
  BY <1>13 DEF RestJoinCheck, RestJoinWrite
<1>14. CASE UNCHANGED vars
  BY <1>14 DEF vars
<1> QED
  BY <1>1, <1>3, <1>4, <1>5, <1>6, <1>7, <1>8, <1>9, <1>10, <1>11, <1>12, <1>13, <1>14
  DEF Next, Frame, Proceed

\* TypeCorrect: every variable keeps its type, and no handler broadcasts
\* without a peer id: handle_join and handle_leave return early without one,
\* disconnect skips the row and the broadcast.
THEOREM TypeCorrect == Spec => [](TypeOK /\ PeerIdSet)
<1>1. TypeOK /\ PeerIdSet /\ [Next]_vars => (TypeOK /\ PeerIdSet)'
  BY TypeStep
<1> QED BY <1>1, TypeInit, PTL DEF Spec

-----------------------------------------------------------------------------
(* Presence, for clients with distinct peer ids.                           *)

LEMMA BookkeepingInit == Init => Bookkeeping
BY DEF Init, Bookkeeping, Live

\* A broadcast of an event about the sender's own id keeps the channels in order.
LEMMA BroadcastBookkeeping ==
    ASSUME TypeOK, Bookkeeping, NEW e \in Event, e.peer \in MayUse[e.sender], Broadcast(e),
           NEW c \in Conns
    PROVE  /\ \A i \in DOMAIN queue'[c] : queue'[c][i].peer \in MayUse[queue'[c][i].sender]
           /\ ~Live(c) => queue'[c] = queue[c]
<1>1. queue[c] \in Seq(Event)
  BY DEF TypeOK
<1>2. queue'[c] = IF c \in group /\ ~Full(c) THEN Append(queue[c], e) ELSE queue[c]
  BY DEF Broadcast
<1>3. \A i \in DOMAIN Append(queue[c], e) :
         Append(queue[c], e)[i] = e \/ (i \in DOMAIN queue[c] /\ Append(queue[c], e)[i] = queue[c][i])
  BY <1>1
<1>4. \A i \in DOMAIN queue[c] : queue[c][i].peer \in MayUse[queue[c][i].sender]
  BY DEF Bookkeeping
<1>5. ~Live(c) => c \notin group
  BY DEF Bookkeeping
<1>6. \A i \in DOMAIN Append(queue[c], e) :
         Append(queue[c], e)[i].peer \in MayUse[Append(queue[c], e)[i].sender]
  BY <1>3, <1>4
<1>7. CASE c \in group /\ ~Full(c)
  BY <1>2, <1>5, <1>6, <1>7
<1>8. CASE ~(c \in group /\ ~Full(c))
  BY <1>2, <1>4, <1>8
<1> QED BY <1>7, <1>8

LEMMA TailBookkeeping ==
    ASSUME TypeOK, Bookkeeping, NEW c \in Conns, queue[c] # << >>
    PROVE  /\ \A i \in DOMAIN Tail(queue[c]) :
                 Tail(queue[c])[i].peer \in MayUse[Tail(queue[c])[i].sender]
           /\ Head(queue[c]).peer \in MayUse[Head(queue[c]).sender]
<1>1. queue[c] \in Seq(Event)
  BY DEF TypeOK
<1>2. \A i \in DOMAIN Tail(queue[c]) :
         i + 1 \in DOMAIN queue[c] /\ Tail(queue[c])[i] = queue[c][i + 1]
  BY <1>1
<1>3. 1 \in DOMAIN queue[c] /\ Head(queue[c]) = queue[c][1]
  BY <1>1
<1> QED BY <1>2, <1>3 DEF Bookkeeping

LEMMA BookkeepingStep ==
    ASSUME ConstantsAssumption, DistinctPeers, TypeOK, PeerIdSet, Bookkeeping, [Next]_vars
    PROVE  Bookkeeping'
<1>a. ASSUME NEW c \in Conns, SendJoined(c) \/ SendLeft(c), NEW x \in Conns
      PROVE  /\ \A i \in DOMAIN queue'[x] : queue'[x][i].peer \in MayUse[queue'[x][i].sender]
             /\ ~Live(x) => queue'[x] = queue[x]
  <2>1. peerId[c] \in Peers /\ peerId[c] \in MayUse[c]
    BY <1>a, ConstantsAssumption DEF SendJoined, SendLeft, PeerIdSet, Bookkeeping
  <2>2. \A k \in {"joined", "left"} :
           LET e == [type |-> k, peer |-> peerId[c], sender |-> c]
           IN  e \in Event /\ e.peer \in MayUse[e.sender]
    BY <2>1 DEF Event
  <2>3. PICK k \in {"joined", "left"} : Broadcast([type |-> k, peer |-> peerId[c], sender |-> c])
    BY <1>a DEF SendJoined, SendLeft
  <2> QED BY <2>2, <2>3, BroadcastBookkeeping
<1> USE ConstantsAssumption
    DEF TypeOK, PeerIdSet, Bookkeeping, Live, dbVars, connVars, history, channelVars
<1>1. ASSUME NEW c \in Conns, Connect(c)
      PROVE  Bookkeeping'
  BY <1>1 DEF Connect
<1>2. ASSUME NEW c \in Conns, NEW p \in Peers, SetPeerId(c, p),
             online' = online \/ online' = online \cup {p}
      PROVE  Bookkeeping'
  BY <1>2, ConstantsAssumption DEF SetPeerId, DistinctPeers
<1>3. ASSUME NEW c \in Conns, NEW p \in Peers, Authenticate(c, p) \/ AuthenticateFails(c, p)
      PROVE  Bookkeeping'
  BY <1>2, <1>3 DEF Authenticate, AuthenticateFails
<1>4. ASSUME NEW c \in Conns, Join(c)
      PROVE  Bookkeeping'
  <2>1. \A p \in MayUse[c] : p = peerId[c]
    BY <1>4 DEF Join, DistinctPeers
  <2>2. view'[c] \cap MayUse[c] = {}
    BY <1>4, <2>1 DEF Join
  <2> QED BY <1>4, <2>2 DEF Join
<1>5. ASSUME NEW c \in Conns, JoinListFails(c)
      PROVE  Bookkeeping'
  BY <1>5 DEF JoinListFails
<1>6. ASSUME NEW c \in Conns, SendJoined(c)
      PROVE  Bookkeeping'
  <2>1. group' = {d \in Conns : Live(d)'}
    BY <1>6 DEF SendJoined
  <2>2. ASSUME NEW d \in Conns
        PROVE  /\ peerId'[d] \in MayUse[d] \cup {NoPeer}
               /\ pc'[d] = "closed" => peerId'[d] = NoPeer
               /\ announced'[d] # "none" => peerId'[d] # NoPeer
               /\ announced'[d] = "authenticated" => peerId'[d] \in online'
               /\ view'[d] \cap MayUse[d] = {}
    BY <1>6, <2>2 DEF SendJoined
  <2>3. ASSUME NEW d \in Conns, ~Live(d)'
        PROVE  queue'[d] = << >> /\ view'[d] = {} /\ ~listed'[d]
    <3>1. ~Live(d)
      BY <1>6, <2>3 DEF SendJoined
    <3>2. queue'[d] = << >>
      BY <1>6, <1>a, <2>3, <3>1
    <3>3. view'[d] = {} /\ ~listed'[d]
      BY <1>6, <2>3, <3>1 DEF SendJoined
    <3> QED BY <3>2, <3>3
  <2> QED BY <1>6, <1>a, <2>1, <2>2, <2>3
<1>7. ASSUME NEW c \in Conns, Leave(c) \/ DisconnectRow(c)
      PROVE  Bookkeeping'
  <2>1. \A d \in Conns : d # c /\ peerId[d] # NoPeer => peerId[d] # peerId[c]
    BY DEF DistinctPeers
  <2>2. \A d \in Conns : announced'[d] = "authenticated" => peerId[d] \in online'
    <3> SUFFICES ASSUME NEW d \in Conns, announced'[d] = "authenticated"
                 PROVE  peerId[d] \in online'
      OBVIOUS
    <3>1. d # c /\ announced[d] = "authenticated"
      BY <1>7 DEF Leave, DisconnectRow, DropRow
    <3>2. peerId[d] \in online /\ peerId[d] # peerId[c]
      BY <2>1, <3>1
    <3> QED BY <1>7, <3>2 DEF Leave, DisconnectRow, DropRow
  <2>3. \A d \in Conns : announced'[d] # "none" => announced[d] # "none"
    BY <1>7 DEF Leave, DisconnectRow, DropRow
  <2> QED BY <1>7, <2>2, <2>3 DEF Leave, DisconnectRow
<1>8. ASSUME NEW c \in Conns, Disconnect(c)
      PROVE  Bookkeeping'
  BY <1>8 DEF Disconnect, StopReading
<1>9. ASSUME NEW c \in Conns, SendLeft(c)
      PROVE  Bookkeeping'
  <2>1. group' = {d \in Conns : Live(d)'}
    BY <1>9 DEF SendLeft
  <2>2. ASSUME NEW d \in Conns
        PROVE  /\ peerId'[d] \in MayUse[d] \cup {NoPeer}
               /\ pc'[d] = "closed" => peerId'[d] = NoPeer
               /\ announced'[d] # "none" => peerId'[d] # NoPeer
               /\ announced'[d] = "authenticated" => peerId'[d] \in online'
               /\ view'[d] \cap MayUse[d] = {}
    BY <1>9, <2>2 DEF SendLeft
  <2>3. ASSUME NEW d \in Conns, ~Live(d)'
        PROVE  queue'[d] = << >> /\ view'[d] = {} /\ ~listed'[d]
    <3>1. ~Live(d)
      BY <1>9, <2>3 DEF SendLeft
    <3>2. queue'[d] = << >>
      BY <1>9, <1>a, <2>3, <3>1
    <3>3. view'[d] = {} /\ ~listed'[d]
      BY <1>9, <2>3, <3>1 DEF SendLeft
    <3> QED BY <3>2, <3>3
  <2> QED BY <1>9, <1>a, <2>1, <2>2, <2>3
<1>10. ASSUME NEW c \in Conns, HandleEvent(c)
       PROVE  Bookkeeping'
  <2> DEFINE h == Head(queue[c])
  <2>1. /\ \A i \in DOMAIN queue'[c] : queue'[c][i].peer \in MayUse[queue'[c][i].sender]
        /\ h.peer \in MayUse[h.sender]
        /\ h \in Event
    BY <1>10, TailBookkeeping, HeadAndTail DEF HandleEvent
  <2>2. h.sender # c => h.peer \notin MayUse[c]
    BY <2>1 DEF Event, DistinctPeers
  <2>3. view'[c] \in {view[c], view[c] \cup {h.peer}, view[c] \ {h.peer}}
        /\ (h.sender = c => view'[c] = view[c])
    BY <1>10, <2>1 DEF HandleEvent, Event
  <2>4. view'[c] \cap MayUse[c] = {}
    BY <2>2, <2>3
  <2>5. \A d \in Conns : d # c => view'[d] = view[d] /\ queue'[d] = queue[d]
    BY <1>10 DEF HandleEvent
  <2>6. \A d \in Conns : /\ view'[d] \cap MayUse[d] = {}
                         /\ \A i \in DOMAIN queue'[d] :
                               queue'[d][i].peer \in MayUse[queue'[d][i].sender]
    BY <2>1, <2>4, <2>5
  <2>7. \A d \in Conns : ~Live(d) => d # c
    BY <1>10 DEF HandleEvent
  <2> HIDE DEF h
  <2>8. UNCHANGED <<pc, peerId, group, listed, announced, online>>
    BY <1>10 DEF HandleEvent
  <2>9. ASSUME NEW d \in Conns, ~Live(d)
        PROVE  queue'[d] = << >> /\ view'[d] = {} /\ ~listed'[d]
    BY <2>5, <2>7, <2>8, <2>9
  <2> QED BY <2>6, <2>8, <2>9
<1>11. ASSUME NEW c \in Conns, Expire(c)
       PROVE  Bookkeeping'
  <2>1. \A i \in DOMAIN queue'[c] : queue'[c][i].peer \in MayUse[queue'[c][i].sender]
    BY <1>11, TailBookkeeping DEF Expire
  <2>2. \A d \in Conns : d # c => queue'[d] = queue[d]
    BY <1>11 DEF Expire
  <2> QED BY <1>11, <2>1, <2>2 DEF Expire
<1>12. ASSUME NEW c \in Conns, Crash(c)
       PROVE  Bookkeeping'
  BY <1>12 DEF Crash, StopReading
<1>13. ASSUME NEW p \in Peers, RestJoinCheck(p) \/ RestJoinWrite(p)
       PROVE  Bookkeeping'
  BY <1>13 DEF RestJoinCheck, RestJoinWrite
<1>14. CASE UNCHANGED vars
  BY <1>14 DEF vars
<1> QED
  BY <1>1, <1>3, <1>4, <1>5, <1>6, <1>7, <1>8, <1>9, <1>10, <1>11, <1>12, <1>13, <1>14
  DEF Next, Frame, Proceed

\* What a broadcast of e does to what client c will learn of p, and to what of
\* it is lost.
LEMMA BroadcastEffect ==
    ASSUME TypeOK, NEW e \in Event, Broadcast(e), NEW c \in Conns, NEW p
    PROVE  /\ ~About(e, c, "joined", p) /\ ~About(e, c, "left", p)
              => /\ Waiting(queue'[c], c, "left", p) <=> Waiting(queue[c], c, "left", p)
                 /\ JoinedLast(queue'[c], c, p) <=> JoinedLast(queue[c], c, p)
           /\ About(e, c, "joined", p) /\ c \in group
              => JoinedLast(queue'[c], c, p) \/ <<"joined", p>> \in lost'[c]
           /\ About(e, c, "left", p) /\ c \in group
              => \/ <<"left", p>> \in lost'[c]
                 \/ Waiting(queue'[c], c, "left", p) /\ ~JoinedLast(queue'[c], c, p)
           /\ \A k : ~About(e, c, k, p) => (<<k, p>> \in lost'[c] <=> <<k, p>> \in lost[c])
<1>1. queue[c] \in Seq(Event)
  BY DEF TypeOK
<1>2. queue'[c] = IF c \in group /\ ~Full(c) THEN Append(queue[c], e) ELSE queue[c]
  BY DEF Broadcast
<1>3. /\ c \notin group \ {e.sender} => lost'[c] = lost[c]
      /\ c \in group \ {e.sender} /\ Full(c) => lost'[c] = lost[c] \cup {<<e.type, e.peer>>}
      /\ c \in group \ {e.sender} /\ ~Full(c) => lost'[c] = lost[c] \ {<<e.type, e.peer>>}
  BY DEF Broadcast
<1>4. ASSUME ~About(e, c, "joined", p), ~About(e, c, "left", p)
      PROVE  /\ Waiting(queue'[c], c, "left", p) <=> Waiting(queue[c], c, "left", p)
             /\ JoinedLast(queue'[c], c, p) <=> JoinedLast(queue[c], c, p)
  BY <1>1, <1>2, <1>4, AppendUnrelated
<1>5. ASSUME About(e, c, "joined", p), c \in group
      PROVE  JoinedLast(queue'[c], c, p) \/ <<"joined", p>> \in lost'[c]
  <2>1. CASE Full(c)
    BY <1>3, <1>5, <2>1 DEF About
  <2>2. CASE ~Full(c)
    BY <1>1, <1>2, <1>5, <2>2, AppendJoined
  <2> QED BY <2>1, <2>2
<1>6. ASSUME About(e, c, "left", p), c \in group
      PROVE  \/ <<"left", p>> \in lost'[c]
             \/ Waiting(queue'[c], c, "left", p) /\ ~JoinedLast(queue'[c], c, p)
  <2>1. CASE Full(c)
    BY <1>3, <1>6, <2>1 DEF About
  <2>2. CASE ~Full(c)
    BY <1>1, <1>2, <1>6, <2>2, AppendLeft
  <2> QED BY <2>1, <2>2
<1>7. ASSUME NEW k, ~About(e, c, k, p)
      PROVE  <<k, p>> \in lost'[c] <=> <<k, p>> \in lost[c]
  <2>1. e.sender # c => <<k, p>> # <<e.type, e.peer>>
    BY <1>7 DEF About
  <2> QED BY <1>3, <2>1
<1> QED BY <1>4, <1>5, <1>6, <1>7

-----------------------------------------------------------------------------
(* Discovery.                                                              *)

\* What DiscoveryInv says of one observer c and one peer d.
DiscoveryAt(c, d) ==
    /\ Live(c)
    /\ announced[d] = "authenticated"
    /\ <<"joined", peerId[d]>> \notin lost[c]
    => \/ JoinedLast(queue[c], c, peerId[d])
       \/ /\ ~Waiting(queue[c], c, "left", peerId[d])
          /\ listed[c] => peerId[d] \in view[c]

LEMMA DiscoveryStep ==
    ASSUME ConstantsAssumption, DistinctPeers, TypeOK, PeerIdSet, Bookkeeping, Bookkeeping',
           DiscoveryInv, [Next]_vars
    PROVE  DiscoveryInv'
<1> SUFFICES ASSUME NEW c \in Conns, NEW d \in Conns, c # d,
                    Live(c)', announced'[d] = "authenticated",
                    <<"joined", peerId'[d]>> \notin lost'[c]
             PROVE  DiscoveryAt(c, d)'
  BY DEF DiscoveryInv, DiscoveryAt
<1>a. DiscoveryAt(c, d)
  BY DEF DiscoveryInv, DiscoveryAt
<1>b. peerId'[d] \in Peers /\ peerId'[d] \in MayUse[d]
  BY ConstantsAssumption DEF Bookkeeping
<1>c. /\ peerId[c] # peerId'[d]
      /\ peerId[d] \in Peers => peerId[d] = peerId'[d]
  BY <1>b, ConstantsAssumption DEF Bookkeeping, DistinctPeers
<1>d. \A e \in Conns \ {d} : peerId[e] # peerId'[d]
  BY <1>b, ConstantsAssumption DEF Bookkeeping, DistinctPeers
\* Steps that change nothing the observer and the peer depend on.
<1>e. ASSUME Live(c), announced[d] = "authenticated", peerId'[d] = peerId[d],
             lost'[c] = lost[c], queue'[c] = queue[c], view'[c] = view[c],
             listed'[c] = listed[c]
      PROVE  DiscoveryAt(c, d)'
  BY <1>a, <1>e DEF DiscoveryAt
<1>1. ASSUME NEW x \in Conns, Connect(x)
      PROVE  DiscoveryAt(c, d)'
  <2>1. CASE x = c
    <3>1. queue'[c] = << >> /\ ~listed'[c]
      BY <1>1, <2>1 DEF Connect, Bookkeeping, Live, connVars, channelVars
    <3>2. ~Waiting(queue'[c], c, "left", peerId'[d])
      BY <3>1 DEF Waiting
    <3> QED BY <3>1, <3>2 DEF DiscoveryAt
  <2>2. CASE x # c
    BY <1>1, <2>2, <1>e DEF Connect, Live, TypeOK, history, channelVars
  <2> QED BY <2>1, <2>2
<1>2. ASSUME NEW x \in Conns, NEW p \in Peers, SetPeerId(x, p)
      PROVE  DiscoveryAt(c, d)'
  <2>1. announced[d] = "authenticated" /\ peerId'[d] = peerId[d]
    BY <1>2 DEF SetPeerId, TypeOK
  <2> QED BY <1>2, <2>1, <1>e DEF SetPeerId, Live, channelVars
<1>3. ASSUME NEW x \in Conns, Join(x)
      PROVE  DiscoveryAt(c, d)'
  <2>0. announced[d] = "authenticated" /\ peerId'[d] = peerId[d]
    BY <1>3 DEF Join
  <2>1. CASE x = c
    <3>1. peerId[d] \in online
      BY <2>0 DEF Bookkeeping
    <3>2. peerId[d] \in view'[c]
      BY <1>3, <2>0, <2>1, <3>1, <1>c DEF Join, TypeOK
    <3>3. queue'[c] = queue[c] /\ Live(c)
      BY <1>3, <2>1 DEF Join, Live
    <3>4. CASE ~Waiting(queue[c], c, "left", peerId[d])
      BY <2>0, <3>2, <3>3, <3>4 DEF DiscoveryAt
    <3>5. CASE Waiting(queue[c], c, "left", peerId[d])
      <4>1. lost'[c] = {l \in lost[c] : l[1] = "joined" => Waiting(queue[c], c, "left", l[2])}
        BY <1>3, <2>1 DEF Join, TypeOK
      <4>2. <<"joined", peerId[d]>> \notin lost[c]
        BY <2>0, <3>5, <4>1
      <4>3. JoinedLast(queue[c], c, peerId[d])
        BY <1>a, <2>0, <3>3, <3>5, <4>2 DEF DiscoveryAt
      <4> QED BY <2>0, <3>3, <4>3 DEF DiscoveryAt
    <3> QED BY <3>4, <3>5
  <2>2. CASE x # c
    BY <1>3, <2>0, <2>2, <1>e DEF Join, Live, TypeOK
  <2> QED BY <2>1, <2>2
<1>4. ASSUME NEW x \in Conns, JoinListFails(x)
      PROVE  DiscoveryAt(c, d)'
  BY <1>4, <1>e DEF JoinListFails, Live, TypeOK, channelVars
<1>5. ASSUME NEW x \in Conns, SendJoined(x)
      PROVE  DiscoveryAt(c, d)'
  <2> DEFINE e == [type |-> "joined", peer |-> peerId[x], sender |-> x]
  <2>1. e \in Event /\ Broadcast(e)
    BY <1>5 DEF SendJoined, Event, PeerIdSet
  <2>2. peerId' = peerId /\ view' = view /\ listed' = listed /\ Live(c)
    BY <1>5 DEF SendJoined, Live
  <2>3. CASE x = d
    <3>1. About(e, c, "joined", peerId'[d]) /\ c \in group
      BY <2>2, <2>3 DEF About, Bookkeeping
    <3>2. JoinedLast(queue'[c], c, peerId'[d])
      BY <2>1, <3>1, BroadcastEffect
    <3> QED BY <3>2 DEF DiscoveryAt
  <2>4. CASE x # d
    <3>1. ~About(e, c, "joined", peerId'[d]) /\ ~About(e, c, "left", peerId'[d])
      BY <2>4, <1>d DEF About
    <3>2. /\ Waiting(queue'[c], c, "left", peerId'[d]) <=> Waiting(queue[c], c, "left", peerId'[d])
          /\ JoinedLast(queue'[c], c, peerId'[d]) <=> JoinedLast(queue[c], c, peerId'[d])
          /\ <<"joined", peerId'[d]>> \notin lost[c]
      BY <2>1, <3>1, BroadcastEffect
    <3>3. announced[d] = "authenticated"
      BY <1>5, <2>4 DEF SendJoined, TypeOK
    <3> QED BY <1>a, <2>2, <3>2, <3>3 DEF DiscoveryAt
  <2> QED BY <2>3, <2>4
<1>6. ASSUME NEW x \in Conns, Leave(x) \/ DisconnectRow(x)
      PROVE  DiscoveryAt(c, d)'
  <2>1. announced[d] = "authenticated" /\ peerId'[d] = peerId[d]
    BY <1>6 DEF Leave, DisconnectRow, DropRow, TypeOK
  <2>2. Live(c)
    BY <1>6 DEF Leave, DisconnectRow, Live, TypeOK
  <2> QED BY <1>6, <2>1, <2>2, <1>e DEF Leave, DisconnectRow, channelVars
<1>7. ASSUME NEW x \in Conns, Disconnect(x)
      PROVE  DiscoveryAt(c, d)'
  <2>1. x # c
    BY <1>7 DEF Disconnect, Live, TypeOK
  <2> QED BY <1>7, <2>1, <1>e DEF Disconnect, StopReading, Live, TypeOK, history
<1>8. ASSUME NEW x \in Conns, SendLeft(x)
      PROVE  DiscoveryAt(c, d)'
  <2> DEFINE e == [type |-> "left", peer |-> peerId[x], sender |-> x]
  <2>1. e \in Event /\ Broadcast(e)
    BY <1>8 DEF SendLeft, Event, PeerIdSet
  <2>2. x # d /\ announced[d] = "authenticated" /\ peerId'[d] = peerId[d]
    BY <1>8 DEF SendLeft, TypeOK
  <2>3. view' = view /\ listed' = listed /\ Live(c)
    BY <1>8 DEF SendLeft, Live, TypeOK
  <2>4. ~About(e, c, "joined", peerId'[d]) /\ ~About(e, c, "left", peerId'[d])
    BY <2>2, <1>d DEF About
  <2>5. /\ Waiting(queue'[c], c, "left", peerId'[d]) <=> Waiting(queue[c], c, "left", peerId'[d])
        /\ JoinedLast(queue'[c], c, peerId'[d]) <=> JoinedLast(queue[c], c, peerId'[d])
        /\ <<"joined", peerId'[d]>> \notin lost[c]
    BY <2>1, <2>4, BroadcastEffect
  <2> QED BY <1>a, <2>2, <2>3, <2>5 DEF DiscoveryAt
<1>9. ASSUME NEW x \in Conns, HandleEvent(x)
      PROVE  DiscoveryAt(c, d)'
  <2>1. /\ announced[d] = "authenticated" /\ peerId' = peerId /\ listed' = listed
        /\ lost' = lost /\ Live(c)
    BY <1>9 DEF HandleEvent, connVars, history, Live
  <2>2. CASE x = c
    <3> DEFINE h == Head(queue[c])
               p == peerId[d]
    <3>1. queue[c] \in Seq(Event) /\ queue[c] # << >>
      BY <1>9, <2>2 DEF HandleEvent, TypeOK
    <3>2. /\ h \in Event
          /\ Waiting(queue[c], c, "left", p) <=>
                About(h, c, "left", p) \/ Waiting(Tail(queue[c]), c, "left", p)
          /\ JoinedLast(queue[c], c, p) <=>
                \/ About(h, c, "joined", p) /\ ~Waiting(Tail(queue[c]), c, "left", p)
                \/ JoinedLast(Tail(queue[c]), c, p)
      BY <3>1, HeadAndTail
    <3>3. queue'[c] = Tail(queue[c])
      BY <1>9, <2>2 DEF HandleEvent, TypeOK
    <3>4. /\ About(h, c, "joined", p) => p \in view'[c]
          /\ ~About(h, c, "left", p) /\ p \in view[c] => p \in view'[c]
      BY <1>9, <2>2, <3>2 DEF HandleEvent, TypeOK, About, Event
    <3> HIDE DEF h, p
    <3>5. JoinedLast(queue[c], c, p) \/ (~Waiting(queue[c], c, "left", p) /\ (listed[c] => p \in view[c]))
      BY <1>a, <2>1 DEF DiscoveryAt, p
    <3>6. JoinedLast(queue'[c], c, p) \/ (~Waiting(queue'[c], c, "left", p) /\ (listed[c] => p \in view'[c]))
      BY <3>2, <3>3, <3>4, <3>5
    <3> QED BY <2>1, <3>6 DEF DiscoveryAt, p
  <2>3. CASE x # c
    BY <1>9, <2>1, <2>3, <1>e DEF HandleEvent, TypeOK
  <2> QED BY <2>2, <2>3
<1>10. ASSUME NEW x \in Conns, Expire(x)
       PROVE  DiscoveryAt(c, d)'
  <2>1. /\ announced[d] = "authenticated" /\ peerId' = peerId /\ listed' = listed
        /\ view' = view /\ Live(c)
    BY <1>10 DEF Expire, Live
  <2>2. CASE x = c
    <3> DEFINE h == Head(queue[c])
               p == peerId[d]
    <3>1. queue[c] \in Seq(Event) /\ queue[c] # << >>
      BY <1>10, <2>2 DEF Expire, TypeOK
    <3>2. /\ h \in Event
          /\ Waiting(queue[c], c, "left", p) <=>
                About(h, c, "left", p) \/ Waiting(Tail(queue[c]), c, "left", p)
          /\ JoinedLast(queue[c], c, p) <=>
                \/ About(h, c, "joined", p) /\ ~Waiting(Tail(queue[c]), c, "left", p)
                \/ JoinedLast(Tail(queue[c]), c, p)
      BY <3>1, HeadAndTail
    <3>3. queue'[c] = Tail(queue[c])
      BY <1>10, <2>2 DEF Expire, TypeOK
    <3>4. lost'[c] = IF h.sender = c THEN lost[c] ELSE lost[c] \cup {<<h.type, h.peer>>}
      BY <1>10, <2>2 DEF Expire, TypeOK
    <3>5. ~About(h, c, "joined", p) /\ <<"joined", p>> \notin lost[c]
      BY <2>1, <3>4 DEF About
    <3> HIDE DEF h, p
    <3>6. JoinedLast(queue[c], c, p) \/ (~Waiting(queue[c], c, "left", p) /\ (listed[c] => p \in view[c]))
      BY <1>a, <2>1, <3>5 DEF DiscoveryAt, p
    <3>7. JoinedLast(queue'[c], c, p) \/ (~Waiting(queue'[c], c, "left", p) /\ (listed[c] => p \in view'[c]))
      BY <2>1, <3>2, <3>3, <3>5, <3>6
    <3> QED BY <2>1, <3>7 DEF DiscoveryAt, p
  <2>3. CASE x # c
    BY <1>10, <2>1, <2>3, <1>e DEF Expire, TypeOK
  <2> QED BY <2>2, <2>3
<1>11. ASSUME NEW x \in Conns, Crash(x)
       PROVE  DiscoveryAt(c, d)'
  <2>1. x # c /\ x # d
    BY <1>11 DEF Crash, Live, TypeOK
  <2> QED BY <1>11, <2>1, <1>e DEF Crash, StopReading, Live, TypeOK
<1>12. ASSUME NEW p \in Peers, RestJoinCheck(p) \/ RestJoinWrite(p)
       PROVE  DiscoveryAt(c, d)'
  BY <1>12, <1>e DEF RestJoinCheck, RestJoinWrite, connVars, history, channelVars, Live
<1>13. CASE UNCHANGED vars
  BY <1>13, <1>e DEF vars, Live
<1> QED
  BY <1>1, <1>2, <1>3, <1>4, <1>5, <1>6, <1>7, <1>8, <1>9, <1>10, <1>11, <1>12, <1>13
  DEF Next, Frame, Proceed, Authenticate, AuthenticateFails

-----------------------------------------------------------------------------
(* No stale peers.                                                         *)

LEMMA NoStaleStep ==
    ASSUME ConstantsAssumption, DistinctPeers, TypeOK, TypeOK', PeerIdSet,
           Bookkeeping, Bookkeeping', NoStalePeer, [Next]_vars
    PROVE  NoStalePeer'
<1> SUFFICES ASSUME NEW c \in Conns, NEW p \in Peers,
                    Live(c)', Departed(p)', <<"left", p>> \notin lost'[c]
             PROVE  ~WillSee(c, p)'
  BY DEF NoStalePeer
<1>a. CASE p \in MayUse[c]
  <2>1. p \notin view'[c]
    BY <1>a DEF Bookkeeping
  <2>2. ASSUME NEW i \in DOMAIN queue'[c], About(queue'[c][i], c, "joined", p)
        PROVE  FALSE
    <3>1. queue'[c][i] \in Event
      BY DEF TypeOK
    <3>2. p \in MayUse[queue'[c][i].sender] /\ queue'[c][i].sender \in Conns \ {c}
      BY <2>2, <3>1 DEF Bookkeeping, About, Event
    <3> QED BY <1>a, <3>2 DEF DistinctPeers
  <2> QED BY <2>1, <2>2 DEF WillSee, JoinedLast
<1>b. CASE p \notin MayUse[c]
  \* Steps that change nothing the observer depends on.
  <2>e. ASSUME Live(c), Departed(p), lost'[c] = lost[c], queue'[c] = queue[c],
               view'[c] = view[c]
        PROVE  ~WillSee(c, p)'
    BY <2>e DEF NoStalePeer, WillSee
  \* A step that takes no peer away departs no peer.
  <2>f. ASSUME Departed(p) <=> Departed(p)', Live(c),
               <<"left", p>> \in lost[c] => <<"left", p>> \in lost'[c],
               WillSee(c, p)' => WillSee(c, p)
        PROVE  ~WillSee(c, p)'
    BY <2>f DEF NoStalePeer
  <2>g. p # NoPeer
    BY ConstantsAssumption
  <2>1. ASSUME NEW x \in Conns, Connect(x)
        PROVE  ~WillSee(c, p)'
    <3>1. CASE x = c
      <4>1. queue'[c] = << >> /\ p \notin view'[c]
        BY <2>1, <3>1 DEF Connect, Bookkeeping, Live, channelVars
      <4> QED BY <4>1 DEF WillSee, JoinedLast
    <3>2. CASE x # c
      <4>1. Departed(p)
        BY <2>1 DEF Connect, Departed, Leaving, Stands, TypeOK, dbVars, history
      <4> QED BY <2>1, <3>2, <4>1, <2>e DEF Connect, Live, TypeOK, channelVars
    <3> QED BY <3>1, <3>2
  <2>2. ASSUME NEW x \in Conns, NEW q \in Peers, SetPeerId(x, q),
               online' = online \/ online' = online \cup {q}
        PROVE  ~WillSee(c, p)'
    <3>1. ~Leaving(p)
      BY <2>2 DEF SetPeerId, Departed, Leaving, TypeOK
    <3>2. ASSUME NEW d \in Conns, announced[d] # "none", peerId[d] = p
          PROVE  FALSE
      <4>1. d = x => q = p
        BY <2>2, <3>2, <2>g, ConstantsAssumption DEF SetPeerId, Bookkeeping, DistinctPeers
      <4>2. announced'[d] # "none" /\ peerId'[d] = p
        BY <2>2, <3>2, <4>1 DEF SetPeerId, TypeOK
      <4> QED BY <4>2 DEF Departed, Stands
    <3>3. Departed(p)
      BY <2>2, <3>1, <3>2 DEF SetPeerId, Departed, Stands
    <3> QED BY <2>2, <3>3, <2>e DEF SetPeerId, Live, channelVars
  <2>3. ASSUME NEW x \in Conns, Join(x)
        PROVE  ~WillSee(c, p)'
    <3>1. Departed(p) <=> Departed(p)'
      BY <2>3 DEF Join, Departed, Leaving, Stands, TypeOK, dbVars
    <3>2. p \notin online
      BY <3>1 DEF Departed
    <3>3. /\ p \in view'[c] <=> p \in view[c]
          /\ queue' = queue
          /\ Live(c)
      BY <2>3, <3>2 DEF Join, Live, TypeOK
    <3>4. <<"left", p>> \in lost[c] => <<"left", p>> \in lost'[c]
      BY <2>3 DEF Join, TypeOK
    <3> QED BY <3>1, <3>3, <3>4, <2>f DEF WillSee
  <2>4. ASSUME NEW x \in Conns, JoinListFails(x)
        PROVE  ~WillSee(c, p)'
    <3>1. Departed(p)
      BY <2>4 DEF JoinListFails, Departed, Leaving, Stands, TypeOK, dbVars
    <3> QED BY <2>4, <3>1, <2>e DEF JoinListFails, Live, TypeOK, channelVars
  <2>5. ASSUME NEW x \in Conns, SendJoined(x)
        PROVE  ~WillSee(c, p)'
    <3> DEFINE e == [type |-> "joined", peer |-> peerId[x], sender |-> x]
    <3>1. e \in Event /\ Broadcast(e)
      BY <2>5 DEF SendJoined, Event, PeerIdSet
    <3>2. peerId[x] # p
      BY <2>5 DEF SendJoined, Departed, Stands, TypeOK
    <3>3. /\ Waiting(queue'[c], c, "left", p) <=> Waiting(queue[c], c, "left", p)
          /\ JoinedLast(queue'[c], c, p) <=> JoinedLast(queue[c], c, p)
          /\ <<"left", p>> \in lost'[c] <=> <<"left", p>> \in lost[c]
      BY <3>1, <3>2, BroadcastEffect DEF About
    <3>4. Departed(p) <=> Departed(p)'
      BY <2>5, <3>2 DEF SendJoined, Departed, Leaving, Stands, TypeOK, dbVars
    <3>5. Live(c) /\ view' = view
      BY <2>5 DEF SendJoined, Live, TypeOK
    <3> QED BY <3>3, <3>4, <3>5, <2>f DEF WillSee
  <2>6. ASSUME NEW x \in Conns, Leave(x) \/ DisconnectRow(x)
        PROVE  ~WillSee(c, p)'
    <3>1. peerId[x] # p
      BY <2>6 DEF Leave, DisconnectRow, Departed, Leaving, TypeOK
    <3>2. Departed(p)
      BY <2>6, <3>1 DEF Leave, DisconnectRow, DropRow, Departed, Leaving, Stands, TypeOK
    <3> QED BY <2>6, <3>2, <2>e DEF Leave, DisconnectRow, Live, TypeOK, channelVars
  <2>7. ASSUME NEW x \in Conns, Disconnect(x)
        PROVE  ~WillSee(c, p)'
    <3>1. x # c
      BY <2>7 DEF Disconnect, Live, TypeOK
    <3>2. Departed(p)
      BY <2>7 DEF Disconnect, Departed, Leaving, Stands, TypeOK, dbVars, history
    <3> QED BY <2>7, <3>1, <3>2, <2>e DEF Disconnect, StopReading, Live, TypeOK
  <2>8. ASSUME NEW x \in Conns, SendLeft(x)
        PROVE  ~WillSee(c, p)'
    <3> DEFINE e == [type |-> "left", peer |-> peerId[x], sender |-> x]
    <3>1. e \in Event /\ Broadcast(e)
      BY <2>8 DEF SendLeft, Event, PeerIdSet
    <3>2. Live(c) /\ view' = view
      BY <2>8 DEF SendLeft, Live, TypeOK
    <3>3. CASE peerId[x] = p
      <4>1. x # c
        BY <1>b, <2>g, <3>3 DEF Bookkeeping
      <4>2. About(e, c, "left", p) /\ c \in group
        BY <3>2, <3>3, <4>1 DEF About, Bookkeeping
      <4>3. Waiting(queue'[c], c, "left", p) /\ ~JoinedLast(queue'[c], c, p)
        BY <3>1, <4>2, BroadcastEffect
      <4> QED BY <4>3 DEF WillSee
    <3>4. CASE peerId[x] # p
      <4>1. /\ Waiting(queue'[c], c, "left", p) <=> Waiting(queue[c], c, "left", p)
            /\ JoinedLast(queue'[c], c, p) <=> JoinedLast(queue[c], c, p)
            /\ <<"left", p>> \in lost'[c] <=> <<"left", p>> \in lost[c]
        BY <3>1, <3>4, BroadcastEffect DEF About
      <4>2. Departed(p) <=> Departed(p)'
        BY <2>8, <3>4, <2>g DEF SendLeft, Departed, Leaving, Stands, TypeOK, dbVars
      <4> QED BY <3>2, <4>1, <4>2, <2>f DEF WillSee
    <3> QED BY <3>3, <3>4
  <2>9. ASSUME NEW x \in Conns, HandleEvent(x) \/ Expire(x)
        PROVE  ~WillSee(c, p)'
    <3>1. (Departed(p) <=> Departed(p)') /\ Live(c)
      BY <2>9 DEF HandleEvent, Expire, Departed, Leaving, Stands, Live, connVars, dbVars, history
    <3>2. CASE x = c
      <4> DEFINE h == Head(queue[c])
      <4>1. queue[c] \in Seq(Event) /\ queue[c] # << >>
        BY <2>9, <3>2 DEF HandleEvent, Expire, TypeOK
      <4>2. /\ h \in Event
            /\ Waiting(queue[c], c, "left", p) <=>
                  About(h, c, "left", p) \/ Waiting(Tail(queue[c]), c, "left", p)
            /\ JoinedLast(queue[c], c, p) <=>
                  \/ About(h, c, "joined", p) /\ ~Waiting(Tail(queue[c]), c, "left", p)
                  \/ JoinedLast(Tail(queue[c]), c, p)
        BY <4>1, HeadAndTail
      <4>3. queue'[c] = Tail(queue[c])
        BY <2>9, <3>2 DEF HandleEvent, Expire, TypeOK
      <4>4. CASE HandleEvent(c)
        <5>1. p \in view'[c] =>
                 \/ About(h, c, "joined", p)
                 \/ ~About(h, c, "left", p) /\ p \in view[c]
          <6>1. h.type \in {"joined", "left"}
            BY <4>2 DEF Event
          <6>2. view'[c] = CASE h.sender = c -> view[c]
                             [] h.sender # c /\ h.type = "joined" -> view[c] \cup {h.peer}
                             [] h.sender # c /\ h.type = "left" -> view[c] \ {h.peer}
            BY <4>4 DEF HandleEvent, TypeOK
          <6> HIDE DEF h
          <6>3. CASE h.sender = c
            BY <6>2, <6>3 DEF About
          <6>4. CASE h.sender # c /\ h.type = "joined"
            <7>1. view'[c] = view[c] \cup {h.peer}
              BY <6>2, <6>4
            <7>2. h.type # "left"
              BY <6>4
            <7> QED BY <6>4, <7>1, <7>2 DEF About
          <6>5. CASE h.sender # c /\ h.type = "left"
            BY <6>2, <6>5 DEF About
          <6> QED BY <6>1, <6>3, <6>4, <6>5
        <5>2. lost' = lost
          BY <4>4 DEF HandleEvent
        <5> HIDE DEF h
        <5>3. WillSee(c, p)' => WillSee(c, p)
          BY <4>2, <4>3, <5>1 DEF WillSee
        <5> QED BY <3>1, <5>2, <5>3, <2>f
      <4>5. CASE Expire(c)
        <5>1. view' = view
          BY <4>5 DEF Expire
        <5>2. lost'[c] = IF h.sender = c THEN lost[c] ELSE lost[c] \cup {<<h.type, h.peer>>}
          BY <4>5 DEF Expire, TypeOK
        <5>3. ~About(h, c, "left", p) /\ <<"left", p>> \notin lost[c]
          BY <5>2 DEF About
        <5> HIDE DEF h
        <5>4. WillSee(c, p)' => WillSee(c, p)
          BY <4>2, <4>3, <5>1, <5>3 DEF WillSee
        <5> QED BY <3>1, <5>3, <5>4, <2>f
      <4> QED BY <2>9, <3>2, <4>4, <4>5
    <3>3. CASE x # c
      BY <2>9, <3>1, <3>3, <2>e DEF HandleEvent, Expire, TypeOK
    <3> QED BY <3>2, <3>3
  <2>10. ASSUME NEW x \in Conns, Crash(x)
         PROVE  ~WillSee(c, p)'
    <3>1. x # c /\ peerId[x] # p
      BY <2>10, <2>g DEF Crash, Live, Departed, TypeOK
    <3>2. Departed(p)
      BY <2>10, <3>1 DEF Crash, Departed, Leaving, Stands, TypeOK, dbVars
    <3> QED BY <2>10, <3>1, <3>2, <2>e DEF Crash, StopReading, Live, TypeOK
  <2>11. ASSUME NEW q \in Peers, RestJoinCheck(q) \/ RestJoinWrite(q)
         PROVE  ~WillSee(c, p)'
    <3>1. Departed(p)
      BY <2>11 DEF RestJoinCheck, RestJoinWrite, Departed, Leaving, Stands, connVars, history
    <3> QED BY <2>11, <3>1, <2>e DEF RestJoinCheck, RestJoinWrite, Live, connVars, channelVars
  <2>12. CASE UNCHANGED vars
    BY <2>12, <2>e DEF vars, Departed, Leaving, Stands, Live
  <2> QED
    BY <2>1, <2>2, <2>3, <2>4, <2>5, <2>6, <2>7, <2>8, <2>9, <2>10, <2>11, <2>12
    DEF Next, Frame, Proceed, Authenticate, AuthenticateFails
<1> QED BY <1>a, <1>b

LEMMA PresenceInit == Init => PresenceInv
<1>1. ASSUME Init PROVE DiscoveryInv /\ NoStalePeer
  BY <1>1 DEF Init, DiscoveryInv, NoStalePeer, Live
<1> QED BY <1>1, BookkeepingInit DEF PresenceInv

LEMMA DiscoveryFromInv == DiscoveryInv => Discovery
BY DEF DiscoveryInv, Discovery, WillSee

\* PresenceHolds: rows before broadcasts on the way out, group before list on
\* the way in: with distinct peer ids the invariant survives every interleaving,
\* every dropped or expired event, crash and database error.
THEOREM PresenceHolds ==
    ASSUME DistinctPeers
    PROVE  Spec => []PresenceInv
<1>1. TypeOK /\ PeerIdSet /\ PresenceInv /\ [Next]_vars => (TypeOK /\ PeerIdSet /\ PresenceInv)'
  BY ConstantsAssumption, DistinctPeers, TypeStep, BookkeepingStep, DiscoveryStep, NoStaleStep
  DEF PresenceInv
<1> QED BY <1>1, TypeInit, PresenceInit, PTL DEF Spec

\* DiscoveryHolds: a client that has joined learns of every peer that has
\* authenticated and joined, in whichever order they did, unless it was lost.
THEOREM DiscoveryHolds ==
    ASSUME DistinctPeers
    PROVE  Spec => []Discovery
<1>1. PresenceInv => Discovery
  BY DiscoveryFromInv DEF PresenceInv
<1> QED BY <1>1, PresenceHolds, PTL

\* NoStalePeerHolds: no client is left showing a peer of whose departure
\* nothing is still under way.
THEOREM NoStalePeerHolds ==
    ASSUME DistinctPeers
    PROVE  Spec => []NoStalePeer
<1>1. PresenceInv => NoStalePeer
  BY DEF PresenceInv
<1> QED BY <1>1, PresenceHolds, PTL

-----------------------------------------------------------------------------
(* The room without channels.                                              *)

\* The room's group are the consumers that read, and the others hold nothing.
MemberInv ==
    /\ group = {c \in Conns : Live(c)}
    /\ \A c \in Conns : ~Live(c) => queue[c] = << >> /\ view[c] = {} /\ lost[c] = {}

LEMMA MemberInit == Init => MemberInv
BY DEF Init, MemberInv, Live

LEMMA MemberStep ==
    ASSUME TypeOK, MemberInv, [Next]_vars
    PROVE  MemberInv'
<1> USE DEF TypeOK, MemberInv, Live, dbVars, connVars, history, channelVars
<1>1. ASSUME NEW c \in Conns, Connect(c)
      PROVE  MemberInv'
  BY <1>1 DEF Connect
<1>2. ASSUME NEW c \in Conns, NEW p \in Peers, Authenticate(c, p) \/ AuthenticateFails(c, p)
      PROVE  MemberInv'
  BY <1>2 DEF Authenticate, AuthenticateFails, SetPeerId
<1>3. ASSUME NEW c \in Conns, Join(c) \/ JoinListFails(c)
      PROVE  MemberInv'
  BY <1>3 DEF Join, JoinListFails
<1>4. ASSUME NEW c \in Conns, SendJoined(c)
      PROVE  MemberInv'
  BY <1>4 DEF SendJoined, Broadcast
<1>5. ASSUME NEW c \in Conns, Leave(c) \/ DisconnectRow(c)
      PROVE  MemberInv'
  BY <1>5 DEF Leave, DisconnectRow, DropRow
<1>6. ASSUME NEW c \in Conns, Disconnect(c) \/ Crash(c)
      PROVE  MemberInv'
  <2>1. StopReading(c) /\ ~Live(c)' /\ \A d \in Conns : d # c => pc'[d] = pc[d]
    BY <1>6 DEF Disconnect, Crash
  <2> QED BY <2>1 DEF StopReading
<1>7. ASSUME NEW c \in Conns, SendLeft(c)
      PROVE  MemberInv'
  BY <1>7 DEF SendLeft, Broadcast
<1>8. ASSUME NEW c \in Conns, HandleEvent(c) \/ Expire(c)
      PROVE  MemberInv'
  BY <1>8 DEF HandleEvent, Expire
<1>9. ASSUME NEW p \in Peers, RestJoinCheck(p) \/ RestJoinWrite(p)
       PROVE  MemberInv'
  BY <1>9 DEF RestJoinCheck, RestJoinWrite
<1>10. CASE UNCHANGED vars
  BY <1>10 DEF vars
<1> QED
  BY <1>1, <1>2, <1>3, <1>4, <1>5, <1>6, <1>7, <1>8, <1>9, <1>10 DEF Next, Frame, Proceed

\* What a client is told depends on its channel and its view only.
LEMMA ToldKept ==
    ASSUME NEW c \in Conns, queue'[c] = queue[c], view'[c] = view[c]
    PROVE  Told(c)' = Told(c)
BY DEF Told, WillSee, JoinedLast, Waiting

\* An empty channel tells nothing.
LEMMA ToldNothing ==
    ASSUME NEW c \in Conns, queue[c] = << >>, view[c] = {}
    PROVE  Told(c) = {}
BY DEF Told, WillSee, JoinedLast

\* A broadcast tells whoever it reaches, at once.
LEMMA ToldByBroadcast ==
    ASSUME TypeOK, NEW e \in Event, Broadcast(e), view' = view, NEW c \in Conns
    PROVE  /\ c \notin group \ {e.sender} \/ Full(c) => Told(c)' = Told(c)
           /\ c \in group \ {e.sender} /\ ~Full(c) =>
                 /\ e.type = "joined" => Told(c)' = Told(c) \cup {e.peer}
                 /\ e.type = "left" => Told(c)' = Told(c) \ {e.peer}
<1>1. queue[c] \in Seq(Event) /\ e.peer \in Peers
  BY DEF TypeOK, Event
<1>2. queue'[c] = IF c \in group /\ ~Full(c) THEN Append(queue[c], e) ELSE queue[c]
  BY DEF Broadcast
<1>3. ASSUME NEW p \in Peers, ~About(e, c, "joined", p), ~About(e, c, "left", p)
      PROVE  p \in Told(c)' <=> p \in Told(c)
  <2>1. /\ Waiting(queue'[c], c, "left", p) <=> Waiting(queue[c], c, "left", p)
        /\ JoinedLast(queue'[c], c, p) <=> JoinedLast(queue[c], c, p)
    BY <1>3, BroadcastEffect
  <2> QED BY <2>1 DEF Told, WillSee
<1>4. CASE c \notin group \ {e.sender} \/ Full(c)
  <2>1. CASE c \in group /\ ~Full(c)
    <3>1. e.sender = c
      BY <1>4, <2>1
    <3>2. \A p \in Peers : p \in Told(c)' <=> p \in Told(c)
      BY <1>3, <3>1 DEF About
    <3> QED BY <1>4, <3>2 DEF Told
  <2>2. CASE ~(c \in group /\ ~Full(c))
    BY <1>2, <1>4, <2>2, ToldKept
  <2> QED BY <2>1, <2>2
<1>5. CASE c \in group \ {e.sender} /\ ~Full(c)
  <2>1. \A p \in Peers : p # e.peer => (p \in Told(c)' <=> p \in Told(c))
    BY <1>3 DEF About
  <2>2. ASSUME e.type = "joined"
        PROVE  e.peer \in Told(c)'
    BY <1>1, <1>2, <1>5, <2>2, AppendJoined DEF About, Told, WillSee
  <2>3. ASSUME e.type = "left"
        PROVE  e.peer \notin Told(c)'
    BY <1>1, <1>2, <1>5, <2>3, AppendLeft DEF About, Told, WillSee
  <2>4. Told(c) \subseteq Peers /\ Told(c)' \subseteq Peers
    BY DEF Told
  <2> QED BY <1>1, <1>5, <2>1, <2>2, <2>3, <2>4
<1> QED BY <1>4, <1>5

\* Reading an event changes nothing of what the client is told in the end.
LEMMA ToldByReading ==
    ASSUME TypeOK, NEW c \in Conns, HandleEvent(c)
    PROVE  Told(c)' = Told(c)
<1> DEFINE h == Head(queue[c])
<1>1. queue[c] \in Seq(Event) /\ queue[c] # << >>
  BY DEF HandleEvent, TypeOK
<1>2. h \in Event /\ queue'[c] = Tail(queue[c])
  BY <1>1, HeadAndTail DEF HandleEvent, TypeOK
<1>3. view'[c] = CASE h.sender = c -> view[c]
                   [] h.sender # c /\ h.type = "joined" -> view[c] \cup {h.peer}
                   [] h.sender # c /\ h.type = "left" -> view[c] \ {h.peer}
  BY DEF HandleEvent, TypeOK
<1>4. ASSUME NEW p \in Peers
      PROVE  p \in Told(c)' <=> p \in Told(c)
  <2>1. /\ Waiting(queue[c], c, "left", p) <=>
              About(h, c, "left", p) \/ Waiting(queue'[c], c, "left", p)
        /\ JoinedLast(queue[c], c, p) <=>
              \/ About(h, c, "joined", p) /\ ~Waiting(queue'[c], c, "left", p)
              \/ JoinedLast(queue'[c], c, p)
    BY <1>1, <1>2, HeadAndTail
  <2>2. /\ About(h, c, "joined", p) => p \in view'[c]
        /\ About(h, c, "left", p) => p \notin view'[c]
        /\ ~About(h, c, "joined", p) /\ ~About(h, c, "left", p) =>
              (p \in view'[c] <=> p \in view[c])
    BY <1>2, <1>3 DEF About, Event
  <2>3. ~(About(h, c, "joined", p) /\ About(h, c, "left", p))
    BY DEF About
  <2> HIDE DEF h
  <2> QED BY <2>1, <2>2, <2>3 DEF Told, WillSee
<1> QED BY <1>4 DEF Told

\* An event that expires undoes what it would have told.
LEMMA ToldByLoss ==
    ASSUME TypeOK, NEW c \in Conns, Expire(c), NEW h, h = Head(queue[c])
    PROVE  /\ h \in Event
           /\ h.sender = c => Told(c)' = Told(c)
           /\ h.sender # c /\ h.type = "joined" => Told(c)' \in {Told(c), Told(c) \ {h.peer}}
           /\ h.sender # c /\ h.type = "left" => Told(c)' \in {Told(c), Told(c) \cup {h.peer}}
<1>1. queue[c] \in Seq(Event) /\ queue[c] # << >>
  BY DEF Expire, TypeOK
<1>2. h \in Event /\ queue'[c] = Tail(queue[c]) /\ view'[c] = view[c]
  BY <1>1, HeadAndTail DEF Expire, TypeOK
<1>3. ASSUME NEW p \in Peers
      PROVE  /\ ~About(h, c, "joined", p) /\ ~About(h, c, "left", p) =>
                   (p \in Told(c)' <=> p \in Told(c))
             /\ About(h, c, "joined", p) => (p \in Told(c)' => p \in Told(c))
             /\ About(h, c, "left", p) => (p \in Told(c) => p \in Told(c)')
  <2>1. /\ Waiting(queue[c], c, "left", p) <=>
              About(h, c, "left", p) \/ Waiting(queue'[c], c, "left", p)
        /\ JoinedLast(queue[c], c, p) <=>
              \/ About(h, c, "joined", p) /\ ~Waiting(queue'[c], c, "left", p)
              \/ JoinedLast(queue'[c], c, p)
    BY <1>1, <1>2, HeadAndTail
  <2>2. ~(About(h, c, "joined", p) /\ About(h, c, "left", p))
    BY DEF About
  <2> QED BY <1>2, <2>1, <2>2 DEF Told, WillSee
<1>4. Told(c) \subseteq Peers /\ Told(c)' \subseteq Peers
  BY DEF Told
<1>5. ASSUME h.sender = c
      PROVE  Told(c)' = Told(c)
  <2>1. \A p \in Peers : p \in Told(c)' <=> p \in Told(c)
    BY <1>3, <1>5 DEF About
  <2> QED BY <1>4, <2>1
<1>6. ASSUME h.sender # c, h.type = "joined"
      PROVE  Told(c)' \in {Told(c), Told(c) \ {h.peer}}
  <2>1. \A p \in Peers : p # h.peer => (p \in Told(c)' <=> p \in Told(c))
    BY <1>3, <1>6 DEF About
  <2>2. h.peer \in Peers => (h.peer \in Told(c)' => h.peer \in Told(c))
    BY <1>3, <1>6 DEF About
  <2>3. CASE h.peer \in Told(c)'
    BY <1>4, <2>1, <2>2, <2>3
  <2>4. CASE h.peer \notin Told(c)'
    BY <1>4, <2>1, <2>4
  <2> QED BY <2>3, <2>4
<1>7. ASSUME h.sender # c, h.type = "left"
      PROVE  Told(c)' \in {Told(c), Told(c) \cup {h.peer}}
  <2>1. \A p \in Peers : p # h.peer => (p \in Told(c)' <=> p \in Told(c))
    BY <1>3, <1>7 DEF About
  <2>2. h.peer \in Peers /\ (h.peer \in Told(c) => h.peer \in Told(c)')
    BY <1>2, <1>3, <1>7 DEF About, Event
  <2>3. CASE h.peer \in Told(c)'
    BY <1>4, <2>1, <2>2, <2>3
  <2>4. CASE h.peer \notin Told(c)'
    BY <1>4, <2>1, <2>2, <2>4
  <2> QED BY <2>3, <2>4
<1> QED BY <1>2, <1>5, <1>6, <1>7

\* Each step does to the room what a step of Presence does, or nothing.
LEMMA RoomStep ==
    ASSUME TypeOK, PeerIdSet, MemberInv, [Next]_vars
    PROVE  [Room!Next]_(Room!roomVars)
<1> USE DEF dbVars, connVars, history, channelVars
\* Steps that leave what the clients are told.
<1>a. ASSUME \A c \in Conns : Told(c)' = Told(c)
      PROVE  [c \in Conns |-> Told(c)]' = [c \in Conns |-> Told(c)]
  BY <1>a
<1>b. ASSUME UNCHANGED <<group, online, lost>>, \A c \in Conns : Told(c)' = Told(c)
      PROVE  UNCHANGED Room!roomVars
  BY <1>a, <1>b DEF Room!roomVars
<1>c. ASSUME UNCHANGED <<queue, view>>
      PROVE  \A c \in Conns : Told(c)' = Told(c)
  BY <1>c, ToldKept
<1>d. ASSUME NEW p \in Peers, online' = online \cup {p} \/ online' = online \ {p},
             UNCHANGED <<group, queue, view, lost>>
      PROVE  Room!Next
  <2>1. [c \in Conns |-> Told(c)]' = [c \in Conns |-> Told(c)]
    BY <1>a, <1>c, <1>d
  <2>2. Room!Appear(p) \/ Room!Vanish(p)
    BY <1>d, <2>1 DEF Room!Appear, Room!Vanish
  <2> QED BY <2>2 DEF Room!Next
<1>1. ASSUME NEW c \in Conns, Connect(c)
      PROVE  Room!Next
  <2>1. c \notin group
    BY <1>1 DEF Connect, MemberInv, Live
  <2>2. [d \in Conns |-> Told(d)]' = [d \in Conns |-> Told(d)]
    BY <1>1, <1>a, <1>c DEF Connect
  <2>3. Room!Enter(c)
    BY <1>1, <2>1, <2>2 DEF Connect, Room!Enter
  <2> QED BY <2>3 DEF Room!Next
<1>2. ASSUME NEW c \in Conns, NEW p \in Peers, Authenticate(c, p)
      PROVE  Room!Next
  BY <1>2, <1>d DEF Authenticate, SetPeerId
<1>3. ASSUME NEW c \in Conns, NEW p \in Peers, AuthenticateFails(c, p)
      PROVE  UNCHANGED Room!roomVars
  BY <1>3, <1>b, <1>c DEF AuthenticateFails, SetPeerId
<1>4. ASSUME NEW c \in Conns, Join(c)
      PROVE  Room!Next
  <2> DEFINE own == peerId[c]
             hidden == {p \in Peers : Waiting(queue[c], c, "left", p)}
  <2>1. own \in Peers /\ hidden \in SUBSET Peers /\ c \in group
    BY <1>4 DEF Join, TypeOK, MemberInv, Live
  <2>2. /\ queue' = queue /\ group' = group /\ online' = online
        /\ view' = [view EXCEPT ![c] = @ \cup (online \ {own})]
        /\ lost' = [lost EXCEPT ![c] =
                      {l \in @ : l[1] = "joined" => Waiting(queue[c], c, "left", l[2])}]
    BY <1>4 DEF Join
  <2>3. \A d \in Conns : d # c => Told(d)' = Told(d)
    BY <2>2, ToldKept DEF TypeOK
  <2>4. Told(c)' = Told(c) \cup (online \ (hidden \cup {own}))
    <3>1. view'[c] = view[c] \cup (online \ {own}) /\ queue'[c] = queue[c]
      BY <2>2 DEF TypeOK
    <3>2. ASSUME NEW p \in Peers
          PROVE  p \in Told(c)' <=> p \in Told(c) \/ p \in online \ (hidden \cup {own})
      BY <3>1 DEF Told, WillSee
    <3>3. Told(c) \subseteq Peers /\ Told(c)' \subseteq Peers /\ online \subseteq Peers
      BY DEF Told, TypeOK
    <3> HIDE DEF hidden, own
    <3> QED BY <3>2, <3>3
  <2>5. lost' = [lost EXCEPT ![c] = {l \in @ : l[1] = "joined" => l[2] \in hidden}]
    <3>1. \A l \in lost[c] : l[2] \in Peers
      BY DEF TypeOK
    <3> QED BY <2>2, <3>1
  <2> HIDE DEF own, hidden
  <2>6. [d \in Conns |-> Told(d)]' =
            [[d \in Conns |-> Told(d)] EXCEPT ![c] = @ \cup (online \ (hidden \cup {own}))]
    BY <2>3, <2>4
  <2>7. Room!List(c)
    BY <2>1, <2>2, <2>5, <2>6 DEF Room!List
  <2> QED BY <2>7 DEF Room!Next
<1>5. ASSUME NEW c \in Conns, JoinListFails(c)
      PROVE  UNCHANGED Room!roomVars
  BY <1>5, <1>b, <1>c DEF JoinListFails
\* A broadcast: the channels that are full are deaf, the others hear.
<1>6. ASSUME NEW c \in Conns, NEW p \in Peers, NEW kind \in {"joined", "left"},
             Broadcast([type |-> kind, peer |-> p, sender |-> c]),
             UNCHANGED <<group, online, view>>, kind = "joined" => c \in group
      PROVE  Room!Next
  <2> DEFINE e == [type |-> kind, peer |-> p, sender |-> c]
             deaf == {x \in group \ {c} : Full(x)}
             hear == group \ (deaf \cup {c})
  <2>1. e \in Event /\ e.type = kind /\ e.peer = p /\ e.sender = c /\ Broadcast(e)
    BY <1>6 DEF Event
  <2> HIDE DEF e
  <2>2. lost' = [x \in Conns |->
                   CASE x \in hear -> lost[x] \ {<<kind, p>>}
                     [] x \in deaf -> lost[x] \cup {<<kind, p>>}
                     [] x \notin hear \cup deaf -> lost[x]]
    BY <2>1 DEF Broadcast
  <2>3. ASSUME NEW x \in Conns
        PROVE  Told(x)' = CASE x \notin hear -> Told(x)
                            [] x \in hear /\ kind = "joined" -> Told(x) \cup {p}
                            [] x \in hear /\ kind = "left" -> Told(x) \ {p}
    BY <1>6, <2>1, ToldByBroadcast
  <2>4. deaf \in SUBSET (group \ {c})
    OBVIOUS
  <2> HIDE DEF deaf, hear
  <2>5. Room!Tell(kind, p, hear, deaf)
    BY <1>6, <2>2, <2>3 DEF Room!Tell
  <2>6. Room!Announce(c, p) \/ Room!Withdraw(c, p)
    BY <1>6, <2>4, <2>5 DEF Room!Announce, Room!Withdraw, hear
  <2> QED BY <2>6 DEF Room!Next
<1>7. ASSUME NEW c \in Conns, SendJoined(c)
      PROVE  Room!Next
  <2>1. peerId[c] \in Peers /\ c \in group
    BY <1>7 DEF SendJoined, PeerIdSet, MemberInv, Live
  <2> QED BY <1>6, <1>7, <2>1 DEF SendJoined
<1>8. ASSUME NEW c \in Conns, SendLeft(c)
      PROVE  Room!Next
  <2>1. peerId[c] \in Peers
    BY <1>8 DEF SendLeft, PeerIdSet
  <2> QED BY <1>6, <1>8, <2>1 DEF SendLeft
<1>9. ASSUME NEW c \in Conns, Leave(c) \/ DisconnectRow(c)
      PROVE  Room!Next
  <2>1. peerId[c] \in Peers
    BY <1>9 DEF Leave, DisconnectRow, PeerIdSet, TypeOK
  <2> QED BY <1>9, <2>1, <1>d DEF Leave, DisconnectRow, DropRow
<1>10. ASSUME NEW c \in Conns, StopReading(c), online' = online
       PROVE  Room!Next \/ UNCHANGED Room!roomVars
  <2>1. /\ group' = group \ {c}
        /\ queue' = [queue EXCEPT ![c] = << >>] /\ view' = [view EXCEPT ![c] = {}]
        /\ lost' = [lost EXCEPT ![c] = {}]
    BY <1>10 DEF StopReading
  <2>2. \A d \in Conns : d # c => Told(d)' = Told(d)
    BY <2>1, ToldKept DEF TypeOK
  <2>3. queue'[c] = << >> /\ view'[c] = {}
    BY <2>1 DEF TypeOK
  <2>4. Told(c)' = {}
    BY <2>3 DEF Told, WillSee, JoinedLast
  <2>5. CASE c \in group
    <3>1. [d \in Conns |-> Told(d)]' = [[d \in Conns |-> Told(d)] EXCEPT ![c] = {}]
      BY <2>2, <2>4
    <3>2. Room!Exit(c)
      BY <1>10, <2>1, <2>5, <3>1 DEF Room!Exit
    <3> QED BY <3>2 DEF Room!Next
  <2>6. CASE c \notin group
    <3>1. queue[c] = << >> /\ view[c] = {} /\ lost[c] = {}
      BY <2>6 DEF MemberInv
    <3>2. Told(c) = {}
      BY <3>1, ToldNothing
    <3>3. lost' = lost /\ group' = group
      BY <2>1, <2>6, <3>1 DEF TypeOK
    <3> QED BY <1>10, <1>b, <2>2, <2>4, <3>2, <3>3
  <2> QED BY <2>5, <2>6
<1>11. ASSUME NEW c \in Conns, Disconnect(c) \/ Crash(c)
       PROVE  Room!Next \/ UNCHANGED Room!roomVars
  BY <1>10, <1>11 DEF Disconnect, Crash
<1>12. ASSUME NEW c \in Conns, HandleEvent(c)
       PROVE  UNCHANGED Room!roomVars
  <2>1. \A d \in Conns : d # c => Told(d)' = Told(d)
    BY <1>12, ToldKept DEF HandleEvent, TypeOK
  <2> QED BY <1>12, <1>b, <2>1, ToldByReading DEF HandleEvent
<1>13. ASSUME NEW c \in Conns, Expire(c)
       PROVE  Room!Next \/ UNCHANGED Room!roomVars
  <2> DEFINE h == Head(queue[c])
             old == [d \in Conns |-> Told(d)]
  <2>1. /\ h \in Event
        /\ h.sender = c => Told(c)' = Told(c)
        /\ h.sender # c /\ h.type = "joined" => Told(c)' \in {Told(c), Told(c) \ {h.peer}}
        /\ h.sender # c /\ h.type = "left" => Told(c)' \in {Told(c), Told(c) \cup {h.peer}}
    BY <1>13, ToldByLoss
  <2>2. \A d \in Conns : d # c => Told(d)' = Told(d)
    BY <1>13, ToldKept DEF Expire, TypeOK
  <2>3. /\ group' = group /\ online' = online
        /\ lost' = [lost EXCEPT ![c] = IF h.sender = c THEN @ ELSE @ \cup {<<h.type, h.peer>>}]
    BY <1>13 DEF Expire
  <2>4. c \in group
    BY <1>13 DEF Expire, MemberInv, Live
  <2> HIDE DEF h
  <2>5. CASE h.sender = c
    BY <1>b, <2>1, <2>2, <2>3, <2>5 DEF TypeOK
  <2>6. CASE h.sender # c
    <3>1. h.type \in {"joined", "left"} /\ h.peer \in Peers
      BY <2>1 DEF Event
    <3>2. old' \in {old, [old EXCEPT ![c] = IF h.type = "joined" THEN @ \ {h.peer}
                                             ELSE @ \cup {h.peer}]}
      BY <2>1, <2>2, <2>6, <3>1
    <3>3. Room!Lose(c, h.type, h.peer)
      BY <2>3, <2>4, <2>6, <3>2 DEF Room!Lose
    <3> QED BY <3>1, <3>3 DEF Room!Next
  <2> QED BY <2>5, <2>6
<1>14. ASSUME NEW p \in Peers, RestJoinCheck(p)
       PROVE  UNCHANGED Room!roomVars
  BY <1>14, <1>b, <1>c DEF RestJoinCheck
<1>15. ASSUME NEW p \in Peers, RestJoinWrite(p)
       PROVE  Room!Next
  BY <1>15, <1>d DEF RestJoinWrite
<1>16. CASE UNCHANGED vars
  BY <1>16, <1>b, <1>c DEF vars
<1> QED
  BY <1>1, <1>2, <1>3, <1>4, <1>5, <1>7, <1>8, <1>9, <1>11, <1>12, <1>13, <1>14, <1>15, <1>16
  DEF Next, Frame, Proceed

\* Implements: with its channels, their overflow and expiry, its crashes and its
\* database errors the signalling does to each client what Presence promises,
\* whatever ids the clients choose: news reaches all of the room at one moment.
THEOREM Implements == Spec => RoomSpec
<1>1. Init => Room!Init
  <2> SUFFICES ASSUME Init PROVE Room!Init
    OBVIOUS
  <2>1. \A c \in Conns : Told(c) = {}
    BY ToldNothing DEF Init
  <2> QED BY <2>1 DEF Init, Room!Init
<1>2. MemberInv /\ TypeOK /\ [Next]_vars => MemberInv'
  BY MemberStep
<1>3. TypeOK /\ PeerIdSet /\ MemberInv /\ [Next]_vars => [Room!Next]_(Room!roomVars)
  BY RoomStep
<1> QED BY <1>1, <1>2, <1>3, MemberInit, TypeCorrect, PTL DEF Spec, RoomSpec, Room!Spec

=============================================================================
