------------------------------ MODULE Transfer -------------------------------
(***************************************************************************)
(* The server's record of a file transfer in one room: the file_metadata   *)
(* handshake that creates and relays it, the chunk acknowledgements, the   *)
(* resume request, completion and failure (SignalingConsumer in            *)
(* api/consumers.py) and the admin's mark_failed (api/admin.py).           *)
(*                                                                         *)
(* The server never sees a chunk.  What the receiving client has stored is *)
(* here only to say what its frames may be: it acknowledges what it has.   *)
(*                                                                         *)
(* All database functions of the consumers run one at a time in the server *)
(* process' single thread; the admin site runs elsewhere, between the read *)
(* and the save of such a function.                                        *)
(***************************************************************************)
EXTENDS Naturals, FiniteSets

CONSTANTS
    Peers,      \* peers of the room, each with a connection of its own
    UserOf,     \* UserOf[p]: the user of p's connection
    Transfers,  \* transfer ids the clients choose
    ChunkCount, \* chunks of a file
    None        \* no record, nothing running, nothing told

ASSUME TransferAssumption ==
    /\ ChunkCount \in Nat \ {0}
    /\ None \notin Peers

VARIABLES
    online,     \* peers whose row is authenticated and connected
    handler,    \* handler[p]: the file_metadata frame p's consumer is handling
    row,        \* row[t]: the FileTransfer record
    running,    \* the read-then-save function in the server's thread
    relayed,    \* pairs <<t, p>>: metadata of t was relayed to p
    have,       \* have[t]: chunks the receiving client has stored, in order
    acked,      \* acked[t]: chunks whose acknowledgement was processed
    resumeAt    \* resumeAt[t]: the last_chunk told to the sender, if any

vars == <<online, handler, row, running, relayed, have, acked, resumeAt>>

Users == {UserOf[p] : p \in Peers}
Chunks == 0 .. ChunkCount - 1

Record == [sender : Users, receiver : Users, last : Chunks,
           received : 0 .. ChunkCount, completedAt : BOOLEAN,
           status : {"pending", "in_progress", "completed", "failed"}]

Frame == [step : {"create", "relay"}, t : Transfers, target : Peers]

Function == [op : {"ack"}, t : Transfers, read : Record, chunk : Chunks]
            \cup [op : {"complete", "fail"}, t : Transfers, read : Record]

ASSUME NoneAssumption == None \notin Record /\ None \notin Frame /\ None \notin Function

TypeOK ==
    /\ online \in SUBSET Peers
    /\ handler \in [Peers -> Frame \cup {None}]
    /\ row \in [Transfers -> Record \cup {None}]
    /\ running \in Function \cup {None}
    /\ relayed \in SUBSET (Transfers \X Peers)
    /\ have \in [Transfers -> 0 .. ChunkCount]
    /\ acked \in [Transfers -> SUBSET Chunks]
    /\ resumeAt \in [Transfers -> Chunks \cup {None}]

Init ==
    /\ online = {}
    /\ handler = [p \in Peers |-> None]
    /\ row = [t \in Transfers |-> None]
    /\ running = None
    /\ relayed = {}
    /\ have = [t \in Transfers |-> 0]
    /\ acked = [t \in Transfers |-> {}]
    /\ resumeAt = [t \in Transfers |-> None]

-----------------------------------------------------------------------------
(* The room (see Signaling): rows come and go while transfers are handled. *)

Arrive(p) ==
    /\ running = None
    /\ online' = online \cup {p}
    /\ UNCHANGED <<handler, row, running, relayed, have, acked, resumeAt>>

Depart(p) ==
    /\ running = None
    /\ handler[p] = None
    /\ online' = online \ {p}
    /\ UNCHANGED <<handler, row, running, relayed, have, acked, resumeAt>>

-----------------------------------------------------------------------------
(* handle_file_metadata: verify the receiver, create the record, relay.    *)

\* verify_peer_authentication; an offline receiver ends the handler.
VerifyReceiver(p, t, target) ==
    /\ running = None
    /\ handler[p] = None
    /\ target \in online
    /\ handler' = [handler EXCEPT ![p] = [step |-> "create", t |-> t, target |-> target]]
    /\ UNCHANGED <<online, row, running, relayed, have, acked, resumeAt>>

\* The rows create_file_transfer takes its receiver from.
Candidates(p) == {q \in online : UserOf[q] # UserOf[p]}

NewRecord(p, q) ==
    [sender |-> UserOf[p], receiver |-> UserOf[q], last |-> 0, received |-> 0,
     completedAt |-> FALSE, status |-> "pending"]

\* Mutant of CreateRecord: a record of that id is replaced.
CreateOrReplace(p) ==
    /\ running = None
    /\ handler[p] # None /\ handler[p].step = "create"
    /\ \E q \in Candidates(p) :
          row' = [row EXCEPT ![handler[p].t] = NewRecord(p, q)]
    /\ handler' = [handler EXCEPT ![p].step = "relay"]
    /\ UNCHANGED <<online, running, relayed, have, acked, resumeAt>>

\* create_file_transfer: the receiver is the user of the first such row in the
\* order of their random primary keys, whichever peer the frame named.
CreateRecord(p) ==
    /\ running = None
    /\ handler[p] # None /\ handler[p].step = "create"
    /\ row[handler[p].t] = None
    /\ \E q \in Candidates(p) :
          row' = [row EXCEPT ![handler[p].t] = NewRecord(p, q)]
    /\ handler' = [handler EXCEPT ![p].step = "relay"]
    /\ UNCHANGED <<online, running, relayed, have, acked, resumeAt>>

\* No other user is online, the id is taken, or any other exception, such as
\* malformed base64: the client is sent an error.
CreateFails(p) ==
    /\ running = None
    /\ handler[p] # None /\ handler[p].step = "create"
    /\ handler' = [handler EXCEPT ![p] = None]
    /\ UNCHANGED <<online, row, running, relayed, have, acked, resumeAt>>

Relay(p) ==
    /\ handler[p] # None /\ handler[p].step = "relay"
    /\ relayed' = relayed \cup {<<handler[p].t, handler[p].target>>}
    /\ handler' = [handler EXCEPT ![p] = None]
    /\ UNCHANGED <<online, row, running, have, acked, resumeAt>>

-----------------------------------------------------------------------------
(* The receiving client: chunks arrive over the data channel, in order.    *)

StoreChunk(t) ==
    /\ \E p \in Peers : <<t, p>> \in relayed
    /\ have[t] < ChunkCount
    /\ have' = [have EXCEPT ![t] = @ + 1]
    /\ UNCHANGED <<online, handler, row, running, relayed, acked, resumeAt>>

-----------------------------------------------------------------------------
(* Functions that read a record, and save all of its fields.               *)

\* Mutant of ReadForAck: the record is looked up by id alone, as for completion.
ReadById(p, t, i) ==
    /\ running = None /\ handler[p] = None
    /\ <<t, p>> \in relayed /\ i < have[t]
    /\ running' = [op |-> "ack", t |-> t, read |-> row[t], chunk |-> i]
    /\ UNCHANGED <<online, handler, row, relayed, have, acked, resumeAt>>

\* chunk_ack: the record is looked up by id and receiver; an acknowledgement
\* may be late, or repeated.
ReadForAck(p, t, i) ==
    /\ running = None /\ handler[p] = None
    /\ <<t, p>> \in relayed /\ i < have[t]
    /\ row[t].receiver = UserOf[p]
    /\ running' = [op |-> "ack", t |-> t, read |-> row[t], chunk |-> i]
    /\ UNCHANGED <<online, handler, row, relayed, have, acked, resumeAt>>

\* Mutant of SaveAck: every acknowledgement counts one more chunk.
SaveAckAsCount ==
    /\ running # None /\ running.op = "ack"
    /\ row' = [row EXCEPT ![running.t] =
                 [running.read EXCEPT !.last = running.chunk, !.received = @ + 1]]
    /\ acked' = [acked EXCEPT ![running.t] = @ \cup {running.chunk}]
    /\ running' = None
    /\ UNCHANGED <<online, handler, relayed, have, resumeAt>>

\* Mutant of SaveAck: an older acknowledgement is saved like a newer one.
SaveAckUnordered ==
    /\ running # None /\ running.op = "ack"
    /\ row' = [row EXCEPT ![running.t] =
                 [running.read EXCEPT !.last = running.chunk, !.received = running.chunk + 1]]
    /\ acked' = [acked EXCEPT ![running.t] = @ \cup {running.chunk}]
    /\ running' = None
    /\ UNCHANGED <<online, handler, relayed, have, resumeAt>>

\* update_transfer_chunk
SaveAck ==
    /\ running # None /\ running.op = "ack"
    /\ row' = IF running.chunk > running.read.last
              THEN [row EXCEPT ![running.t] =
                      [running.read EXCEPT !.last = running.chunk,
                                           !.received = running.chunk + 1]]
              ELSE row
    /\ acked' = [acked EXCEPT ![running.t] = @ \cup {running.chunk}]
    /\ running' = None
    /\ UNCHANGED <<online, handler, relayed, have, resumeAt>>

\* transfer_complete, sent by the receiving client when it has verified the
\* whole file.  The record is looked up by id alone.
ReadForComplete(p, t) ==
    /\ running = None /\ handler[p] = None
    /\ <<t, p>> \in relayed /\ have[t] = ChunkCount
    /\ running' = [op |-> "complete", t |-> t, read |-> row[t]]
    /\ UNCHANGED <<online, handler, row, relayed, have, acked, resumeAt>>

SaveComplete ==
    /\ running # None /\ running.op = "complete"
    /\ row' = [row EXCEPT ![running.t] =
                 [running.read EXCEPT !.status = "completed", !.completedAt = TRUE]]
    /\ running' = None
    /\ UNCHANGED <<online, handler, relayed, have, acked, resumeAt>>

\* transfer_error, sent by either end.
ReadForFail(p, t) ==
    /\ running = None /\ handler[p] = None
    /\ \E q \in Peers : <<t, q>> \in relayed /\ (p = q \/ UserOf[p] = row[t].sender)
    /\ running' = [op |-> "fail", t |-> t, read |-> row[t]]
    /\ UNCHANGED <<online, handler, row, relayed, have, acked, resumeAt>>

SaveFail ==
    /\ running # None /\ running.op = "fail"
    /\ row' = [row EXCEPT ![running.t] = [running.read EXCEPT !.status = "failed"]]
    /\ running' = None
    /\ UNCHANGED <<online, handler, relayed, have, acked, resumeAt>>

\* The admin's mark_failed writes the one column, and at any time.
MarkFailed(t) ==
    /\ row[t] # None
    /\ row' = [row EXCEPT ![t].status = "failed"]
    /\ UNCHANGED <<online, handler, running, relayed, have, acked, resumeAt>>

\* Mutant of Progress: the number of chunks instead of the last one's index.
ProgressAsCount(p, t) == IF row[t].receiver = UserOf[p] THEN row[t].received ELSE 0

\* request_resume: the progress of the record if the user is its receiver,
\* 0 if there is none, relayed to the sender.
Progress(p, t) == IF row[t].receiver = UserOf[p] THEN row[t].last ELSE 0

RequestResume(p, t) ==
    /\ running = None /\ handler[p] = None
    /\ <<t, p>> \in relayed
    /\ resumeAt' = [resumeAt EXCEPT ![t] = Progress(p, t)]
    /\ UNCHANGED <<online, handler, row, running, relayed, have, acked>>

-----------------------------------------------------------------------------
Next ==
    \/ \E p \in Peers :
          \/ Arrive(p) \/ Depart(p)
          \/ CreateRecord(p) \/ CreateFails(p) \/ Relay(p)
          \/ \E t \in Transfers, q \in Peers \ {p} : VerifyReceiver(p, t, q)
          \/ \E t \in Transfers, i \in Chunks : ReadForAck(p, t, i)
          \/ \E t \in Transfers :
                ReadForComplete(p, t) \/ ReadForFail(p, t) \/ RequestResume(p, t)
    \/ SaveAck \/ SaveComplete \/ SaveFail
    \/ \E t \in Transfers : StoreChunk(t) \/ MarkFailed(t)

Spec == Init /\ [][Next]_vars

-----------------------------------------------------------------------------
(* Properties.                                                             *)

\* OneOffer: a transfer id is offered to one peer, by the user its record
\* names, even when two clients use the id at the same time: the check for the
\* id and the relay are separate steps of file_metadata.
OneOffer ==
    /\ \A a, b \in relayed : a[1] = b[1] => a[2] = b[2]
    /\ \A p \in Peers : handler[p] # None /\ handler[p].step = "relay"
          => /\ row[handler[p].t].sender = UserOf[p]
             /\ \A q \in Peers : <<handler[p].t, q>> \notin relayed

\* ResumeIsSafe: the sender is never told to go on after a chunk the receiver
\* does not have (0 also stands for "from the start"), whatever acknowledgements
\* are repeated, delayed or overtaken by the admin.
ResumeIsSafe ==
    \A t \in Transfers : resumeAt[t] # None =>
        resumeAt[t] = 0 \/ resumeAt[t] < have[t]

\* ProgressMonotone: no save, of whatever function, takes back progress.
ProgressMonotone ==
    [][\A t \in Transfers : row[t] # None =>
          row'[t] # None /\ row'[t].last >= row[t].last
                         /\ row'[t].received >= row[t].received]_vars

\* ProgressIsReceivers: in a room of three a record may name another user than
\* the one its file was offered to.  Whoever is online when, such a record never
\* counts a chunk and its sender is never told to go on but from the start: the
\* progress of a transfer is that of its receiver or nobody's.  Acknowledgement
\* and resume each need to ask whether the user is the receiver.
ProgressIsReceivers ==
    \A t \in Transfers, p \in Peers :
        <<t, p>> \in relayed /\ row[t].receiver # UserOf[p]
            => row[t].received = 0 /\ resumeAt[t] \in {None, 0}

\* Why they hold: what is known of a record and of the functions and handlers
\* that are about to use it.
RecordInv ==
    \A t \in Transfers :
        /\ row[t] # None =>
              /\ row[t].last = 0 \/ row[t].last < have[t]
              /\ row[t].received <= row[t].last + 1
        /\ \A p \in Peers : <<t, p>> \in relayed => row[t] # None

\* Nothing but the status of a record changes between the read and the save.
RunningInv ==
    running # None =>
        LET now == row[running.t]
        IN  /\ now # None
            /\ running.read.sender = now.sender
            /\ running.read.receiver = now.receiver
            /\ running.read.last = now.last
            /\ running.read.received = now.received
            /\ running.op = "ack" => running.chunk < have[running.t]

Relaying(p) == handler[p] # None /\ handler[p].step = "relay"

HandlerInv ==
    \A p \in Peers : Relaying(p) =>
        /\ row[handler[p].t] # None
        /\ \A q \in Peers : Relaying(q) /\ handler[q].t = handler[p].t => q = p

\* TransferInv: the inductive invariant of the record.
TransferInv == RecordInv /\ RunningInv /\ HandlerInv /\ OneOffer /\ ResumeIsSafe

\* AckIsCounted: "Update last successful chunk received": an acknowledged chunk
\* is counted and stays so, however late others arrive and whatever is saved
\* over the record.  The first chunk is the exception: its index 0 is also the
\* value of a record with no chunk yet.
AckIsCounted ==
    \A t \in Transfers : \A i \in acked[t] \ {0} : row[t].received > i

\* Known(t): the chunks the server's record has counted.
Known(t) == IF row[t] = None THEN 0 ELSE row[t].received

\* What the clients of a transfer can tell of it.
File == INSTANCE Delivery WITH
    Files <- Transfers, Clients <- Peers, Size <- ChunkCount, Nobody <- None,
    offered <- relayed, kept <- have, resume <- resumeAt,
    known <- [t \in Transfers |-> Known(t)]

\* DeliverySpec: the record, with its functions that read before they save, the
\* acknowledgements that overtake each other and the admin's edits, delivers a
\* file as Delivery does: one offer, a count that only grows, and a resume
\* request answered with the last chunk of that count or with 0.
DeliverySpec == File!Spec
=============================================================================
