---------------------------- MODULE TransferProofs ----------------------------
(***************************************************************************)
(* Proofs about Transfer, for any peers, users, transfers and chunk count, *)
(* and that it implements Delivery.                                        *)
(***************************************************************************)
EXTENDS Transfer, TLAPS

\* The record create_file_transfer makes is a record.
LEMMA NewRecordType ==
    ASSUME NEW p \in Peers, NEW q \in Peers
    PROVE  NewRecord(p, q) \in Record
  <1>1. 0 \in Chunks /\ 0 \in 0 .. ChunkCount
    BY TransferAssumption DEF Chunks
  <1>2. UserOf[p] \in Users /\ UserOf[q] \in Users
    BY DEF Users
  <1> QED BY <1>1, <1>2 DEF NewRecord, Record

\* A saved acknowledgement, completion or failure leaves a record.
LEMMA SavedTypes ==
    ASSUME NEW r \in Record, NEW i \in Chunks
    PROVE  /\ [r EXCEPT !.last = i, !.received = i + 1] \in Record
           /\ [r EXCEPT !.status = "completed", !.completedAt = TRUE] \in Record
           /\ [r EXCEPT !.status = "failed"] \in Record
  <1>1. i + 1 \in 0 .. ChunkCount
    BY TransferAssumption DEF Chunks
  <1> QED BY <1>1 DEF Record

\* The initial states are within the types.
LEMMA TypeInit == Init => TypeOK
  BY TransferAssumption DEF Init, TypeOK, Chunks

\* Every step stays within the types.  RecordInv says that a function which
\* runs on a relayed transfer finds a record.
LEMMA TypeStep ==
    ASSUME TypeOK, RecordInv, [Next]_vars
    PROVE  TypeOK'
  <1> USE DEF TypeOK
  <1>1. ASSUME NEW p \in Peers, Arrive(p) \/ Depart(p)
        PROVE  TypeOK'
    BY <1>1 DEF Arrive, Depart
  <1>2. ASSUME NEW p \in Peers, NEW t \in Transfers, NEW q \in Peers, VerifyReceiver(p, t, q)
        PROVE  TypeOK'
    <2>1. [step |-> "create", t |-> t, target |-> q] \in Frame
      BY DEF Frame
    <2> QED BY <1>2, <2>1 DEF VerifyReceiver
  <1>3. ASSUME NEW p \in Peers, CreateRecord(p)
        PROVE  TypeOK'
    <2>1. handler[p] \in Frame
      BY <1>3 DEF CreateRecord
    <2>2. [handler[p] EXCEPT !.step = "relay"] \in Frame
      BY <2>1 DEF Frame
    <2>3. PICK q \in Candidates(p) : row' = [row EXCEPT ![handler[p].t] = NewRecord(p, q)]
      BY <1>3 DEF CreateRecord
    <2>4. NewRecord(p, q) \in Record
      BY <2>3, NewRecordType DEF Candidates
    <2>5. row' \in [Transfers -> Record \cup {None}]
      BY <2>3, <2>4
    <2>6. handler' \in [Peers -> Frame \cup {None}]
      BY <1>3, <2>2 DEF CreateRecord
    <2> QED BY <1>3, <2>5, <2>6 DEF CreateRecord
  <1>4. ASSUME NEW p \in Peers, CreateFails(p)
        PROVE  TypeOK'
    BY <1>4 DEF CreateFails
  <1>5. ASSUME NEW p \in Peers, Relay(p)
        PROVE  TypeOK'
    <2>1. handler[p] \in Frame
      BY <1>5 DEF Relay
    <2>2. <<handler[p].t, handler[p].target>> \in Transfers \X Peers
      BY <2>1 DEF Frame
    <2> QED BY <1>5, <2>2 DEF Relay
  <1>6. ASSUME NEW t \in Transfers, StoreChunk(t)
        PROVE  TypeOK'
    <2>1. have[t] + 1 \in 0 .. ChunkCount
      BY <1>6, TransferAssumption DEF StoreChunk
    <2> QED BY <1>6, <2>1 DEF StoreChunk
  <1>7. ASSUME NEW p \in Peers, NEW t \in Transfers, NEW i \in Chunks, ReadForAck(p, t, i)
        PROVE  TypeOK'
    <2>1. row[t] \in Record
      BY <1>7 DEF ReadForAck, RecordInv
    <2>2. [op |-> "ack", t |-> t, read |-> row[t], chunk |-> i] \in Function
      BY <2>1 DEF Function
    <2> QED BY <1>7, <2>2 DEF ReadForAck
  <1>8. ASSUME NEW p \in Peers, NEW t \in Transfers, ReadForComplete(p, t) \/ ReadForFail(p, t)
        PROVE  TypeOK'
    <2>1. row[t] \in Record
      BY <1>8 DEF ReadForComplete, ReadForFail, RecordInv
    <2>2. /\ [op |-> "complete", t |-> t, read |-> row[t]] \in Function
          /\ [op |-> "fail", t |-> t, read |-> row[t]] \in Function
      BY <2>1 DEF Function
    <2> QED BY <1>8, <2>2 DEF ReadForComplete, ReadForFail
  <1>9. CASE SaveAck
    <2>1. /\ running.t \in Transfers /\ running.read \in Record
          /\ running.chunk \in Chunks
      BY <1>9 DEF SaveAck, Function
    <2>2. row' \in [Transfers -> Record \cup {None}]
      BY <1>9, <2>1, SavedTypes DEF SaveAck
    <2>3. acked' \in [Transfers -> SUBSET Chunks]
      BY <1>9, <2>1 DEF SaveAck
    <2> QED BY <1>9, <2>2, <2>3 DEF SaveAck
  <1>10. CASE SaveComplete \/ SaveFail
    <2>1. running.t \in Transfers /\ running.read \in Record
      BY <1>10 DEF SaveComplete, SaveFail, Function
    <2>2. 0 \in Chunks
      BY TransferAssumption DEF Chunks
    <2>3. row' \in [Transfers -> Record \cup {None}]
      BY <1>10, <2>1, <2>2, SavedTypes DEF SaveComplete, SaveFail
    <2> QED BY <1>10, <2>3 DEF SaveComplete, SaveFail
  <1>11. ASSUME NEW t \in Transfers, MarkFailed(t)
         PROVE  TypeOK'
    <2>1. row[t] \in Record
      BY <1>11 DEF MarkFailed
    <2>2. [row[t] EXCEPT !.status = "failed"] \in Record
      BY <2>1 DEF Record
    <2>3. row' \in [Transfers -> Record \cup {None}]
      BY <1>11, <2>2 DEF MarkFailed
    <2> QED BY <1>11, <2>3 DEF MarkFailed
  <1>12. ASSUME NEW p \in Peers, NEW t \in Transfers, RequestResume(p, t)
         PROVE  TypeOK'
    <2>1. row[t] \in Record
      BY <1>12 DEF RequestResume, RecordInv
    <2>2. Progress(p, t) \in Chunks
      BY <2>1, TransferAssumption DEF Progress, Record, Chunks
    <2> QED BY <1>12, <2>2 DEF RequestResume
  <1>13. CASE UNCHANGED vars
    BY <1>13 DEF vars
  <1> QED BY <1>1, <1>2, <1>3, <1>4, <1>5, <1>6, <1>7, <1>8, <1>9, <1>10, <1>11,
             <1>12, <1>13 DEF Next

-----------------------------------------------------------------------------
(* What steps do to records.                                               *)

\* A save writes back the record that is there, but for its own columns.
LEMMA SavedRow ==
    ASSUME TypeOK, RunningInv, running # None
    PROVE  /\ running.t \in Transfers
           /\ running.read \in Record /\ row[running.t] \in Record
           /\ running.op = "ack" => running.chunk \in Chunks
  BY DEF TypeOK, RunningInv, Function

Kept(t) ==
    /\ row[t] # None /\ row'[t] \in Record
    /\ row'[t].sender = row[t].sender /\ row'[t].receiver = row[t].receiver

SameProgress(t) ==
    /\ Kept(t)
    /\ row'[t].last = row[t].last /\ row'[t].received = row[t].received

\* The acknowledgement of a later chunk is saved.
Advanced(t) ==
    /\ Kept(t)
    /\ running # None /\ running' = None /\ running.op = "ack" /\ running.t = t
    /\ running.chunk \in Chunks /\ running.chunk > row[t].last
    /\ row'[t].last = running.chunk /\ row'[t].received = running.chunk + 1

Created(t) ==
    /\ row[t] = None /\ row'[t] \in Record /\ running' = None
    /\ row'[t].last = 0 /\ row'[t].received = 0

\* All that a step can do to a record.
LEMMA RowCases ==
    ASSUME TypeOK, RunningInv, [Next]_vars, NEW t \in Transfers
    PROVE  row'[t] = row[t] \/ SameProgress(t) \/ Advanced(t) \/ Created(t)
  <1>0. row \in [Transfers -> Record \cup {None}]
    BY DEF TypeOK
  <1>1. ASSUME NEW p \in Peers, CreateRecord(p)
        PROVE  row'[t] = row[t] \/ Created(t)
    <2>1. PICK q \in Candidates(p) : row' = [row EXCEPT ![handler[p].t] = NewRecord(p, q)]
      BY <1>1 DEF CreateRecord
    <2>2. NewRecord(p, q) \in Record
      BY <2>1, NewRecordType DEF Candidates, TypeOK
    <2>3. NewRecord(p, q).last = 0 /\ NewRecord(p, q).received = 0
      BY DEF NewRecord
    <2> QED BY <1>0, <1>1, <2>1, <2>2, <2>3 DEF CreateRecord, Created
  <1>2. CASE SaveAck
    <2>1. CASE running.t = t /\ running.chunk > running.read.last
      <3>1. /\ running.read \in Record /\ running.chunk \in Chunks /\ row[t] # None
            /\ running.read.sender = row[t].sender /\ running.read.receiver = row[t].receiver
            /\ running.read.last = row[t].last
        BY <1>2, <2>1, SavedRow DEF SaveAck, RunningInv
      <3>2. row'[t] = [running.read EXCEPT !.last = running.chunk,
                                           !.received = running.chunk + 1]
        BY <1>0, <1>2, <2>1 DEF SaveAck
      <3>3. row'[t] \in Record
        BY <3>1, <3>2, SavedTypes
      <3>4. /\ row'[t].sender = row[t].sender /\ row'[t].receiver = row[t].receiver
            /\ row'[t].last = running.chunk /\ row'[t].received = running.chunk + 1
        BY <3>1, <3>2 DEF Record
      <3> QED BY <1>2, <2>1, <3>1, <3>3, <3>4 DEF SaveAck, Advanced, Kept
    <2>2. CASE ~(running.t = t /\ running.chunk > running.read.last)
      BY <1>0, <1>2, <2>2 DEF SaveAck
    <2> QED BY <2>1, <2>2
  <1>3. CASE SaveComplete \/ SaveFail
    <2>1. CASE running.t = t
      <3>1. /\ running.read \in Record /\ row[t] # None
            /\ running.read.sender = row[t].sender /\ running.read.receiver = row[t].receiver
            /\ running.read.last = row[t].last /\ running.read.received = row[t].received
        BY <1>3, <2>1, SavedRow DEF SaveComplete, SaveFail, RunningInv
      <3>2. \/ row'[t] = [running.read EXCEPT !.status = "completed", !.completedAt = TRUE]
            \/ row'[t] = [running.read EXCEPT !.status = "failed"]
        BY <1>0, <1>3, <2>1 DEF SaveComplete, SaveFail
      <3>3. 0 \in Chunks
        BY TransferAssumption DEF Chunks
      <3>4. row'[t] \in Record
        BY <3>1, <3>2, <3>3, SavedTypes
      <3>5. /\ row'[t].sender = row[t].sender /\ row'[t].receiver = row[t].receiver
            /\ row'[t].last = row[t].last /\ row'[t].received = row[t].received
        BY <3>1, <3>2 DEF Record
      <3> QED BY <3>1, <3>4, <3>5 DEF SameProgress, Kept
    <2>2. CASE running.t # t
      BY <1>0, <1>3, <2>2 DEF SaveComplete, SaveFail
    <2> QED BY <2>1, <2>2
  <1>4. ASSUME NEW u \in Transfers, MarkFailed(u)
        PROVE  row'[t] = row[t] \/ SameProgress(t)
    <2>1. CASE u = t
      <3>1. row[t] \in Record /\ row[t] # None
        BY <1>0, <1>4, <2>1 DEF MarkFailed
      <3>2. row'[t] = [row[t] EXCEPT !.status = "failed"]
        BY <1>0, <1>4, <2>1 DEF MarkFailed
      <3> QED BY <3>1, <3>2 DEF SameProgress, Kept, Record
    <2>2. CASE u # t
      BY <1>0, <1>4, <2>2 DEF MarkFailed
    <2> QED BY <2>1, <2>2
  <1>5. \/ row' = row
        \/ \E p \in Peers : CreateRecord(p)
        \/ SaveAck \/ SaveComplete \/ SaveFail
        \/ \E u \in Transfers : MarkFailed(u)
    BY DEF Next, vars, Arrive, Depart, VerifyReceiver, CreateFails, Relay, StoreChunk,
           ReadForAck, ReadForComplete, ReadForFail, RequestResume
  <1> QED BY <1>1, <1>2, <1>3, <1>4, <1>5

\* A record stays, with its users, and its progress is not taken back.
LEMMA RowStep ==
    ASSUME TypeOK, RecordInv, RunningInv, [Next]_vars, NEW t \in Transfers, row[t] # None
    PROVE  /\ row'[t] # None
           /\ row'[t].sender = row[t].sender /\ row'[t].receiver = row[t].receiver
           /\ row'[t].last >= row[t].last /\ row'[t].received >= row[t].received
  <1>1. /\ row[t] \in Record /\ row[t].last \in Nat /\ row[t].received \in Nat
        /\ row[t].received <= row[t].last + 1
    BY TransferAssumption DEF TypeOK, Record, Chunks, RecordInv
  <1>2. Chunks \subseteq Nat
    BY DEF Chunks
  <1>3. CASE row'[t] = row[t]
    BY <1>1, <1>3
  <1>4. CASE SameProgress(t)
    BY <1>1, <1>4, NoneAssumption DEF SameProgress, Kept
  <1>5. CASE Advanced(t)
    <2>1. running.chunk \in Nat /\ running.chunk > row[t].last
      BY <1>2, <1>5 DEF Advanced
    <2>2. row'[t] \in Record
      BY <1>5 DEF Advanced, Kept
    <2>3. row'[t] # None
      BY <2>2, NoneAssumption
    <2> QED BY <1>1, <1>5, <2>1, <2>3 DEF Advanced, Kept
  <1>6. ~Created(t)
    BY DEF Created
  <1> QED BY <1>3, <1>4, <1>5, <1>6, RowCases

-----------------------------------------------------------------------------
(* The invariant.                                                          *)

\* The initial states satisfy the invariant.
LEMMA InvInit == Init => TransferInv
  BY DEF Init, TransferInv, RecordInv, RunningInv, HandlerInv, Relaying, OneOffer, ResumeIsSafe

\* Chunks the client has stored stay stored.
LEMMA HaveStep ==
    ASSUME TypeOK, [Next]_vars, NEW t \in Transfers
    PROVE  have[t] \in Nat /\ have'[t] >= have[t]
  <1>1. have \in [Transfers -> Nat]
    BY TransferAssumption DEF TypeOK
  <1>2. ASSUME NEW u \in Transfers, StoreChunk(u)
        PROVE  have'[t] >= have[t]
    BY <1>1, <1>2 DEF StoreChunk
  <1>3. have' = have \/ \E u \in Transfers : StoreChunk(u)
    BY DEF Next, vars, Arrive, Depart, VerifyReceiver, CreateRecord, CreateFails, Relay, ReadForAck,
           ReadForComplete, ReadForFail, RequestResume, SaveAck, SaveComplete, SaveFail, MarkFailed
  <1> QED BY <1>1, <1>2, <1>3

\* Only the relay of a transfer, by the handler that made its record, adds to
\* relayed.
LEMMA RelayedStep ==
    ASSUME TypeOK, [Next]_vars, NEW t \in Transfers, NEW q \in Peers,
           <<t, q>> \in relayed', <<t, q>> \notin relayed
    PROVE  \E p \in Peers : Relay(p) /\ Relaying(p) /\ handler[p].t = t /\ handler[p].target = q
  <1>1. PICK p \in Peers : Relay(p)
    BY DEF Next, vars, Arrive, Depart, VerifyReceiver, CreateRecord, CreateFails, StoreChunk, ReadForAck,
           ReadForComplete, ReadForFail, RequestResume, SaveAck, SaveComplete, SaveFail, MarkFailed
  <1> QED BY <1>1 DEF Relay, Relaying

\* What is stored of the progress is what the client has.
LEMMA RecordStep ==
    ASSUME TypeOK, TransferInv, [Next]_vars
    PROVE  RecordInv'
  <1> USE DEF TransferInv
  <1> SUFFICES ASSUME NEW t \in Transfers
               PROVE  /\ row'[t] # None =>
                            /\ row'[t].last = 0 \/ row'[t].last < have'[t]
                            /\ row'[t].received <= row'[t].last + 1
                      /\ \A p \in Peers : <<t, p>> \in relayed' => row'[t] # None
    BY DEF RecordInv
  <1>1. ASSUME row'[t] # None
        PROVE  /\ row'[t].last = 0 \/ row'[t].last < have'[t]
               /\ row'[t].received <= row'[t].last + 1
    <2>1. have[t] \in Nat /\ have'[t] \in Nat /\ have'[t] >= have[t]
      BY HaveStep, TypeStep DEF TypeOK
    <2>2. CASE row'[t] = row[t] \/ SameProgress(t)
      <3>1. row[t] \in Record /\ row[t].last \in Nat
        BY <1>1, <2>2 DEF TypeOK, Record, Chunks, SameProgress, Kept
      <3> QED BY <1>1, <2>1, <2>2, <3>1 DEF RecordInv, SameProgress, Kept
    <2>3. CASE Advanced(t)
      <3>1. running.chunk < have[t] /\ running.chunk \in Nat
        BY <2>3 DEF Advanced, RunningInv, Chunks
      <3> QED BY <2>1, <2>3, <3>1 DEF Advanced
    <2>4. CASE Created(t)
      BY <2>4 DEF Created
    <2> QED BY <2>2, <2>3, <2>4, RowCases
  <1>2. ASSUME NEW p \in Peers, <<t, p>> \in relayed'
        PROVE  row'[t] # None
    <2>1. row[t] # None
      BY <1>2, RelayedStep DEF RecordInv, HandlerInv
    <2> QED BY <2>1, RowStep
  <1> QED BY <1>1, <1>2

\* A function that runs saves over what it read, but for the status.
LEMMA RunningStep ==
    ASSUME TypeOK, TransferInv, [Next]_vars
    PROVE  RunningInv'
  <1> USE DEF TransferInv
  <1>1. ASSUME running' = running, running # None
        PROVE  RunningInv'
    <2> DEFINE t == running.t
    <2>1. t \in Transfers /\ row[t] # None /\ (running.op = "ack" => running.chunk \in Nat)
      BY <1>1, SavedRow DEF RunningInv, Chunks
    <2>2. ~Advanced(t) /\ ~Created(t)
      BY <1>1, <2>1 DEF Advanced, Created
    <2>3. row'[t] = row[t] \/ SameProgress(t)
      BY <2>1, <2>2, RowCases
    <2>4. /\ row'[t] # None
          /\ row'[t].sender = row[t].sender /\ row'[t].receiver = row[t].receiver
          /\ row'[t].last = row[t].last /\ row'[t].received = row[t].received
      BY <2>1, <2>3, RowStep DEF SameProgress, Kept
    <2>5. have[t] \in Nat /\ have'[t] \in Nat /\ have'[t] >= have[t]
      BY <2>1, HaveStep, TypeStep DEF TypeOK
    <2>6. running.op = "ack" => running.chunk < have'[t]
      BY <1>1, <2>1, <2>5 DEF RunningInv
    <2> QED BY <1>1, <2>4, <2>6 DEF RunningInv
  <1>2. ASSUME NEW p \in Peers, NEW t \in Transfers, NEW i \in Chunks, ReadForAck(p, t, i)
        PROVE  RunningInv'
    <2>1. row[t] # None
      BY <1>2 DEF ReadForAck, RecordInv
    <2> QED BY <1>2, <2>1 DEF ReadForAck, RunningInv
  <1>3. ASSUME NEW p \in Peers, NEW t \in Transfers, ReadForComplete(p, t) \/ ReadForFail(p, t)
        PROVE  RunningInv'
    <2>1. row[t] # None
      BY <1>3 DEF ReadForComplete, ReadForFail, RecordInv
    <2>2. row' = row /\ have' = have
      BY <1>3 DEF ReadForComplete, ReadForFail
    <2>3. \/ running' = [op |-> "complete", t |-> t, read |-> row[t]]
          \/ running' = [op |-> "fail", t |-> t, read |-> row[t]]
      BY <1>3 DEF ReadForComplete, ReadForFail
    <2>4. running'.t = t /\ running'.read = row[t] /\ running'.op # "ack"
      BY <2>3
    <2> QED BY <2>1, <2>2, <2>4 DEF RunningInv
  <1>4. ASSUME running' = None
        PROVE  RunningInv'
    BY <1>4 DEF RunningInv
  <1>5. \/ running' = running \/ running' = None
        \/ \E p \in Peers, t \in Transfers :
              \/ \E i \in Chunks : ReadForAck(p, t, i)
              \/ ReadForComplete(p, t) \/ ReadForFail(p, t)
    BY DEF Next, vars, Arrive, Depart, VerifyReceiver, CreateRecord, CreateFails, Relay, StoreChunk,
           RequestResume, SaveAck, SaveComplete, SaveFail, MarkFailed
  <1> QED BY <1>1, <1>2, <1>3, <1>4, <1>5

\* A handler relays what it relayed before the step, or has just made the
\* record, which nobody had.
LEMMA RelayingStep ==
    ASSUME TypeOK, [Next]_vars, NEW p \in Peers, Relaying(p)'
    PROVE  \/ Relaying(p) /\ handler'[p] = handler[p]
           \/ CreateRecord(p) /\ handler'[p].t = handler[p].t
  <1>0. handler \in [Peers -> Frame \cup {None}]
    BY DEF TypeOK
  <1>1. CASE handler'[p] = handler[p]
    BY <1>1 DEF Relaying
  <1>2. ASSUME NEW q \in Peers, NEW t \in Transfers, NEW u \in Peers, VerifyReceiver(q, t, u)
        PROVE  handler'[p] = handler[p]
    BY <1>0, <1>2 DEF VerifyReceiver, Relaying
  <1>3. ASSUME NEW q \in Peers, CreateRecord(q), q # p
        PROVE  handler'[p] = handler[p]
    BY <1>0, <1>3 DEF CreateRecord
  <1>4. ASSUME CreateRecord(p)
        PROVE  handler'[p].t = handler[p].t
    <2>1. handler[p] \in Frame
      BY <1>0, <1>4 DEF CreateRecord
    <2>2. handler'[p] = [handler[p] EXCEPT !.step = "relay"]
      BY <1>0, <1>4 DEF CreateRecord
    <2> QED BY <2>1, <2>2 DEF Frame
  <1>5. ASSUME NEW q \in Peers, CreateFails(q) \/ Relay(q)
        PROVE  handler'[p] = handler[p]
    BY <1>0, <1>5 DEF CreateFails, Relay, Relaying
  <1>6. \/ handler' = handler
        \/ \E q \in Peers : \/ CreateRecord(q) \/ CreateFails(q) \/ Relay(q)
                            \/ \E t \in Transfers, u \in Peers : VerifyReceiver(q, t, u)
    BY DEF Next, vars, Arrive, Depart, StoreChunk, ReadForAck, ReadForComplete, ReadForFail,
           RequestResume, SaveAck, SaveComplete, SaveFail, MarkFailed
  <1> QED BY <1>1, <1>2, <1>3, <1>4, <1>5, <1>6

\* One handler at a time is about to relay a transfer.
LEMMA HandlerStep ==
    ASSUME TypeOK, TransferInv, [Next]_vars
    PROVE  HandlerInv'
  <1> USE DEF TransferInv
  <1>0. ASSUME NEW p \in Peers, handler[p] # None
        PROVE  handler[p].t \in Transfers
    BY <1>0 DEF TypeOK, Frame
  <1>1. ASSUME NEW p \in Peers, Relaying(p)'
        PROVE  row'[handler'[p].t] # None
    <2>1. CASE Relaying(p) /\ handler'[p] = handler[p]
      BY <1>0, <2>1, RowStep DEF HandlerInv, Relaying
    <2>2. CASE CreateRecord(p) /\ handler'[p].t = handler[p].t
      <3>1. PICK q \in Candidates(p) : row' = [row EXCEPT ![handler[p].t] = NewRecord(p, q)]
        BY <2>2 DEF CreateRecord
      <3>2. NewRecord(p, q) # None
        BY <3>1, NewRecordType, NoneAssumption DEF Candidates, TypeOK
      <3> QED BY <1>0, <2>2, <3>1, <3>2 DEF CreateRecord, TypeOK
    <2> QED BY <1>1, <2>1, <2>2, RelayingStep
  <1>2. ASSUME NEW p \in Peers, NEW q \in Peers, Relaying(p)', Relaying(q)',
               handler'[q].t = handler'[p].t
        PROVE  q = p
    <2>1. ASSUME NEW x \in Peers, NEW y \in Peers, CreateRecord(x), Relaying(y),
                 handler[y].t = handler[x].t
          PROVE  FALSE
      BY <2>1 DEF CreateRecord, HandlerInv
    <2>2. ASSUME CreateRecord(p), CreateRecord(q), p # q
          PROVE  FALSE
      <3>1. handler \in [Peers -> Frame \cup {None}]
        BY DEF TypeOK
      <3>2. handler[q] \in Frame /\ handler[q].step = "create"
        BY <2>2, <3>1 DEF CreateRecord
      <3>3. handler'[q] = handler[q]
        BY <2>2, <3>1 DEF CreateRecord
      <3>4. handler'[q] = [handler[q] EXCEPT !.step = "relay"]
        BY <2>2, <3>1 DEF CreateRecord
      <3>5. handler'[q].step = "relay"
        BY <3>2, <3>4 DEF Frame
      <3> QED BY <3>2, <3>3, <3>5
    <2>3. CASE Relaying(p) /\ handler'[p] = handler[p] /\ Relaying(q) /\ handler'[q] = handler[q]
      BY <1>2, <2>3 DEF HandlerInv
    <2> QED BY <1>2, <2>1, <2>2, <2>3, RelayingStep
  <1> QED BY <1>1, <1>2 DEF HandlerInv

\* A relay is the first of its transfer.
LEMMA OfferStep ==
    ASSUME TypeOK, TransferInv, [Next]_vars
    PROVE  OneOffer'
  <1> USE DEF TransferInv
  <1>1. ASSUME NEW a \in relayed', NEW b \in relayed', a[1] = b[1]
        PROVE  a[2] = b[2]
    <2>1. CASE relayed' = relayed
      BY <1>1, <2>1 DEF OneOffer
    <2>2. ASSUME NEW p \in Peers, Relay(p)
          PROVE  a[2] = b[2]
      <3> DEFINE new == <<handler[p].t, handler[p].target>>
      <3>1. relayed' = relayed \cup {new} /\ new[1] = handler[p].t
        BY <2>2 DEF Relay
      <3>2. ASSUME NEW c \in relayed
            PROVE  c[1] # handler[p].t
        <4>1. c = <<c[1], c[2]>> /\ c[2] \in Peers
          BY <3>2 DEF TypeOK
        <4>2. <<handler[p].t, c[2]>> \notin relayed
          BY <2>2, <4>1 DEF Relay, OneOffer
        <4> QED BY <3>2, <4>1, <4>2
      <3> QED BY <1>1, <3>1, <3>2 DEF OneOffer
    <2>3. relayed' = relayed \/ \E p \in Peers : Relay(p)
      BY DEF Next, vars, Arrive, Depart, VerifyReceiver, CreateRecord, CreateFails, StoreChunk,
             ReadForAck, ReadForComplete, ReadForFail, RequestResume, SaveAck, SaveComplete, SaveFail,
             MarkFailed
    <2> QED BY <2>1, <2>2, <2>3
  <1>2. ASSUME NEW p \in Peers, Relaying(p)'
        PROVE  /\ row'[handler'[p].t].sender = UserOf[p]
               /\ \A q \in Peers : <<handler'[p].t, q>> \notin relayed'
    <2> DEFINE t == handler[p].t
    <2>1. CASE Relaying(p) /\ handler'[p] = handler[p]
      <3>1. t \in Transfers /\ row[t] # None
        BY <2>1 DEF TypeOK, Frame, Relaying, HandlerInv
      <3>2. row'[t].sender = UserOf[p]
        BY <2>1, <3>1, RowStep DEF OneOffer, Relaying
      <3>3. ASSUME NEW q \in Peers, <<t, q>> \in relayed'
            PROVE  FALSE
        <4>1. <<t, q>> \notin relayed
          BY <2>1 DEF OneOffer, Relaying
        <4>2. PICK r \in Peers : Relay(r) /\ Relaying(r) /\ handler[r].t = t
          BY <3>1, <3>3, <4>1, RelayedStep
        <4>3. r = p
          BY <2>1, <4>2 DEF HandlerInv
        <4>4. handler'[p] = None
          BY <4>2, <4>3 DEF Relay, TypeOK
        <4> QED BY <1>2, <4>4 DEF Relaying
      <3> QED BY <2>1, <3>2, <3>3
    <2>2. CASE CreateRecord(p) /\ handler'[p].t = t
      <3>1. t \in Transfers /\ row[t] = None /\ relayed' = relayed
        BY <2>2 DEF CreateRecord, TypeOK, Frame
      <3>2. PICK q \in Candidates(p) : row' = [row EXCEPT ![t] = NewRecord(p, q)]
        BY <2>2 DEF CreateRecord
      <3>3. row'[t].sender = UserOf[p]
        BY <3>1, <3>2 DEF TypeOK, NewRecord
      <3> QED BY <2>2, <3>1, <3>3 DEF RecordInv
    <2> QED BY <1>2, <2>1, <2>2, RelayingStep
  <1> QED BY <1>1, <1>2 DEF OneOffer, Relaying

\* What the sender is told is what the record says, and the client has it.
LEMMA ResumeStep ==
    ASSUME TypeOK, TransferInv, [Next]_vars
    PROVE  ResumeIsSafe'
  <1> USE DEF TransferInv
  <1> SUFFICES ASSUME NEW t \in Transfers, resumeAt'[t] # None
               PROVE  resumeAt'[t] = 0 \/ resumeAt'[t] < have'[t]
    BY DEF ResumeIsSafe
  <1>1. have[t] \in Nat /\ have'[t] \in Nat /\ have'[t] >= have[t]
    BY HaveStep, TypeStep DEF TypeOK
  <1>2. CASE resumeAt'[t] = resumeAt[t]
    <2>1. resumeAt[t] \in Nat
      BY <1>2 DEF TypeOK, Chunks
    <2> QED BY <1>1, <1>2, <2>1 DEF ResumeIsSafe
  <1>3. ASSUME NEW p \in Peers, RequestResume(p, t)
        PROVE  resumeAt'[t] = 0 \/ resumeAt'[t] < have'[t]
    <2>1. resumeAt'[t] = Progress(p, t) /\ have' = have /\ row[t] # None
      BY <1>3 DEF RequestResume, TypeOK, RecordInv
    <2> QED BY <2>1 DEF Progress, RecordInv
  <1>4. ASSUME NEW p \in Peers, NEW u \in Transfers, RequestResume(p, u), u # t
        PROVE  resumeAt'[t] = resumeAt[t]
    BY <1>4 DEF RequestResume, TypeOK
  <1>5. resumeAt' = resumeAt \/ \E p \in Peers, u \in Transfers : RequestResume(p, u)
    BY DEF Next, vars, Arrive, Depart, VerifyReceiver, CreateRecord, CreateFails, Relay, StoreChunk,
           ReadForAck, ReadForComplete, ReadForFail, SaveAck, SaveComplete, SaveFail, MarkFailed
  <1> QED BY <1>2, <1>3, <1>4, <1>5

-----------------------------------------------------------------------------
(* The theorems.                                                           *)

\* TransferCorrect: whatever the clients send, in whatever order the frames
\* of the room and the admin's edits interleave, the record, the functions
\* that run and the handlers agree (TransferInv) and have their types.
THEOREM TransferCorrect == Spec => [](TypeOK /\ TransferInv)
  <1>1. Init => TypeOK /\ TransferInv
    BY TypeInit, InvInit
  <1>2. TypeOK /\ TransferInv /\ [Next]_vars => (TypeOK /\ TransferInv)'
    <2> SUFFICES ASSUME TypeOK, TransferInv, [Next]_vars
                 PROVE  (TypeOK /\ TransferInv)'
      OBVIOUS
    <2>1. TypeOK'
      BY TypeStep DEF TransferInv
    <2>2. TransferInv'
      BY RecordStep, RunningStep, HandlerStep, OfferStep, ResumeStep DEF TransferInv
    <2> QED BY <2>1, <2>2
  <1> QED BY <1>1, <1>2, PTL DEF Spec

\* OneOfferHolds: file_metadata offers a transfer id to one peer, by the user
\* its record names, for any number of clients that use the id at once.
THEOREM OneOfferHolds == Spec => []OneOffer
  <1>1. TransferInv => OneOffer
    BY DEF TransferInv
  <1> QED BY <1>1, TransferCorrect, PTL

\* ResumeIsSafeHolds: request_resume never tells a sender to go on after a
\* chunk the receiver lacks, for files of any length.
THEOREM ResumeIsSafeHolds == Spec => []ResumeIsSafe
  <1>1. TransferInv => ResumeIsSafe
    BY DEF TransferInv
  <1> QED BY <1>1, TransferCorrect, PTL

\* ProgressIsMonotone: no acknowledgement, completion, failure or admin edit
\* takes back the progress of a record.
THEOREM ProgressIsMonotone == Spec => ProgressMonotone
  <1> DEFINE Monotone ==
        \A t \in Transfers : row[t] # None =>
            row'[t] # None /\ row'[t].last >= row[t].last
                           /\ row'[t].received >= row[t].received
  <1>1. TypeOK /\ TransferInv /\ [Next]_vars => [Monotone]_vars
    BY RowStep DEF TransferInv
  <1> QED BY <1>1, TransferCorrect, PTL DEF Spec, ProgressMonotone

\* TypeCorrect: the record and all that handles it stay within their types.
THEOREM TypeCorrect == Spec => []TypeOK
  <1> QED BY TransferCorrect, PTL

-----------------------------------------------------------------------------
(* The count of the chunks.                                                *)

\* Why AckIsCounted holds: the record counts up to its last chunk, or none at
\* all, and the last chunk is no earlier than any that was acknowledged.
CountInv ==
    \A t \in Transfers :
        /\ acked[t] # {} => row[t] # None
        /\ row[t] # None => \/ row[t].received = row[t].last + 1
                            \/ row[t].received = 0 /\ row[t].last = 0
        /\ \A i \in acked[t] : i <= row[t].last

\* Only the save of an acknowledgement processes one.
LEMMA AckedStep ==
    ASSUME [Next]_vars
    PROVE  acked' = acked \/ SaveAck
  BY DEF Next, vars, Arrive, Depart, VerifyReceiver, CreateRecord, CreateFails, Relay, StoreChunk,
         ReadForAck, ReadForComplete, ReadForFail, RequestResume, SaveComplete, SaveFail, MarkFailed

\* Every step keeps the count.
LEMMA CountStep ==
    ASSUME TypeOK, TransferInv, CountInv, [Next]_vars
    PROVE  CountInv'
  <1> SUFFICES ASSUME NEW t \in Transfers
               PROVE  /\ acked'[t] # {} => row'[t] # None
                      /\ row'[t] # None => \/ row'[t].received = row'[t].last + 1
                                           \/ row'[t].received = 0 /\ row'[t].last = 0
                      /\ \A i \in acked'[t] : i <= row'[t].last
    BY DEF CountInv
  <1>1. CASE acked'[t] = acked[t]
    <2>1. /\ acked[t] \subseteq Chunks
          /\ row[t] # None => row[t] \in Record
      BY DEF TypeOK
    <2>2. CASE row'[t] = row[t]
      BY <1>1, <2>2 DEF CountInv
    <2>3. CASE SameProgress(t)
      BY <1>1, <2>3, NoneAssumption DEF CountInv, SameProgress, Kept
    <2>4. CASE Advanced(t)
      <3>1. \A i \in acked[t] : i <= row[t].last /\ i \in Nat
        BY <2>1, TransferAssumption DEF CountInv, Chunks
      <3>2. row[t].last \in Nat /\ running.chunk \in Nat
        BY <2>1, <2>4, TransferAssumption DEF Advanced, Kept, Record, Chunks
      <3> QED BY <1>1, <2>4, <3>1, <3>2, NoneAssumption DEF Advanced, Kept
    <2>5. CASE Created(t)
      BY <1>1, <2>5, NoneAssumption DEF CountInv, Created
    <2> QED BY <2>2, <2>3, <2>4, <2>5, RowCases DEF TransferInv
  <1>2. CASE SaveAck
    <2>1. /\ running.t \in Transfers /\ running.chunk \in Chunks /\ running.read \in Record
          /\ row[running.t] \in Record /\ row[running.t].last = running.read.last
      BY <1>2, SavedRow DEF TransferInv, RunningInv, SaveAck
    <2>2. CASE t # running.t
      BY <1>1, <1>2, <2>1, <2>2 DEF SaveAck, TypeOK, CountInv
    <2>3. CASE t = running.t
      <3>1. acked'[t] = acked[t] \cup {running.chunk}
        BY <1>2, <2>3 DEF SaveAck, TypeOK
      <3>2. /\ running.chunk \in Nat /\ row[t].last \in Nat
            /\ \A i \in acked[t] : i \in Nat /\ i <= row[t].last
        BY <2>1, <2>3, TransferAssumption DEF TypeOK, CountInv, Chunks, Record
      <3>3. CASE running.chunk > running.read.last
        <4>1. row'[t] = [running.read EXCEPT !.last = running.chunk,
                                             !.received = running.chunk + 1]
          BY <1>2, <2>3, <3>3 DEF SaveAck, TypeOK
        <4>2. row'[t].last = running.chunk /\ row'[t].received = running.chunk + 1
          BY <2>1, <4>1 DEF Record
        <4>3. row'[t] # None
          <5>1. running.chunk + 1 \in 0 .. ChunkCount
            BY <2>1, TransferAssumption DEF Chunks
          <5>2. row'[t] \in Record
            BY <2>1, <4>1, <5>1 DEF Record
          <5> QED BY <5>2, NoneAssumption
        <4>4. running.chunk > row[t].last
          BY <2>1, <2>3, <3>3
        <4>5. \A i \in acked'[t] : i <= row'[t].last
          BY <3>1, <3>2, <4>2, <4>4
        <4> QED BY <4>2, <4>3, <4>5
      <3>4. CASE ~(running.chunk > running.read.last)
        <4>1. row'[t] = row[t]
          BY <1>2, <3>4 DEF SaveAck
        <4>2. row[t] # None
          BY <2>1, <2>3, NoneAssumption
        <4>3. running.chunk <= row[t].last
          BY <2>1, <2>3, <3>2, <3>4
        <4>4. \A i \in acked'[t] : i <= row'[t].last
          BY <3>1, <3>2, <4>1, <4>3
        <4> QED BY <4>1, <4>2, <4>4 DEF CountInv
      <3> QED BY <3>3, <3>4
    <2> QED BY <2>2, <2>3
  <1> QED BY <1>1, <1>2, AckedStep

\* AckIsCountedHolds: for any file length and any order of acknowledgements, a
\* chunk other than the first that was acknowledged is counted for good.
THEOREM AckIsCountedHolds == Spec => []AckIsCounted
  <1>1. Init => CountInv
    BY DEF Init, CountInv
  <1>2. TypeOK /\ TransferInv /\ CountInv /\ [Next]_vars => CountInv'
    BY CountStep
  <1>3. TypeOK /\ CountInv => AckIsCounted
    <2> SUFFICES ASSUME TypeOK, CountInv, NEW t \in Transfers, NEW i \in acked[t] \ {0}
                 PROVE  row[t].received > i
      BY DEF AckIsCounted
    <2>1. row[t] # None /\ row[t] \in Record /\ i \in Nat /\ i <= row[t].last
      BY TransferAssumption DEF TypeOK, CountInv, Chunks
    <2>2. row[t].last \in Nat
      BY <2>1, TransferAssumption DEF Record, Chunks
    <2> QED BY <2>1, <2>2 DEF CountInv
  <1> QED BY <1>1, <1>2, <1>3, TransferCorrect, PTL DEF Spec

-----------------------------------------------------------------------------
(* The delivery of a file.                                                 *)

\* A step that counts a chunk is the save of its acknowledgement.
LEMMA AdvancedIsAck ==
    ASSUME [Next]_vars, NEW t \in Transfers, Advanced(t)
    PROVE  SaveAck
  BY DEF Advanced, Next, vars, Arrive, Depart, VerifyReceiver, CreateRecord, CreateFails, Relay,
         StoreChunk, ReadForAck, ReadForComplete, ReadForFail, RequestResume, SaveComplete,
         SaveFail, MarkFailed

\* What is known of a file changes when a chunk is counted, and then to the
\* chunk's number.
LEMMA KnownStep ==
    ASSUME TypeOK, TransferInv, [Next]_vars, NEW t \in Transfers
    PROVE  IF Advanced(t) THEN Known(t)' = running.chunk + 1 ELSE Known(t)' = Known(t)
  <1>1. CASE row'[t] = row[t]
    <2>1. ~Advanced(t)
      <3> SUFFICES ASSUME Advanced(t) PROVE FALSE
        OBVIOUS
      <3>1. row[t] \in Record /\ row[t].last \in Nat /\ running.chunk \in Nat
        BY <1>1 DEF Advanced, Kept, Record, Chunks
      <3> QED BY <1>1, <3>1 DEF Advanced
    <2> QED BY <1>1, <2>1 DEF Known
  <1>2. CASE SameProgress(t)
    <2>1. ~Advanced(t)
      <3> SUFFICES ASSUME Advanced(t) PROVE FALSE
        OBVIOUS
      <3>1. row[t] \in Record /\ row[t].last \in Nat /\ running.chunk \in Nat
        BY DEF Advanced, Kept, TypeOK, Record, Chunks
      <3> QED BY <1>2, <3>1 DEF Advanced, SameProgress
    <2>2. row[t] # None /\ row'[t] # None /\ row'[t].received = row[t].received
      BY <1>2, NoneAssumption DEF SameProgress, Kept
    <2> QED BY <2>1, <2>2 DEF Known
  <1>3. CASE Advanced(t)
    BY <1>3, NoneAssumption DEF Advanced, Kept, Known
  <1>4. CASE Created(t)
    BY <1>4, NoneAssumption DEF Created, Advanced, Kept, Known
  <1> QED BY <1>1, <1>2, <1>3, <1>4, RowCases DEF TransferInv

\* Every step of the record is a step of the delivery, or none.
LEMMA DeliveryStep ==
    ASSUME TypeOK, TransferInv, CountInv, [Next]_vars
    PROVE  [File!Next]_(File!deliveryVars)
  <1> USE DEF TransferInv
  <1> DEFINE known == [t \in Transfers |-> Known(t)]
  \* Without an acknowledgement to save, nothing new is known.
  <1>a. ASSUME ~SaveAck
        PROVE  known' = known
    <2>1. \A t \in Transfers : Known(t)' = Known(t)
      BY <1>a, AdvancedIsAck, KnownStep
    <2> QED BY <2>1
  <1>b. ASSUME UNCHANGED <<relayed, have, resumeAt>>, ~SaveAck
        PROVE  UNCHANGED File!deliveryVars
    BY <1>a, <1>b DEF File!deliveryVars
  <1>1. ASSUME NEW p \in Peers, Relay(p)
        PROVE  File!Next
    <2> DEFINE t == handler[p].t
               target == handler[p].target
    <2>1. t \in Transfers /\ target \in Peers /\ Relaying(p)
      BY <1>1 DEF Relay, Relaying, TypeOK, Frame
    <2>2. \A q \in Peers : <<t, q>> \notin relayed
      BY <2>1 DEF OneOffer, Relaying
    <2>3. ~SaveAck
      BY <1>1, <2>1 DEF Relay, SaveAck, Relaying, TypeOK, Frame
    <2>4. File!Offer(t, target)
      BY <1>1, <1>a, <2>2, <2>3 DEF Relay, File!Offer
    <2> HIDE DEF t, target
    <2> QED BY <2>1, <2>4 DEF File!Next
  <1>2. ASSUME NEW t \in Transfers, StoreChunk(t)
        PROVE  File!Next
    <2>1. ~SaveAck
      BY <1>2 DEF StoreChunk, SaveAck
    <2>2. File!Keep(t)
      BY <1>2, <1>a, <2>1 DEF StoreChunk, File!Keep
    <2> QED BY <2>2 DEF File!Next
  \* The last chunk of a record with a count of n is n - 1.
  <1>3. ASSUME NEW p \in Peers, NEW t \in Transfers, RequestResume(p, t)
        PROVE  File!Next
    <2>1. ~SaveAck
      BY <1>3 DEF RequestResume, SaveAck
    <2>2. row[t] # None /\ row[t] \in Record
      BY <1>3 DEF RequestResume, RecordInv, TypeOK
    <2>3. row[t].last \in 0 .. ChunkCount /\ 0 \in 0 .. ChunkCount
      BY <2>2, TransferAssumption DEF Record, Chunks
    <2>4. row[t].last = 0 \/ row[t].last + 1 = Known(t)
      BY <2>2 DEF CountInv, Known
    <2>5. /\ Progress(p, t) \in 0 .. ChunkCount
          /\ Progress(p, t) = 0 \/ Progress(p, t) + 1 = known[t]
      BY <2>3, <2>4 DEF Progress
    <2>6. File!Resume(t)
      BY <1>3, <1>a, <2>1, <2>5 DEF RequestResume, File!Resume
    <2> QED BY <2>6 DEF File!Next
  <1>4. CASE SaveAck
    <2>0. PICK t \in Transfers : t = running.t
      BY <1>4, SavedRow DEF SaveAck
    <2>n. PICK n \in Nat : n = running.chunk + 1
      BY <1>4, SavedRow DEF SaveAck, Chunks
    <2>1. UNCHANGED <<relayed, have, resumeAt>> /\ running.chunk \in Nat
      BY <1>4, SavedRow DEF SaveAck, Chunks
    <2>2. \A u \in Transfers \ {t} : Known(u)' = Known(u)
      BY <2>0, KnownStep DEF Advanced
    <2>3. CASE Advanced(t)
      <3>1. Known(t)' = n
        BY <2>n, <2>3, KnownStep
      <3>2. n \in Known(t) + 1 .. have[t]
        <4>1. row[t] # None /\ row[t] \in Record /\ row[t].last < running.chunk
          BY <2>1, <2>3 DEF Advanced, Kept, TypeOK
        <4>2. row[t].last \in Nat /\ row[t].received \in Nat /\ have[t] \in Nat
          BY <2>1, <4>1, HaveStep, TransferAssumption DEF Record, Chunks
        <4>3. row[t].received <= row[t].last + 1 /\ running.chunk < have[t]
          BY <1>4, <2>0, <4>1 DEF RecordInv, RunningInv, SaveAck
        <4> QED BY <2>1, <2>n, <4>1, <4>2, <4>3 DEF Known
      <3>3. known' = [known EXCEPT ![t] = n]
        BY <2>2, <3>1
      <3>4. File!Learn(t)
        BY <2>1, <3>2, <3>3 DEF File!Learn
      <3> QED BY <3>4 DEF File!Next
    <2>4. CASE ~Advanced(t)
      <3>1. \A u \in Transfers : Known(u)' = Known(u)
        BY <2>1, <2>2, <2>4, KnownStep
      <3>2. known' = known
        BY <3>1
      <3> QED BY <2>1, <3>2 DEF File!deliveryVars
    <2> QED BY <2>3, <2>4
  <1>5. CASE SaveComplete \/ SaveFail
    <2>1. ~SaveAck
      BY <1>5 DEF SaveComplete, SaveFail, SaveAck
    <2> QED BY <1>5, <1>b, <2>1 DEF SaveComplete, SaveFail
  <1>6. ASSUME NEW p \in Peers,
               \/ Arrive(p) \/ Depart(p) \/ CreateRecord(p) \/ CreateFails(p)
               \/ \E t \in Transfers, q \in Peers \ {p} : VerifyReceiver(p, t, q)
               \/ \E t \in Transfers, i \in Chunks : ReadForAck(p, t, i)
               \/ \E t \in Transfers : ReadForComplete(p, t) \/ ReadForFail(p, t)
        PROVE  UNCHANGED File!deliveryVars
    <2>1. UNCHANGED <<relayed, have, resumeAt>> /\ running = None
      BY <1>6 DEF Arrive, Depart, CreateRecord, CreateFails, VerifyReceiver, ReadForAck,
                  ReadForComplete, ReadForFail
    <2> QED BY <1>b, <2>1 DEF SaveAck
  <1>7. ASSUME NEW t \in Transfers, MarkFailed(t)
        PROVE  [File!Next]_(File!deliveryVars)
    <2>1. UNCHANGED <<relayed, have, resumeAt>>
      BY <1>7 DEF MarkFailed
    <2> QED BY <1>b, <1>4, <2>1
  <1>8. CASE UNCHANGED vars
    <2>1. ~SaveAck
      BY <1>8 DEF vars, SaveAck
    <2> QED BY <1>8, <1>b, <2>1 DEF vars
  <1> QED BY <1>1, <1>2, <1>3, <1>4, <1>5, <1>6, <1>7, <1>8 DEF Next

\* Delivers: the server's record implements the delivery of files, for any
\* number of them, of any length, and any order of acknowledgements.
THEOREM Delivers == Spec => DeliverySpec
  <1>1. Init => File!Init /\ CountInv
    BY DEF Init, File!Init, Known, CountInv
  <1>2. TypeOK /\ TransferInv /\ CountInv /\ [Next]_vars => CountInv'
    BY CountStep
  <1>3. TypeOK /\ TransferInv /\ CountInv /\ [Next]_vars => [File!Next]_(File!deliveryVars)
    BY DeliveryStep
  <1> QED BY <1>1, <1>2, <1>3, TransferCorrect, PTL DEF Spec, DeliverySpec, File!Spec

-----------------------------------------------------------------------------
(* The receiver of a record and the peer its file was offered to.          *)

\* What has come of a transfer's progress, or is about to, came of a peer of the
\* record's receiver that the file was offered to.
Progressed(t) ==
    \/ row[t] # None /\ row[t].received > 0
    \/ resumeAt[t] \notin {None, 0}
    \/ running # None /\ running.op = "ack" /\ running.t = t

OfferedToReceiver(t) ==
    \E p \in Peers : <<t, p>> \in relayed /\ row[t].receiver = UserOf[p]

OwnInv == \A t \in Transfers : Progressed(t) => OfferedToReceiver(t)

\* What is new of a transfer's progress is an acknowledgement that was running,
\* or is asked for by such a peer.
LEMMA ProgressStep ==
    ASSUME TypeOK, TransferInv, [Next]_vars, NEW t \in Transfers, Progressed(t)'
    PROVE  Progressed(t) \/ OfferedToReceiver(t)
  <1> USE DEF TransferInv
  <1>1. CASE row'[t] # None /\ row'[t].received > 0
    <2>1. CASE row'[t] = row[t]
      BY <1>1, <2>1 DEF Progressed
    <2>2. CASE SameProgress(t)
      BY <1>1, <2>2 DEF SameProgress, Kept, Progressed
    <2>3. CASE Advanced(t)
      BY <2>3 DEF Advanced, Progressed
    <2>4. ~Created(t)
      BY <1>1 DEF Created
    <2> QED BY <2>1, <2>2, <2>3, <2>4, RowCases
  <1>2. CASE resumeAt'[t] \notin {None, 0}
    <2>1. ASSUME NEW p \in Peers, NEW u \in Transfers, RequestResume(p, u)
          PROVE  Progressed(t) \/ OfferedToReceiver(t)
      <3>1. CASE u = t
        <4>1. Progress(p, t) # 0 /\ <<t, p>> \in relayed
          BY <1>2, <2>1, <3>1 DEF RequestResume, TypeOK
        <4> QED BY <4>1 DEF Progress, OfferedToReceiver
      <3>2. CASE u # t
        BY <1>2, <2>1, <3>2 DEF RequestResume, TypeOK, Progressed
      <3> QED BY <3>1, <3>2
    <2>2. CASE resumeAt' = resumeAt
      BY <1>2, <2>2 DEF Progressed
    <2>3. resumeAt' = resumeAt \/ \E p \in Peers, u \in Transfers : RequestResume(p, u)
      BY DEF Next, vars, Arrive, Depart, VerifyReceiver, CreateRecord, CreateFails, Relay,
             StoreChunk, ReadForAck, ReadForComplete, ReadForFail, SaveAck, SaveComplete,
             SaveFail, MarkFailed
    <2> QED BY <2>1, <2>2, <2>3
  <1>3. CASE running' # None /\ running'.op = "ack" /\ running'.t = t
    <2>1. ASSUME NEW p \in Peers, NEW u \in Transfers, NEW i \in Chunks, ReadForAck(p, u, i)
          PROVE  OfferedToReceiver(t)
      BY <1>3, <2>1 DEF ReadForAck, OfferedToReceiver
    <2>2. ASSUME NEW p \in Peers, NEW u \in Transfers,
                 ReadForComplete(p, u) \/ ReadForFail(p, u)
          PROVE  FALSE
      BY <1>3, <2>2 DEF ReadForComplete, ReadForFail
    <2>3. CASE running' = running
      BY <1>3, <2>3 DEF Progressed
    <2>4. CASE running' = None
      BY <1>3, <2>4
    <2>5. \/ running' = running \/ running' = None
          \/ \E p \in Peers, u \in Transfers :
                \/ \E i \in Chunks : ReadForAck(p, u, i)
                \/ ReadForComplete(p, u) \/ ReadForFail(p, u)
      BY DEF Next, vars, Arrive, Depart, VerifyReceiver, CreateRecord, CreateFails, Relay,
             StoreChunk, RequestResume, SaveAck, SaveComplete, SaveFail, MarkFailed
    <2> QED BY <2>1, <2>2, <2>3, <2>4, <2>5
  <1> QED BY <1>1, <1>2, <1>3 DEF Progressed

\* An offer to the receiver of a record stays one.
LEMMA OfferStays ==
    ASSUME TypeOK, TransferInv, [Next]_vars, NEW t \in Transfers, NEW p \in Peers,
           <<t, p>> \in relayed, row[t].receiver = UserOf[p]
    PROVE  <<t, p>> \in relayed' /\ row'[t].receiver = UserOf[p]
  <1> USE DEF TransferInv
  <1>1. row[t] # None
    BY DEF RecordInv
  <1>2. row'[t].receiver = row[t].receiver
    BY <1>1, RowStep
  <1>3. relayed \subseteq relayed'
    BY DEF Next, vars, Arrive, Depart, VerifyReceiver, CreateRecord, CreateFails, Relay,
           StoreChunk, ReadForAck, ReadForComplete, ReadForFail, RequestResume, SaveAck,
           SaveComplete, SaveFail, MarkFailed
  <1> QED BY <1>2, <1>3

\* ProgressIsReceiversHolds: in a room of any peers and users, a record whose
\* receiver is not the user its file was offered to counts no chunk, and a
\* resume request is answered with 0.
THEOREM ProgressIsReceiversHolds == Spec => []ProgressIsReceivers
  <1>1. Init => OwnInv
    BY DEF Init, OwnInv, Progressed
  <1>2. TypeOK /\ TransferInv /\ OwnInv /\ [Next]_vars => OwnInv'
    <2> SUFFICES ASSUME TypeOK, TransferInv, OwnInv, [Next]_vars,
                        NEW t \in Transfers, Progressed(t)'
                 PROVE  \E p \in Peers : <<t, p>> \in relayed' /\ row'[t].receiver = UserOf[p]
      BY DEF OwnInv, OfferedToReceiver
    <2>1. OfferedToReceiver(t)
      BY ProgressStep DEF OwnInv
    <2>2. PICK p \in Peers : <<t, p>> \in relayed /\ row[t].receiver = UserOf[p]
      BY <2>1 DEF OfferedToReceiver
    <2> QED BY <2>2, OfferStays
  <1>3. TypeOK /\ TransferInv /\ OwnInv => ProgressIsReceivers
    <2> SUFFICES ASSUME TypeOK, TransferInv, OwnInv, NEW t \in Transfers, NEW p \in Peers,
                        <<t, p>> \in relayed, row[t].receiver # UserOf[p]
                 PROVE  row[t].received = 0 /\ resumeAt[t] \in {None, 0}
      BY DEF ProgressIsReceivers
    <2>1. ~OfferedToReceiver(t)
      <3> SUFFICES ASSUME NEW q \in Peers, <<t, q>> \in relayed, row[t].receiver = UserOf[q]
                   PROVE  FALSE
        BY DEF OfferedToReceiver
      <3>1. <<t, p>>[2] = <<t, q>>[2]
        BY DEF TransferInv, OneOffer
      <3> QED BY <3>1
    <2>2. ~Progressed(t)
      BY <2>1 DEF OwnInv
    <2>3. row[t] # None /\ row[t].received \in Nat
      BY TransferAssumption DEF TransferInv, RecordInv, TypeOK, Record
    <2> QED BY <2>2, <2>3 DEF Progressed
  <1> QED BY <1>1, <1>2, <1>3, TransferCorrect, PTL DEF Spec
=============================================================================
