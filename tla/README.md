# SecuredVault: a TLA+ development

SecuredVault is a Django server for an encrypted file vault and for peer-to-peer
transfers signalled over WebSockets. This directory holds TLA+ modules for the
parts of it whose correctness depends on the order of events: who is in a room
and what is transferred there, the files and their share links, the password
with the tokens and devices that hang on it, the mailed codes, the block of an
account and the tracking that leads to one. `PROJECT.json` lists the components,
the TLC runs, the source lines each definition stands for, the hazards and the
theorems.

Check a module with `tlc -config <cfg> <module>`, prove a `...Proofs` module with
`tlapm <module>.tla`. A configuration is named after its module and its run, and
`PROJECT.json` pairs it with the `MC...` module it belongs to.

## The system

Paths are below `src/Securevaultapi/api`.

| component | state | operations | what is hard | what makes it correct | module |
|---|---|---|---|---|---|
| Signalling consumer (`consumers.py`), presence | `Peer` rows, room group, one channel per socket, `self.peer_id` | connect, authenticate, join, leave, disconnect; `peer_joined`, `peer_left` | every handler awaits between reading rows, writing rows and broadcasting; channels overflow and expire; processes die | joined clients find each other; departed peers disappear | `Signaling`, `Presence` |
| Room join over REST (`views.py`) | `Room`, `Peer` | join | check, then write | no more than `max_peers` | `Signaling` |
| Transfer record (`consumers.py`, `admin.py`) | `FileTransfer` | metadata, chunk ack, resume, complete, error; admin mark_failed | late and repeated frames, whole-row saves, a receiver chosen by the database | an id is offered once; progress never goes back; a resume skips nothing | `Transfer`, `Delivery` |
| Account block (`security_actions.py`, `middleware/location_tracking.py`) | block columns of the user, Redis `user_blocked_<id>`, attempts | check before a request, rules after it, clear when expired, admin unlock | database and cache written in two steps, from stale copies of the user | a block holds until it expires or is lifted; the limit cannot be evaded | `AccountBlock` |
| Tracking (`middleware/location_tracking.py`, `tasks.py`) | `UserLocation` with coordinates, activity log, `risk_score`, cooldown keys | track a request, a login, a task; apply a rule; alert; reset or save the score | parallel requests from two places; lookups and a queue that fail; stale saves | far places in use are noticed; silence follows an alert; the score counts the log | `Threat` |
| Vault and share links (`views.py`, `utils.py`) | files on disk and rows, access logs, `is_used` | upload, view, download, delete, share, view shared | disk and row in two steps; one-time use checked early and recorded late; row locks | a listed file is there; the owner's reads are logged; a link is used up | `Vault`, `VaultStore` |
| Password, tokens, devices, keys (`views.py`, `serializers.py`, `authentication.py`) | the user's row, blacklist, `DeviceInfo`, `DeviceVerification` | login, verify device, change, reset, logout, profile, keys | a change in five statements; whole-row saves of stale copies; whole seconds against microseconds | an old token and an old device go with the old password | `Sessions` |
| Codes (`views.py`, `serializers.py`) | the registration in Redis and its picture, two code columns with one time | register, resend, verify; forgot, reset, change | copies of the entry and of the row saved later; one time for two codes | an account is what its code was mailed for; a code dies with its use and its time | `Codes` |

Components interact through the database (rows of users, peers, transfers,
things), the Redis cache, the channel layer (group broadcasts), the disk and
Celery (mails and one task). Four modules have a view of the user's row, each
of the columns its operations are about: `AccountBlock` the block,
`Sessions` password and keys, `Codes` the codes, `Threat` the risk score. Where
a view saves the whole row, every one of the modules concerned has that save as
an action. `tests.py` is empty, so nothing below is tested.

`requests` in the modules of the views are request handlers in progress: a
worker runs one at a time and is interrupted at each call of the database, of
Redis, of the disk or of the queue. Outside `transaction.atomic` each statement
commits by itself. Each model allows two at a time in the runs and any number in
the proofs.

## Status and plan

1. `Signaling`, `Presence`, `SignalingProofs`: presence, and the room without
   channels that it implements. Done.
2. `Transfer`, `Delivery`, `TransferProofs`: the record of a transfer, and the
   delivery of files that it implements. Done.
3. `AccountBlock`, `AccountBlockProofs`: database and cache of a block. Done.
4. `Vault`, `VaultStore`, `VaultProofs`: files, images, links, and the abstract
   store they implement. Done.
5. `Sessions`, `SessionsProofs`: password, tokens, devices, keys. Done.
6. `Codes`, `CodesProofs`: registration and the codes of the account. Done.
7. `Threat`, `ThreatProofs`: tracking, alerts, risk score. Done.
8. Open: abstract specifications of `AccountBlock`, `Sessions` and `Codes`,
   where the exceptions the code forces leave something simple to say; theorems
   of the conditions under which the four disagreements do not arise; the relay
   of offers, if the code should come to promise something of it.

Twelve runs: one passing run a module (two of `Signaling`), and one for each
disagreement between the code and what it says of itself.

## Signaling

Maps to `SignalingConsumer` and `RoomJoinView`. `pc[c]` names the await at which
the consumer of connection `c` is suspended; an action runs from one database
call or `group_send` to the next.

| state | code |
|---|---|
| `peerId[c]` | `self.peer_id` |
| `group`, `queue` | the room's group, the channel of each socket |
| `online` | `Peer` rows with `is_connected` and `is_authenticated`. The code changes the two flags together, so one set stands for both |
| `joining` | REST joins between the count and the write |
| `view`, `listed` | what the client has been sent: `peer-joined`, `peer-left`, the list of `handle_join` |
| `announced`, `lost`, `orphan` | history, read by no guard: how the last announcement stands, which events a client missed, whose consumer died |

`Broadcast` is `group_send` of channels_redis: it appends to every member's
channel, the sender's included, and drops the event where the channel is full.
`Expire` discards an event that waited too long. Both come from how the code
uses the layer and from `CHANNEL_LAYERS` in the settings, and are marked
external.

A refused connection (anonymous, blocked) leaves nothing behind and is no
action. A crash (`Crash`) is the death of the server process: `disconnect` does
not run, so the row stays connected. Database errors are `AuthenticateFails` and
`JoinListFails`; an update that fails in `disconnect` is not distinguished from
a crash.

Two assumptions about the server: `group_send` reads the group and writes the
channels at one instant, and the consumers' database functions do not overlap
(`database_sync_to_async` runs them in one thread).

### Runs

Both use two connections and two peer ids. Both ends of every handshake are
between a pair of clients, and a property below names a pair, so a third client
adds only further readers of the same broadcasts; the proofs cover any number.
Channels hold one event, so that they overflow at once; that a channel can hold
a leave and a join together is left to the proofs, which hold for any capacity.

- `faults`: every fault: overflow, expiry, database errors, crashes, and REST
  joins in a room of one.
- `live`: `EventuallySeen` and `EventuallyGone` under `FairSpec`, with crashes,
  overflow and expiry; `TypeOK`, `PresenceInv` and `RoomSpec` on the way, as they
  are proved. Database errors and REST joins are left to `faults` and, for
  `RoomSpec`, to the proof, which covers every fault.

`Discovery` says that a joined client sees every authenticated, joined peer or
holds its `peer_joined` in its channel, with no later `peer_left`. It depends on
three orders in the code: the channel enters the group before the client can
join, the list is read before the own broadcast, and the row is written before
either. `NoStalePeer` is the other direction. It depends on `disconnect` and
`leave` writing the row before they broadcast. Both speak of clients that keep
to one peer id each (`DistinctPeers`).

Where an event was lost the properties ask nothing of that reader until the
event is made up for. A list makes up for a lost `peer_joined`, except where an
older `peer_left` is still waiting: in that case reading it hides the peer, and
the code has no later correction.

### The room without channels

`Presence` is what the room promises: an announcement reaches everybody in the
room at one moment, however slowly each client reads. `Signaling` implements it
(`RoomSpec`) with `members` the group, `present` the connected rows, `missed` the
lost news, and `told[c]` the view client `c` will have when it has read its
channel (`Told`).

- Reading an event is no step of the room: what it tells was told when the event
  was appended. This is where the order within a channel matters, and that the
  handler of an event changes the view and nothing else.
- `Broadcast` is one step for all members; those whose channel is full are `deaf`
  and marked. `Expire` is `Lose`, which undoes no more than the news it drops.
- `Join` is `List`: everybody present but the client itself is told, except those
  `hidden` by an older `peer_left` that the client has yet to read.
- Rows change by themselves (`Appear`, `Vanish`), before the announcement and
  after it: presence and what is told of it are separate, as in the code.

### Fairness

`FairSpec` assumes weak fairness of `Proceed(c)`, which is the event loop
resuming a suspended handler, and strong fairness of `HandleEvent(c)`. The
consumer waits for the socket and the channel together and hands on whichever is
ready in turn, so a client that keeps sending frames cannot keep its channel
from being read; because each frame takes `HandleEvent` out of enabledness while
its handler is suspended, weak fairness would not say so. Nothing is assumed of
clients, crashes, REST requests or the layer's losses.

### Proofs

`SignalingProofs` proves, for any finite or infinite set of connections and
peers, any capacity and any set of faults:

- `TypeCorrect`: `TypeOK`, with each `peerId[c]` in the ids the client may use;
- `PresenceHolds`, `DiscoveryHolds`, `NoStalePeerHolds`: `Spec => []...` under
  `DistinctPeers`;
- `Implements`: `Spec => RoomSpec`, whether or not clients keep to peer ids of
  their own.

`Discovery` is not inductive: a client that has not joined yet is told by the
list, which is worth nothing if an older `peer_left` for the same peer is still
waiting in its channel. `DiscoveryInv` therefore speaks of clients in the group
whether or not they have joined. `Bookkeeping` adds what is known of closed
consumers and of who sends what. The step is proved one action at a time from
four lemmas about channels: what appending an unrelated event, a join or a leave
does to a channel, and what removing its head does; `BroadcastEffect` lifts them
to `group_send`. The constants' assumption is `ConstantsAssumption`.

The refinement needs of the invariants only the types and that a consumer which
may still be told anything is in the group (`MemberInv`). `ToldKept`,
`ToldByBroadcast`, `ToldByReading` and `ToldByLoss` say what each change of a
channel does to what its client will have been told, and `RoomStep` maps each
action.

## Transfer

Maps to the transfer handlers of `SignalingConsumer` and the admin's
`mark_failed`. `handler[p]` is the `file_metadata` frame being handled between
the check of the receiver, the creation of the record and the relay. `running`
is a function between its read and its save of a record; the consumers'
functions run one at a time, so it is one variable, and only the admin's UPDATE
comes between. `have` is the receiving client, which acknowledges what it has
stored; the client is not part of the repository and is marked external.
`acked` is history.

The record is the one `create_file_transfer` makes. Its receiver is the user of
the first row in the order of random primary keys, which is any of the
`Candidates`, whichever peer the frame named.

`room` has three users, so that a record can name another than the one its file
is offered to, three chunks (the fewest for an acknowledgement that is neither
the first nor the last) and one id used by all. Transfers share nothing but the
thread, so one id is enough. `TransferInv` is checked as it is proved.

In a room of three the record and the relay may disagree. `ProgressIsReceivers`
says how far that goes: the acknowledgements of the peer who has the file find
no record of theirs, so nothing is counted and a resume starts from the first
chunk; nobody's progress passes for somebody else's. It needs the
acknowledgement and the resume request to look the record up by its receiver,
which the completion and the failure do not.

The admin's change form of a transfer (`admin.py:466`) is not modelled. Its
progress columns can be edited by hand, and its save writes the whole row, so an
administrator who uses it can break `AckIsCounted` and `ProgressMonotone`.

`Delivery` is the record as its two clients can tell of it: an offer, chunks that
are kept, a count of them that only grows (`known`, which is `received` of the
record), and a resume that goes on after the last chunk counted, or from the
start. `Transfer` implements it (`DeliverySpec`). Reads, status changes, the
admin's edits and acknowledgements that come too late are no steps of it; the
save of any function, whatever it read and when, is no step either or counts a
later chunk.

`ResumeIsSafe` and `AckIsCounted` are the two sides of the record: it claims no
chunk the receiver lacks, and forgets none it has acknowledged, the first
excepted, whose index 0 the code cannot tell from no chunk at all.

### Proofs

`TransferProofs` proves, for any peers, users, transfer ids and chunk count, from
`TransferAssumption` and `NoneAssumption` (`None` is neither a record, a frame
nor a function):

- `TransferCorrect`: `TypeOK` and `TransferInv`; from it `TypeCorrect`,
  `OneOfferHolds`, `ResumeIsSafeHolds` and `ProgressIsMonotone`;
- `AckIsCountedHolds`, with `CountInv` added: what a function read is what it
  will save over, so nothing acknowledged since is lost;
- `Delivers`: `Spec => DeliverySpec`, from the two invariants;
- `ProgressIsReceiversHolds`, with `OwnInv` added: what has been counted of a
  transfer, told in a resume or is about to be saved came of a peer of the
  record's receiver that the file was offered to. Since a file is offered once
  (`OneOffer`), there is no such peer where the offer went to another user.

`ResumeIsSafe` needs what the record says of the client's chunks (`RecordInv`),
and that in turn that a function saves over the progress it read
(`RunningInv`): the admin's write comes between, but leaves those columns alone.
`OneOffer` needs that of two handlers of one id the one that made the record is
the only one to relay (`HandlerInv`). `RowCases` says once what any step can do
to a record (nothing, change its status, advance it, create it), `RelayedStep`,
`RelayingStep` and `HaveStep` the same of the other variables; the steps of the
invariant's parts follow from these rather than from the actions.

## AccountBlock

Maps to `security_actions.py`, the check of `SecurityMiddleware`, the login view
and the admin's `unlock_accounts`. A request has its own copy of the user
(`user`) and a position (`at`) that names its next database or Redis call.
`until` is the row, `cache` the Redis entry, `failures` the time each failed
attempt stays in the window. Times are countdowns that `Tick` lowers together,
also while requests are in progress. `failed_login_attempts` is for display and
is left out; `account_locked_until` is never set by the code, although
ARCHITECTURE.md names it.

`SaveUser` stands for every `user.save()` without `update_fields` (forgot, reset
and change password, resend, profile, the admin's form): it writes the copy.
Whether the hour is restricted or the distance impossible is an input. Which of
them blocks and for how long is from `security_config.py`: 30, 60 and 120
minutes are 2, 3 and 4, the window of 15 minutes is 2 (the assumption
`Window <= FailedTime` is what matters), the cached answer's 60 seconds are 1.
The order of these is kept, their ratio is not. `Attempts` bounds the attempts
in the window; two reach the limit and a third is one beyond.

- `block_races`: two requests at once, Redis failing at any call.
  `FailedLoginsBlock` needs the attempt to be recorded before it is counted:
  of two parallel logins the last to count sees both. `LoneBlockHolds` is the
  promise the block keeps where no other request overlaps it.
- `block_bypass` (violation): where one does, a stale answer is cached over it.

`applied` and `lifted` are history. No guard reads them.

### Proofs

`AccountBlockProofs` proves, from `BlockAssumption`, `TypeCorrect`,
`FailedLoginsBlockHolds` and `LoneBlockHoldsAlways` for any requests, any finite
set of attempts and any times. `FailedInv` strengthens the first property: the
limit is passed only while some login has recorded and not yet counted, or the
row is blocked for at least as long as each attempt stays in the window, which
is where `Window <= FailedTime` enters. For the second, `SavingInv` says that
between the two writes of a lone block nothing else runs and the answer will
last as long as the block, `AloneInv` that from then on every copy of the row
agrees with it and nobody is past the check.

## Vault

Maps to the views of files, images and share links, to decryption and its
tamper check. A thing is one upload, known by its row and its file. A request
goes from one database statement or access to the disk to the next.

| state | code |
|---|---|
| `row`, `disk`, `damaged` | the row of the thing, its file, what was altered of either since |
| `lock` | the row lock a delete's `select` takes within its transaction; an insert that refers to the row waits for it |
| `entries`, `alarms` | access log and `SuspiciousActivityLog` |
| `link` | share links, with expiry and use; deleting the row deletes them and the log (cascade) |
| `served`, `shown`, `unlinked` | history: answers with the content, and deletes that broke off past the disk |

Encryption is what its tags notice: a key or a content that was altered.
`Abort` is an exception or the death of a worker at any point; the database
undoes its transaction and drops its locks, and nothing undoes the disk.

`VaultStore` is the promise: a thing is there from one moment to a later one,
content is granted only in between, and the owner's log has every grant that is
not by a link. `Vault` implements it with `stored` the row and `granted` the
requests that are about to answer. A viewer's grant happens when the link is
marked used, an owner's when the log entry is written; both need the row.

`vault` has a file, an image, one link and two requests, two entries a log. One
thing of each kind is enough, since things share no state but the requests; the
bound on entries stops reads, not deletes. Deadlock is not checked since
uploads and links have identities that are used up, after which the system
stops. `link_twice` is the violation of "One-time link": two viewers between
the check and the mark.

`OwnerReadsAreLogged` is about the owner's downloads and previews. Sharing is not
logged: neither the creation of a link nor its viewing writes an access log
entry (see the observations).

Fairness: weak for `Proceed(r)`, a worker that goes on, and strong for
`Waiting(r)`, the inserts that wait for a row lock, because PostgreSQL grants a
lock in the order of the queue: a wait which ends again and again is not for
ever. Nothing is assumed of arrivals and failures. `RequestsEnd` then says that
nobody waits for ever, which needs each delete, also one that breaks off, to
let go of its lock.

### Proofs

`VaultProofs` proves `TypeCorrect`, `DiskMatchesHolds`, `OwnerReadsAreLoggedHolds`,
`ShownIsUsedHolds` and `Implements` (`Spec => StoreSpec`) from `VaultAssumption`,
which asks for finitely many requests at a time, to count those under way. The
invariant: `RequestInv`, what each position of a request implies of row, disk,
lock and link; `LinkInv`, that a link belongs to a row or has gone with it;
`LogInv`, that entries cover answers and grants together, which is why a read
that is logged and not yet answered does not fall outside. The refinement is
proved from this invariant, one step per action.

## Sessions

Maps to the login after its block checks, device verification, change and reset
of the password, logout, profile, keys and `BlacklistCheckJWTAuthentication`.

| state | code |
|---|---|
| `user` | the row: password, `password_changed_at`, whether the keys are stored |
| `known`, `verified`, `link` | `DeviceInfo`, `is_verified`, `DeviceVerification` |
| `token` | an access token with its `iat` and whether its refresh token is blacklisted |
| `req[r].copy` | the row as the request read it, reduced to what it still uses (`Needed`) |
| `made`, `published`, `confirmed`, `broken`, `undone` | history |

Time is in seconds, as in a token; a change falls within its second, so that
`iat > user.changed` is the comparison of the code. Whole-row saves (`WriteRow`,
`WritePassword`) write the copy, and `undone` records what they took back.

- `sessions`: two requests, one device, one link and one token at a time, one
  second to pass, two changes. Two changes are what a stale copy needs to bring
  an older password back over a newer one; a token expires and is issued anew,
  so one at a time meets every change. The proofs cover any numbers.
  `RefusedForGood` relates two states: `password_changed_at` can go back, where
  two changes are written in the other order of their times, and still no token
  that was refused is accepted again, unless it was issued meanwhile (`late`).
- `token_refused` (violation): "If the token was issued BEFORE the password was
  changed, reject it" also rejects the token that a change answers with, where
  both fall in one second.

### Proofs

`SessionsProofs` proves `TypeCorrect`, `SessionsFollowPasswordHolds`,
`RevokedAfterChangeHolds`, `KeysStayHolds` and the action property
`RefusedForGoodHolds` from `SessionAssumption`. `RowInv` ties a password to the
time it was chosen at, in the row and in every copy that will be saved;
`TokenInv` says that a token newer than a password being written is marked
`late`; `DeviceInv` keeps `verified \subseteq known`.

## Codes

Maps to registration, resend and verification, and to the codes that change and
reset the password. `entry` is `registration_<email>` in Redis, `pictures` its
files, `row` the columns `otp_code`, `reset_otp_code` and `otp_created_at`. A
code is drawn and never again: that two random codes can be equal is left out.
Cached entries end by countdown, and `NoTime` is a row without a time, which a
change code takes for no end and a reset code for an error.

- `codes`: two registrations with resends, three codes, two requests; a code
  lives two ticks, the cooldown of the mails three, as 10 and 15 minutes. Three
  codes are one to verify with and one of each kind for the account, or three
  resends.
- `otp_unmailed` (violation): "OTP sent to your registered email address", and
  none was, within the cooldown of the mails.

`LateOnlyIfRenewed` and `LoneCodeDies` make the exceptions the code forces on
them, the shared time and requests that overlap, and hold everywhere else.

### Proofs

`CodesProofs` proves `TypeCorrect` and the four invariants, from
`CodesAssumption`. `DrawnInv` says that what is in use was drawn, so a new code
differs from all; `FormInv` that the code of the entry was mailed, if at all,
with the entry's data, and that a verification in progress has a mailed pair;
`PictureInv` that before there is an account nobody is to remove a picture;
`KindInv` that a code of one column is in no copy's other column; `DeadInv` and
`TimedInv` say of every copy of the row what the properties say of the row,
since any copy may be saved. `RowSteps`, `Written`, `Cleared` and `Ticked` state
once what a step can do to the row and its copies.

## Threat

Maps to `_track_and_analyze_activity` with its detectors, `apply_security_rule`,
the login from its device check on, `update_geolocation_async`, and whatever else
writes the risk score.

| state | code |
|---|---|
| `stored`, `older`, `seen` | the `UserLocation` rows: which there are, in which order they were last seen, for how long each is recent |
| `located` | recent rows with coordinates |
| `logged`, `risk` | the capped sum of the log, the user's `risk_score` |
| `cooling`, `queued` | cooldown keys, tasks |
| `req[r].found` | whether the lookup of the request's address gave coordinates |
| `noticed`, `excused`, `mailed`, `lone` | history, read by no guard |

An address has the same coordinates at every lookup that gives any (`Located`);
a lookup may fail, be refused or find nothing, each time anew, and what it
returned is written over the row (`Touch`, `SaveAgain`). The rules pass over a
row without coordinates, and look at nothing from a place without them
(`Measured`). Distances are two sets of pairs, `Far` (over 500 km) and `Middle`
(over 100 km). That a place is within the shorter window of the milder rule, that
a device is new or one too many, and that a new place is logged again so soon
are inputs.

The score is written by the end of each tracking (`WriteRisk`), by the save of a
user that was loaded before (`LoadUser`, `SaveUser`: forgot, reset and change
password, resend, profile, keys, the admin's form), and by the admin's
`reset_risk_scores` (`ResetRisk`). Entries of refused accesses, failed logins,
unusual hours and wrong passwords have types without a weight
(`security_config.py:65`), so they do not show in the sum; those of new places,
devices and travel do, also of a login that the device rule refuses
(`RefuseLogin`).

`threat` has three places, the first far apart from the two others, which are a
middle distance apart. So a request at the first has two far places to look at
and one at the others a far and a nearer one: the first match may be the wrong
one. A place is recent for one tick and compared with two others; that there are
more of them than are compared is left to the proof, which holds for any number
and any limit. Lookups fail at the first place only (`Reliable` has the two
others): a pair has the first place on one side and either end looks last, so
both blind sides occur; the proof lets every lookup fail. `MostTasks` is one
login or task at a time: a login's task is tracked after it and overlaps one
request. `Notified` has the travel rule only and `Weight` counts travel and new
devices, with `MaxRisk` 1, so the cap is met by the second entry; the other rules
have the same steps. The two requests are symmetric, and so are the two places
far from the first: `Far`, `Middle` and `Reliable` treat them alike.

`FarPairNoticed` needs each request to store its place before it looks at the
others: of two requests the later to look sees the other's row. Its exceptions
(`excused`) are pairs of places, each for what happened to that pair:

- its tracking broke off, or a place was saved again only after its window;
- the other place was hidden by more recent places than are compared;
- the look around ended at a place seen later: the first match ends it, so a
  nearer place under a milder rule hides a far one, and a far one the next;
- the last look had no coordinates on one side, because a lookup had failed.

A place that is tracked anew has no excuse any more. These are limits of the
code and are listed as hazards.

`RiskCounts` speaks of a score written by a request that no other overlapped
(`lone`). It ends at the next entry of the log, at a reset, which leaves the log
as it is, and at the save of a user that some other request overlapped. A save
that nothing overlapped changes nothing, which is part of what is shown.

### Proofs

`ThreatProofs` proves `TypeCorrect`, `FarPairNoticedHolds`, `SilenceIsEarnedHolds`
and `RiskCountsHolds` from `ThreatAssumption`, by one invariant, `ThreatInv`.

- `RequestInv` says which rule and which next step go with a position.
- `OrderInv` says that `older` is a strict order of the recent places, any two of
  which it relates, and that those with coordinates are among them. `LastExists`
  gets from it that any of them but none have a last one: strict inclusion is
  well-founded on finite sets. `OthersAreAll` adds that where there are no more
  recent places than are compared, all of them are.
- `NoticeInv` is why a far pair is noticed: while both places are recent and the
  pair is neither noticed nor excused, somebody at one of the two is still to look
  or has found the other. A request that looks and does not find it excuses the
  pair (`LookHandles`), for a crowd, another match or missing coordinates; one
  that begins takes the pair over (`NoticeBegin`). `FarPairNoticed` is
  `NoticeInv` where nobody is tracking.
- `CoolInv` says that a cooldown about to be set follows a mail, `AloneInv` that a
  request nobody overlapped is the only one in progress, so the log it read is the
  log, and the score in a user loaded alone is still the score.

## What is only model-checked

Liveness (`EventuallySeen`, `EventuallyGone`, `RequestsEnd`), since the provers
treat neither fairness nor `ENABLED`. Every other property of a passing run is a
theorem, for all values of the constants under the assumption of its module, and
the four disagreements are counterexamples of TLC.

## Other observations

What a reader of the code might not expect and no run is about. Most of it the
models show; where the repository says otherwise the line is quoted.

- Two REST joins can overfill a room (`views.py:1818`).
- Two connections with one peer id share a row; the first to close disconnects
  it for both (`consumers.py:52`). Authenticating again under another id leaves
  the old row connected.
- The receiver of a record is the first other row in the room, whichever peer
  the frame names (`consumers.py:665`): with a third user it may be another,
  although the next comment calls the target the receiver ("Relay ALL E2EE
  metadata to the receiver", `consumers.py:303`) and a room seats ten
  (`models.py:557`). Such a transfer counts no chunk, and every resume starts
  anew (`ProgressIsReceivers`).
- Creating a share link and viewing it write no access log entry
  (`views.py:1503`, `views.py:1541`), although README.md:54 of the repository says
  that the backend "tracks access logs for download, preview, and sharing
  actions". Only the viewer's address is kept, in the link.
- A failed lookup takes the coordinates out of a row that had them
  (`location_tracking.py:405`, `tasks.py:170`): until the next that succeeds the
  travel rules are blind to that place.
- `reset_risk_scores` leaves the log, so the score is back after the user's next
  tracked request (`admin.py:111`); and the save of a user that was loaded before
  undoes the reset at once.
- The weight of failed logins has the key `multiple_failed_logins`
  (`security_config.py:71`), their log entry the type `multiple_failed_login`:
  failed logins count nothing.
- The first chunk is never counted, so a file of one chunk shows no progress
  until it is complete (`consumers.py:698`).
- An acknowledgement saved from a stale read turns a transfer the admin marked
  as failed back (`admin.py:494`), and `transfer_error` makes a completed
  transfer a failed one, although ARCHITECTURE.md:468 draws `Completed` as final.
- The admin's unlock leaves the cached answer, which refuses until it expires
  (`admin.py:102`).
- A whole-row save brings back a password or takes out keys (`serializers.py:187`,
  `views.py:1470`). After a password brought back, the sessions that
  `views.py:1102` calls terminated stay terminated all the same: their time stays.
- Two changes of the password that overlap can leave the row with the earlier of
  their times (`views.py:1069`): a token issued between the two is then good.
- A token from before a change opens a WebSocket until it expires
  (`jwtmiddleware.py:12`).

## Not modelled

- Offer, answer and ICE relay: it verifies a row, then sends. It changes no
  state of the server, and the code promises nothing of a target that leaves.
- File transfer over REST and the other room views: single database calls. The
  routes `roomDetailView`, `fileTransferDetail`, `fileTransferComplete` and
  `fileTransferUpdateChunk` pass no `pk` to views that require it, so their
  handlers cannot run.
- The WebSocket authentication: it keeps no state.
- Signatures and RSA key wrapping, which no view calls; the cryptography behind
  the two tags.
- E-mail templates, SMTP, the service that locates addresses, throttles, dashboard, the
  admin's display, the client applications, and code without a caller
  (`webrtc_utils.py`, the bulk-access decorator, second copies of the block and
  notification helpers).
