--------------------------------- MODULE Vault ---------------------------------
(***************************************************************************)
(* The encrypted files and images and their one-time links: the upload,    *)
(* download, view, delete and share views (views.py), decryption with its  *)
(* tamper check (utils.py) and the rows they use (models.py).              *)
(*                                                                         *)
(* A thing is one upload: names are random and never used again.  Requests *)
(* run in parallel and are interrupted at every database statement and at  *)
(* every access to the disk.  Outside a transaction each statement commits *)
(* by itself.  A delete holds the lock of the row from its read to its     *)
(* commit; inserting a row that refers to the thing waits for that lock.   *)
(***************************************************************************)
EXTENDS Naturals, FiniteSets

CONSTANTS
    Files, Images,  \* uploads of each kind
    Links,          \* share links
    Requests,       \* requests that can be in progress together
    MostEntries,    \* bound on the entries of one access log
    Alterable,      \* bound on what can be altered: pairs of a thing and a part
    NoThing, NoLink, NoRequest

Things == Files \cup Images

ASSUME VaultAssumption ==
    /\ IsFiniteSet(Requests)
    /\ MostEntries \in Nat \ {0} /\ Alterable \subseteq Things \X {"key", "content"}
    /\ NoThing \notin Things /\ NoLink \notin Links /\ NoRequest \notin Requests

VARIABLES
    row,       \* the row of a thing: not yet there, there, deleted
    disk,      \* the file with its ciphertext
    damaged,   \* what of a thing was altered since it was stored
    lock,      \* the request whose transaction locks the row
    entries,   \* access log entries that refer to the row
    alarms,    \* SuspiciousActivityLog: things found altered, "access" by others
    link,      \* the share links
    req,       \* the requests
    served,    \* answers that gave the owner the content
    shown,     \* answers that showed it by the link
    unlinked   \* things a delete removed from the disk and did not finish

vars == <<row, disk, damaged, lock, entries, alarms, link, req, served, shown, unlinked>>

Link == [of : Things \cup {NoThing}, state : {"fresh", "open", "expired", "used", "gone"}]

\* at: what the request does next; by: the link it came by; badKey: the row it
\* read holds an altered key.
Request == [at : {"idle", "insert", "decrypt", "log", "mark", "serve", "unlink", "drop", "link"},
            thing : Things \cup {NoThing}, by : Links \cup {NoLink}, badKey : BOOLEAN]

TypeOK ==
    /\ row \in [Things -> {"fresh", "live", "gone"}]
    /\ disk \in [Things -> BOOLEAN]
    /\ damaged \in [Things -> SUBSET {"key", "content"}]
    /\ lock \in [Things -> Requests \cup {NoRequest}]
    /\ entries \in [Things -> Nat]
    /\ alarms \subseteq {"access"} \cup Things
    /\ link \in [Links -> Link]
    /\ req \in [Requests -> Request]
    /\ served \in [Things -> Nat]
    /\ shown \in [Links -> Nat]
    /\ unlinked \subseteq Things

Idle == [at |-> "idle", thing |-> NoThing, by |-> NoLink, badKey |-> FALSE]

Init ==
    /\ row = [x \in Things |-> "fresh"]
    /\ disk = [x \in Things |-> FALSE]
    /\ damaged = [x \in Things |-> {}]
    /\ lock = [x \in Things |-> NoRequest]
    /\ entries = [x \in Things |-> 0]
    /\ alarms = {}
    /\ link = [l \in Links |-> [of |-> NoThing, state |-> "fresh"]]
    /\ req = [r \in Requests |-> Idle]
    /\ served = [x \in Things |-> 0]
    /\ shown = [l \in Links |-> 0]
    /\ unlinked = {}

-----------------------------------------------------------------------------
At(r, at) == req[r].at = at
GoTo(r, at) == req' = [req EXCEPT ![r].at = at]
Done(r) == req' = [req EXCEPT ![r] = Idle]

Begin(r, x, l, at) ==
    /\ At(r, "idle")
    /\ req' = [req EXCEPT ![r] = [at |-> at, thing |-> x, by |-> l,
                                  badKey |-> "key" \in damaged[x]]]

\* Requests that read x for its owner, and will add an entry.
Reading(x) == {r \in Requests : req[r].thing = x /\ req[r].by = NoLink
                                /\ req[r].at \in {"decrypt", "log"}}

-----------------------------------------------------------------------------
(* Upload: the ciphertext goes to the disk, then one transaction holds the *)
(* row and its first log entry.                                            *)

SaveToDisk(r, x) ==
    /\ row[x] = "fresh" /\ ~disk[x]
    /\ Begin(r, x, NoLink, "insert")
    /\ disk' = [disk EXCEPT ![x] = TRUE]
    /\ UNCHANGED <<row, damaged, lock, entries, alarms, link, served, shown, unlinked>>

UploadFile(r, x) == x \in Files /\ SaveToDisk(r, x)
UploadImage(r, x) == x \in Images /\ SaveToDisk(r, x)

\* Mutant of CommitUpload: the row is first recorded as pending.
CommitPending(r) == LET x == req[r].thing IN
    /\ At(r, "insert")
    /\ row' = [row EXCEPT ![x] = "pending"]
    /\ entries' = [entries EXCEPT ![x] = 1]
    /\ Done(r)
    /\ UNCHANGED <<disk, damaged, lock, alarms, link, served, shown, unlinked>>

CommitUpload(r) == LET x == req[r].thing IN
    /\ At(r, "insert")
    /\ row' = [row EXCEPT ![x] = "live"]
    /\ entries' = [entries EXCEPT ![x] = 1]
    /\ Done(r)
    /\ UNCHANGED <<disk, damaged, lock, alarms, link, served, shown, unlinked>>

-----------------------------------------------------------------------------
(* Download and view.                                                      *)

Fetch(r, x) ==
    /\ row[x] = "live"
    /\ entries[x] + Cardinality(Reading(x)) < MostEntries
    /\ Begin(r, x, NoLink, "decrypt")
    /\ UNCHANGED <<row, disk, damaged, lock, entries, alarms, link, served, shown, unlinked>>

ReadFile(r, x) == x \in Files /\ Fetch(r, x)
ReadImage(r, x) == x \in Images /\ Fetch(r, x)

\* _unauthorized_access_log: another user's request for x.
RefuseOther(r, x) ==
    /\ At(r, "idle") /\ row[x] = "live"
    /\ alarms' = alarms \cup {"access"}
    /\ UNCHANGED <<row, disk, damaged, lock, entries, link, req, served, shown, unlinked>>

Intact(r) == ~req[r].badKey /\ "content" \notin damaged[req[r].thing]

DecryptGood(r) == LET x == req[r].thing IN
    /\ At(r, "decrypt") /\ disk[x] /\ Intact(r)
    /\ GoTo(r, IF req[r].by = NoLink THEN "log" ELSE "mark")
    /\ UNCHANGED <<row, disk, damaged, lock, entries, alarms, link, served, shown, unlinked>>

\* A tag does not match.  Writing the alarm may fail and is not retried.
DecryptTampered(r) == LET x == req[r].thing IN
    /\ At(r, "decrypt") /\ ~Intact(r) /\ (disk[x] \/ req[r].badKey)
    /\ \/ alarms' = alarms \cup {x}
       \/ UNCHANGED alarms
    /\ Done(r)
    /\ UNCHANGED <<row, disk, damaged, lock, entries, link, served, shown, unlinked>>

\* open() finds no file.
DecryptMissing(r) ==
    /\ At(r, "decrypt") /\ ~disk[req[r].thing] /\ ~req[r].badKey
    /\ Done(r)
    /\ UNCHANGED <<row, disk, damaged, lock, entries, alarms, link, served, shown, unlinked>>

\* Mutant of LogAccess: an error of the log is swallowed.
LogOrNot(r) == LET x == req[r].thing IN
    /\ At(r, "log") /\ lock[x] = NoRequest
    /\ \/ row[x] = "live" /\ entries' = [entries EXCEPT ![x] = @ + 1]
       \/ UNCHANGED entries
    /\ GoTo(r, "serve")
    /\ UNCHANGED <<row, disk, damaged, lock, alarms, link, served, shown, unlinked>>

\* The entry refers to the row: the insert waits for a delete and fails after it.
LogAccess(r) == LET x == req[r].thing IN
    /\ At(r, "log") /\ lock[x] = NoRequest
    /\ \/ /\ row[x] = "live"
          /\ entries' = [entries EXCEPT ![x] = @ + 1]
          /\ GoTo(r, "serve")
       \/ /\ row[x] # "live"
          /\ Done(r)
          /\ UNCHANGED entries
    /\ UNCHANGED <<row, disk, damaged, lock, alarms, link, served, shown, unlinked>>

Serve(r) ==
    /\ At(r, "serve")
    /\ IF req[r].by = NoLink
       THEN served' = [served EXCEPT ![req[r].thing] = @ + 1] /\ UNCHANGED shown
       ELSE shown' = [shown EXCEPT ![req[r].by] = @ + 1] /\ UNCHANGED served
    /\ Done(r)
    /\ UNCHANGED <<row, disk, damaged, lock, entries, alarms, link, unlinked>>

-----------------------------------------------------------------------------
(* Delete: one transaction, and the disk in the middle of it.              *)

LockRow(r, x) ==
    /\ row[x] = "live" /\ lock[x] = NoRequest
    /\ Begin(r, x, NoLink, "unlink")
    /\ lock' = [lock EXCEPT ![x] = r]
    /\ UNCHANGED <<row, disk, damaged, entries, alarms, link, served, shown, unlinked>>

DeleteFile(r, x) == x \in Files /\ LockRow(r, x)
DeleteImage(r, x) == x \in Images /\ LockRow(r, x)

\* Mutant of Unlink: images are looked for among the files.
UnlinkFiles(r) ==
    /\ At(r, "unlink")
    /\ disk' = IF req[r].thing \in Files THEN [disk EXCEPT ![req[r].thing] = FALSE] ELSE disk
    /\ GoTo(r, "drop")
    /\ UNCHANGED <<row, damaged, lock, entries, alarms, link, served, shown, unlinked>>

Unlink(r) ==
    /\ At(r, "unlink")
    /\ disk' = [disk EXCEPT ![req[r].thing] = FALSE]
    /\ GoTo(r, "drop")
    /\ UNCHANGED <<row, damaged, lock, entries, alarms, link, served, shown, unlinked>>

\* The row goes, and with it what refers to it: the links and the whole access
\* log, the 'DELETE' entry just made included.
Drop(r) == LET x == req[r].thing IN
    /\ At(r, "drop")
    /\ row' = [row EXCEPT ![x] = "gone"]
    /\ entries' = [entries EXCEPT ![x] = 0]
    /\ link' = [l \in Links |-> IF link[l].of = x THEN [link[l] EXCEPT !.state = "gone"]
                                ELSE link[l]]
    /\ lock' = [lock EXCEPT ![x] = NoRequest]
    /\ Done(r)
    /\ UNCHANGED <<disk, damaged, alarms, served, shown, unlinked>>

\* Mutant of Abort: the error is handled inside the transaction, which stays open.
AbortInside(r) ==
    /\ ~At(r, "idle")
    /\ unlinked' = IF At(r, "drop") THEN unlinked \cup {req[r].thing} ELSE unlinked
    /\ Done(r)
    /\ UNCHANGED <<row, disk, damaged, lock, entries, alarms, link, served, shown>>

\* An exception, or the death of the worker.  The database undoes the
\* transaction; nothing undoes what happened to the disk.
Abort(r) == LET x == req[r].thing IN
    /\ ~At(r, "idle")
    /\ lock' = [y \in Things |-> IF lock[y] = r THEN NoRequest ELSE lock[y]]
    /\ unlinked' = IF At(r, "drop") THEN unlinked \cup {x} ELSE unlinked
    /\ Done(r)
    /\ UNCHANGED <<row, disk, damaged, entries, alarms, link, served, shown>>

-----------------------------------------------------------------------------
(* Share links.                                                            *)

\* The id of the link is random: nobody else has it.
ShareRead(r, x, l) ==
    /\ row[x] = "live" /\ link[l].state = "fresh"
    /\ \A q \in Requests : req[q].by # l
    /\ Begin(r, x, l, "link")
    /\ UNCHANGED <<row, disk, damaged, lock, entries, alarms, link, served, shown, unlinked>>

\* The link refers to the row, as an entry of the log does.
CreateLink(r) == LET x == req[r].thing IN
    /\ At(r, "link") /\ lock[x] = NoRequest
    /\ link' = IF row[x] = "live" THEN [link EXCEPT ![req[r].by] = [of |-> x, state |-> "open"]]
               ELSE link
    /\ Done(r)
    /\ UNCHANGED <<row, disk, damaged, lock, entries, alarms, served, shown, unlinked>>

\* Ten minutes later.
Expire(l) ==
    /\ link[l].state = "open"
    /\ link' = [link EXCEPT ![l].state = "expired"]
    /\ UNCHANGED <<row, disk, damaged, lock, entries, alarms, req, served, shown, unlinked>>

\* Neither expired nor used: looked at here, and not again.
OpenLink(r, l) ==
    /\ link[l].state = "open"
    /\ Begin(r, link[l].of, l, "decrypt")
    /\ UNCHANGED <<row, disk, damaged, lock, entries, alarms, link, served, shown, unlinked>>

\* Mutant of MarkUsed: save() without update_fields, which inserts the row of
\* the link again where it was deleted.
MarkUsedOrInsert(r) == LET l == req[r].by IN
    /\ At(r, "mark")
    /\ link' = [link EXCEPT ![l].state = "used"]
    /\ GoTo(r, "serve")
    /\ UNCHANGED <<row, disk, damaged, lock, entries, alarms, served, shown, unlinked>>

\* Mutant of MarkUsed: only the viewer's address is saved.
MarkViewer(r) == LET l == req[r].by IN
    /\ At(r, "mark") /\ link[l].state # "gone"
    /\ GoTo(r, "serve")
    /\ UNCHANGED <<row, disk, damaged, lock, entries, alarms, link, served, shown, unlinked>>

\* save(update_fields=...) raises where the row of the link has gone.
MarkUsed(r) == LET l == req[r].by IN
    /\ At(r, "mark")
    /\ \/ /\ link[l].state # "gone"
          /\ link' = [link EXCEPT ![l].state = "used"]
          /\ GoTo(r, "serve")
       \/ /\ link[l].state = "gone"
          /\ Done(r)
          /\ UNCHANGED link
    /\ UNCHANGED <<row, disk, damaged, lock, entries, alarms, served, shown, unlinked>>

\* What GCM is there to notice.
Damage(x, part) ==
    /\ <<x, part>> \in Alterable
    /\ IF part = "key" THEN row[x] = "live" ELSE disk[x]
    /\ damaged' = [damaged EXCEPT ![x] = @ \cup {part}]
    /\ UNCHANGED <<row, disk, lock, entries, alarms, link, req, served, shown, unlinked>>

-----------------------------------------------------------------------------
Proceed(r) ==
    \/ CommitUpload(r)
    \/ DecryptGood(r) \/ DecryptTampered(r) \/ DecryptMissing(r) \/ LogAccess(r) \/ Serve(r)
    \/ Unlink(r) \/ Drop(r)
    \/ CreateLink(r) \/ MarkUsed(r)

Arrive(r) ==
    \/ \E x \in Things :
          \/ UploadFile(r, x) \/ UploadImage(r, x)
          \/ ReadFile(r, x) \/ ReadImage(r, x) \/ RefuseOther(r, x)
          \/ DeleteFile(r, x) \/ DeleteImage(r, x)
          \/ \E l \in Links : ShareRead(r, x, l)
    \/ \E l \in Links : OpenLink(r, l)

Next ==
    \/ \E r \in Requests : Proceed(r) \/ Arrive(r) \/ Abort(r)
    \/ \E l \in Links : Expire(l)
    \/ \E x \in Things, part \in {"key", "content"} : Damage(x, part)

Spec == Init /\ [][Next]_vars

\* A worker goes on with its request, and the database grants a lock to those
\* that wait for it in their order, so that a wait which ends again and again
\* is not for ever.
Waiting(r) == LogAccess(r) \/ CreateLink(r)
FairSpec ==
    /\ Spec
    /\ \A r \in Requests : WF_vars(Proceed(r)) /\ SF_vars(Waiting(r))

-----------------------------------------------------------------------------
(* What the owner is shown.                                                *)

ListedFiles == {x \in Files : row[x] = "live"}
ListedImages == {x \in Images : row[x] = "live"}
Listed == ListedFiles \cup ListedImages

FileLog(x) == IF x \in ListedFiles THEN entries[x] ELSE 0
ImageLog(x) == IF x \in ListedImages THEN entries[x] ELSE 0
AccessLog(x) == FileLog(x) + ImageLog(x)

-----------------------------------------------------------------------------
(* Properties.                                                             *)

\* DiskMatches: a listed thing has its file, unless a delete is between the
\* disk and its commit or broke off there; and nothing is left on the disk of
\* a thing that was deleted.  It needs the upload to write the disk first and the
\* delete the row last, under one name.
DiskMatches ==
    /\ \A x \in Listed : \/ disk[x] \/ x \in unlinked
                        \/ \E r \in Requests : At(r, "drop") /\ req[r].thing = x
    /\ \A x \in Things : row[x] = "gone" => ~disk[x]

\* OwnerReadsAreLogged: the log of a listed thing has its upload and each download
\* or preview that gave its owner the content, whatever else was read, shared,
\* deleted or broken off meanwhile.  It is not said of a link's viewer, nor of the
\* creation of a link: neither writes to the log.
OwnerReadsAreLogged == \A x \in Listed : served[x] < AccessLog(x)

\* ShownIsUsed: a link that has shown its file is used up, and nobody opens it
\* again, however its viewers, a delete and failures interleave.
ShownIsUsed == \A l \in Links : shown[l] > 0 => link[l].state \in {"used", "gone"}

\* The vault as its users see it (VaultStore): content is granted only while
\* its row is there, also to the viewer of a link, who looks at another row.
Granted(x) == {r \in Requests : At(r, "serve") /\ req[r].thing = x}
Store == INSTANCE VaultStore
    WITH stored <- row, granted <- [x \in Things |-> Granted(x)]
StoreSpec == Store!Spec

\* RequestsEnd: no request waits for a lock, or for anything else, for ever.
RequestsEnd == \A r \in Requests : []<>At(r, "idle")

\* A "One-time link": no link shows its file twice.
OneTimeLink == \A l \in Links : shown[l] <= 1
=============================================================================
