--------------------------------- MODULE Codes ---------------------------------
(***************************************************************************)
(* The six-digit codes mailed to one address: the one that completes a     *)
(* registration, whose data waits in Redis, and those that change and      *)
(* reset the password, in the row of the user with one time for both       *)
(* (serializers.py, views.py).  The password itself and the tokens are the *)
(* matter of Sessions.                                                     *)
(*                                                                         *)
(* A code is random and never drawn again.  Requests run in parallel, each *)
(* on its own copy of the row or of the entry, and are interrupted at      *)
(* every call to the database, to Redis and to the mail queue.  Times are  *)
(* countdowns: a code with 0 left has expired.                             *)
(***************************************************************************)
EXTENDS Naturals, FiniteSets

CONSTANTS
    Requests,      \* requests that can be in progress together
    Forms,         \* registrations sent, each with its picture
    Codes,         \* codes that can be drawn
    CodeTime,      \* life of a code (10 minutes)
    Cooldown,      \* time between two mails with a change code (15 minutes)
    QueueMayFail,  \* whether queueing a mail may raise
    NoForm, NoCode, NoTime, NoEntry

ASSUME CodesAssumption ==
    /\ CodeTime \in Nat \ {0} /\ Cooldown \in Nat \ {0}
    /\ QueueMayFail \in BOOLEAN
    /\ NoForm \notin Forms /\ NoCode \notin Codes /\ NoTime \notin Nat

VARIABLES
    entry,     \* registration_<email> in Redis
    pictures,  \* pictures of registrations on the disk, not yet an account's
    account,   \* the verified user
    row,       \* its otp_code, reset_otp_code and otp_created_at
    cooldown,  \* time left of notify_cooldown_<id>_password_change_otp
    drawn,     \* codes drawn so far
    req,       \* the requests
    mailed,    \* codes in a mail that was queued, with the form each stands for
    answered,  \* change codes whose request was answered "OTP sent"
    life,      \* what is left of each account code's own ten minutes
    renewed,   \* codes whose time another code's request replaced
    late,      \* codes accepted after their own ten minutes
    dead       \* codes used while nothing else was in progress

vars == <<entry, pictures, account, row, cooldown, drawn, req,
          mailed, answered, life, renewed, late, dead>>

Left == (0 .. CodeTime) \cup {NoTime}

Entry == [form : Forms, code : Codes, left : 1 .. CodeTime]

Account == [form : Forms \cup {NoForm}, code : Codes \cup {NoCode}, picture : BOOLEAN]

Row == [change : Codes \cup {NoCode}, reset : Codes \cup {NoCode}, left : Left]

\* at: what the request does next; copy: the row it read; picture: it found one.
Request == [at : {"idle", "store", "mail", "check", "open", "create", "tidy", "forget",
                  "writeChange", "cooldown", "queue", "cool", "writeReset",
                  "clearChange", "reread", "clearReset", "save"},
            form : Forms \cup {NoForm}, code : Codes \cup {NoCode},
            picture : BOOLEAN, copy : Row]

TypeOK ==
    /\ entry = NoEntry \/ entry \in Entry
    /\ pictures \subseteq Forms
    /\ account \in Account
    /\ row \in Row
    /\ cooldown \in 0 .. Cooldown
    /\ drawn \subseteq Codes
    /\ req \in [Requests -> Request]
    /\ mailed \subseteq Codes \X (Forms \cup {NoForm})
    /\ answered \subseteq Codes
    /\ life \in [Codes -> 0 .. CodeTime]
    /\ renewed \subseteq Codes /\ late \subseteq Codes /\ dead \subseteq Codes

NoRow == [change |-> NoCode, reset |-> NoCode, left |-> NoTime]
NoAccount == [form |-> NoForm, code |-> NoCode, picture |-> FALSE]
Idle == [at |-> "idle", form |-> NoForm, code |-> NoCode, picture |-> FALSE, copy |-> NoRow]

Init ==
    /\ entry = NoEntry /\ pictures = {} /\ account = NoAccount /\ row = NoRow
    /\ cooldown = 0 /\ drawn = {}
    /\ req = [r \in Requests |-> Idle]
    /\ mailed = {} /\ answered = {}
    /\ life = [c \in Codes |-> 0]
    /\ renewed = {} /\ late = {} /\ dead = {}

-----------------------------------------------------------------------------
registration == <<entry, pictures, account>>
history == <<life, renewed, late, dead>>

Verified == account # NoAccount

At(r, at) == req[r].at = at
GoTo(r, at) == req' = [req EXCEPT ![r].at = at]
Done(r) == req' = [req EXCEPT ![r] = Idle]
Begin(r, new) == At(r, "idle") /\ req' = [req EXCEPT ![r] = new]

Draw(c) == c \notin drawn /\ drawn' = drawn \cup {c}

\* The client gives a code it was mailed.
Given(c) == \E m \in mailed : m[1] = c

-----------------------------------------------------------------------------
(* Registration.                                                           *)

\* The picture goes to the disk under a name of its own.
Register(r, f) ==
    /\ ~Verified /\ f \notin pictures
    /\ Begin(r, [Idle EXCEPT !.at = "store", !.form = f])
    /\ pictures' = pictures \cup {f}
    /\ UNCHANGED <<entry, account, row, cooldown, drawn, mailed, answered, history>>

\* Resending reads the entry and stores a copy with a new code.
Resend(r) ==
    /\ entry # NoEntry
    /\ Begin(r, [Idle EXCEPT !.at = "store", !.form = entry.form])
    /\ UNCHANGED <<registration, row, cooldown, drawn, mailed, answered, history>>

\* cache.set with a code just drawn.
Store(r, c) ==
    /\ At(r, "store") /\ Draw(c)
    /\ entry' = [form |-> req[r].form, code |-> c, left |-> CodeTime]
    /\ req' = [req EXCEPT ![r].at = "mail", ![r].code = c]
    /\ UNCHANGED <<pictures, account, row, cooldown, mailed, answered, history>>

\* send_async_email: also the mail with a reset code.
Mail(r) ==
    /\ At(r, "mail")
    /\ mailed' = mailed \cup {<<req[r].code, req[r].form>>}
    /\ Done(r)
    /\ UNCHANGED <<registration, row, cooldown, drawn, answered, history>>

\* One read gives the code and the data.
VerifyCode(r) ==
    /\ entry # NoEntry /\ Given(entry.code)
    /\ Begin(r, [Idle EXCEPT !.at = "check", !.form = entry.form, !.code = entry.code])
    /\ UNCHANGED <<registration, row, cooldown, drawn, mailed, answered, history>>

CheckVerified(r) ==
    /\ At(r, "check")
    /\ GoTo(r, IF Verified THEN "forget" ELSE "open")
    /\ UNCHANGED <<registration, row, cooldown, drawn, mailed, answered, history>>

\* Mutant of OpenPicture: the file is removed as soon as it is open.
RemoveOnOpen(r) ==
    /\ At(r, "open")
    /\ pictures' = pictures \ {req[r].form}
    /\ req' = [req EXCEPT ![r].at = "create", ![r].picture = req[r].form \in pictures]
    /\ UNCHANGED <<entry, account, row, cooldown, drawn, mailed, answered, history>>

OpenPicture(r) ==
    /\ At(r, "open")
    /\ req' = [req EXCEPT ![r].at = "create", ![r].picture = req[r].form \in pictures]
    /\ UNCHANGED <<registration, row, cooldown, drawn, mailed, answered, history>>

\* Mutant of CreateUser: save reads the entry again.
CreateFromEntry(r) ==
    /\ At(r, "create")
    /\ \/ /\ ~Verified /\ entry # NoEntry
          /\ account' = [form |-> entry.form, code |-> req[r].code, picture |-> req[r].picture]
          /\ GoTo(r, "tidy")
       \/ /\ Verified \/ entry = NoEntry
          /\ Done(r)
          /\ UNCHANGED account
    /\ UNCHANGED <<entry, pictures, row, cooldown, drawn, mailed, answered, history>>

\* The address is unique: a second insert raises and leaves the entry.
CreateUser(r) ==
    /\ At(r, "create")
    /\ \/ /\ ~Verified
          /\ account' = [form |-> req[r].form, code |-> req[r].code, picture |-> req[r].picture]
          /\ GoTo(r, "tidy")
       \/ /\ Verified
          /\ Done(r)
          /\ UNCHANGED account
    /\ UNCHANGED <<entry, pictures, row, cooldown, drawn, mailed, answered, history>>

RemovePicture(r) ==
    /\ At(r, "tidy")
    /\ pictures' = pictures \ {req[r].form}
    /\ GoTo(r, "forget")
    /\ UNCHANGED <<entry, account, row, cooldown, drawn, mailed, answered, history>>

\* cache.delete, whatever is under the key by now.
Forget(r) ==
    /\ At(r, "forget")
    /\ entry' = NoEntry
    /\ Done(r)
    /\ UNCHANGED <<pictures, account, row, cooldown, drawn, mailed, answered, history>>

-----------------------------------------------------------------------------
(* The codes of the account.                                               *)

\* A request that read the row, with a code of it or none.
Read(r, at, c) ==
    /\ Verified
    /\ Begin(r, [Idle EXCEPT !.at = at, !.code = c, !.copy = row])

AskChangeCode(r) ==
    /\ Read(r, "writeChange", NoCode)
    /\ UNCHANGED <<registration, row, cooldown, drawn, mailed, answered, history>>

\* Mutant of WriteChangeCode: update_fields leaves out the time.
WriteCodeOnly(r, c) ==
    /\ At(r, "writeChange") /\ Draw(c)
    /\ row' = [row EXCEPT !.change = c]
    /\ life' = [life EXCEPT ![c] = CodeTime]
    /\ req' = [req EXCEPT ![r].at = "cooldown", ![r].code = c, ![r].copy = NoRow]
    /\ UNCHANGED <<registration, cooldown, mailed, answered, renewed, late, dead>>

\* update_fields: the code and the time alone.
WriteChangeCode(r, c) ==
    /\ At(r, "writeChange") /\ Draw(c)
    /\ row' = [row EXCEPT !.change = c, !.left = CodeTime]
    /\ life' = [life EXCEPT ![c] = CodeTime]
    /\ renewed' = renewed \cup ({row.reset} \ {NoCode})
    /\ req' = [req EXCEPT ![r].at = "cooldown", ![r].code = c, ![r].copy = NoRow]
    /\ UNCHANGED <<registration, cooldown, mailed, answered, late, dead>>

\* send_security_notification_from_view: no mail while the cooldown lasts.
Answer(r) == answered' = answered \cup {req[r].code} /\ Done(r)

CheckCooldown(r) ==
    /\ At(r, "cooldown")
    /\ \/ cooldown > 0 /\ Answer(r)
       \/ cooldown = 0 /\ GoTo(r, "queue") /\ UNCHANGED answered
    /\ UNCHANGED <<registration, row, cooldown, drawn, mailed, history>>

\* An exception is logged, and the request answered all the same.
QueueMail(r) ==
    /\ At(r, "queue")
    /\ \/ /\ mailed' = mailed \cup {<<req[r].code, NoForm>>}
          /\ GoTo(r, "cool")
          /\ UNCHANGED answered
       \/ QueueMayFail /\ Answer(r) /\ UNCHANGED mailed
    /\ UNCHANGED <<registration, row, cooldown, drawn, history>>

\* Mutant of SetCooldown: minutes are taken for seconds twice.
SetCooldownTwice(r) ==
    /\ At(r, "cool")
    /\ cooldown' = 60 * Cooldown
    /\ Answer(r)
    /\ UNCHANGED <<registration, row, drawn, mailed, history>>

SetCooldown(r) ==
    /\ At(r, "cool")
    /\ cooldown' = Cooldown
    /\ Answer(r)
    /\ UNCHANGED <<registration, row, drawn, mailed, history>>

\* Forgot password and its resend: the whole row, then a mail in any case.
AskResetCode(r) ==
    /\ Read(r, "writeReset", NoCode)
    /\ UNCHANGED <<registration, row, cooldown, drawn, mailed, answered, history>>

WriteResetCode(r, c) == LET copy == req[r].copy IN
    /\ At(r, "writeReset") /\ Draw(c)
    /\ row' = [copy EXCEPT !.reset = c, !.left = CodeTime]
    /\ life' = [life EXCEPT ![c] = CodeTime]
    /\ renewed' = renewed \cup ({copy.change} \ {NoCode})
    /\ req' = [req EXCEPT ![r].at = "mail", ![r].code = c, ![r].copy = NoRow]
    /\ UNCHANGED <<registration, cooldown, mailed, answered, late, dead>>

Accept(c) == late' = IF life[c] = 0 THEN late \cup {c} ELSE late

\* A change code without a time has no end; a reset code without one raises.
Change(r) ==
    /\ Given(row.change) /\ row.left # 0
    /\ Read(r, "clearChange", row.change)
    /\ Accept(row.change)
    /\ UNCHANGED <<registration, row, cooldown, drawn, mailed, answered, life, renewed, dead>>

ResetGood == Given(row.reset) /\ row.left \in 1 .. CodeTime

\* The check of a reset code alone, answered with a token.
VerifyReset(r) ==
    /\ Verified /\ At(r, "idle") /\ ResetGood
    /\ Accept(row.reset)
    /\ UNCHANGED <<registration, row, cooldown, drawn, req, mailed, answered,
                   life, renewed, dead>>

\* The user is read to check the code, and again to be saved.
Reset(r) ==
    /\ ResetGood
    /\ Verified /\ Begin(r, [Idle EXCEPT !.at = "reread", !.code = row.reset])
    /\ Accept(row.reset)
    /\ UNCHANGED <<registration, row, cooldown, drawn, mailed, answered, life, renewed, dead>>

ReadAgain(r) ==
    /\ At(r, "reread")
    /\ req' = [req EXCEPT ![r].at = "clearReset", ![r].copy = row]
    /\ UNCHANGED <<registration, row, cooldown, drawn, mailed, answered, history>>

\* The whole row: a code was used, the time goes, the other code stays.
Clear(r, new, kept) ==
    /\ row' = new
    /\ renewed' = renewed \cup ({kept} \ {NoCode})
    /\ dead' = IF \A q \in Requests \ {r} : At(q, "idle") THEN dead \cup {req[r].code} ELSE dead
    /\ Done(r)
    /\ UNCHANGED <<registration, cooldown, drawn, mailed, answered, life, late>>

\* Mutant of ClearChange: the password is saved, the code left to expire.
KeepChange(r) ==
    /\ At(r, "clearChange")
    /\ Clear(r, req[r].copy, req[r].copy.reset)

ClearChange(r) == LET copy == req[r].copy IN
    /\ At(r, "clearChange")
    /\ Clear(r, [copy EXCEPT !.change = NoCode, !.left = NoTime], copy.reset)

ClearReset(r) == LET copy == req[r].copy IN
    /\ At(r, "clearReset")
    /\ Clear(r, [copy EXCEPT !.reset = NoCode, !.left = NoTime], copy.change)

\* The profile: the whole row as it was read.
EditProfile(r) ==
    /\ Read(r, "save", NoCode)
    /\ UNCHANGED <<registration, row, cooldown, drawn, mailed, answered, history>>

SaveProfile(r) ==
    /\ At(r, "save")
    /\ row' = req[r].copy
    /\ Done(r)
    /\ UNCHANGED <<registration, cooldown, drawn, mailed, answered, history>>

\* An exception, or the death of the worker.
Abort(r) ==
    /\ ~At(r, "idle")
    /\ Done(r)
    /\ UNCHANGED <<registration, row, cooldown, drawn, mailed, answered, history>>

Down(t) == IF t \in {NoTime, 0} THEN t ELSE t - 1
Older(u) == [u EXCEPT !.left = Down(@)]

\* The entry ends with the time it names.
Tick ==
    /\ entry' = IF entry = NoEntry \/ entry.left = 1 THEN NoEntry
                ELSE [entry EXCEPT !.left = @ - 1]
    /\ row' = Older(row)
    /\ req' = [r \in Requests |-> [req[r] EXCEPT !.copy = Older(@)]]
    /\ cooldown' = Down(cooldown)
    /\ life' = [c \in Codes |-> Down(life[c])]
    /\ UNCHANGED <<pictures, account, drawn, mailed, answered, renewed, late, dead>>

-----------------------------------------------------------------------------
Registering(r) ==
    \/ \E f \in Forms : Register(r, f)
    \/ Resend(r) \/ Mail(r) \/ VerifyCode(r) \/ CheckVerified(r) \/ OpenPicture(r)
    \/ CreateUser(r) \/ RemovePicture(r) \/ Forget(r)
    \/ \E c \in Codes : Store(r, c)

Changing(r) ==
    \/ AskChangeCode(r) \/ CheckCooldown(r) \/ QueueMail(r) \/ SetCooldown(r)
    \/ AskResetCode(r) \/ VerifyReset(r)
    \/ Change(r) \/ ClearChange(r) \/ Reset(r) \/ ReadAgain(r) \/ ClearReset(r)
    \/ EditProfile(r) \/ SaveProfile(r)
    \/ \E c \in Codes : WriteChangeCode(r, c) \/ WriteResetCode(r, c)

Next == (\E r \in Requests : Registering(r) \/ Changing(r) \/ Abort(r)) \/ Tick

Spec == Init /\ [][Next]_vars

-----------------------------------------------------------------------------
(* Properties.                                                             *)

\* AccountIsMailed: the account holds the data its code was mailed for, however
\* registrations, resends and verifications of one address interleave.  It
\* needs the code and the data to come from one read of the entry.
AccountIsMailed == Verified => <<account.code, account.form>> \in mailed

\* PictureKept: the account has the picture sent with its data, whoever else
\* verifies the same registration; a picture is removed only once it is used.
PictureKept == Verified => account.picture

\* LoneCodeDies: a code used while no other request was in progress is not in
\* the row again, whatever stale rows are saved later.
LoneCodeDies == dead \cap {row.change, row.reset} = {}

\* LateOnlyIfRenewed: a code is accepted after its ten minutes only where the
\* time it shares with the other code was renewed or removed on account of that.
LateOnlyIfRenewed == late \subseteq renewed

\* "OTP sent to your registered email address": a change code whose request was
\* answered so has been mailed.
AnsweredIsMailed == \A c \in answered : Given(c)
=============================================================================
