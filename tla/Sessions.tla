------------------------------- MODULE Sessions -------------------------------
(***************************************************************************)
(* The password of one account and what hangs on it: the access tokens     *)
(* (authentication.py), the verified devices and their e-mailed links, and *)
(* the row of the user, which several views save whole.  It models the     *)
(* login after its block checks, device verification, password change and  *)
(* reset, logout, profile and public keys (views.py, serializers.py).      *)
(* Whether a request has the right code is the matter of Codes, whether    *)
(* the account is blocked that of AccountBlock.                            *)
(*                                                                         *)
(* Requests run in parallel, each on its own copy of the row, and are      *)
(* interrupted at every database statement.  Time is in seconds, as in a   *)
(* token; a change of the password falls within its second.                *)
(***************************************************************************)
EXTENDS Integers, FiniteSets

CONSTANTS
    Requests,      \* requests that can be in progress together
    Devices,       \* device fingerprints the owner logs in with
    Links,         \* device verifications that exist together
    Tokens,        \* access tokens that live together
    MaxTime,       \* bound on the clock
    MaxPassword,   \* bound on the changes of the password
    NoDevice, NoLink, NoToken

ASSUME SessionAssumption ==
    /\ MaxTime \in Nat /\ MaxPassword \in Nat
    /\ NoDevice \notin Devices /\ NoLink \notin Links

VARIABLES
    now,       \* the clock
    user,      \* the row: password, password_changed_at, public keys
    made,      \* passwords chosen so far
    known,     \* DeviceInfo rows
    verified,  \* those with is_verified
    link,      \* DeviceVerification rows
    token,     \* access tokens, with their refresh token's blacklist entry
    req,       \* the requests
    published, \* the owner was answered that the keys are stored
    confirmed, \* devices verified by a link since the password last changed
    broken,    \* a change ended between the password and the devices
    undone     \* columns a stale copy was saved over

vars == <<now, user, made, known, verified, link, token, req,
          published, confirmed, broken, undone>>

Never == -1

User == [password : 0 .. MaxPassword, changed : Never .. MaxTime, keys : BOOLEAN]

Link == [device : Devices, state : {"open", "expired", "used"}]

\* iat: the second of issue; password: the one the request that asked for it
\* had seen; late: that password was being replaced meanwhile.
Token == [iat : 0 .. MaxTime, password : 0 .. MaxPassword, late : BOOLEAN, black : BOOLEAN]

\* at: what the request does next.
Request == [kind : {"none", "login", "code", "change", "reset", "profile", "keys", "click"},
            at : {"idle", "device", "newLink", "anyLink", "record", "issue", "stamp", "write",
                  "blacklist", "revoke", "publish", "confirm", "close"},
            copy : User, device : Devices \cup {NoDevice}, link : Links \cup {NoLink}]

TypeOK ==
    /\ now \in 0 .. MaxTime
    /\ user \in User /\ made \in 0 .. MaxPassword
    /\ known \subseteq Devices /\ verified \subseteq known
    /\ link \in [Links -> Link \cup {NoLink}]
    /\ token \in [Tokens -> Token \cup {NoToken}]
    /\ req \in [Requests -> Request]
    /\ published \in BOOLEAN /\ confirmed \subseteq Devices /\ broken \in BOOLEAN
    /\ undone \subseteq {"password", "keys"}

FirstUser == [password |-> 0, changed |-> Never, keys |-> FALSE]

Idle == [kind |-> "none", at |-> "idle", copy |-> FirstUser,
         device |-> NoDevice, link |-> NoLink]

\* A verified account after its registration.
Init ==
    /\ now = 0
    /\ user = FirstUser /\ made = 0
    /\ known = {} /\ verified = {}
    /\ link = [v \in Links |-> NoLink]
    /\ token = [t \in Tokens |-> NoToken]
    /\ req = [r \in Requests |-> Idle]
    /\ published = FALSE /\ confirmed = {} /\ broken = FALSE /\ undone = {}

-----------------------------------------------------------------------------
rowVars == <<user, made, published, undone>>
deviceVars == <<known, verified, link, confirmed, broken>>

At(r, at) == req[r].at = at
GoTo(r, at) == req' = [req EXCEPT ![r].at = at]
Done(r) == req' = [req EXCEPT ![r] = Idle]

\* What a request still uses of the row it has read: all of it if it saves the
\* whole user, else its password at most.
Needed(kind, u) ==
    CASE kind \in {"change", "reset", "profile"} -> u
      [] kind \in {"login", "code", "written"} -> [FirstUser EXCEPT !.password = u.password]
      [] kind \in {"keys", "click"} -> FirstUser

Begin(r, kind, at) ==
    /\ At(r, "idle")
    /\ req' = [req EXCEPT ![r] = [kind |-> kind, at |-> at, copy |-> Needed(kind, user),
                                  device |-> NoDevice, link |-> NoLink]]

\* BlacklistCheckJWTAuthentication.get_user
Accepted(t) == token[t] # NoToken /\ token[t].iat > user.changed

Authenticated(r, kind, at) ==
    /\ \E t \in Tokens : Accepted(t)
    /\ Begin(r, kind, at)
    /\ UNCHANGED <<now, rowVars, deviceVars, token>>

-----------------------------------------------------------------------------
(* Login.                                                                  *)

\* authenticate: the password is right.
Login(r) ==
    /\ Begin(r, "login", "device")
    /\ UNCHANGED <<now, rowVars, deviceVars, token>>

GetDevice(r, d) ==
    /\ At(r, "device")
    /\ known' = known \cup {d}
    /\ req' = [req EXCEPT ![r].device = d,
                          ![r].at = CASE d \notin known -> "newLink"
                                      [] d \in known \ verified -> "anyLink"
                                      [] d \in verified -> "record"]
    /\ UNCHANGED <<now, rowVars, verified, link, confirmed, broken, token>>

\* A new device gets a link of its own, a known one that is not verified the
\* link it has, if one is open.  Both logins are refused.
SendLink(r) == LET d == req[r].device IN
    /\ \/ At(r, "newLink")
       \/ At(r, "anyLink") /\ \A v \in Links : link[v] # [device |-> d, state |-> "open"]
    /\ \E v \in Links : /\ link[v] = NoLink
                        /\ link' = [link EXCEPT ![v] = [device |-> d, state |-> "open"]]
    /\ Done(r)
    /\ UNCHANGED <<now, rowVars, known, verified, confirmed, broken, token>>

SendLinkAgain(r) ==
    /\ At(r, "anyLink")
    /\ \E v \in Links : link[v] = [device |-> req[r].device, state |-> "open"]
    /\ Done(r)
    /\ UNCHANGED <<now, rowVars, deviceVars, token>>

\* Mutant of RecordLogin: device.save() writes every column of the device.
RecordWholeDevice(r) ==
    /\ At(r, "record")
    /\ verified' = verified \cup {req[r].device}
    /\ GoTo(r, "issue")
    /\ UNCHANGED <<now, rowVars, known, link, confirmed, broken, token>>

\* The attempt, the device's count and the user's last login: the columns
\* update_fields names are none of those modelled here.
RecordLogin(r) ==
    /\ At(r, "record")
    /\ GoTo(r, "issue")
    /\ UNCHANGED <<now, rowVars, deviceVars, token>>

\* A password is stamped with a time and not written yet.
Replacing == {r \in Requests : At(r, "write") /\ req[r].kind \in {"change", "reset"}}

\* get_token_for_user: also what a password change answers with, and what the
\* check of a reset code does.
Issue(r) ==
    /\ At(r, "issue")
    /\ \E t \in Tokens :
          /\ token[t] = NoToken
          /\ token' = [token EXCEPT ![t] =
                [iat |-> now, password |-> req[r].copy.password, black |-> FALSE,
                 late |-> req[r].copy.password # user.password \/ Replacing # {}]]
    /\ Done(r)
    /\ UNCHANGED <<now, rowVars, deviceVars>>
-----------------------------------------------------------------------------
(* The link of a device verification.                                      *)

Click(r, v) ==
    /\ At(r, "idle") /\ link[v] # NoLink /\ link[v].state = "open"
    /\ req' = [req EXCEPT ![r] = [kind |-> "click", at |-> "confirm", copy |-> FirstUser,
                                  device |-> link[v].device, link |-> v]]
    /\ UNCHANGED <<now, rowVars, deviceVars, token>>

Confirm(r) == LET d == req[r].device IN
    /\ At(r, "confirm")
    /\ verified' = verified \cup {d}
    /\ confirmed' = confirmed \cup {d}
    /\ GoTo(r, "close")
    /\ UNCHANGED <<now, rowVars, known, link, broken, token>>

\* It fails where cleanup_expired_verifications has deleted the row.
CloseLink(r) == LET v == req[r].link IN
    /\ At(r, "close")
    /\ link' = IF link[v] = NoLink THEN link ELSE [link EXCEPT ![v].state = "used"]
    /\ Done(r)
    /\ UNCHANGED <<now, rowVars, known, verified, confirmed, broken, token>>

ExpireLink(v) ==
    /\ link[v] # NoLink /\ link[v].state = "open"
    /\ link' = [link EXCEPT ![v].state = "expired"]
    /\ UNCHANGED <<now, rowVars, known, verified, confirmed, broken, token, req>>

\* cleanup_expired_verifications: 24 hours later, used or not.
Cleanup ==
    /\ link' = [v \in Links |-> IF \A r \in Requests : req[r].link # v THEN NoLink ELSE link[v]]
    /\ UNCHANGED <<now, rowVars, known, verified, confirmed, broken, token, req>>

-----------------------------------------------------------------------------
(* Changing the password (with a token) and resetting it (without).        *)

Change(r) == Authenticated(r, "change", "stamp")

Reset(r) ==
    /\ Begin(r, "reset", "stamp")
    /\ UNCHANGED <<now, rowVars, deviceVars, token>>

\* ResetOtpVerifyView answers the right code with a token.
VerifyResetCode(r) ==
    /\ Begin(r, "code", "issue")
    /\ UNCHANGED <<now, rowVars, deviceVars, token>>

\* Mutant of Stamp: the time of the change is left as it was.
StampPassword(r) ==
    /\ At(r, "stamp") /\ made < MaxPassword
    /\ made' = made + 1
    /\ req' = [req EXCEPT ![r].copy.password = made', ![r].at = "write"]
    /\ UNCHANGED <<now, user, published, undone, deviceVars, token>>

\* Mutant of Stamp: the time is rounded up to the next whole second.
StampRoundedUp(r) ==
    /\ At(r, "stamp") /\ made < MaxPassword
    /\ made' = made + 1
    /\ req' = [req EXCEPT ![r].copy.password = made', ![r].copy.changed = now + 1,
                          ![r].at = "write"]
    /\ UNCHANGED <<now, user, published, undone, deviceVars, token>>

\* set_password and password_changed_at, on the copy.
Stamp(r) ==
    /\ At(r, "stamp") /\ made < MaxPassword
    /\ made' = made + 1
    /\ req' = [req EXCEPT ![r].copy.password = made', ![r].copy.changed = now, ![r].at = "write"]
    /\ UNCHANGED <<now, user, published, undone, deviceVars, token>>

\* user.save(), every column.
Undone(r) == {c \in {"password", "keys"} : req[r].copy[c] # user[c]}

WritePassword(r) ==
    /\ At(r, "write") /\ req[r].kind \in {"change", "reset"}
    /\ user' = req[r].copy
    /\ undone' = (undone \cup Undone(r)) \ {"password"}
    /\ confirmed' = {}
    /\ req' = [req EXCEPT ![r].at = "blacklist", ![r].copy = Needed("written", @)]
    /\ UNCHANGED <<now, made, published, known, verified, link, broken, token>>

\* Every outstanding refresh token; no route exchanges one for an access token.
Blacklist(r) ==
    /\ At(r, "blacklist")
    /\ token' = [t \in Tokens |-> IF token[t] = NoToken THEN NoToken
                                  ELSE [token[t] EXCEPT !.black = TRUE]]
    /\ GoTo(r, "revoke")
    /\ UNCHANGED <<now, rowVars, deviceVars>>

\* One UPDATE of all devices; a change answers with a new token.
Revoke(r) ==
    /\ At(r, "revoke")
    /\ verified' = {}
    /\ broken' = FALSE
    /\ IF req[r].kind = "change" THEN GoTo(r, "issue") ELSE Done(r)
    /\ UNCHANGED <<now, rowVars, known, link, confirmed, token>>

\* An exception, or the death of the worker: what was committed stays.
Abort(r) ==
    /\ ~At(r, "idle")
    /\ broken' = (broken \/ At(r, "blacklist") \/ At(r, "revoke"))
    /\ Done(r)
    /\ UNCHANGED <<now, rowVars, known, verified, link, confirmed, token>>

-----------------------------------------------------------------------------
(* What else writes the user.                                              *)

EditProfile(r) == Authenticated(r, "profile", "write")

\* Forgot password and its resend write a code and save the whole user.
AskResetCode(r) ==
    /\ Begin(r, "profile", "write")
    /\ UNCHANGED <<now, rowVars, deviceVars, token>>

\* Mutant of WriteRow: update_fields leaves out the password, and not its time.
WriteRowButPassword(r) ==
    /\ At(r, "write") /\ req[r].kind = "profile"
    /\ user' = [req[r].copy EXCEPT !.password = user.password]
    /\ undone' = undone \cup (Undone(r) \ {"password"})
    /\ Done(r)
    /\ UNCHANGED <<now, made, published, deviceVars, token>>

WriteRow(r) ==
    /\ At(r, "write") /\ req[r].kind = "profile"
    /\ user' = req[r].copy
    /\ undone' = undone \cup Undone(r)
    /\ Done(r)
    /\ UNCHANGED <<now, made, published, deviceVars, token>>

SendKeys(r) == Authenticated(r, "keys", "publish")

\* Mutant of Publish: update_fields names one of the two keys.
PublishOne(r) ==
    /\ At(r, "publish")
    /\ published' = TRUE
    /\ undone' = undone \ {"keys"}
    /\ Done(r)
    /\ UNCHANGED <<now, user, made, deviceVars, token>>

\* update_fields: the two keys alone.
Publish(r) ==
    /\ At(r, "publish")
    /\ user' = [user EXCEPT !.keys = TRUE]
    /\ published' = TRUE
    /\ undone' = undone \ {"keys"}
    /\ Done(r)
    /\ UNCHANGED <<now, made, deviceVars, token>>

\* It needs an accepted access token and a refresh token not yet blacklisted.
Logout(t) ==
    /\ Accepted(t) /\ ~token[t].black
    /\ token' = [token EXCEPT ![t].black = TRUE]
    /\ UNCHANGED <<now, rowVars, deviceVars, req>>

\* A day later.
ExpireToken(t) ==
    /\ token[t] # NoToken
    /\ token' = [token EXCEPT ![t] = NoToken]
    /\ UNCHANGED <<now, rowVars, deviceVars, req>>

Tick ==
    /\ now < MaxTime
    /\ now' = now + 1
    /\ UNCHANGED <<rowVars, deviceVars, token, req>>

-----------------------------------------------------------------------------
Start(r) ==
    \/ Login(r) \/ Change(r) \/ Reset(r) \/ VerifyResetCode(r)
    \/ EditProfile(r) \/ AskResetCode(r) \/ SendKeys(r)
    \/ \E v \in Links : Click(r, v)

Proceed(r) ==
    \/ \E d \in Devices : GetDevice(r, d)
    \/ SendLink(r) \/ SendLinkAgain(r) \/ RecordLogin(r) \/ Issue(r)
    \/ Confirm(r) \/ CloseLink(r)
    \/ Stamp(r) \/ WritePassword(r) \/ Blacklist(r) \/ Revoke(r)
    \/ WriteRow(r) \/ Publish(r)

Next ==
    \/ \E r \in Requests : Start(r) \/ Proceed(r) \/ Abort(r)
    \/ \E v \in Links : ExpireLink(v)
    \/ \E t \in Tokens : Logout(t) \/ ExpireToken(t)
    \/ Cleanup
    \/ Tick

Spec == Init /\ [][Next]_vars

-----------------------------------------------------------------------------
(* Properties.                                                             *)

\* SessionsFollowPassword: an access token the REST views accept was asked for
\* with the password the account has now, however logins, changes and resets
\* interleave, unless the password was being replaced while the token was
\* issued or a whole-row save brought back an earlier one.  It needs the time
\* of the change to be taken no earlier than the last old token and written
\* with the password.
SessionsFollowPassword ==
    "password" \notin undone =>
        \A t \in Tokens : Accepted(t) => token[t].password = user.password \/ token[t].late

\* RevokedAfterChange: once a change or reset of the password is through, a
\* device is verified only if its link was followed after the password was
\* written; a login that is on its way does not verify it again.  A change that
\* breaks off before it reaches the devices leaves them as they were.
RevokedAfterChange ==
    \/ verified \subseteq confirmed
    \/ broken
    \/ \E r \in Requests : At(r, "blacklist") \/ At(r, "revoke")

\* RefusedForGood: a token the REST views refuse they never accept again, unless
\* it was issued while the password was being replaced or a whole-row save has
\* brought back an earlier password.  Changes that overlap may be written in the
\* other order of their times, and take the time of the last change back.
RefusedForGood ==
    [][\A t \in Tokens : token[t] # NoToken /\ token'[t] # NoToken =>
          \/ Accepted(t) \/ ~Accepted(t)'
          \/ token[t].late
          \/ "password" \in undone']_vars

\* KeysStay: keys the owner was told are stored stay in the row, unless a
\* whole-row save from a stale copy took them out.
KeysStay == published => user.keys \/ "keys" \in undone

\* "If the token was issued BEFORE the password was changed, reject it"
\* (BlacklistCheckJWTAuthentication): a token asked for with the password the
\* account has, and not overtaken by another change, is accepted.
OnlyOlderRefused ==
    "password" \notin undone =>
        \A t \in Tokens :
            token[t] # NoToken /\ token[t].password = user.password /\ ~token[t].late
                => Accepted(t)
=============================================================================
