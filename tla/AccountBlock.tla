----------------------------- MODULE AccountBlock -----------------------------
(***************************************************************************)
(* The temporary block of one account: blocked_until in its database row   *)
(* and the cached answer user_blocked_<id> in Redis.  It models            *)
(* security_actions.py (temporarily_block_user, clear_expired_user_block), *)
(* the check SecurityMiddleware makes before each request                  *)
(* (middleware/location_tracking.py), the login view (views.py), the views *)
(* and serializers that save a whole user, and the admin's unlock_accounts.*)
(*                                                                         *)
(* Requests run in parallel, each on its own copy of the row, and may be   *)
(* interrupted at every database or Redis call.  Times are countdowns: a   *)
(* block with 0 left has expired and is still to be cleared.  is_temporari-*)
(* ly_blocked and blocked_reason are written with blocked_until and decide *)
(* nothing; account_locked_until is never set.                             *)
(***************************************************************************)
EXTENDS Naturals, FiniteSets

CONSTANTS
    Requests,    \* requests that can be in progress together
    Attempts,    \* failed attempts that can be in the window together
    FailedTime,  \* block of FAILED_LOGIN_ATTEMPTS (30 minutes)
    HoursTime,   \* block of UNUSUAL_ACCESS_HOURS (60 minutes)
    TravelTime,  \* block of IMPOSSIBLE_TRAVEL (120 minutes)
    AnswerTime,  \* life of an answer the check caches (60 seconds)
    Window,      \* window of FAILED_LOGIN_ATTEMPTS (15 minutes)
    MaxAttempts, \* its max_attempts
    RedisMayFail,\* whether a call to Redis may raise
    NoBlock,     \* blocked_until = None
    NoEntry      \* Redis has no such key

ASSUME BlockAssumption ==
    /\ {FailedTime, HoursTime, TravelTime, AnswerTime, Window} \subseteq Nat \ {0}
    /\ MaxAttempts \in Nat \ {0} /\ IsFiniteSet(Attempts)
    /\ Window <= FailedTime /\ FailedTime <= HoursTime /\ HoursTime <= TravelTime
    /\ AnswerTime <= FailedTime
    /\ RedisMayFail \in BOOLEAN
    /\ NoBlock \notin Nat
    /\ NoEntry \notin [blocked : BOOLEAN, left : 1 .. TravelTime]

VARIABLES
    until,      \* time left of the row's blocked_until
    cache,      \* the cached answer
    failures,   \* time left in the window of each failed attempt, or 0
    req,        \* the requests
    applied,    \* how the last block was applied, while it lasts
    lifted      \* the last block was ended before its time

vars == <<until, cache, failures, req, applied, lifted>>

Left == (0 .. TravelTime) \cup {NoBlock}

Entry == [blocked : BOOLEAN, left : 1 .. TravelTime]

\* at: the call the request makes next; user: its copy of blocked_until;
\* time: the block it is to apply; after: it began while a block was applied.
Request == [kind : {"api", "wrong", "right", "save"},
            at : {"idle", "clear", "forget", "lookup", "storeTrue", "storeFalse", "serve",
                  "check", "count", "block", "cacheBlock", "save"},
            user : Left, time : 0 .. TravelTime, after : BOOLEAN]

TypeOK ==
    /\ until \in Left
    /\ cache \in Entry \cup {NoEntry}
    /\ failures \in [Attempts -> 0 .. Window]
    /\ req \in [Requests -> Request]
    /\ applied \in {"no", "saving", "alone", "overlapped"}
    /\ lifted \in BOOLEAN

Idle == [kind |-> "api", at |-> "idle", user |-> NoBlock, time |-> 0, after |-> FALSE]

Init ==
    /\ until = NoBlock
    /\ cache = NoEntry
    /\ failures = [a \in Attempts |-> 0]
    /\ req = [r \in Requests |-> Idle]
    /\ applied = "no"
    /\ lifted = FALSE

-----------------------------------------------------------------------------
\* MyUser.is_temporarily_blocked_active, and what clear_expired looks for.
Active(b) == b # NoBlock /\ b # 0
Expired(b) == b = 0

GoTo(r, at) == req' = [req EXCEPT ![r].at = at]
Done(r) == req' = [req EXCEPT ![r] = Idle]

FailedCount == Cardinality({a \in Attempts : failures[a] > 0})

\* The middleware's JWT check, authenticate, or a query by e-mail: the request
\* gets its own copy of the row.
Load(r, kind) ==
    /\ req[r].at = "idle"
    /\ req' = [req EXCEPT ![r] = [kind |-> kind,
                                  at |-> IF kind = "save" THEN "save" ELSE "clear",
                                  user |-> until, time |-> 0,
                                  after |-> applied \in {"alone", "overlapped"}]]
    /\ applied' = IF applied = "saving" THEN "no" ELSE applied
    /\ UNCHANGED <<until, cache, failures, lifted>>

-----------------------------------------------------------------------------
(* clear_expired_user_block: it judges by the copy and writes the row.     *)

ClearNothing(r) ==
    /\ req[r].at = "clear" /\ ~Expired(req[r].user)
    /\ GoTo(r, IF req[r].kind = "api" THEN "lookup" ELSE "check")
    /\ UNCHANGED <<until, cache, failures, applied, lifted>>

ClearExpired(r) ==
    /\ req[r].at = "clear" /\ Expired(req[r].user)
    /\ until' = NoBlock
    /\ lifted' = (lifted \/ Active(until))
    /\ req' = [req EXCEPT ![r].at = "forget", ![r].user = NoBlock]
    /\ UNCHANGED <<cache, failures, applied>>

\* The middleware then lets the request through without a look at the cache.
Forget(r) ==
    /\ req[r].at = "forget"
    /\ cache' = NoEntry
    /\ GoTo(r, IF req[r].kind = "api" THEN "serve" ELSE "check")
    /\ UNCHANGED <<until, failures, applied, lifted>>

-----------------------------------------------------------------------------
(* SecurityMiddleware._is_user_security_blocked                            *)

LookupHit(r) ==
    /\ req[r].at = "lookup" /\ cache # NoEntry
    /\ IF cache.blocked THEN Done(r) ELSE GoTo(r, "serve")
    /\ UNCHANGED <<until, cache, failures, applied, lifted>>

LookupMiss(r) ==
    /\ req[r].at = "lookup" /\ cache = NoEntry
    /\ GoTo(r, IF Active(req[r].user) THEN "storeTrue" ELSE "storeFalse")
    /\ UNCHANGED <<until, cache, failures, applied, lifted>>

Store(r) ==
    /\ req[r].at \in {"storeTrue", "storeFalse"}
    /\ cache' = [blocked |-> req[r].at = "storeTrue", left |-> AnswerTime]
    /\ IF req[r].at = "storeTrue" THEN Done(r) ELSE GoTo(r, "serve")
    /\ UNCHANGED <<until, failures, applied, lifted>>

\* A Redis call that raises: the lookup takes it for "not blocked"; the other
\* calls end the request with an error and leave what was written before.
RedisFails(r) ==
    /\ RedisMayFail
    /\ req[r].at \in {"forget", "lookup", "storeTrue", "storeFalse", "cacheBlock"}
    /\ IF req[r].at = "lookup" THEN GoTo(r, "serve") ELSE Done(r)
    /\ applied' = "no"
    /\ UNCHANGED <<until, cache, failures, lifted>>

-----------------------------------------------------------------------------
(* What a request that was let through may do.                             *)

ApplyRule(r, time) == req' = [req EXCEPT ![r].at = "block", ![r].time = time]

\* The view runs, or the login ends with a token or an unverified device.
Finish(r) ==
    /\ req[r].at = "serve"
    /\ Done(r)
    /\ UNCHANGED <<until, cache, failures, applied, lifted>>

\* is_access_time_allowed, before the view, while the hour is a restricted one.
HoursRule(r) ==
    /\ req[r].at = "serve" /\ req[r].kind = "api"
    /\ ApplyRule(r, HoursTime)
    /\ UNCHANGED <<until, cache, failures, applied, lifted>>

\* _check_location_anomalies after the view; a login does the same before its
\* final check, which it makes on the copy this block is written through and
\* fails.  That a request may apply the rule twice in a row is left out.
TravelRule(r) ==
    /\ req[r].at = "serve"
    /\ ApplyRule(r, TravelTime)
    /\ UNCHANGED <<until, cache, failures, applied, lifted>>

\* UserLoginView after clear_expired_user_block.
LoginRefused(r) ==
    /\ req[r].at = "check" /\ Active(req[r].user)
    /\ Done(r)
    /\ UNCHANGED <<until, cache, failures, applied, lifted>>

LoginAccepted(r) ==
    /\ req[r].at = "check" /\ req[r].kind = "right" /\ ~Active(req[r].user)
    /\ GoTo(r, "serve")
    /\ UNCHANGED <<until, cache, failures, applied, lifted>>

\* A wrong password: the attempt is recorded first and counted second.
RecordAttempt(r) ==
    /\ req[r].at = "check" /\ req[r].kind = "wrong" /\ ~Active(req[r].user)
    /\ \E a \in Attempts : failures[a] = 0 /\ failures' = [failures EXCEPT ![a] = Window]
    /\ GoTo(r, "count")
    /\ UNCHANGED <<until, cache, applied, lifted>>

\* Mutant of CountAttempts: off by one.
CountMoreThanMax(r) ==
    /\ req[r].at = "count"
    /\ IF FailedCount > MaxAttempts THEN ApplyRule(r, FailedTime) ELSE Done(r)
    /\ UNCHANGED <<until, cache, failures, applied, lifted>>

CountAttempts(r) ==
    /\ req[r].at = "count"
    /\ IF FailedCount >= MaxAttempts THEN ApplyRule(r, FailedTime) ELSE Done(r)
    /\ UNCHANGED <<until, cache, failures, applied, lifted>>

-----------------------------------------------------------------------------
(* temporarily_block_user: the row, then the cache.  A new block replaces  *)
(* the old one, be it longer.                                              *)

SaveBlock(r) ==
    /\ req[r].at = "block"
    /\ until' = req[r].time
    /\ lifted' = FALSE
    /\ applied' = IF \A q \in Requests \ {r} : req[q].at = "idle" THEN "saving" ELSE "no"
    /\ GoTo(r, "cacheBlock")
    /\ UNCHANGED <<cache, failures>>

BlockCached(r) ==
    /\ applied' = CASE applied = "saving" -> "alone"
                    [] applied # "saving" /\ Active(until) /\ ~lifted -> "overlapped"
                    [] applied # "saving" /\ (~Active(until) \/ lifted) -> "no"
    /\ Done(r)
    /\ UNCHANGED <<until, failures, lifted>>

\* Mutant of CacheBlock: the time is not brought to the unit of the cache.
CacheBlockInSeconds(r) ==
    /\ req[r].at = "cacheBlock"
    /\ cache' = [blocked |-> TRUE, left |-> 60 * req[r].time]
    /\ BlockCached(r)

\* Mutant of CacheBlock: cache.add, which leaves an earlier answer alone.
CacheBlockIfAbsent(r) ==
    /\ req[r].at = "cacheBlock"
    /\ cache' = IF cache = NoEntry THEN [blocked |-> TRUE, left |-> req[r].time] ELSE cache
    /\ BlockCached(r)

CacheBlock(r) ==
    /\ req[r].at = "cacheBlock"
    /\ cache' = [blocked |-> TRUE, left |-> req[r].time]
    /\ BlockCached(r)

-----------------------------------------------------------------------------
(* Forgot password, resend, reset and change password, and the profile:    *)
(* user.save() writes every column of the copy.                            *)

SaveUser(r) ==
    /\ req[r].at = "save"
    /\ until' = req[r].user
    /\ lifted' = (lifted \/ (Active(until) /\ until # req[r].user))
    /\ Done(r)
    /\ UNCHANGED <<cache, failures, applied>>

\* The admin's unlock_accounts: one UPDATE, and nothing of the cache.
Unlock ==
    /\ until' = NoBlock
    /\ lifted' = TRUE
    /\ applied' = "no"
    /\ UNCHANGED <<cache, failures, req>>

Down(b) == IF b \in {NoBlock, 0} THEN b ELSE b - 1

\* Time passes for the row, the copies, the attempts and the cached answer.
Tick ==
    /\ until' = Down(until)
    /\ req' = [r \in Requests |-> [req[r] EXCEPT !.user = Down(@)]]
    /\ failures' = [a \in Attempts |-> Down(failures[a])]
    /\ cache' = IF cache = NoEntry \/ cache.left = 1 THEN NoEntry
                ELSE [cache EXCEPT !.left = @ - 1]
    /\ applied' = IF until = 1 THEN "no" ELSE applied
    /\ UNCHANGED lifted

Proceed(r) ==
    \/ ClearNothing(r) \/ ClearExpired(r) \/ Forget(r)
    \/ LookupHit(r) \/ LookupMiss(r) \/ Store(r) \/ RedisFails(r)
    \/ Finish(r) \/ HoursRule(r) \/ TravelRule(r)
    \/ LoginRefused(r) \/ LoginAccepted(r) \/ RecordAttempt(r) \/ CountAttempts(r)
    \/ SaveBlock(r) \/ CacheBlock(r)
    \/ SaveUser(r)

Next ==
    \/ \E r \in Requests : Proceed(r)
    \/ \E r \in Requests, kind \in {"api", "wrong", "right", "save"} : Load(r, kind)
    \/ Unlock
    \/ Tick

Spec == Init /\ [][Next]_vars

-----------------------------------------------------------------------------
(* Properties.                                                             *)

\* FailedLoginsBlock: too many failed attempts within the window never go
\* without a block, however the logins that record and count them interleave
\* and however long they take, unless that block was ended before its time.
\* It needs attempts to be recorded before they are counted and a block at
\* least as long as the window.
FailedLoginsBlock ==
    /\ FailedCount >= MaxAttempts
    /\ \A r \in Requests : req[r].kind = "wrong" => req[r].at \notin {"count", "block"}
    /\ ~lifted
    => Active(until)

\* LoneBlockHolds: a block that was written to the row and to the cache while
\* no other request was in progress holds: until it expires or is unlocked, or
\* Redis fails, no request is served and no login accepted.
LoneBlockHolds ==
    applied = "alone" => \A r \in Requests : req[r].at # "serve"

-----------------------------------------------------------------------------
(* What the code or its documents say and the code does not keep.          *)

\* "Subsequent requests instantly check the Redis cache first ... terminated
\* with a 403": no request that began after a block was in the row and in the
\* cache is served while that block lasts.
SubsequentRefused ==
    applied \in {"alone", "overlapped"} =>
        \A r \in Requests : req[r].kind = "api" /\ req[r].after => req[r].at # "serve"
=============================================================================
