-------------------------------- MODULE Threat --------------------------------
(***************************************************************************)
(* The tracking of one account after each of its requests: places (rows by *)
(* IP address), the travel and device rules, the activity log, the alert   *)
(* mails with their cooldown, and the risk score.  It models               *)
(* SecurityMiddleware._track_and_analyze_activity and its detectors        *)
(* (middleware/location_tracking.py), apply_security_rule                  *)
(* (security_actions.py), the part of the login that tracks (views.py) and *)
(* update_geolocation_async (tasks.py).                                    *)
(*                                                                         *)
(* Requests run in parallel and are interrupted at every call to the       *)
(* database, to Redis and to the queue.  A lookup of an address may fail,  *)
(* and what it returned, or failed to, is written over the row's           *)
(* coordinates.  The score is also written by the admin's reset and by     *)
(* every save of a whole user.                                             *)
(*                                                                         *)
(* What a rule blocks is the matter of AccountBlock, and whether a device  *)
(* is new or one too many an input.  A session check that compares with a  *)
(* key nobody writes, and the score of a single place, decide nothing and  *)
(* are left out; the log is kept as the capped sum of its weights, so that *)
(* entries of a type without a weight do not show, and its seven days do   *)
(* not pass.                                                               *)
(***************************************************************************)
EXTENDS Naturals, FiniteSets

CONSTANTS
    Requests,     \* requests and tasks that can be in progress together
    Places,       \* addresses requests come from
    Located,      \* those a lookup finds coordinates of (private ones have none)
    Reliable,     \* bound: those whose lookup never fails
    Far, Middle,  \* pairs of places over 500 km apart, and over 100 km
    Window,       \* how long a place is recent (60 minutes)
    MostOthers,   \* recent places a request is compared with (5)
    Weight,       \* risk of each activity
    MaxRisk,      \* cap of the risk score (100)
    Notified,     \* rules with should_notify
    MostTasks,    \* bound on the logins and the tasks they queue
    QueueMayFail, \* whether queueing a mail may raise
    NoPlace

Rules == {"travel", "rapid", "device", "devices"}

ASSUME ThreatAssumption ==
    /\ Located \subseteq Places /\ Reliable \subseteq Located /\ NoPlace \notin Places
    /\ \A pair \in Far \cup Middle : \E p, q \in Located : p # q /\ pair = {p, q}
    /\ Far \cap Middle = {}
    /\ Window \in Nat \ {0} /\ MostOthers \in Nat /\ MostTasks \in Nat
    /\ MaxRisk \in Nat /\ Weight \in [Rules \cup {"place"} -> Nat]
    /\ Notified \subseteq Rules /\ QueueMayFail \in BOOLEAN

VARIABLES
    stored,   \* places with a UserLocation row
    seen,     \* time left until a place is no longer recent
    older,    \* older[p]: the recent places last seen before p, which is recent
    located,  \* recent places whose row has coordinates
    cooling,  \* notify_cooldown_<id>_<type>: rules whose alerts are silent
    logged,   \* weights of the activity log
    risk,     \* the user's risk_score
    queued,   \* places of update_geolocation_async tasks
    req,      \* the requests
    noticed,  \* pairs a travel rule was logged for while both were recent
    excused,  \* pairs whose tracking was cut short, looked elsewhere or was blind
    mailed,   \* rules an alert was queued for in this cooldown
    lone      \* the score was written by a request no other overlapped, and
              \* neither reset nor written over since

vars == <<stored, seen, older, located, cooling, logged, risk, queued, req,
          noticed, excused, mailed, lone>>

\* at: what the request does next; next: where it goes on after a rule; other:
\* the place that made it apply; found: the lookup of its place gave coordinates;
\* copy: the score it computed, or loaded with the user.
Request == [kind : {"none", "api", "login", "refused", "task", "save"},
            at : {"idle", "place", "device", "rapid", "travel", "devices", "risk", "score",
                  "end", "refresh", "save", "log", "notice", "queue", "cool", "user"},
            place : Places \cup {NoPlace}, other : Places \cup {NoPlace}, found : BOOLEAN,
            rule : Rules \cup {"none"}, next : {"none", "rapid", "travel", "devices", "risk",
                                                "end", "refresh"},
            copy : 0 .. MaxRisk, alone : BOOLEAN]

TypeOK ==
    /\ stored \subseteq Places
    /\ seen \in [Places -> 0 .. Window]
    /\ older \in [Places -> SUBSET Places]
    /\ located \subseteq Places
    /\ cooling \subseteq Rules
    /\ logged \in 0 .. MaxRisk /\ risk \in 0 .. MaxRisk
    /\ queued \subseteq Places
    /\ req \in [Requests -> Request]
    /\ noticed \subseteq Far /\ excused \subseteq Far
    /\ mailed \subseteq Rules /\ lone \in BOOLEAN

Idle == [kind |-> "none", at |-> "idle", place |-> NoPlace, other |-> NoPlace,
         found |-> FALSE, rule |-> "none", next |-> "none", copy |-> 0, alone |-> FALSE]

Init ==
    /\ stored = {} /\ seen = [p \in Places |-> 0]
    /\ older = [p \in Places |-> {}] /\ located = {}
    /\ cooling = {}
    /\ logged = 0 /\ risk = 0
    /\ queued = {}
    /\ req = [r \in Requests |-> Idle]
    /\ noticed = {} /\ excused = {} /\ mailed = {} /\ lone = TRUE

-----------------------------------------------------------------------------
places == <<stored, seen, older, located>>
mails == <<cooling, mailed>>
score == <<logged, risk, lone>>

At(r, at) == req[r].at = at
GoTo(r, at) == req' = [req EXCEPT ![r].at = at]
Done(r) == req' = [req EXCEPT ![r] = Idle]

\* Every other request is overlapped from now on.
Begin(r, new) ==
    /\ At(r, "idle")
    /\ req' = [q \in Requests |->
                  IF q = r THEN [new EXCEPT !.alone = \A s \in Requests : At(s, "idle")]
                  ELSE [req[q] EXCEPT !.alone = FALSE]]

New(kind, at, p, found) ==
    [Idle EXCEPT !.kind = kind, !.at = at, !.place = p, !.found = found]

Fresh == {p \in Places : seen[p] > 0}

\* What _get_geolocation_data and get_geo_data return for an address: its
\* coordinates, out of the cache or not, or none where it has none or the
\* service fails.  They are the same at each lookup that gives any.
Lookup(p, found) == (found => p \in Located) /\ (~found => p \notin Reliable)

\* update_or_create, or save, of the row of a place: it is the last seen, and
\* has the coordinates of this lookup or none.
Touch(p, found) ==
    /\ stored' = stored \cup {p}
    /\ located' = IF found THEN located \cup {p} ELSE located \ {p}
    /\ older' = [q \in Places |-> IF q = p THEN Fresh \ {p} ELSE older[q] \ {p}]
    /\ seen' = [seen EXCEPT ![p] = Window]

\* The last seen of some recent places.
Last(S) == IF S = {} THEN NoPlace ELSE CHOOSE q \in S : S \ {q} \subseteq older[q]

Capped(n) == IF n > MaxRisk THEN MaxRisk ELSE n

\* The other recent places, and those of them a request at p is compared with.
Recent(p) == Fresh \ {p}
Crowded(p) == Cardinality(Recent(p)) > MostOthers

\* Mutant of Others: the place itself is left out after the number is limited.
OthersOfFirst(p) ==
    {q \in Recent(p) : Cardinality({s \in Fresh : q \in older[s]}) < MostOthers}

Others(p) == {q \in Recent(p) : Cardinality({s \in Recent(p) : q \in older[s]}) < MostOthers}

FarFrom(p) == {q \in Places : {p, q} \in Far}
MiddleFrom(p) == {q \in Places : {p, q} \in Middle}
PairsOf(p, S) == {{p, q} : q \in FarFrom(p) \cap S}
RecentPairs == {pair \in Far : pair \subseteq Fresh}

\* Those of the others it can measure the distance to.
Measured(r) == IF req[r].found THEN Others(req[r].place) \cap located ELSE {}

\* The pairs that a look around says nothing of: all but the match where there
\* is one, since the first to match ends it; those a crowd hides; those with no
\* coordinates on the other side, or on this one.
PassedOver(r, match) ==
    LET p == req[r].place
    IN  RecentPairs \cap
        PairsOf(p, IF match = NoPlace /\ req[r].found /\ ~Crowded(p)
                   THEN Places \ located ELSE Places \ {match})

\* A rule is applied, then the request goes on.
Apply(r, at, rule, other, next) ==
    req' = [req EXCEPT ![r].at = at, ![r].rule = rule, ![r].other = other, ![r].next = next]

\* The rule is done; a login still asks whether it blocked.
Return(r) == req' = [req EXCEPT ![r].at = req[r].next, ![r].next = "none", ![r].other = NoPlace,
                                ![r].rule = IF req[r].kind = "login" THEN @ ELSE "none"]

-----------------------------------------------------------------------------
(* _track_and_analyze_activity                                             *)

\* A place that is tracked from the start has no excuse any more.
Visit(p) == excused' = {pair \in excused : p \notin pair}

\* Its row is saved later on: an excuse if it was no longer recent by then.
SaveAgain(p, found) ==
    /\ Touch(p, found)
    /\ excused' = IF seen[p] = 0 THEN excused \cup PairsOf(p, Recent(p)) ELSE excused

Track(r, p, found) ==
    /\ Lookup(p, found)
    /\ Begin(r, New("api", IF p \in stored THEN "device" ELSE "place", p, found))
    /\ Touch(p, found)
    /\ Visit(p)
    /\ UNCHANGED <<mails, score, queued, noticed>>

\* log_suspicious_activity of a new place: not again within five minutes of
\* another, which is left open.
LogPlace(r) ==
    /\ At(r, "place")
    /\ \/ logged' = Capped(logged + Weight["place"]) /\ lone' = FALSE
       \/ UNCHANGED <<logged, lone>>
    /\ GoTo(r, "device")
    /\ UNCHANGED <<places, mails, risk, queued, noticed, excused>>

\* update_or_create of the device, with its rule if it is new.
UseDevice(r) ==
    /\ At(r, "device")
    /\ GoTo(r, "rapid") \/ Apply(r, "log", "device", NoPlace, "rapid")
    /\ UNCHANGED <<places, mails, score, queued, noticed, excused>>

\* _detect_rapid_location_change: the last seen place some rule matches, with
\* the severer of its rules.  Whether a place is within the shorter window of
\* the milder rule is left open.
Detect(r) ==
    LET p == req[r].place
        far == FarFrom(p) \cap Measured(r)
        after == IF req[r].kind = "api" THEN "travel" ELSE "end"
    IN
    /\ At(r, "rapid")
    /\ \E soon \in SUBSET (MiddleFrom(p) \cap Measured(r)) :
          LET match == Last(far \cup soon) IN
          /\ IF match = NoPlace THEN GoTo(r, after)
             ELSE Apply(r, "save", IF match \in far THEN "travel" ELSE "rapid", match, after)
          /\ excused' = IF after = "travel" THEN excused ELSE excused \cup PassedOver(r, match)
    /\ UNCHANGED <<places, mails, score, queued, noticed>>

\* _detect_impossible_travel: the last seen far place.
DetectTravel(r) ==
    LET match == Last(FarFrom(req[r].place) \cap Measured(r)) IN
    /\ At(r, "travel")
    /\ IF match = NoPlace THEN GoTo(r, "devices") ELSE Apply(r, "save", "travel", match, "devices")
    /\ excused' = excused \cup PassedOver(r, match)
    /\ UNCHANGED <<places, mails, score, queued, noticed>>

\* The whole row of the place, which is the last seen again.
SavePlace(r) ==
    /\ At(r, "save")
    /\ SaveAgain(req[r].place, req[r].found)
    /\ GoTo(r, "log")
    /\ UNCHANGED <<mails, score, queued, noticed>>

\* _detect_multiple_device_access
CountDevices(r) ==
    /\ At(r, "devices")
    /\ GoTo(r, "risk") \/ Apply(r, "log", "devices", NoPlace, "risk")
    /\ UNCHANGED <<places, mails, score, queued, noticed, excused>>

\* Mutant of ReadLog: the score the user was loaded with is saved again.
ReadOldScore(r) ==
    /\ At(r, "risk")
    /\ req' = [req EXCEPT ![r].at = "score", ![r].copy = risk]
    /\ UNCHANGED <<places, mails, score, queued, noticed, excused>>

ReadLog(r) ==
    /\ At(r, "risk")
    /\ req' = [req EXCEPT ![r].at = "score", ![r].copy = logged]
    /\ UNCHANGED <<places, mails, score, queued, noticed, excused>>

WriteRisk(r) ==
    /\ At(r, "score")
    /\ risk' = req[r].copy
    /\ lone' = req[r].alone
    /\ Done(r)
    /\ UNCHANGED <<places, mails, logged, queued, noticed, excused>>

\* A view or an admin's form that has loaded the user saves the whole row: a new
\* password, profile or session time, and the score as it was.
LoadUser(r) ==
    /\ Begin(r, [Idle EXCEPT !.kind = "save", !.at = "user", !.copy = risk])
    /\ UNCHANGED <<places, mails, score, queued, noticed, excused>>

SaveUser(r) ==
    /\ At(r, "user")
    /\ risk' = req[r].copy
    /\ lone' = (lone /\ req[r].alone)
    /\ Done(r)
    /\ UNCHANGED <<places, mails, logged, queued, noticed, excused>>

\* reset_risk_scores, an UPDATE of the one column; the log stays.
ResetRisk ==
    /\ risk' = 0
    /\ lone' = FALSE
    /\ UNCHANGED <<places, mails, logged, queued, req, noticed, excused>>

-----------------------------------------------------------------------------
(* apply_security_rule and create_security_notification, after the block.  *)

\* The pair a travel rule is applied to counts as noticed while it is recent.
Pair(r) == {{req[r].place, req[r].other}}

\* Mutant of Log: the weights are added up without the cap.
LogUncapped(r) ==
    /\ At(r, "log")
    /\ logged' = logged + Weight[req[r].rule]
    /\ lone' = FALSE
    /\ noticed' = IF req[r].rule = "travel" THEN noticed \cup (Pair(r) \cap RecentPairs)
                  ELSE noticed
    /\ IF req[r].rule \in Notified THEN GoTo(r, "notice") ELSE Return(r)
    /\ UNCHANGED <<places, mails, risk, queued, excused>>

Log(r) ==
    /\ At(r, "log")
    /\ logged' = Capped(logged + Weight[req[r].rule])
    /\ lone' = FALSE
    /\ noticed' = IF req[r].rule = "travel" THEN noticed \cup (Pair(r) \cap RecentPairs)
                  ELSE noticed
    /\ IF req[r].rule \in Notified THEN GoTo(r, "notice") ELSE Return(r)
    /\ UNCHANGED <<places, mails, risk, queued, excused>>

\* The notification is stored, then the cooldown looked at.
Notice(r) ==
    /\ At(r, "notice")
    /\ IF req[r].rule \in cooling THEN Return(r) ELSE GoTo(r, "queue")
    /\ UNCHANGED <<places, mails, score, queued, noticed, excused>>

\* Mutant of QueueAlert: an exception ends in the step that sets the cooldown.
QueueAndCool(r) ==
    /\ At(r, "queue")
    /\ \/ mailed' = mailed \cup {req[r].rule}
       \/ QueueMayFail /\ UNCHANGED mailed
    /\ GoTo(r, "cool")
    /\ UNCHANGED <<places, cooling, score, queued, noticed, excused>>

\* An exception is logged, and the cooldown not set.
QueueAlert(r) ==
    /\ At(r, "queue")
    /\ \/ mailed' = mailed \cup {req[r].rule} /\ GoTo(r, "cool")
       \/ QueueMayFail /\ Return(r) /\ UNCHANGED mailed
    /\ UNCHANGED <<places, cooling, score, queued, noticed, excused>>

Cool(r) ==
    /\ At(r, "cool")
    /\ cooling' = cooling \cup {req[r].rule}
    /\ Return(r)
    /\ UNCHANGED <<places, mailed, score, queued, noticed, excused>>

-----------------------------------------------------------------------------
(* The login of a verified device, and the task it queues.                 *)

\* One from a device that is new or not verified sets off the device rule, and
\* is refused before anything is tracked.
RefuseLogin(r) ==
    /\ Begin(r, [Idle EXCEPT !.kind = "refused", !.at = "log", !.rule = "device", !.next = "end"])
    /\ UNCHANGED <<places, mails, score, queued, noticed, excused>>

Login(r, p, found) ==
    /\ Lookup(p, found)
    /\ Cardinality(queued) + Cardinality({q \in Requests : req[q].kind \in {"login", "task"}})
          < MostTasks
    /\ Begin(r, New("login", "rapid", p, found))
    /\ Touch(p, found)
    /\ Visit(p)
    /\ UNCHANGED <<mails, score, queued, noticed>>

\* A login that was blocked by a travel rule is refused.
EndLogin(r) ==
    /\ At(r, "end")
    /\ queued' = IF req[r].kind = "refused" \/ req[r].rule = "travel" THEN queued
                 ELSE queued \cup {req[r].place}
    /\ Done(r)
    /\ UNCHANGED <<places, mails, score, noticed, excused>>

\* update_geolocation_async looks the address up once more, and compares with
\* the last place that has coordinates, mostly its own, if that is recent.
Task(r, p, found) ==
    LET last == Last(located)
        near == IF found THEN {last} \cap Places ELSE {}
        applied(rule) == [New("task", "save", p, found) EXCEPT !.rule = rule, !.other = last,
                                                               !.next = "refresh"]
    IN
    /\ Lookup(p, found)
    /\ p \in queued
    /\ queued' = queued \ {p}
    /\ \/ near \cap FarFrom(p) # {} /\ Begin(r, applied("travel"))
       \/ near \cap MiddleFrom(p) # {} /\ Begin(r, applied("rapid"))
       \/ near \cap FarFrom(p) = {} /\ Begin(r, New("task", "refresh", p, found))
    /\ UNCHANGED <<places, mails, score, noticed, excused>>

Refresh(r) ==
    /\ At(r, "refresh")
    /\ SaveAgain(req[r].place, req[r].found)
    /\ Done(r)
    /\ UNCHANGED <<mails, score, queued, noticed>>

-----------------------------------------------------------------------------
\* An exception, which the middleware logs, or the death of the worker.
Abort(r) ==
    /\ ~At(r, "idle")
    /\ excused' = excused \cup (RecentPairs \cap PairsOf(req[r].place, Places))
    /\ Done(r)
    /\ UNCHANGED <<places, mails, score, queued, noticed>>

CooldownEnds(rule) ==
    /\ cooling' = cooling \ {rule}
    /\ mailed' = IF \E r \in Requests : At(r, "cool") /\ req[r].rule = rule THEN mailed
                 ELSE mailed \ {rule}
    /\ UNCHANGED <<places, score, queued, req, noticed, excused>>

Down(n) == IF n = 0 THEN 0 ELSE n - 1

\* What is known of a place matters while it is recent, and of a pair while both
\* of its places are.
Tick ==
    /\ seen' = [p \in Places |-> Down(seen[p])]
    /\ older' = [p \in Places |-> IF p \in Fresh' THEN older[p] \cap Fresh' ELSE {}]
    /\ located' = located \cap Fresh'
    /\ noticed' = noticed \cap RecentPairs'
    /\ excused' = excused \cap RecentPairs'
    /\ UNCHANGED <<stored, mails, score, queued, req>>

Proceed(r) ==
    \/ LogPlace(r) \/ UseDevice(r)
    \/ Detect(r) \/ DetectTravel(r) \/ SavePlace(r)
    \/ CountDevices(r) \/ ReadLog(r) \/ WriteRisk(r)
    \/ Log(r) \/ Notice(r) \/ QueueAlert(r) \/ Cool(r)
    \/ EndLogin(r) \/ Refresh(r) \/ SaveUser(r)

Next ==
    \/ \E r \in Requests : Proceed(r) \/ Abort(r) \/ LoadUser(r) \/ RefuseLogin(r)
    \/ \E r \in Requests, p \in Places, found \in BOOLEAN :
          Track(r, p, found) \/ Login(r, p, found) \/ Task(r, p, found)
    \/ \E rule \in Rules : CooldownEnds(rule)
    \/ ResetRisk \/ Tick

Spec == Init /\ [][Next]_vars

-----------------------------------------------------------------------------
(* Properties.                                                             *)

Tracked(p) == \E r \in Requests : req[r].place = p

\* FarPairNoticed: two places far apart that are both recent, and that nobody
\* is tracking any more, have set off the travel rule, in whatever order their
\* requests were tracked.  It needs each request to store its place before it
\* looks at the others.  Excused is a pair whose tracking broke off or took
\* longer than the window, that was hidden by more recent places than are
\* compared, or by a place for which a rule was applied, or that had no
\* coordinates on one side when the last look at it was taken, because a lookup
\* had failed and was written over the row.
FarPairNoticed ==
    \A pair \in RecentPairs \ excused :
        (\A p \in pair : ~Tracked(p)) => pair \in noticed

\* SilenceIsEarned: alerts of a rule are silent only after one of them was
\* queued; a queue that fails never silences the next alert.
SilenceIsEarned == cooling \subseteq mailed

\* RiskCounts: a score written by a request that no other overlapped counts
\* everything that is logged, once, until it is reset or written over by a
\* request that was overlapped, such as the save of a stale user.
RiskCounts == lone => risk = logged
=============================================================================
