----------------------------- MODULE ThreatProofs -----------------------------
(***************************************************************************)
(* Proofs about Threat, for any requests, places, rules that notify,       *)
(* weights and bounds, and whether or not queueing a mail fails: that      *)
(* places far apart are noticed, and what the silence of the alerts and    *)
(* the risk score rest on.                                                 *)
(***************************************************************************)
EXTENDS Threat, FiniteSetTheorems, WellFoundedInduction, TLAPS

-----------------------------------------------------------------------------
(* The inductive invariant.                                                *)

Ats == {"idle", "place", "device", "rapid", "travel", "devices", "risk", "score", "end",
        "refresh", "save", "log", "notice", "queue", "cool", "user"}
Applying == {"save", "log", "notice", "queue", "cool"}
Nexts == {"rapid", "travel", "devices", "risk", "end", "refresh"}

\* Where a login that is refused can be.
Refused == {"log", "notice", "queue", "cool", "end"}
Refusing(x) == x.at \in Refused /\ x.kind = "refused" /\ x.next \in {"end", "none"}

\* A request in progress has a place, unless it is a login that is refused or the
\* save of a user; where a rule is applied it says which, and where the request
\* goes on.
Valid == {x \in Request :
             /\ x.at \notin {"idle", "user"} => x.place \in Places \/ Refusing(x)
             /\ x.at \in Applying => x.rule \in Rules /\ x.next \in Nexts}

RequestInv == req \in [Requests -> Valid]

\* The recent places are in the strict order in which they were last seen, and
\* those with coordinates are among them.
OrderInv ==
    /\ IsFiniteSet(Fresh)
    /\ located \subseteq Fresh
    /\ \A p \in Places : older[p] \subseteq Fresh /\ p \notin older[p]
    /\ \A p, q \in Places : q \in older[p] => p \in Fresh /\ older[q] \subseteq older[p]
    /\ \A p, q \in Fresh : p # q => p \in older[q] \/ q \in older[p]

\* A request that is yet to look for far places, and one that found q.
Looks(x) ==
    \/ x.at \in {"place", "device", "rapid", "travel"}
    \/ x.at \in Applying /\ x.next \in {"rapid", "travel"}
Found(x, q) == x.at \in {"save", "log"} /\ x.rule = "travel" /\ x.other = q

Handles(x, p, q) == x.place = p /\ (Looks(x) \/ Found(x, q))
Handled(p, q) == \E r \in Requests : Handles(req[r], p, q)

\* What is left of the pairs that FarPairNoticed is about.
Open == RecentPairs \ (excused \cup noticed)

\* A far pair that is not noticed yet has a request at one of its places that is
\* going to notice it.
NoticeInv == \A p, q \in Places : {p, q} \in Open => Handled(p, q) \/ Handled(q, p)

\* A cooldown that is about to be set follows a mail.
CoolInv == \A r \in Requests : At(r, "cool") => req[r].rule \in mailed

\* A request that no other overlapped is the only one, so the score it computed
\* still counts the log, and that it loaded with the user is the user's.
AloneInv ==
    \A r \in Requests : req[r].alone =>
        /\ \A q \in Requests : q # r => At(q, "idle")
        /\ At(r, "score") => req[r].copy = logged
        /\ At(r, "user") /\ lone => req[r].copy = risk

TypeInv == TypeOK /\ RequestInv

ThreatInv == TypeInv /\ OrderInv /\ NoticeInv /\ CoolInv /\ AloneInv
             /\ SilenceIsEarned /\ RiskCounts

-----------------------------------------------------------------------------
(* The order of the places.                                                *)

\* Some places have a last seen one: that with the fewest seen after it.
LEMMA LastExists ==
    ASSUME OrderInv, NEW S \in SUBSET Fresh, S # {}
    PROVE  \E q \in S : S \ {q} \subseteq older[q]
  <1> DEFINE after(q) == {s \in S : q \in older[s]}
             T == {after(q) : q \in S}
             R == StrictSubsetOrdering(S)
             F == FiniteSubsetsOf(S)
  <1>1. IsFiniteSet(S)
    BY FS_Subset DEF OrderInv
  <1>2. \A q \in S : after(q) \in F
    BY <1>1, FS_Subset DEF FiniteSubsetsOf
  <1>3. T \subseteq F /\ T # {}
    BY <1>2
  <1>4. IsWellFoundedOn(R, F)
    BY FS_StrictSubsetOrderingWellFounded
  <1> HIDE DEF T, R, F
  <1>5. PICK U \in T : \A V \in T : ~(<<V, U>> \in R)
    BY <1>3, <1>4, WFMin
  <1>6. PICK q \in S : U = after(q)
    BY <1>5 DEF T
  <1>7. U = {}
    <2>1. ASSUME NEW s \in U
          PROVE  FALSE
      <3>1. s \in S /\ q \in older[s]
        BY <1>6, <2>1
      <3>2. after(s) \subseteq after(q) /\ s \notin after(s)
        BY <3>1 DEF OrderInv, Fresh
      <3>3. after(s) \in T /\ after(s) \subseteq U /\ after(s) # U
        BY <1>6, <2>1, <3>1, <3>2 DEF T
      <3>4. U \subseteq S /\ after(s) \subseteq S
        BY <1>6
      <3> HIDE DEF after
      <3>5. <<after(s), U>> \in R
        BY <3>3, <3>4 DEF R, StrictSubsetOrdering
      <3> QED BY <1>5, <3>3, <3>5
    <2> QED BY <2>1
  <1>8. ASSUME NEW s \in S \ {q}
        PROVE  s \in older[q]
    <2>1. q \notin older[s]
      BY <1>6, <1>7
    <2> QED BY <2>1 DEF OrderInv
  <1> QED BY <1>8

\* The last of some recent places is one of them, if there are any.
LEMMA LastIs ==
    ASSUME OrderInv, NEW S \in SUBSET Fresh
    PROVE  /\ S = {} => Last(S) = NoPlace
           /\ S # {} => Last(S) \in S
  BY LastExists DEF Last

\* Where there is no crowd a request is compared with all recent places.
LEMMA OthersAreAll ==
    ASSUME ThreatAssumption, OrderInv, NEW p \in Places, ~Crowded(p)
    PROVE  Others(p) = Recent(p)
  <1>1. Recent(p) \subseteq Fresh /\ IsFiniteSet(Recent(p))
    BY FS_Subset DEF Recent, OrderInv
  <1>2. Cardinality(Recent(p)) <= MostOthers /\ Cardinality(Recent(p)) \in Nat
    BY <1>1, FS_CardinalityType DEF Crowded, ThreatAssumption
  <1>3. ASSUME NEW q \in Recent(p)
        PROVE  q \in Others(p)
    <2> DEFINE U == {s \in Recent(p) : q \in older[s]}
    <2>1. q \notin U
      BY DEF OrderInv, Recent, Fresh
    <2>2. IsFiniteSet(Recent(p) \ {q})
          /\ Cardinality(Recent(p) \ {q}) = Cardinality(Recent(p)) - 1
      BY <1>1, <1>3, FS_RemoveElement
    <2>3. U \in SUBSET (Recent(p) \ {q})
      BY <2>1
    <2>4. Cardinality(U) <= Cardinality(Recent(p) \ {q}) /\ Cardinality(U) \in Nat
      BY <2>2, <2>3, FS_Subset, FS_CardinalityType
    <2>5. Cardinality(U) < MostOthers
      BY <1>2, <2>2, <2>4 DEF ThreatAssumption
    <2> QED BY <2>5 DEF Others
  <1> QED BY <1>3 DEF Others

-----------------------------------------------------------------------------
(* The requests.                                                           *)

\* What a step of another request leaves.
Same(x, y) == /\ x.kind = y.kind /\ x.at = y.at /\ x.place = y.place /\ x.other = y.other
              /\ x.found = y.found /\ x.rule = y.rule /\ x.next = y.next /\ x.copy = y.copy

OthersStay(r) == \A q \in Requests : q # r => req'[q] = req[q]

\* The request that does nothing.
LEMMA IdleIsValid ==
    ASSUME ThreatAssumption
    PROVE  Idle \in Valid /\ Idle.at = "idle" /\ Idle.alone = FALSE
  BY DEF Idle, Valid, Request, Applying, ThreatAssumption

\* A request is replaced, and the others stay.
LEMMA Replaced ==
    ASSUME RequestInv, NEW r \in Requests, NEW v \in Valid, req' = [req EXCEPT ![r] = v]
    PROVE  RequestInv' /\ req'[r] = v /\ OthersStay(r)
  BY DEF RequestInv, OthersStay

\* A request moves on.
LEMMA Went ==
    ASSUME RequestInv, NEW r \in Requests, ~At(r, "idle"), NEW at \in Ats,
           at \in Applying => req[r].at \in Applying,
           ~At(r, "user"), req[r].place \in Places \/ at \in Refused, GoTo(r, at)
    PROVE  /\ RequestInv' /\ OthersStay(r)
           /\ req'[r].at = at /\ req'[r].place = req[r].place /\ req'[r].other = req[r].other
           /\ req'[r].rule = req[r].rule /\ req'[r].next = req[r].next
           /\ req'[r].copy = req[r].copy /\ req'[r].alone = req[r].alone
  <1> DEFINE v == [req[r] EXCEPT !.at = at]
  <1>1. req[r] \in Valid
    BY DEF RequestInv
  <1>2. /\ v \in Valid
        /\ v.at = at /\ v.place = req[r].place /\ v.other = req[r].other
        /\ v.rule = req[r].rule /\ v.next = req[r].next
        /\ v.copy = req[r].copy /\ v.alone = req[r].alone
    BY <1>1 DEF Valid, Refusing, Request, At, Ats
  <1>3. req' = [req EXCEPT ![r] = v]
    BY DEF GoTo, RequestInv
  <1> HIDE DEF v
  <1> QED BY <1>2, <1>3, Replaced

\* A request is done.
LEMMA Ended ==
    ASSUME ThreatAssumption, RequestInv, NEW r \in Requests, Done(r)
    PROVE  RequestInv' /\ OthersStay(r) /\ req'[r].at = "idle" /\ req'[r].alone = FALSE
  BY IdleIsValid, Replaced DEF Done

\* A request goes on where the rule was applied.
LEMMA Returned ==
    ASSUME ThreatAssumption, RequestInv, NEW r \in Requests, req[r].at \in Applying, Return(r)
    PROVE  /\ RequestInv' /\ OthersStay(r)
           /\ req'[r].at = req[r].next /\ req'[r].at \in Nexts
           /\ req'[r].place = req[r].place /\ req'[r].alone = req[r].alone
  <1> DEFINE rule == IF req[r].kind = "login" THEN req[r].rule ELSE "none"
             v == [[[[req[r] EXCEPT !.at = req[r].next] EXCEPT !.next = "none"]
                                    EXCEPT !.other = NoPlace] EXCEPT !.rule = rule]
  <1>1. req[r] \in Valid
    BY DEF RequestInv
  <1>2. req' = [req EXCEPT ![r] = v]
    BY DEF Return, RequestInv
  <1>3. rule \in Rules \cup {"none"}
    BY <1>1 DEF Valid, Request
  <1> HIDE DEF rule
  <1>4. /\ v \in Valid
        /\ v.at = req[r].next /\ v.at \in Nexts
        /\ v.place = req[r].place /\ v.alone = req[r].alone
    BY <1>1, <1>3 DEF Valid, Refusing, Refused, Request, Applying, Nexts
  <1> HIDE DEF v
  <1> QED BY <1>2, <1>4, Replaced

\* A rule is applied by a request that goes on with the save or the log of it.
LEMMA Applied ==
    ASSUME RequestInv, NEW r \in Requests, req[r].place \in Places, NEW at \in {"save", "log"},
           NEW rule \in Rules, NEW other \in Places \cup {NoPlace}, NEW next \in Nexts,
           Apply(r, at, rule, other, next)
    PROVE  /\ RequestInv' /\ OthersStay(r)
           /\ req'[r].at = at /\ req'[r].rule = rule /\ req'[r].other = other
           /\ req'[r].next = next
           /\ req'[r].place = req[r].place /\ req'[r].alone = req[r].alone
  <1> DEFINE v == [[[[req[r] EXCEPT !.at = at] EXCEPT !.rule = rule]
                                    EXCEPT !.other = other] EXCEPT !.next = next]
  <1>1. req[r] \in Valid
    BY DEF RequestInv
  <1>2. req' = [req EXCEPT ![r] = v]
    BY DEF Apply, RequestInv
  <1>3. /\ v \in Valid
        /\ v.at = at /\ v.rule = rule /\ v.other = other /\ v.next = next
        /\ v.place = req[r].place /\ v.alone = req[r].alone
    BY <1>1 DEF Valid, Request, Applying, Nexts
  <1> HIDE DEF v
  <1> QED BY <1>2, <1>3, Replaced

\* The score is computed from the log.
LEMMA Computed ==
    ASSUME TypeInv, NEW r \in Requests, ReadLog(r)
    PROVE  /\ RequestInv' /\ OthersStay(r)
           /\ req'[r].at = "score" /\ req'[r].copy = logged /\ req'[r].alone = req[r].alone
  <1> DEFINE v == [[req[r] EXCEPT !.at = "score"] EXCEPT !.copy = logged]
  <1>1. req[r] \in Valid /\ RequestInv
    BY DEF TypeInv, RequestInv
  <1>2. req' = [req EXCEPT ![r] = v]
    BY <1>1 DEF ReadLog, RequestInv
  <1>3. /\ v \in Valid
        /\ v.at = "score" /\ v.copy = logged /\ v.alone = req[r].alone
    BY <1>1 DEF Valid, Refusing, Refused, Request, Applying, At, ReadLog, TypeInv, TypeOK
  <1> HIDE DEF v
  <1> QED BY <1>1, <1>2, <1>3, Replaced

\* A request begins, and overlaps those in progress.
LEMMA Begun ==
    ASSUME RequestInv, NEW r \in Requests, NEW new \in Valid, Begin(r, new)
    PROVE  /\ RequestInv' /\ At(r, "idle")
           /\ Same(req'[r], new)
           /\ req'[r].alone => \A q \in Requests : At(q, "idle")
           /\ \A q \in Requests : q # r => Same(req'[q], req[q]) /\ req'[q].alone = FALSE
  <1> DEFINE all == \A s \in Requests : At(s, "idle")
             v == [new EXCEPT !.alone = all]
             w(q) == [req[q] EXCEPT !.alone = FALSE]
  <1>1. At(r, "idle") /\ req' = [q \in Requests |-> IF q = r THEN v ELSE w(q)]
    BY DEF Begin
  <1>2. all \in BOOLEAN /\ (all => \A q \in Requests : At(q, "idle"))
    OBVIOUS
  <1> HIDE DEF all
  <1>3. v \in Valid /\ Same(v, new)
    BY <1>2 DEF Valid, Refusing, Request, Same
  <1>4. v.alone = all
    BY DEF Valid, Request
  <1>5. \A q \in Requests : w(q) \in Valid /\ Same(w(q), req[q]) /\ w(q).alone = FALSE
    BY DEF RequestInv, Valid, Refusing, Request, Same
  <1> HIDE DEF v, w
  <1>6. RequestInv'
    BY <1>1, <1>3, <1>5 DEF RequestInv
  <1>7. req'[r] = v /\ \A q \in Requests : q # r => req'[q] = w(q)
    BY <1>1
  <1>8. req'[r].alone => all
    BY <1>4, <1>7, Zenon
  <1> QED BY <1>1, <1>2, <1>3, <1>5, <1>6, <1>7, <1>8

-----------------------------------------------------------------------------
(* The steps of a request.                                                 *)

\* The place of a request in progress that is not refused, and the rule of one
\* that applies one.
LEMMA Sound ==
    ASSUME TypeInv, NEW r \in Requests
    PROVE  /\ req[r].at \notin {"idle", "user"} \cup Refused => req[r].place \in Places
           /\ req[r].at \notin {"idle", "user"} /\ req[r].kind # "refused"
                 => req[r].place \in Places
           /\ Looks(req[r]) => req[r].place \in Places
           /\ req[r].at \in Applying => req[r].rule \in Rules
           /\ req[r].copy \in 0 .. MaxRisk /\ req[r].alone \in BOOLEAN
  BY DEF TypeInv, RequestInv, Valid, Refusing, Refused, Request, Looks, Applying

\* A request that looks around applies a rule to one place or to none; what it
\* passes over is excused, unless it looks once more.
LEMMA Looked ==
    ASSUME ThreatAssumption, TypeInv, OrderInv, NEW r \in Requests,
           Detect(r) \/ DetectTravel(r)
    PROVE  \E match \in Places \cup {NoPlace}, rule \in {"travel", "rapid"},
              next \in {"travel", "end", "devices"} :
              /\ IF match = NoPlace THEN GoTo(r, next) ELSE Apply(r, "save", rule, match, next)
              /\ match \in FarFrom(req[r].place) => rule = "travel"
              /\ match = NoPlace => FarFrom(req[r].place) \cap Measured(r) = {}
              /\ excused' = IF next = "travel" THEN excused
                            ELSE excused \cup PassedOver(r, match)
  <1> DEFINE p == req[r].place
             far == FarFrom(p) \cap Measured(r)
             Goal(match, rule, next) ==
                /\ IF match = NoPlace THEN GoTo(r, next)
                   ELSE Apply(r, "save", rule, match, next)
                /\ match \in FarFrom(p) => rule = "travel"
                /\ match = NoPlace => far = {}
                /\ excused' = IF next = "travel" THEN excused
                              ELSE excused \cup PassedOver(r, match)
  <1>1. Measured(r) \subseteq Fresh
    BY DEF Measured, Others, Recent
  <1>2. ASSUME NEW S \in SUBSET Measured(r)
        PROVE  /\ Last(S) \in Places \cup {NoPlace}
               /\ Last(S) # NoPlace => Last(S) \in S
               /\ Last(S) = NoPlace => S = {}
    <2>1. /\ S = {} => Last(S) = NoPlace
          /\ S # {} => Last(S) \in S
      BY <1>1, <1>2, LastIs
    <2> QED BY <1>1, <2>1 DEF Fresh, ThreatAssumption
  <1>3. CASE Detect(r)
    <2> DEFINE after == IF req[r].kind = "api" THEN "travel" ELSE "end"
               rule(match) == IF match \in far THEN "travel" ELSE "rapid"
    <2>1. PICK soon \in SUBSET (MiddleFrom(p) \cap Measured(r)) :
             LET match == Last(far \cup soon) IN
             /\ IF match = NoPlace THEN GoTo(r, after)
                ELSE Apply(r, "save", rule(match), match, after)
             /\ excused' = IF after = "travel" THEN excused
                           ELSE excused \cup PassedOver(r, match)
      BY <1>3 DEF Detect
    <2> DEFINE match == Last(far \cup soon)
    <2>2. /\ match \in Places \cup {NoPlace}
          /\ match # NoPlace => match \in far \cup soon
          /\ match = NoPlace => far = {}
      BY <1>2
    <2>3. match \in FarFrom(p) => rule(match) = "travel"
      BY <2>2, ThreatAssumption DEF ThreatAssumption, FarFrom
    <2>4. rule(match) \in {"travel", "rapid"} /\ after \in {"travel", "end", "devices"}
      OBVIOUS
    <2> HIDE DEF match, rule, after, p, far
    <2>5. Goal(match, rule(match), after)
      BY <2>1, <2>2, <2>3 DEF match, p, far
    <2> QED BY <2>2, <2>4, <2>5 DEF p, far
  <1>4. CASE DetectTravel(r)
    <2> DEFINE match == Last(far)
    <2>1. match \in Places \cup {NoPlace} /\ (match = NoPlace => far = {})
      BY <1>2
    <2>2. /\ IF match = NoPlace THEN GoTo(r, "devices")
             ELSE Apply(r, "save", "travel", match, "devices")
          /\ excused' = excused \cup PassedOver(r, match)
      BY <1>4 DEF DetectTravel
    <2> HIDE DEF match, p, far
    <2>3. Goal(match, "travel", "devices")
      BY <2>1, <2>2
    <2> QED BY <2>1, <2>3 DEF p, far
  <1> QED BY <1>3, <1>4

\* A step of a request in progress leaves the others; only the reading of the
\* log leads to the writing of the score, only a mail to the cooldown, and none
\* to the save of a user.
LEMMA Moves ==
    ASSUME ThreatAssumption, TypeInv, OrderInv, NEW r \in Requests, Proceed(r) \/ Abort(r)
    PROVE  /\ RequestInv' /\ OthersStay(r)
           /\ ~At(r, "idle")
           /\ req'[r].alone => req[r].alone
           /\ req'[r].at # "user"
           /\ req'[r].at = "score" => ReadLog(r) /\ req'[r].copy = logged
           /\ req'[r].at = "cool" =>
                 QueueAlert(r) /\ req[r].rule \in mailed' /\ req'[r].rule = req[r].rule
  <1> DEFINE Good == /\ RequestInv' /\ OthersStay(r)
                     /\ req'[r].alone => req[r].alone
                     /\ req'[r].at # "user"
                     /\ req'[r].at = "score" => ReadLog(r) /\ req'[r].copy = logged
                     /\ req'[r].at = "cool" =>
                           QueueAlert(r) /\ req[r].rule \in mailed' /\ req'[r].rule = req[r].rule
             Here == req[r].at \notin {"idle", "user"} \cup Refused
  <1>0. RequestInv /\ (Here => req[r].place \in Places)
    BY Sound DEF TypeInv
  <1>1. ~At(r, "idle")
    BY DEF Proceed, Abort, LogPlace, UseDevice, Detect, DetectTravel, SavePlace, CountDevices,
           ReadLog, WriteRisk, Log, Notice, QueueAlert, Cool, EndLogin, Refresh, SaveUser, At
  <1>2. ASSUME Done(r)
        PROVE  Good
    BY <1>0, <1>2, Ended
  <1>3. ASSUME Here, NEW at \in {"device", "rapid", "travel", "devices", "risk", "end"},
               GoTo(r, at)
        PROVE  Good
    BY <1>0, <1>1, <1>3, Went DEF Ats, Applying, At
  <1>4. ASSUME req[r].at \in Applying, NEW at \in {"log", "notice", "queue"}, GoTo(r, at)
        PROVE  Good
    BY <1>0, <1>1, <1>4, Went DEF Ats, At, Applying, Refused
  <1>5. ASSUME req[r].at \in Applying, Return(r)
        PROVE  Good
    BY <1>0, <1>5, Returned DEF Nexts
  <1>6. ASSUME Here, NEW at \in {"log", "save"}, NEW rule \in Rules,
               NEW other \in Places \cup {NoPlace},
               NEW next \in Nexts, Apply(r, at, rule, other, next)
        PROVE  Good
    BY <1>0, <1>6, Applied
  <1>7. CASE LogPlace(r)
    <2>1. GoTo(r, "device") /\ Here
      BY <1>7 DEF LogPlace, At, Refused
    <2> QED BY <1>1, <1>3, <2>1
  <1>8. CASE WriteRisk(r) \/ EndLogin(r) \/ Refresh(r) \/ SaveUser(r) \/ Abort(r)
    <2>1. Done(r)
      BY <1>8 DEF WriteRisk, EndLogin, Refresh, SaveUser, Abort
    <2> QED BY <1>1, <1>2, <2>1
  <1>9. CASE UseDevice(r) \/ CountDevices(r)
    <2>1. /\ Here
          /\ \/ GoTo(r, "rapid") \/ GoTo(r, "risk")
             \/ Apply(r, "log", "device", NoPlace, "rapid")
             \/ Apply(r, "log", "devices", NoPlace, "risk")
      BY <1>9 DEF UseDevice, CountDevices, At, Refused
    <2> QED BY <1>1, <1>3, <1>6, <2>1 DEF Nexts, Rules
  <1>10. CASE SavePlace(r) \/ Log(r) \/ Notice(r) \/ Cool(r)
    <2>1. /\ req[r].at \in Applying
          /\ GoTo(r, "log") \/ GoTo(r, "notice") \/ GoTo(r, "queue") \/ Return(r)
      BY <1>10 DEF SavePlace, Log, Notice, Cool, At, Applying
    <2> QED BY <1>1, <1>4, <1>5, <2>1
  <1>11. CASE QueueAlert(r)
    <2>1. /\ req[r].at \in Applying
          /\ \/ GoTo(r, "cool") /\ mailed' = mailed \cup {req[r].rule}
             \/ Return(r)
      BY <1>11 DEF QueueAlert, At, Applying
    <2>2. ASSUME GoTo(r, "cool"), mailed' = mailed \cup {req[r].rule}
          PROVE  Good
      BY <1>0, <1>1, <1>11, <2>1, <2>2, Went DEF Ats, At, Applying, Refused
    <2> QED BY <1>1, <1>5, <2>1, <2>2
  <1>12. CASE ReadLog(r)
    BY <1>1, <1>12, Computed
  <1>13. CASE Detect(r) \/ DetectTravel(r)
    <2>1. PICK match \in Places \cup {NoPlace}, rule \in {"travel", "rapid"},
               next \in {"travel", "end", "devices"} :
             IF match = NoPlace THEN GoTo(r, next) ELSE Apply(r, "save", rule, match, next)
      BY <1>13, Looked
    <2>2. rule \in Rules /\ next \in Nexts /\ Here
      BY <1>13 DEF Rules, Nexts, Detect, DetectTravel, At, Refused
    <2> QED BY <1>1, <1>3, <1>6, <2>1, <2>2
  <1> QED BY <1>7, <1>8, <1>9, <1>10, <1>11, <1>12, <1>13 DEF Proceed

\* The save of a user, and a login that is refused, begin without a place.
LEMMA BeginsElsewhere ==
    ASSUME ThreatAssumption, TypeInv, NEW r \in Requests, LoadUser(r) \/ RefuseLogin(r)
    PROVE  \E new \in Valid : /\ Begin(r, new)
                              /\ \/ new.at = "user" /\ new.copy = risk
                                 \/ new.at = "log"
                              /\ new.place = NoPlace
  <1>1. Idle \in Valid /\ Idle \in Request
    BY IdleIsValid DEF Valid
  <1>2. CASE LoadUser(r)
    <2> DEFINE new == [[[Idle EXCEPT !.kind = "save"] EXCEPT !.at = "user"] EXCEPT !.copy = risk]
    <2>1. risk \in 0 .. MaxRisk
      BY DEF TypeInv, TypeOK
    <2>2. new \in Valid /\ new.at = "user" /\ new.copy = risk /\ new.place = NoPlace
      BY <1>1, <2>1 DEF Valid, Request, Applying, Idle
    <2>3. Begin(r, new)
      BY <1>2 DEF LoadUser
    <2> QED BY <2>2, <2>3
  <1>3. CASE RefuseLogin(r)
    <2> DEFINE new == [[[[Idle EXCEPT !.kind = "refused"] EXCEPT !.at = "log"]
                                      EXCEPT !.rule = "device"] EXCEPT !.next = "end"]
    <2>1. new \in Valid /\ new.at = "log" /\ new.place = NoPlace
      BY <1>1 DEF Valid, Refusing, Refused, Request, Applying, Nexts, Rules, Idle
    <2>2. Begin(r, new)
      BY <1>3 DEF RefuseLogin
    <2> QED BY <2>1, <2>2
  <1> QED BY <1>2, <1>3

\* A request begins at a place with one of the first steps, or with a rule that
\* the task applies.
LEMMA Begins ==
    ASSUME ThreatAssumption, TypeInv, OrderInv, NEW r \in Requests, NEW p \in Places,
           NEW f \in BOOLEAN, Track(r, p, f) \/ Login(r, p, f) \/ Task(r, p, f)
    PROVE  \E new \in Valid : /\ Begin(r, new) /\ new.place = p
                              /\ new.at \notin {"score", "cool", "user"}
                              /\ Task(r, p, f) \/ Looks(new)
  <1> DEFINE Goal(new) == /\ new \in Valid /\ Begin(r, new) /\ new.place = p
                          /\ new.at \notin {"score", "cool", "user"}
                          /\ Task(r, p, f) \/ Looks(new)
  <1>1. ASSUME NEW kind \in {"api", "login", "task"},
               NEW at \in {"place", "device", "rapid", "refresh", "save"}
        PROVE  /\ New(kind, at, p, f) \in Request
               /\ at # "save" => New(kind, at, p, f) \in Valid
               /\ New(kind, at, p, f).at = at /\ New(kind, at, p, f).place = p
    <2> DEFINE k == [Idle EXCEPT !.kind = kind]
               u == [k EXCEPT !.at = at]
               v == [[u EXCEPT !.place = p] EXCEPT !.found = f]
    <2>1. k \in Request /\ k.kind = kind
      BY IdleIsValid DEF Valid, Request
    <2>2. u \in Request /\ u.kind = kind /\ u.at = at
      <3> HIDE DEF k
      <3> QED BY <2>1 DEF Request
    <2>3. v \in Request /\ v.kind = kind /\ v.at = at /\ v.place = p
      <3> HIDE DEF u
      <3> QED BY <2>2 DEF Request
    <2>4. at # "save" => v \in Valid
      BY <2>3 DEF Valid, Applying
    <2> QED BY <2>3, <2>4 DEF New
  <1>2. CASE Track(r, p, f) \/ Login(r, p, f)
    <2>1. PICK kind \in {"api", "login"}, at \in {"place", "device", "rapid"} :
             Begin(r, New(kind, at, p, f))
      BY <1>2 DEF Track, Login
    <2>2. Goal(New(kind, at, p, f))
      BY <1>1, <2>1 DEF Looks
    <2> QED BY <2>2
  <1>3. CASE Task(r, p, f)
    <2> DEFINE last == Last(located)
               old == New("task", "save", p, f)
               v(rule) == [[[old EXCEPT !.rule = rule] EXCEPT !.other = last]
                                                       EXCEPT !.next = "refresh"]
    <2>1. \/ Begin(r, v("travel")) \/ Begin(r, v("rapid"))
          \/ Begin(r, New("task", "refresh", p, f))
      BY <1>3 DEF Task
    <2>2. located \in SUBSET Fresh /\ Fresh \subseteq Places
      BY DEF OrderInv, Fresh
    <2>3. last \in Places \cup {NoPlace}
      BY <2>2, LastIs
    <2>4. old \in Request /\ old.at = "save" /\ old.place = p
      BY <1>1
    <2> HIDE DEF last, old
    <2>5. ASSUME NEW rule \in {"travel", "rapid"}
          PROVE  v(rule) \in Valid /\ v(rule).at = "save" /\ v(rule).place = p
      <3>1. v(rule) \in Request
        BY <2>3, <2>4 DEF Request, Rules
      <3>2. /\ v(rule).at = "save" /\ v(rule).place = p
            /\ v(rule).rule = rule /\ v(rule).next = "refresh"
        BY <2>4 DEF Request
      <3> QED BY <3>1, <3>2 DEF Valid, Applying, Nexts, Rules
    <2> HIDE DEF v
    <2>6. CASE Begin(r, New("task", "refresh", p, f))
      BY <1>1, <1>3, <2>6
    <2>7. CASE Begin(r, v("travel"))
      BY <1>3, <2>5, <2>7
    <2>8. CASE Begin(r, v("rapid"))
      BY <1>3, <2>5, <2>8
    <2> QED BY <2>1, <2>6, <2>7, <2>8
  <1> QED BY <1>2, <1>3

-----------------------------------------------------------------------------
(* Types and the order of the rows.                                        *)

\* What is known of the rows and of the places that are recent.
Rows == /\ OrderInv
        /\ stored \subseteq Places /\ older \in [Places -> SUBSET Places]
        /\ seen \in [Places -> 0 .. Window] /\ located \subseteq Places

\* A row that is written becomes the last seen.
LEMMA Touched ==
    ASSUME ThreatAssumption, Rows, NEW p \in Places, NEW f \in BOOLEAN, Touch(p, f)
    PROVE  Rows'
  <1>1. /\ stored' = stored \cup {p}
        /\ located' = IF f THEN located \cup {p} ELSE located \ {p}
        /\ older' = [q \in Places |-> IF q = p THEN Fresh \ {p} ELSE older[q] \ {p}]
        /\ seen' = [seen EXCEPT ![p] = Window]
    BY DEF Touch
  <1>2. Fresh \subseteq Places
    BY DEF Fresh
  <1>3. /\ stored' \subseteq Places /\ older' \in [Places -> SUBSET Places]
        /\ seen' \in [Places -> 0 .. Window] /\ located' \subseteq Places
    BY <1>1, <1>2 DEF Rows, ThreatAssumption
  <1>4. Fresh' = Fresh \cup {p}
    BY <1>1 DEF Fresh, Rows, ThreatAssumption
  <1> HIDE DEF Fresh
  <1>5. IsFiniteSet(Fresh') /\ located' \subseteq Fresh'
    BY <1>1, <1>4, FS_AddElement DEF OrderInv, Rows
  <1>6. \A q \in Places : older'[q] \subseteq Fresh' /\ q \notin older'[q]
    BY <1>1, <1>4 DEF OrderInv, Rows
  <1>7. \A q, s \in Places : s \in older'[q] => q \in Fresh' /\ older'[s] \subseteq older'[q]
    BY <1>1, <1>4 DEF OrderInv, Rows
  <1>8. \A q, s \in Fresh' : q # s => q \in older'[s] \/ s \in older'[q]
    BY <1>1, <1>2, <1>4 DEF OrderInv, Rows
  <1> QED BY <1>3, <1>5, <1>6, <1>7, <1>8 DEF OrderInv, Rows

\* Places that are not recent any more are forgotten.
LEMMA Aged ==
    ASSUME ThreatAssumption, Rows, Tick
    PROVE  Rows' /\ Fresh' \subseteq Fresh
  <1>1. /\ stored' = stored /\ seen' = [p \in Places |-> Down(seen[p])]
        /\ older' = [p \in Places |-> IF p \in Fresh' THEN older[p] \cap Fresh' ELSE {}]
        /\ located' = located \cap Fresh'
    BY DEF Tick
  <1>2. /\ seen' \in [Places -> 0 .. Window]
        /\ \A p \in Places : seen'[p] > 0 => seen[p] > 0
    BY <1>1 DEF Down, Rows, ThreatAssumption
  <1>3. Fresh' \subseteq Fresh /\ Fresh \subseteq Places
    BY <1>2 DEF Fresh
  <1> HIDE DEF Fresh
  <1>4. /\ stored' \subseteq Places /\ older' \in [Places -> SUBSET Places]
        /\ located' \subseteq Places
    BY <1>1 DEF Rows
  <1>5. IsFiniteSet(Fresh') /\ located' \subseteq Fresh'
    BY <1>1, <1>3, FS_Subset DEF OrderInv, Rows
  <1>6. \A q \in Places : older'[q] \subseteq Fresh' /\ q \notin older'[q]
    BY <1>1 DEF OrderInv, Rows
  <1>7. \A q, s \in Places : s \in older'[q] => q \in Fresh' /\ older'[s] \subseteq older'[q]
    BY <1>1 DEF OrderInv, Rows
  <1>8. \A q, s \in Fresh' : q # s => q \in older'[s] \/ s \in older'[q]
    BY <1>1, <1>3 DEF OrderInv, Rows
  <1> QED BY <1>2, <1>3, <1>4, <1>5, <1>6, <1>7, <1>8 DEF OrderInv, Rows

\* The rows change with the last seen place, and with time.
LEMMA RowSteps ==
    ASSUME TypeInv, [Next]_vars
    PROVE  UNCHANGED places \/ Tick \/ \E p \in Places, f \in BOOLEAN : Touch(p, f)
  <1>1. ASSUME NEW r \in Requests, Proceed(r) \/ Abort(r)
        PROVE  UNCHANGED places \/ \E p \in Places, f \in BOOLEAN : Touch(p, f)
    <2>1. CASE SavePlace(r) \/ Refresh(r)
      <3>1. req[r].place \in Places /\ req[r].found \in BOOLEAN
        <4>1. req[r].at \in {"save", "refresh"}
          BY <2>1 DEF SavePlace, Refresh, At
        <4>2. req[r].place \in Places
          BY <4>1, Sound DEF Refused
        <4> QED BY <4>2 DEF TypeInv, TypeOK, Request
      <3> QED BY <2>1, <3>1 DEF SavePlace, Refresh, SaveAgain
    <2>2. CASE ~(SavePlace(r) \/ Refresh(r))
      BY <1>1, <2>2
         DEF Proceed, Abort, LogPlace, UseDevice, Detect, DetectTravel, CountDevices,
             ReadLog, WriteRisk, Log, Notice, QueueAlert, Cool, EndLogin, SaveUser
    <2> QED BY <2>1, <2>2
  <1>2. ASSUME NEW r \in Requests, NEW p \in Places, NEW f \in BOOLEAN,
               Track(r, p, f) \/ Login(r, p, f) \/ Task(r, p, f)
        PROVE  UNCHANGED places \/ Touch(p, f)
    BY <1>2 DEF Track, Login, Task
  <1>3. ASSUME NEW rule \in Rules, CooldownEnds(rule)
        PROVE  UNCHANGED places
    BY <1>3 DEF CooldownEnds
  <1>4. ASSUME NEW r \in Requests, LoadUser(r) \/ RefuseLogin(r)
        PROVE  UNCHANGED places
    BY <1>4 DEF LoadUser, RefuseLogin
  <1>5. ResetRisk => UNCHANGED places
    BY DEF ResetRisk
  <1>6. UNCHANGED vars => UNCHANGED places
    BY DEF vars, places
  <1> QED BY <1>1, <1>2, <1>3, <1>4, <1>5, <1>6 DEF Next

\* The order of the places is kept.
LEMMA OrderStep ==
    ASSUME ThreatAssumption, TypeInv, OrderInv, [Next]_vars
    PROVE  Rows'
  <1>1. Rows
    BY DEF Rows, TypeInv, TypeOK
  <1>2. CASE UNCHANGED places
    BY <1>1, <1>2 DEF places, Rows, OrderInv, Fresh
  <1> QED BY <1>1, <1>2, RowSteps, Touched, Aged

\* The excuses and what is noticed are pairs of places far apart.
LEMMA FarPairs ==
    /\ RecentPairs \subseteq Far
    /\ \A p, S : PairsOf(p, S) \subseteq Far
    /\ \A r, match : PassedOver(r, match) \subseteq Far
  BY DEF RecentPairs, PairsOf, FarFrom, PassedOver

\* A sum of weights stays below its cap.
LEMMA CapBounds ==
    ASSUME ThreatAssumption, NEW n \in Nat
    PROVE  Capped(n) \in 0 .. MaxRisk
  BY DEF Capped, ThreatAssumption

\* What a step of a request does to the rest of the state.
LEMMA ValuesOfProceed ==
    ASSUME ThreatAssumption, TypeInv, OrderInv, NEW r \in Requests, Proceed(r) \/ Abort(r)
    PROVE  /\ cooling' \subseteq Rules /\ mailed' \subseteq Rules
           /\ logged' \in 0 .. MaxRisk /\ risk' \in 0 .. MaxRisk /\ lone' \in BOOLEAN
           /\ queued' \subseteq Places
           /\ noticed' \subseteq Far /\ excused' \subseteq Far
  <1>0. /\ cooling \subseteq Rules /\ mailed \subseteq Rules
        /\ logged \in 0 .. MaxRisk /\ risk \in 0 .. MaxRisk /\ lone \in BOOLEAN
        /\ queued \subseteq Places /\ noticed \subseteq Far /\ excused \subseteq Far
    BY DEF TypeInv, TypeOK
  <1>1. CASE LogPlace(r)
    <2>1. logged + Weight["place"] \in Nat
      BY <1>0 DEF ThreatAssumption
    <2>2. Capped(logged + Weight["place"]) \in 0 .. MaxRisk
      BY <2>1, CapBounds
    <2> QED BY <1>0, <1>1, <2>2 DEF LogPlace, mails
  <1>2. CASE UseDevice(r) \/ CountDevices(r) \/ ReadLog(r) \/ Notice(r)
    BY <1>0, <1>2 DEF UseDevice, CountDevices, ReadLog, Notice, mails, score
  <1>3. CASE Detect(r) \/ DetectTravel(r)
    <2>1. UNCHANGED <<mails, score, queued, noticed>>
      BY <1>3 DEF Detect, DetectTravel
    <2>2. excused' \subseteq Far
      <3>1. PICK match \in Places \cup {NoPlace}, rule \in {"travel", "rapid"},
                 next \in {"travel", "end", "devices"} :
               excused' = IF next = "travel" THEN excused
                          ELSE excused \cup PassedOver(r, match)
        BY <1>3, Looked
      <3> QED BY <1>0, <3>1, FarPairs
    <2> QED BY <1>0, <2>1, <2>2 DEF mails, score
  <1>4. CASE SavePlace(r) \/ Refresh(r)
    <2>1. UNCHANGED <<mails, score, queued, noticed>> /\ SaveAgain(req[r].place, req[r].found)
      BY <1>4 DEF SavePlace, Refresh
    <2>2. excused' \subseteq Far
      BY <1>0, <2>1, FarPairs DEF SaveAgain
    <2> QED BY <1>0, <2>1, <2>2 DEF mails, score
  <1>5. CASE WriteRisk(r) \/ SaveUser(r)
    <2>1. req[r].copy \in 0 .. MaxRisk /\ req[r].alone \in BOOLEAN
      BY Sound
    <2> QED BY <1>0, <1>5, <2>1 DEF WriteRisk, SaveUser, mails
  <1>6. CASE Log(r)
    <2>1. req[r].rule \in Rules
      BY <1>6, Sound DEF Log, At, Applying
    <2>2. logged + Weight[req[r].rule] \in Nat
      BY <1>0, <2>1 DEF ThreatAssumption
    <2>3. noticed' \subseteq Far
      BY <1>0, <1>6, FarPairs DEF Log
    <2> QED BY <1>0, <1>6, <2>2, <2>3, CapBounds DEF Log, mails
  <1>7. CASE QueueAlert(r) \/ Cool(r)
    <2>1. req[r].rule \in Rules
      BY <1>7, Sound DEF QueueAlert, Cool, At, Applying
    <2> QED BY <1>0, <1>7, <2>1 DEF QueueAlert, Cool, score
  <1>8. CASE EndLogin(r)
    <2>1. req[r].kind # "refused" => req[r].place \in Places
      BY <1>8, Sound DEF EndLogin, At
    <2> QED BY <1>0, <1>8, <2>1 DEF EndLogin, mails, score
  <1>9. CASE Abort(r)
    BY <1>0, <1>9, FarPairs DEF Abort, mails, score
  <1> QED BY <1>1, <1>2, <1>3, <1>4, <1>5, <1>6, <1>7, <1>8, <1>9 DEF Proceed

\* Requests, rows and the rest keep their types.
LEMMA TypeStep ==
    ASSUME ThreatAssumption, TypeInv, OrderInv, [Next]_vars
    PROVE  TypeInv'
  <1> DEFINE Values == /\ cooling' \subseteq Rules /\ mailed' \subseteq Rules
                       /\ logged' \in 0 .. MaxRisk /\ risk' \in 0 .. MaxRisk
                       /\ lone' \in BOOLEAN /\ queued' \subseteq Places
                       /\ noticed' \subseteq Far /\ excused' \subseteq Far
  <1>0. TypeOK /\ RequestInv
    BY DEF TypeInv
  <1>1. ASSUME NEW r \in Requests, Proceed(r) \/ Abort(r)
        PROVE  RequestInv' /\ Values
    BY <1>1, Moves, ValuesOfProceed
  <1>2. ASSUME NEW r \in Requests, NEW p \in Places, NEW f \in BOOLEAN,
               Track(r, p, f) \/ Login(r, p, f) \/ Task(r, p, f)
        PROVE  RequestInv' /\ Values
    <2>1. PICK new \in Valid : Begin(r, new)
      BY <1>2, Begins
    <2>2. RequestInv'
      BY <1>0, <2>1, Begun
    <2>3. Values
      BY <1>0, <1>2 DEF Track, Login, Task, Visit, mails, score, TypeOK
    <2> QED BY <2>2, <2>3
  <1>3. ASSUME NEW rule \in Rules, CooldownEnds(rule)
        PROVE  RequestInv' /\ Values
    BY <1>0, <1>3 DEF CooldownEnds, score, TypeOK, RequestInv
  <1>4. ASSUME Tick
        PROVE  RequestInv' /\ Values
    BY <1>0, <1>4 DEF Tick, mails, score, TypeOK, RequestInv
  <1>5. ASSUME NEW r \in Requests, LoadUser(r) \/ RefuseLogin(r)
        PROVE  RequestInv' /\ Values
    <2>1. RequestInv'
      BY <1>0, <1>5, BeginsElsewhere, Begun
    <2>2. Values
      BY <1>0, <1>5 DEF LoadUser, RefuseLogin, mails, score, TypeOK
    <2> QED BY <2>1, <2>2
  <1>6. ASSUME ResetRisk
        PROVE  RequestInv' /\ Values
    <2>1. 0 \in 0 .. MaxRisk
      BY DEF ThreatAssumption
    <2> QED BY <1>0, <1>6, <2>1 DEF ResetRisk, mails, TypeOK, RequestInv
  <1>7. ASSUME UNCHANGED vars
        PROVE  RequestInv' /\ Values
    BY <1>0, <1>7 DEF vars, TypeOK, RequestInv
  <1>8. RequestInv' /\ Values
    BY <1>1, <1>2, <1>3, <1>4, <1>5, <1>6, <1>7 DEF Next
  <1>9. req' \in [Requests -> Request]
    BY <1>8 DEF RequestInv, Valid
  <1> QED BY <1>8, <1>9, OrderStep DEF TypeInv, TypeOK, Rows

-----------------------------------------------------------------------------
(* Far places are noticed.                                                 *)

\* The two places of a far pair differ, and either may be named first.
LEMMA FarDiffer ==
    ASSUME ThreatAssumption, NEW p, NEW q, {p, q} \in Far
    PROVE  p # q /\ {p, q} = {q, p} /\ p \in Places /\ q \in Places
  <1>1. PICK a, b \in Located : a # b /\ {p, q} = {a, b}
    BY DEF ThreatAssumption
  <1> QED BY <1>1 DEF ThreatAssumption

\* The places of a far pair that are recent see each other.
LEMMA OpenPair ==
    ASSUME ThreatAssumption, NEW p \in Places, NEW q \in Places, {p, q} \in RecentPairs
    PROVE  {p, q} \in Far /\ q \in FarFrom(p) /\ q \in Recent(p)
  <1>1. {p, q} \in Far /\ p \in Fresh /\ q \in Fresh
    BY DEF RecentPairs
  <1> QED BY <1>1, FarDiffer DEF FarFrom, Recent

\* Requests that look, or have found, stand for their pairs until these are
\* noticed or excused; so it is enough that no step opens a pair or loses one.
LEMMA NoticeKept ==
    ASSUME ThreatAssumption, NoticeInv,
           \A p, q \in Places : {p, q} \in Open' => {p, q} \in Open,
           \A r \in Requests : \A p, q \in Places :
              {p, q} \in Open' /\ Handles(req[r], p, q) => Handles(req'[r], p, q)
    PROVE  NoticeInv'
  <1> SUFFICES ASSUME NEW p \in Places, NEW q \in Places, {p, q} \in Open'
               PROVE  Handled(p, q)' \/ Handled(q, p)'
    BY DEF NoticeInv
  <1>1. {q, p} \in Open'
    <2>1. {q, p} = {p, q}
      OBVIOUS
    <2> QED BY <2>1
  <1>2. CASE Handled(p, q)
    BY <1>2 DEF Handled
  <1>3. CASE Handled(q, p)
    BY <1>1, <1>3 DEF Handled
  <1> QED BY <1>2, <1>3 DEF NoticeInv

\* The same for a step of one request.
LEMMA NoticeKeptBy ==
    ASSUME ThreatAssumption, NoticeInv, NEW r \in Requests, OthersStay(r),
           \A p, q \in Places : {p, q} \in Open' => {p, q} \in Open,
           \A p, q \in Places :
              {p, q} \in Open' /\ Handles(req[r], p, q) => Handles(req'[r], p, q)
    PROVE  NoticeInv'
  <1>1. ASSUME NEW s \in Requests, NEW p \in Places, NEW q \in Places, {p, q} \in Open',
               Handles(req[s], p, q)
        PROVE  Handles(req'[s], p, q)
    <2>1. CASE s = r
      BY <1>1, <2>1
    <2>2. CASE s # r
      BY <1>1, <2>2 DEF OthersStay
    <2> QED BY <2>1, <2>2
  <1> QED BY <1>1, NoticeKept

\* A request that looks around finds the far place, or excuses the pair, or is
\* going to look again.
LEMMA LookHandles ==
    ASSUME ThreatAssumption, TypeInv, OrderInv, NEW r \in Requests,
           Detect(r) \/ DetectTravel(r),
           NEW q \in Places, {req[r].place, q} \in Open'
    PROVE  Handles(req'[r], req[r].place, q)
  <1> DEFINE p == req[r].place
  <1>1. PICK match \in Places \cup {NoPlace}, rule \in {"travel", "rapid"},
             next \in {"travel", "end", "devices"} :
           /\ IF match = NoPlace THEN GoTo(r, next) ELSE Apply(r, "save", rule, match, next)
           /\ match \in FarFrom(p) => rule = "travel"
           /\ match = NoPlace => FarFrom(p) \cap Measured(r) = {}
           /\ excused' = IF next = "travel" THEN excused ELSE excused \cup PassedOver(r, match)
    BY Looked
  <1>2. RequestInv /\ ~At(r, "idle") /\ ~At(r, "user") /\ p \in Places
    BY Sound DEF TypeInv, Detect, DetectTravel, At, Refused
  <1>3. rule \in Rules /\ next \in Nexts
    BY DEF Rules, Nexts
  <1>4. CASE next = "travel"
    <2>1. CASE match = NoPlace
      <3>1. req'[r].at = "travel" /\ req'[r].place = p
        BY <1>1, <1>2, <1>4, <2>1, Went DEF Ats, Applying
      <3> QED BY <3>1 DEF Handles, Looks
    <2>2. CASE match # NoPlace
      <3>1. req'[r].at = "save" /\ req'[r].next = "travel" /\ req'[r].place = p
        BY <1>1, <1>2, <1>3, <1>4, <2>2, Applied
      <3> QED BY <3>1 DEF Handles, Looks, Applying
    <2> QED BY <2>1, <2>2
  <1>5. CASE next # "travel"
    <2>1. {p, q} \in RecentPairs /\ {p, q} \notin PassedOver(r, match)
      <3>1. UNCHANGED places
        BY DEF Detect, DetectTravel
      <3> QED BY <1>1, <1>5, <3>1 DEF Open, RecentPairs, Fresh, places
    <2>2. q \in FarFrom(p) /\ q \in Recent(p)
      BY <1>2, <2>1, OpenPair
    <2>3. ASSUME match = NoPlace, req[r].found, ~Crowded(p)
          PROVE  FALSE
      <3>1. q \in located
        BY <2>1, <2>2, <2>3 DEF PassedOver, PairsOf
      <3>2. q \in Measured(r)
        BY <1>2, <2>2, <2>3, <3>1, OthersAreAll DEF Measured
      <3> QED BY <1>1, <2>2, <2>3, <3>2
    <2>4. q = match
      BY <2>1, <2>2, <2>3 DEF PassedOver, PairsOf
    <2>5. match # NoPlace /\ rule = "travel"
      BY <1>1, <2>2, <2>4 DEF ThreatAssumption
    <2>6. /\ req'[r].at = "save" /\ req'[r].rule = "travel" /\ req'[r].other = q
          /\ req'[r].place = p
      BY <1>1, <1>2, <1>3, <2>4, <2>5, Applied
    <2> QED BY <2>6 DEF Handles, Found
  <1> QED BY <1>4, <1>5

\* A step of a request in progress.
LEMMA NoticeProceed ==
    ASSUME ThreatAssumption, TypeInv, OrderInv, NoticeInv, NEW r \in Requests,
           Proceed(r) \/ Abort(r)
    PROVE  NoticeInv'
  <1> DEFINE p == req[r].place
             Keeps == \A q \in Places : {p, q} \in Open' /\ (Looks(req[r]) \/ Found(req[r], q))
                                           => Handles(req'[r], p, q)
             Here == req[r].at \notin {"idle", "user"} \cup Refused
  <1>0. /\ RequestInv /\ OthersStay(r) /\ ~At(r, "idle")
        /\ Here => p \in Places
    BY Moves, Sound DEF TypeInv
  <1>1. ASSUME \A pair \in Open' : pair \in Open, Keeps
        PROVE  NoticeInv'
    <2>1. \A s, q \in Places :
             {s, q} \in Open' /\ Handles(req[r], s, q) => Handles(req'[r], s, q)
      BY <1>1 DEF Handles
    <2> QED BY <1>0, <1>1, <2>1, NoticeKeptBy
  <1>2. UNCHANGED <<places, noticed, excused>> => Open' = Open
    BY DEF places, Open, RecentPairs, Fresh
  <1>3. ASSUME NEW at \in Ats \ {"idle"}, at \in Applying => req[r].at \in Applying,
               Here \/ (at \in Refused /\ ~At(r, "user")), GoTo(r, at)
        PROVE  /\ req'[r].at = at /\ req'[r].place = p /\ req'[r].next = req[r].next
               /\ req'[r].rule = req[r].rule /\ req'[r].other = req[r].other
    BY <1>0, <1>3, Went DEF At
  <1>4. ASSUME req[r].at \in Applying, Looks(req[r]),
               Return(r) \/ \E at \in {"notice", "queue", "cool"} : GoTo(r, at)
        PROVE  req'[r].place = p /\ Looks(req'[r])
    <2>1. req[r].next \in {"rapid", "travel"}
      BY <1>4 DEF Looks, Applying
    <2>2. CASE Return(r)
      <3>1. req'[r].place = p /\ req'[r].at = req[r].next
        BY <1>0, <1>4, <2>2, Returned
      <3> QED BY <2>1, <3>1 DEF Looks
    <2>3. CASE \E at \in {"notice", "queue", "cool"} : GoTo(r, at)
      <3>1. /\ req'[r].place = p /\ req'[r].at \in Applying
            /\ req'[r].next = req[r].next
        BY <1>3, <1>4, <2>3 DEF Ats, Applying, Refused, At
      <3> QED BY <2>1, <3>1 DEF Looks
    <2> QED BY <1>4, <2>2, <2>3
  <1>5. CASE LogPlace(r)
    <2>1. req'[r].at = "device" /\ req'[r].place = p
      BY <1>3, <1>5 DEF LogPlace, Ats, Applying, Refused, At
    <2> QED BY <1>1, <1>2, <1>5, <2>1 DEF LogPlace, Handles, Looks
  <1>6. CASE UseDevice(r)
    <2>1. req'[r].place = p /\ Looks(req'[r])
      <3>0. Here
        BY <1>6 DEF UseDevice, At, Refused
      <3>1. CASE GoTo(r, "rapid")
        BY <1>3, <3>0, <3>1 DEF Ats, Applying, Looks
      <3>2. CASE Apply(r, "log", "device", NoPlace, "rapid")
        <4>1. req'[r].place = p /\ req'[r].at = "log" /\ req'[r].next = "rapid"
          BY <1>0, <3>0, <3>2, Applied DEF Rules, Nexts
        <4> QED BY <4>1 DEF Looks, Applying
      <3> QED BY <1>6, <3>1, <3>2 DEF UseDevice
    <2> QED BY <1>1, <1>2, <1>6, <2>1 DEF UseDevice, Handles
  <1>7. CASE CountDevices(r) \/ ReadLog(r) \/ WriteRisk(r) \/ EndLogin(r) \/ SaveUser(r)
    <2>1. ~Looks(req[r]) /\ \A q : ~Found(req[r], q)
      BY <1>7 DEF CountDevices, ReadLog, WriteRisk, EndLogin, SaveUser, At, Looks, Found, Applying
    <2>2. UNCHANGED <<places, noticed, excused>>
      BY <1>7 DEF CountDevices, ReadLog, WriteRisk, EndLogin, SaveUser
    <2> QED BY <1>1, <1>2, <2>1, <2>2
  <1>8. CASE Notice(r) \/ QueueAlert(r) \/ Cool(r)
    <2>1. req[r].at \in Applying /\ \A q : ~Found(req[r], q)
      BY <1>8 DEF Notice, QueueAlert, Cool, At, Applying, Found
    <2>2. Return(r) \/ \E at \in {"notice", "queue", "cool"} : GoTo(r, at)
      BY <1>8 DEF Notice, QueueAlert, Cool
    <2>3. UNCHANGED <<places, noticed, excused>>
      BY <1>8 DEF Notice, QueueAlert, Cool
    <2> QED BY <1>1, <1>2, <1>4, <2>1, <2>2, <2>3 DEF Handles
  <1>9. CASE Detect(r) \/ DetectTravel(r)
    <2>1. UNCHANGED <<places, noticed>> /\ excused \subseteq excused'
      <3>1. excused \subseteq excused'
        <4>1. \E S : excused' = excused \cup S \/ excused' = excused
          BY <1>9, Looked
        <4> QED BY <4>1
      <3> QED BY <1>9, <3>1 DEF Detect, DetectTravel
    <2>2. \A pair \in Open' : pair \in Open
      BY <2>1 DEF Open, RecentPairs, Fresh, places
    <2>3. Keeps
      BY <1>9, LookHandles
    <2> QED BY <1>1, <2>2, <2>3
  <1>10. CASE SavePlace(r) \/ Refresh(r)
    <2>1. SaveAgain(p, req[r].found) /\ noticed' = noticed /\ p \in Places
      BY <1>0, <1>10 DEF SavePlace, Refresh, At, Refused
    <2>2. /\ Fresh' = Fresh \cup {p} /\ (seen[p] = 0 <=> p \notin Fresh)
          /\ excused' = IF seen[p] = 0 THEN excused \cup PairsOf(p, Recent(p)) ELSE excused
      <3>1. seen' = [seen EXCEPT ![p] = Window] /\ seen \in [Places -> 0 .. Window]
        BY <2>1 DEF SaveAgain, Touch, TypeInv, TypeOK
      <3> QED BY <2>1, <3>1 DEF SaveAgain, Fresh, ThreatAssumption
    <2>3. ASSUME NEW pair \in Open'
          PROVE  pair \in Open
      <3>1. /\ pair \in Far /\ pair \notin excused' /\ pair \notin noticed
            /\ pair \subseteq Fresh \cup {p}
        BY <2>1, <2>2, <2>3 DEF Open, RecentPairs
      <3>2. ASSUME p \in pair, p \notin Fresh
            PROVE  FALSE
        <4>1. PICK q \in pair : pair = {p, q} /\ p # q
          BY <3>1, <3>2 DEF ThreatAssumption
        <4>2. q \in FarFrom(p) \cap Recent(p)
          BY <3>1, <4>1, FarDiffer DEF FarFrom, Recent
        <4> QED BY <2>2, <3>1, <3>2, <4>1, <4>2 DEF PairsOf
      <3>3. pair \subseteq Fresh /\ pair \notin excused
        BY <2>2, <3>1, <3>2
      <3> QED BY <3>1, <3>3 DEF Open, RecentPairs
    <2>4. Keeps
      <3>1. CASE SavePlace(r)
        <4>1. /\ req[r].at = "save" /\ req'[r].at = "log" /\ req'[r].place = p
              /\ req'[r].next = req[r].next
              /\ req'[r].rule = req[r].rule /\ req'[r].other = req[r].other
          BY <1>3, <3>1 DEF SavePlace, At, Ats, Applying, Refused
        <4> QED BY <4>1 DEF Handles, Looks, Found, Applying
      <3>2. CASE Refresh(r)
        BY <3>2 DEF Refresh, At, Looks, Found, Applying
      <3> QED BY <1>10, <3>1, <3>2
    <2> QED BY <1>1, <2>3, <2>4
  <1>11. CASE Log(r)
    <2>1. /\ req[r].at = "log" /\ UNCHANGED <<places, excused>> /\ noticed \subseteq noticed'
          /\ req[r].rule = "travel" => {{p, req[r].other}} \cap RecentPairs \subseteq noticed'
          /\ GoTo(r, "notice") \/ Return(r)
      BY <1>11 DEF Log, At, Pair
    <2>2. \A pair \in Open' : pair \in Open
      BY <2>1 DEF Open, RecentPairs, Fresh, places
    <2>3. ASSUME NEW q \in Places, {p, q} \in Open', Looks(req[r]) \/ Found(req[r], q)
          PROVE  Handles(req'[r], p, q)
      <3>1. ~Found(req[r], q)
        BY <2>1, <2>2, <2>3 DEF Found, Open
      <3>2. req'[r].place = p /\ Looks(req'[r])
        BY <1>4, <2>1, <2>3, <3>1 DEF Applying
      <3> QED BY <3>2 DEF Handles
    <2> QED BY <1>1, <2>2, <2>3
  <1>12. CASE Abort(r)
    <2>1. /\ UNCHANGED <<places, noticed>>
          /\ excused' = excused \cup (RecentPairs \cap PairsOf(p, Places))
      BY <1>12 DEF Abort
    <2>2. \A pair \in Open' : pair \in Open
      BY <2>1 DEF Open, RecentPairs, Fresh, places
    <2>3. ASSUME NEW q \in Places, {p, q} \in Open'
          PROVE  FALSE
      <3>1. {p, q} \in RecentPairs /\ {p, q} \notin excused'
        BY <2>2, <2>3 DEF Open
      <3>2. p \in Places
        BY <3>1, FarDiffer DEF RecentPairs
      <3> QED BY <2>1, <3>1, <3>2, OpenPair DEF PairsOf
    <2> QED BY <1>1, <2>2, <2>3
  <1> QED BY <1>5, <1>6, <1>7, <1>8, <1>9, <1>10, <1>11, <1>12 DEF Proceed

\* A request that begins to look around at its place stands for all its pairs.
LEMMA NoticeBegin ==
    ASSUME ThreatAssumption, TypeInv, OrderInv, NoticeInv,
           NEW r \in Requests, NEW p \in Places, NEW f \in BOOLEAN,
           Track(r, p, f) \/ Login(r, p, f) \/ Task(r, p, f)
    PROVE  NoticeInv'
  <1>1. PICK new \in Valid : /\ Begin(r, new) /\ new.place = p
                             /\ Task(r, p, f) \/ Looks(new)
    BY Begins
  <1>2. /\ At(r, "idle") /\ Same(req'[r], new)
        /\ \A q \in Requests : q # r => Same(req'[q], req[q])
    BY <1>1, Begun DEF TypeInv
  <1>3. ASSUME NEW s \in Requests, NEW a \in Places, NEW b \in Places, Handles(req[s], a, b)
        PROVE  Handles(req'[s], a, b)
    <2>1. s # r
      BY <1>2, <1>3 DEF Handles, Looks, Found, Applying, At
    <2>2. Same(req'[s], req[s])
      BY <1>2, <2>1
    <2> QED BY <1>3, <2>2 DEF Same, Handles, Looks, Found
  <1>4. CASE Task(r, p, f)
    <2>1. Open' = Open
      BY <1>4 DEF Task, places, Open, RecentPairs, Fresh
    <2> QED BY <1>3, <2>1, NoticeKept
  <1>5. CASE Track(r, p, f) \/ Login(r, p, f)
    <2>1. /\ Looks(new)
          /\ \A q \in Places : q # p => (q \in Fresh' <=> q \in Fresh)
          /\ excused' = {pair \in excused : p \notin pair} /\ noticed' = noticed
      <3>1. ~Task(r, p, f)
        BY <1>5 DEF Track, Login, Task
      <3> QED BY <1>1, <1>5, <3>1 DEF Track, Login, Touch, Visit, Fresh, TypeInv, TypeOK
    <2>2. \A a : Handles(req'[r], p, a)
      BY <1>1, <1>2, <2>1 DEF Same, Handles, Looks
    <2> SUFFICES ASSUME NEW a \in Places, NEW b \in Places, {a, b} \in Open'
                 PROVE  Handled(a, b)' \/ Handled(b, a)'
      BY DEF NoticeInv
    <2>3. CASE p = a \/ p = b
      BY <2>2, <2>3 DEF Handled
    <2>4. CASE p # a /\ p # b
      <3>1. {a, b} \in Open
        BY <2>1, <2>4 DEF Open, RecentPairs
      <3> QED BY <1>3, <3>1 DEF NoticeInv, Handled
    <2> QED BY <2>3, <2>4
  <1> QED BY <1>4, <1>5

\* Time, the end of a cooldown, and what begins elsewhere open no pair.
LEMMA NoticeStep ==
    ASSUME ThreatAssumption, TypeInv, OrderInv, NoticeInv, [Next]_vars
    PROVE  NoticeInv'
  <1>1. ASSUME req' = req, \A pair \in Open' : pair \in Open
        PROVE  NoticeInv'
    BY <1>1, NoticeKept
  <1>2. CASE Tick
    <2>1. Fresh' \subseteq Fresh
      BY <1>2, Aged DEF Rows, TypeInv, TypeOK
    <2>2. /\ req' = req
          /\ noticed' = noticed \cap RecentPairs' /\ excused' = excused \cap RecentPairs'
      BY <1>2 DEF Tick
    <2>3. \A pair \in Open' : pair \in Open
      BY <2>1, <2>2 DEF Open, RecentPairs
    <2> QED BY <1>1, <2>2, <2>3
  <1>3. ASSUME NEW rule \in Rules, CooldownEnds(rule) \/ ResetRisk
        PROVE  NoticeInv'
    BY <1>1, <1>3 DEF CooldownEnds, ResetRisk, places, Open, RecentPairs, Fresh
  <1>4. ASSUME NEW r \in Requests, LoadUser(r) \/ RefuseLogin(r)
        PROVE  NoticeInv'
    <2>1. Open' = Open
      BY <1>4 DEF LoadUser, RefuseLogin, places, Open, RecentPairs, Fresh
    <2>2. PICK new \in Valid : Begin(r, new)
      BY <1>4, BeginsElsewhere
    <2>3. At(r, "idle") /\ \A q \in Requests : q # r => Same(req'[q], req[q])
      BY <2>2, Begun DEF TypeInv
    <2>4. ASSUME NEW s \in Requests, NEW a \in Places, NEW b \in Places, Handles(req[s], a, b)
          PROVE  Handles(req'[s], a, b)
      <3>1. s # r
        BY <2>3, <2>4 DEF Handles, Looks, Found, Applying, At
      <3> QED BY <2>3, <2>4, <3>1 DEF Same, Handles, Looks, Found
    <2> QED BY <2>1, <2>4, NoticeKept
  <1>5. CASE UNCHANGED vars
    BY <1>1, <1>5 DEF vars, Open, RecentPairs, Fresh
  <1> QED BY <1>2, <1>3, <1>4, <1>5, NoticeProceed, NoticeBegin DEF Next, Rules

-----------------------------------------------------------------------------
(* Silence and the score.                                                  *)

\* Every step is a move, a beginning, or none of a request.
LEMMA Kinds ==
    ASSUME [Next]_vars
    PROVE  \/ \E r \in Requests : Proceed(r) \/ Abort(r)
           \/ /\ \/ \E r \in Requests, p \in Places, f \in BOOLEAN :
                       Track(r, p, f) \/ Login(r, p, f) \/ Task(r, p, f)
                 \/ \E r \in Requests : LoadUser(r) \/ RefuseLogin(r)
              /\ UNCHANGED <<cooling, mailed, logged, risk, lone>>
           \/ req' = req /\ UNCHANGED <<cooling, mailed, logged, risk, lone>>
           \/ /\ req' = req /\ UNCHANGED <<logged, risk, lone>>
              /\ \E rule \in Rules : CooldownEnds(rule)
           \/ ResetRisk
  BY DEF Next, vars, Track, Login, Task, LoadUser, RefuseLogin, CooldownEnds, Tick, mails, score

\* Every beginning is that of some request, which leaves what the others do.
LEMMA AnyBegins ==
    ASSUME ThreatAssumption, TypeInv, OrderInv,
           \/ \E r \in Requests, p \in Places, f \in BOOLEAN :
                 Track(r, p, f) \/ Login(r, p, f) \/ Task(r, p, f)
           \/ \E r \in Requests : LoadUser(r) \/ RefuseLogin(r)
    PROVE  \E r \in Requests :
              /\ At(r, "idle") /\ req'[r].at \notin {"score", "cool"}
              /\ req'[r].at = "user" => req'[r].copy = risk
              /\ req'[r].alone => \A q \in Requests : At(q, "idle")
              /\ \A q \in Requests : q # r => Same(req'[q], req[q]) /\ req'[q].alone = FALSE
  <1>1. PICK r \in Requests, new \in Valid :
           /\ Begin(r, new) /\ new.at \notin {"score", "cool"}
           /\ new.at = "user" => new.copy = risk
    BY Begins, BeginsElsewhere
  <1> QED BY <1>1, Begun DEF TypeInv, Same

\* Silence is earned: the cooldown of a rule follows its mail.
LEMMA SilenceStep ==
    ASSUME ThreatAssumption, TypeInv, OrderInv, CoolInv, SilenceIsEarned, [Next]_vars
    PROVE  CoolInv' /\ SilenceIsEarned'
  <1>1. ASSUME NEW r \in Requests, Proceed(r) \/ Abort(r)
        PROVE  CoolInv' /\ SilenceIsEarned'
    <2>1. mailed \subseteq mailed'
      BY <1>1
         DEF Proceed, Abort, LogPlace, UseDevice, Detect, DetectTravel, SavePlace, CountDevices,
             ReadLog, WriteRisk, Log, Notice, QueueAlert, Cool, EndLogin, Refresh, SaveUser, mails
    <2>2. cooling' = cooling \/ Cool(r)
      BY <1>1
         DEF Proceed, Abort, LogPlace, UseDevice, Detect, DetectTravel, SavePlace, CountDevices,
             ReadLog, WriteRisk, Log, Notice, QueueAlert, Cool, EndLogin, Refresh, SaveUser, mails
    <2>3. SilenceIsEarned'
      <3>1. ASSUME Cool(r)
            PROVE  cooling' \subseteq mailed'
        BY <2>1, <3>1 DEF Cool, CoolInv, SilenceIsEarned
      <3> QED BY <2>1, <2>2, <3>1 DEF SilenceIsEarned
    <2>4. ASSUME NEW q \in Requests, req'[q].at = "cool"
          PROVE  req'[q].rule \in mailed'
      <3>1. CASE q = r
        BY <1>1, <2>4, <3>1, Moves
      <3>2. CASE q # r
        <4>1. req'[q] = req[q]
          BY <1>1, <3>2, Moves DEF OthersStay
        <4> QED BY <2>1, <2>4, <4>1 DEF CoolInv, At
      <3> QED BY <3>1, <3>2
    <2> QED BY <2>3, <2>4 DEF CoolInv, At
  <1>2. ASSUME NEW r \in Requests, req'[r].at # "cool",
               \A q \in Requests : q # r => Same(req'[q], req[q]),
               UNCHANGED <<cooling, mailed>>
        PROVE  CoolInv' /\ SilenceIsEarned'
    BY <1>2 DEF CoolInv, At, Same, SilenceIsEarned
  <1>3. ASSUME req' = req, UNCHANGED <<cooling, mailed>>
        PROVE  CoolInv' /\ SilenceIsEarned'
    BY <1>3 DEF CoolInv, At, SilenceIsEarned
  <1>4. ASSUME req' = req, NEW rule \in Rules, CooldownEnds(rule)
        PROVE  CoolInv' /\ SilenceIsEarned'
    BY <1>4 DEF CooldownEnds, CoolInv, At, SilenceIsEarned
  <1>5. ResetRisk => req' = req /\ UNCHANGED <<cooling, mailed>>
    BY DEF ResetRisk, mails
  <1> QED BY <1>1, <1>2, <1>3, <1>4, <1>5, Kinds, AnyBegins

\* A score that nobody overlapped still counts the log when it is written, and
\* that of a user that nobody overlapped is still the user's.
LEMMA RiskStep ==
    ASSUME ThreatAssumption, TypeInv, OrderInv, AloneInv, RiskCounts, [Next]_vars
    PROVE  AloneInv' /\ RiskCounts'
  <1>1. ASSUME NEW r \in Requests, Proceed(r) \/ Abort(r)
        PROVE  AloneInv' /\ RiskCounts'
    <2>1. ASSUME NEW q \in Requests, req'[q].alone
          PROVE  /\ \A p \in Requests : p # q => req'[p].at = "idle"
                 /\ req'[q].at = "score" => req'[q].copy = logged'
                 /\ req'[q].at # "user"
      <3>1. q = r
        <4>1. ASSUME q # r
              PROVE  FALSE
          <5>1. req[q].alone
            BY <1>1, <2>1, <4>1, Moves DEF OthersStay
          <5>2. At(r, "idle")
            BY <4>1, <5>1 DEF AloneInv
          <5> QED BY <1>1, <5>2, Moves
        <4> QED BY <4>1
      <3>2. req[r].alone
        BY <1>1, <2>1, <3>1, Moves
      <3>3. \A p \in Requests : p # r => req'[p].at = "idle"
        BY <1>1, <3>2, Moves DEF AloneInv, At, OthersStay
      <3>4. ASSUME req'[r].at = "score"
            PROVE  req'[r].copy = logged'
        <4>1. ReadLog(r) /\ req'[r].copy = logged
          BY <1>1, <3>4, Moves
        <4> QED BY <4>1 DEF ReadLog, score
      <3>5. req'[r].at # "user"
        BY <1>1, Moves
      <3> QED BY <3>1, <3>3, <3>4, <3>5
    <2>2. AloneInv'
      BY <2>1 DEF AloneInv, At
    <2>3. CASE WriteRisk(r) \/ SaveUser(r)
      <3>1. /\ logged' = logged /\ risk' = req[r].copy
            /\ \/ At(r, "score") /\ lone' = req[r].alone
               \/ At(r, "user") /\ lone' = (lone /\ req[r].alone)
        BY <2>3 DEF WriteRisk, SaveUser
      <3>2. ASSUME lone'
            PROVE  risk' = logged'
        <4>1. CASE At(r, "score") /\ lone' = req[r].alone
          <5>1. req[r].alone
            BY <3>2, <4>1, Zenon
          <5> QED BY <3>1, <4>1, <5>1 DEF AloneInv
        <4>2. CASE At(r, "user") /\ lone' = (lone /\ req[r].alone)
          <5>1. lone /\ req[r].alone
            BY <3>2, <4>2, Zenon
          <5>2. req[r].copy = risk /\ risk = logged
            BY <4>2, <5>1 DEF AloneInv, RiskCounts
          <5> QED BY <3>1, <5>2
        <4> QED BY <3>1, <4>1, <4>2
      <3> QED BY <2>2, <3>2 DEF RiskCounts
    <2>4. CASE ~(WriteRisk(r) \/ SaveUser(r))
      <3>1. lone' = FALSE \/ UNCHANGED <<logged, risk, lone>>
        BY <1>1, <2>4
           DEF Proceed, Abort, LogPlace, UseDevice, Detect, DetectTravel, SavePlace, CountDevices,
               ReadLog, Log, Notice, QueueAlert, Cool, EndLogin, Refresh, score
      <3> QED BY <2>2, <3>1 DEF RiskCounts
    <2> QED BY <2>3, <2>4
  <1>2. ASSUME NEW r \in Requests,
               req'[r].at \notin {"score", "cool"}, req'[r].at = "user" => req'[r].copy = risk,
               req'[r].alone => \A q \in Requests : At(q, "idle"),
               \A q \in Requests : q # r => Same(req'[q], req[q]) /\ req'[q].alone = FALSE,
               UNCHANGED <<logged, risk, lone>>
        PROVE  AloneInv' /\ RiskCounts'
    BY <1>2 DEF AloneInv, At, Same, RiskCounts
  <1>3. ASSUME req' = req, UNCHANGED <<logged, risk, lone>>
        PROVE  AloneInv' /\ RiskCounts'
    BY <1>3 DEF AloneInv, At, RiskCounts
  <1>4. ASSUME ResetRisk
        PROVE  AloneInv' /\ RiskCounts'
    BY <1>4 DEF ResetRisk, AloneInv, At, RiskCounts
  <1> QED BY <1>1, <1>2, <1>3, <1>4, Kinds, AnyBegins

-----------------------------------------------------------------------------
(* The results.                                                            *)

\* The invariant holds at the start.
LEMMA InvInit ==
    ASSUME ThreatAssumption, Init
    PROVE  ThreatInv
  <1>1. RequestInv /\ \A r \in Requests : req[r] = Idle
    BY IdleIsValid DEF Init, RequestInv
  <1>2. TypeOK
    BY <1>1 DEF Init, TypeOK, RequestInv, Valid, ThreatAssumption
  <1>3. OrderInv
    <2>1. Fresh = {}
      BY DEF Init, Fresh
    <2> QED BY <2>1, FS_EmptySet DEF Init, OrderInv
  <1>4. NoticeInv
    <2>1. RecentPairs = {}
      BY DEF Init, RecentPairs, Fresh, ThreatAssumption
    <2> QED BY <2>1 DEF NoticeInv, Open
  <1>5. CoolInv /\ AloneInv
    BY <1>1, IdleIsValid DEF CoolInv, AloneInv, At
  <1> QED BY <1>1, <1>2, <1>3, <1>4, <1>5
          DEF ThreatInv, TypeInv, SilenceIsEarned, RiskCounts, Init

\* Requests that overlap keep the types, the order of the places, the far pairs,
\* the silence and the score right.
THEOREM ThreatCorrect == Spec => []ThreatInv
  <1>1. Init => ThreatInv
    BY InvInit, ThreatAssumption
  <1>2. ThreatInv /\ [Next]_vars => ThreatInv'
    BY ThreatAssumption, TypeStep, OrderStep, NoticeStep, SilenceStep, RiskStep
       DEF ThreatInv, Rows
  <1> QED BY <1>1, <1>2, PTL DEF Spec

\* Whatever requests, logins and tasks of one account overlap, and however they
\* end, the rows, the log, the score and the requests stay in their types.
THEOREM TypeCorrect == Spec => []TypeOK
  <1>1. ThreatInv => TypeOK
    BY DEF ThreatInv, TypeInv
  <1> QED BY <1>1, ThreatCorrect, PTL

\* Two places far apart that were used within the window have set off the travel
\* rule when nobody is tracking them any more, unless the last look at them broke
\* off, was late, hidden or matched elsewhere, or was blind because a lookup had
\* failed: each request stores its place, with what its lookup gave, before it
\* looks, so the later of two to look sees the other.
THEOREM FarPairNoticedHolds == Spec => []FarPairNoticed
  <1>1. ASSUME ThreatInv
        PROVE  FarPairNoticed
    <2> SUFFICES ASSUME NEW pair \in RecentPairs \ excused, \A p \in pair : ~Tracked(p),
                        pair \notin noticed
                 PROVE  FALSE
      BY DEF FarPairNoticed
    <2>1. PICK p \in Places, q \in Places : pair = {p, q}
      BY ThreatAssumption DEF ThreatAssumption, RecentPairs
    <2>2. Handled(p, q) \/ Handled(q, p)
      BY <1>1, <2>1 DEF ThreatInv, NoticeInv, Open
    <2>3. Tracked(p) \/ Tracked(q)
      BY <2>2 DEF Handled, Handles, Tracked
    <2> QED BY <2>1, <2>3
  <1>2. ThreatInv => FarPairNoticed
    BY <1>1
  <1> QED BY <1>2, ThreatCorrect, PTL

\* create_security_notification sets a cooldown only after it queued the mail:
\* a queue that fails never silences the next alert.
THEOREM SilenceIsEarnedHolds == Spec => []SilenceIsEarned
  <1>1. ThreatInv => SilenceIsEarned
    BY DEF ThreatInv
  <1> QED BY <1>1, ThreatCorrect, PTL

\* The score that a request wrote with no other overlapping it counts all that
\* is logged until it is reset or written over by a request that was overlapped:
\* nothing was logged between its reading and its writing, and a user that was
\* saved as a whole with no other request overlapping has the score it had.
THEOREM RiskCountsHolds == Spec => []RiskCounts
  <1>1. ThreatInv => RiskCounts
    BY DEF ThreatInv
  <1> QED BY <1>1, ThreatCorrect, PTL

=============================================================================
