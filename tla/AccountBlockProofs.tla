-------------------------- MODULE AccountBlockProofs --------------------------
(***************************************************************************)
(* Proofs about AccountBlock, for any requests, any lengths of blocks and  *)
(* windows, and whether or not Redis fails.                                *)
(***************************************************************************)
EXTENDS AccountBlock, FiniteSetTheorems, TLAPS

-----------------------------------------------------------------------------
(* The inductive invariant.                                                *)

\* A block that is about to be written has one of the three lengths.
TimeInv ==
    \A r \in Requests :
        req[r].at \in {"block", "cacheBlock"} => req[r].time \in {FailedTime, HoursTime, TravelTime}

\* A request that has recorded a failed attempt and has yet to count or block.
Counting(r) == req[r].kind = "wrong" /\ req[r].at \in {"count", "block"}

\* Too many attempts are about to be counted, or blocked for as long as the
\* last of them stays in the window.
FailedInv ==
    FailedCount >= MaxAttempts /\ ~lifted =>
        \/ \E r \in Requests : Counting(r)
        \/ Active(until) /\ \A a \in Attempts : failures[a] <= until

\* Between the row and the cache of a lone block nothing else is in progress,
\* and the answer that will be cached lasts as long as the block.
SavingInv ==
    applied = "saving" =>
        /\ until \in Nat \ {0}
        /\ \E r \in Requests : /\ req[r].at = "cacheBlock" /\ req[r].time >= until
                               /\ \A q \in Requests \ {r} : req[q].at = "idle"

\* While a lone block lasts, the cache says so for as long, every copy of the
\* row agrees with the row, and no request is past its check.
AloneInv ==
    applied = "alone" =>
        /\ until \in Nat \ {0}
        /\ cache # NoEntry /\ cache.blocked /\ cache.left >= until
        /\ \A r \in Requests :
              req[r].at # "idle" => /\ req[r].at \in {"clear", "lookup", "check", "save"}
                                    /\ req[r].user = until

BlockInv == TypeOK /\ TimeInv /\ FailedInv /\ SavingInv /\ AloneInv

-----------------------------------------------------------------------------
(* Types.                                                                  *)

Ats == {"idle", "clear", "forget", "lookup", "storeTrue", "storeFalse", "serve",
        "check", "count", "block", "cacheBlock", "save"}

Kinds == {"api", "wrong", "right", "save"}

\* What Done, GoTo and ApplyRule do to the requests.
LEMMA Moved ==
    ASSUME TypeOK, NEW r \in Requests
    PROVE  /\ Done(r) => /\ req' \in [Requests -> Request]
                         /\ req'[r] = Idle
                         /\ \A q \in Requests : q # r => req'[q] = req[q]
           /\ \A at \in Ats : GoTo(r, at) =>
                 /\ req' \in [Requests -> Request]
                 /\ req'[r].at = at /\ req'[r].time = req[r].time /\ req'[r].user = req[r].user
                 /\ \A q \in Requests : q # r => req'[q] = req[q]
           /\ \A time \in {FailedTime, HoursTime, TravelTime} : ApplyRule(r, time) =>
                 /\ req' \in [Requests -> Request]
                 /\ req'[r].at = "block" /\ req'[r].time = time
                 /\ \A q \in Requests : q # r => req'[q] = req[q]
  <1>0. req \in [Requests -> Request] /\ req[r] \in Request
    BY DEF TypeOK
  <1>1. ASSUME Done(r)
        PROVE  /\ req' \in [Requests -> Request]
               /\ req'[r] = Idle
               /\ \A q \in Requests : q # r => req'[q] = req[q]
    <2>1. Idle \in Request
      BY BlockAssumption DEF Idle, Request, Left
    <2> QED BY <1>0, <1>1, <2>1 DEF Done
  <1>2. ASSUME NEW at \in Ats, GoTo(r, at)
        PROVE  /\ req' \in [Requests -> Request]
               /\ req'[r].at = at /\ req'[r].time = req[r].time /\ req'[r].user = req[r].user
               /\ \A q \in Requests : q # r => req'[q] = req[q]
    <2>1. [req[r] EXCEPT !.at = at] \in Request
      BY <1>0 DEF Request, Ats
    <2>2. req' = [req EXCEPT ![r] = [req[r] EXCEPT !.at = at]]
      BY <1>0, <1>2 DEF GoTo
    <2>3. req'[r] = [req[r] EXCEPT !.at = at]
      BY <1>0, <2>2
    <2>4. req'[r].at = at /\ req'[r].time = req[r].time /\ req'[r].user = req[r].user
      BY <1>0, <2>3 DEF Request
    <2> QED BY <1>0, <2>1, <2>2, <2>4
  <1>3. ASSUME NEW time \in {FailedTime, HoursTime, TravelTime}, ApplyRule(r, time)
        PROVE  /\ req' \in [Requests -> Request]
               /\ req'[r].at = "block" /\ req'[r].time = time
               /\ \A q \in Requests : q # r => req'[q] = req[q]
    <2>1. time \in 0 .. TravelTime
      BY BlockAssumption
    <2>2. [[req[r] EXCEPT !.at = "block"] EXCEPT !.time = time] \in Request
      BY <1>0, <2>1 DEF Request
    <2>3. req' = [req EXCEPT ![r] = [[req[r] EXCEPT !.at = "block"] EXCEPT !.time = time]]
      BY <1>0, <1>3 DEF ApplyRule
    <2>4. req'[r] = [[req[r] EXCEPT !.at = "block"] EXCEPT !.time = time]
      BY <1>0, <2>3
    <2>5. req'[r].at = "block" /\ req'[r].time = time
      BY <1>0, <2>4 DEF Request
    <2> QED BY <1>0, <2>2, <2>3, <2>5
  <1> QED BY <1>1, <1>2, <1>3

\* What Load and the clearing of an expired block do to the requests.
LEMMA Copied ==
    ASSUME TypeOK, NEW r \in Requests
    PROVE  /\ \A kind \in Kinds : Load(r, kind) =>
                 /\ req' \in [Requests -> Request]
                 /\ req'[r].at \in {"clear", "save"} /\ req'[r].user = until
                 /\ \A q \in Requests : q # r => req'[q] = req[q]
           /\ ClearExpired(r) =>
                 /\ req' \in [Requests -> Request]
                 /\ req'[r].at = "forget"
                 /\ \A q \in Requests : q # r => req'[q] = req[q]
  <1>0. req \in [Requests -> Request] /\ req[r] \in Request /\ until \in Left
    BY DEF TypeOK
  <1>1. ASSUME NEW kind \in Kinds, Load(r, kind)
        PROVE  /\ req' \in [Requests -> Request]
               /\ req'[r].at \in {"clear", "save"} /\ req'[r].user = until
               /\ \A q \in Requests : q # r => req'[q] = req[q]
    <2> DEFINE at == IF kind = "save" THEN "save" ELSE "clear"
               after == applied \in {"alone", "overlapped"}
               new == [kind |-> kind, at |-> at, user |-> until, time |-> 0, after |-> after]
    <2>1. at \in {"clear", "save"} /\ after \in BOOLEAN
      OBVIOUS
    <2>2. req' = [req EXCEPT ![r] = new]
      BY <1>1 DEF Load
    <2> HIDE DEF at, after
    <2>3. new \in Request
      BY <1>0, <2>1, BlockAssumption DEF Request, Kinds
    <2> QED BY <1>0, <2>1, <2>2, <2>3
  <1>2. ASSUME ClearExpired(r)
        PROVE  /\ req' \in [Requests -> Request]
               /\ req'[r].at = "forget"
               /\ \A q \in Requests : q # r => req'[q] = req[q]
    <2>1. [[req[r] EXCEPT !.at = "forget"] EXCEPT !.user = NoBlock] \in Request
      BY <1>0 DEF Request, Left
    <2>2. req' = [req EXCEPT ![r] = [[req[r] EXCEPT !.at = "forget"] EXCEPT !.user = NoBlock]]
      BY <1>0, <1>2 DEF ClearExpired
    <2>3. req'[r] = [[req[r] EXCEPT !.at = "forget"] EXCEPT !.user = NoBlock]
      BY <1>0, <2>2
    <2> QED BY <1>0, <2>1, <2>2, <2>3 DEF Request
  <1> QED BY <1>1, <1>2

\* Time passes within the types.
LEMMA DownType ==
    ASSUME NEW b \in Left
    PROVE  Down(b) \in Left
  BY BlockAssumption DEF Down, Left

\* The initial states are within the types.
LEMMA TypeInit == Init => TypeOK
  <1>1. Idle \in Request
    BY BlockAssumption DEF Idle, Request, Left
  <1>2. 0 \in 0 .. Window
    BY BlockAssumption
  <1> QED BY <1>1, <1>2 DEF Init, TypeOK, Left

\* Every step stays within the types.
LEMMA TypeStep ==
    ASSUME TypeOK, TimeInv, [Next]_vars
    PROVE  TypeOK'
  <1>1. CASE UNCHANGED vars
    BY <1>1 DEF TypeOK, vars
  <1>2. ASSUME NEW r \in Requests, ClearNothing(r)
        PROVE  TypeOK'
    BY <1>2, Moved DEF ClearNothing, Ats, TypeOK
  <1>3. ASSUME NEW r \in Requests, LookupMiss(r)
        PROVE  TypeOK'
    BY <1>3, Moved DEF LookupMiss, Ats, TypeOK
  <1>4. ASSUME NEW r \in Requests, LookupHit(r)
        PROVE  TypeOK'
    BY <1>4, Moved DEF LookupHit, Ats, TypeOK
  <1>5. ASSUME NEW r \in Requests, Finish(r)
        PROVE  TypeOK'
    BY <1>5, Moved DEF Finish, Ats, TypeOK
  <1>6. ASSUME NEW r \in Requests, LoginRefused(r)
        PROVE  TypeOK'
    BY <1>6, Moved DEF LoginRefused, Ats, TypeOK
  <1>7. ASSUME NEW r \in Requests, LoginAccepted(r)
        PROVE  TypeOK'
    BY <1>7, Moved DEF LoginAccepted, Ats, TypeOK
  <1>8. ASSUME NEW r \in Requests, HoursRule(r)
        PROVE  TypeOK'
    BY <1>8, Moved DEF HoursRule, Ats, TypeOK
  <1>9. ASSUME NEW r \in Requests, TravelRule(r)
        PROVE  TypeOK'
    BY <1>9, Moved DEF TravelRule, Ats, TypeOK
  <1>10. ASSUME NEW r \in Requests, CountAttempts(r)
         PROVE  TypeOK'
    BY <1>10, Moved DEF CountAttempts, Ats, TypeOK
  <1>11. ASSUME NEW r \in Requests, ClearExpired(r)
         PROVE  TypeOK'
    BY <1>11, Copied DEF ClearExpired, TypeOK, Left
  <1>12. ASSUME NEW r \in Requests, Forget(r)
         PROVE  TypeOK'
    BY <1>12, Moved DEF Forget, Ats, TypeOK
  <1>13. ASSUME NEW r \in Requests, Store(r)
         PROVE  TypeOK'
    <2>1. req' \in [Requests -> Request]
      BY <1>13, Moved DEF Store, Ats
    <2>2. [blocked |-> req[r].at = "storeTrue", left |-> AnswerTime] \in Entry
      <3>1. AnswerTime \in 1 .. TravelTime
        BY BlockAssumption
      <3>2. (req[r].at = "storeTrue") \in BOOLEAN
        OBVIOUS
      <3> QED BY <3>1, <3>2, Zenon DEF Entry
    <2> QED BY <1>13, <2>1, <2>2 DEF Store, TypeOK
  <1>14. ASSUME NEW r \in Requests, RedisFails(r)
         PROVE  TypeOK'
    BY <1>14, Moved DEF RedisFails, Ats, TypeOK
  <1>15. ASSUME NEW r \in Requests, RecordAttempt(r)
         PROVE  TypeOK'
    <2>1. req' \in [Requests -> Request]
      BY <1>15, Moved DEF RecordAttempt, Ats
    <2>2. PICK a \in Attempts : failures' = [failures EXCEPT ![a] = Window]
      BY <1>15 DEF RecordAttempt
    <2>3. Window \in 0 .. Window
      BY BlockAssumption
    <2>4. failures' \in [Attempts -> 0 .. Window]
      BY <2>2, <2>3 DEF TypeOK
    <2> QED BY <1>15, <2>1, <2>4 DEF RecordAttempt, TypeOK
  <1>16. ASSUME NEW r \in Requests, SaveBlock(r)
         PROVE  TypeOK'
    <2>1. req' \in [Requests -> Request]
      BY <1>16, Moved DEF SaveBlock, Ats
    <2>2. req[r].time \in Left
      BY DEF TypeOK, Request, Left
    <2> QED BY <1>16, <2>1, <2>2 DEF SaveBlock, TypeOK
  <1>17. ASSUME NEW r \in Requests, CacheBlock(r)
         PROVE  TypeOK'
    <2>1. req' \in [Requests -> Request]
      BY <1>17, Moved DEF CacheBlock, BlockCached
    <2>2. req[r].time \in 1 .. TravelTime
      BY <1>17, BlockAssumption DEF CacheBlock, TimeInv, TypeOK, Request
    <2>3. cache' \in Entry
      BY <1>17, <2>2 DEF CacheBlock, Entry
    <2>4. applied' \in {"no", "saving", "alone", "overlapped"}
      BY <1>17, Zenon DEF CacheBlock, BlockCached
    <2> QED BY <1>17, <2>1, <2>3, <2>4 DEF CacheBlock, BlockCached, TypeOK
  <1>18. ASSUME NEW r \in Requests, SaveUser(r)
         PROVE  TypeOK'
    <2>1. req' \in [Requests -> Request]
      BY <1>18, Moved DEF SaveUser
    <2>2. req[r].user \in Left
      BY DEF TypeOK, Request
    <2>3. lifted' \in BOOLEAN
      BY <1>18 DEF SaveUser
    <2> QED BY <1>18, <2>1, <2>2, <2>3 DEF SaveUser, TypeOK
  <1>19. ASSUME NEW r \in Requests, NEW kind \in Kinds, Load(r, kind)
         PROVE  TypeOK'
    BY <1>19, Copied DEF Load, TypeOK
  <1>20. CASE Unlock
    BY <1>20 DEF Unlock, TypeOK, Left
  <1>21. CASE Tick
    <2>1. until' \in Left
      BY <1>21, DownType DEF Tick, TypeOK
    <2>2. req' \in [Requests -> Request]
      <3>1. ASSUME NEW r \in Requests
            PROVE  [req[r] EXCEPT !.user = Down(@)] \in Request
        <4>1. req[r] \in Request /\ req[r].user \in Left
          BY DEF TypeOK, Request
        <4>2. Down(req[r].user) \in Left
          BY <4>1, DownType
        <4> QED BY <4>1, <4>2 DEF Request
      <3> QED BY <1>21, <3>1 DEF Tick
    <2>3. failures' \in [Attempts -> 0 .. Window]
      <3>1. ASSUME NEW a \in Attempts
            PROVE  Down(failures[a]) \in 0 .. Window
        BY BlockAssumption DEF TypeOK, Down
      <3> QED BY <1>21, <3>1 DEF Tick
    <2>4. cache' \in Entry \cup {NoEntry}
      <3>1. CASE cache = NoEntry \/ cache.left = 1
        BY <1>21, <3>1 DEF Tick
      <3>2. CASE ~(cache = NoEntry \/ cache.left = 1)
        <4>1. cache \in Entry /\ cache.left - 1 \in 1 .. TravelTime
          BY <3>2, BlockAssumption DEF TypeOK, Entry
        <4>2. [cache EXCEPT !.left = cache.left - 1] \in Entry
          BY <4>1 DEF Entry
        <4> QED BY <1>21, <3>2, <4>2 DEF Tick
      <3> QED BY <3>1, <3>2
    <2> QED BY <1>21, <2>1, <2>2, <2>3, <2>4 DEF Tick, TypeOK
  <1> QED BY <1>1, <1>2, <1>3, <1>4, <1>5, <1>6, <1>7, <1>8, <1>9, <1>10, <1>11,
             <1>12, <1>13, <1>14, <1>15, <1>16, <1>17, <1>18, <1>19, <1>20, <1>21 DEF Next, Proceed, Kinds

\* A block that is about to be written has one of the three lengths.
LEMMA TimeStep ==
    ASSUME TypeOK, TimeInv, [Next]_vars
    PROVE  TimeInv'
  <1>1. ASSUME NEW r \in Requests, Proceed(r)
        PROVE  TimeInv'
    <2>1. \A q \in Requests : q # r => req'[q] = req[q]
      BY <1>1, Moved, Copied
         DEF Proceed, ClearNothing, Forget, LookupHit, LookupMiss, Store, RedisFails, Finish,
             HoursRule, TravelRule, LoginRefused, LoginAccepted, RecordAttempt, CountAttempts,
             SaveBlock, CacheBlock, BlockCached, SaveUser, Ats
    <2>2. req'[r].at \in {"block", "cacheBlock"} =>
              req'[r].time \in {FailedTime, HoursTime, TravelTime}
      <3>1. CASE SaveBlock(r)
        BY <3>1, Moved DEF SaveBlock, TimeInv, Ats
      <3>2. CASE HoursRule(r) \/ TravelRule(r) \/ CountAttempts(r)
        BY <3>2, Moved, BlockAssumption DEF HoursRule, TravelRule, CountAttempts, Idle
      <3>3. CASE ClearExpired(r)
        BY <3>3, Copied
      <3>4. CASE ~(SaveBlock(r) \/ HoursRule(r) \/ TravelRule(r) \/ CountAttempts(r)
                   \/ ClearExpired(r))
        BY <1>1, <3>4, Moved
           DEF Proceed, ClearNothing, Forget, LookupHit, LookupMiss, Store, RedisFails, Finish,
               LoginRefused, LoginAccepted, RecordAttempt, CacheBlock, BlockCached, SaveUser,
               Ats, Idle
      <3> QED BY <3>1, <3>2, <3>3, <3>4
    <2> QED BY <2>1, <2>2 DEF TimeInv
  <1>2. ASSUME NEW r \in Requests, NEW kind \in Kinds, Load(r, kind)
        PROVE  TimeInv'
    BY <1>2, Copied DEF TimeInv
  <1>3. CASE Tick
    <2>1. \A r \in Requests : req'[r].at = req[r].at /\ req'[r].time = req[r].time
      BY <1>3 DEF Tick, TypeOK, Request
    <2> QED BY <2>1 DEF TimeInv
  <1> QED BY <1>1, <1>2, <1>3 DEF Next, Kinds, Unlock, vars, TimeInv

-----------------------------------------------------------------------------
(* The failed logins.                                                      *)

\* Attempts are only counted more where one is recorded.
LEMMA FewerFailed ==
    ASSUME TypeOK, \A a \in Attempts : failures'[a] > 0 => failures[a] > 0,
           FailedCount' >= MaxAttempts
    PROVE  FailedCount >= MaxAttempts
  <1> DEFINE S == {a \in Attempts : failures[a] > 0}
             T == {a \in Attempts : failures'[a] > 0}
  <1>1. IsFiniteSet(S) /\ T \subseteq S
    BY FS_Subset, BlockAssumption
  <1>2. Cardinality(T) <= Cardinality(S) /\ Cardinality(S) \in Nat /\ IsFiniteSet(T)
    BY <1>1, FS_Subset, FS_CardinalityType
  <1>3. Cardinality(T) \in Nat
    BY <1>2, FS_CardinalityType
  <1>4. Cardinality(T) >= MaxAttempts => Cardinality(S) >= MaxAttempts
    BY <1>2, <1>3, BlockAssumption
  <1> QED BY <1>4 DEF FailedCount

\* Too many attempts are some.
LEMMA SomeFailed ==
    ASSUME TypeOK, FailedCount >= MaxAttempts
    PROVE  \E a \in Attempts : failures[a] > 0
  <1> SUFFICES ASSUME \A a \in Attempts : ~(failures[a] > 0)
               PROVE  FALSE
    OBVIOUS
  <1>1. {a \in Attempts : failures[a] > 0} = {}
    OBVIOUS
  <1>2. FailedCount = 0
    BY <1>1, FS_EmptySet DEF FailedCount
  <1> QED BY <1>2, BlockAssumption

\* Recording, counting and blocking keep up with the attempts.
LEMMA FailedStep ==
    ASSUME TypeOK, TimeInv, FailedInv, [Next]_vars
    PROVE  FailedInv'
  <1> DEFINE Held == Active(until) /\ \A a \in Attempts : failures[a] <= until
             Counted == \E r \in Requests : Counting(r)
  <1> SUFFICES ASSUME FailedCount' >= MaxAttempts, ~lifted'
               PROVE  Counted' \/ Held'
    BY DEF FailedInv
  <1>0. /\ req \in [Requests -> Request] /\ until \in Left
        /\ \A a \in Attempts : failures[a] \in 0 .. Window
    BY DEF TypeOK
  <1>1. ASSUME failures' = failures, lifted' = lifted, until' = until,
               \A q \in Requests : Counting(q) => Counting(q)'
        PROVE  Counted' \/ Held'
    <2>1. FailedCount' = FailedCount
      BY <1>1 DEF FailedCount
    <2>2. Counted \/ Held
      BY <1>1, <2>1 DEF FailedInv
    <2>3. Held => Held'
      BY <1>1 DEF Active
    <2> QED BY <1>1, <2>2, <2>3
  <1>2. CASE UNCHANGED vars
    BY <1>1, <1>2 DEF vars, Counting
  <1>3. ASSUME NEW r \in Requests,
               \/ ClearNothing(r) \/ Forget(r) \/ LookupHit(r) \/ LookupMiss(r) \/ Store(r)
               \/ RedisFails(r) \/ Finish(r) \/ HoursRule(r) \/ TravelRule(r)
               \/ LoginRefused(r) \/ LoginAccepted(r) \/ CacheBlock(r)
        PROVE  Counted' \/ Held'
    <2>1. UNCHANGED <<failures, lifted, until>>
      BY <1>3 DEF ClearNothing, Forget, LookupHit, LookupMiss, Store, RedisFails, Finish,
                  HoursRule, TravelRule, LoginRefused, LoginAccepted, CacheBlock, BlockCached
    <2>2. ~Counting(r)
      BY <1>3 DEF ClearNothing, Forget, LookupHit, LookupMiss, Store, RedisFails, Finish,
                  HoursRule, TravelRule, LoginRefused, LoginAccepted, CacheBlock, Counting
    <2>3. \A q \in Requests : q # r => req'[q] = req[q]
      BY <1>3, Moved
         DEF ClearNothing, Forget, LookupHit, LookupMiss, Store, RedisFails, Finish,
             HoursRule, TravelRule, LoginRefused, LoginAccepted, CacheBlock, BlockCached, Ats
    <2> QED BY <1>1, <2>1, <2>2, <2>3 DEF Counting
  <1>4. ASSUME NEW r \in Requests, RecordAttempt(r)
        PROVE  Counted'
    <2>1. req'[r].at = "count" /\ req'[r].kind = "wrong"
      BY <1>0, <1>4 DEF RecordAttempt, GoTo, Request
    <2> QED BY <2>1 DEF Counting
  <1>5. ASSUME NEW r \in Requests, CountAttempts(r)
        PROVE  Counted' \/ Held'
    <2>1. UNCHANGED <<failures, lifted, until>> /\ FailedCount >= MaxAttempts
      <3>1. UNCHANGED <<failures, lifted, until>>
        BY <1>5 DEF CountAttempts
      <3> QED BY <3>1 DEF FailedCount
    <2>2. req'[r].at = "block" /\ req'[r].kind = req[r].kind
          /\ \A q \in Requests : q # r => req'[q] = req[q]
      BY <1>0, <1>5, <2>1 DEF CountAttempts, ApplyRule, Request
    <2>3. Counting(r) => Counting(r)'
      BY <2>2 DEF Counting
    <2> QED BY <1>1, <2>1, <2>2, <2>3 DEF Counting
  <1>6. ASSUME NEW r \in Requests, SaveBlock(r)
        PROVE  Held'
    <2>1. until' = req[r].time /\ failures' = failures
      BY <1>6 DEF SaveBlock
    <2>2. req[r].time \in Nat \ {0} /\ req[r].time >= Window
      BY <1>6, BlockAssumption DEF SaveBlock, TimeInv
    <2> QED BY <1>0, <2>1, <2>2, BlockAssumption DEF Active
  <1>7. ASSUME NEW r \in Requests, SaveUser(r) \/ ClearExpired(r)
        PROVE  Counted' \/ Held'
    <2>1. ~lifted /\ (Active(until) => until' = until) /\ failures' = failures
      BY <1>7, BlockAssumption DEF SaveUser, ClearExpired
    <2>2. FailedCount' = FailedCount
      BY <2>1 DEF FailedCount
    <2>3. Held => Held'
      BY <2>1 DEF Active
    <2>4. ~Counting(r) /\ \A q \in Requests : q # r => req'[q] = req[q]
      BY <1>7, Moved, Copied DEF SaveUser, ClearExpired, Counting
    <2>5. Counted => Counted'
      BY <2>4 DEF Counting
    <2> QED BY <2>1, <2>2, <2>3, <2>5 DEF FailedInv
  <1>8. ASSUME NEW r \in Requests, NEW kind \in Kinds, Load(r, kind)
        PROVE  Counted' \/ Held'
    <2>1. ~Counting(r) /\ UNCHANGED <<until, failures, lifted>>
      BY <1>8 DEF Load, Counting
    <2>2. \A q \in Requests : q # r => req'[q] = req[q]
      BY <1>8, Copied
    <2> QED BY <1>1, <2>1, <2>2 DEF Counting
  <1>9. CASE Unlock
    BY <1>9 DEF Unlock
  <1>10. CASE Tick
    <2>1. /\ until' = Down(until) /\ lifted' = lifted
          /\ \A a \in Attempts : failures'[a] = Down(failures[a])
      BY <1>10 DEF Tick
    <2>2. \A a \in Attempts : failures'[a] > 0 => failures[a] > 0 /\ failures'[a] = failures[a] - 1
      BY <1>0, <2>1, BlockAssumption DEF Down
    <2>3. FailedCount >= MaxAttempts
      BY <2>2, FewerFailed
    <2>4. ASSUME NEW r \in Requests, Counting(r)
          PROVE  Counting(r)'
      BY <1>0, <1>10, <2>4 DEF Tick, Counting, Request
    <2>5. CASE Held
      <3>1. PICK a \in Attempts : failures[a] > 1
        <4>1. TypeOK'
          BY TypeStep
        <4>2. \E a \in Attempts : failures'[a] > 0
          <5>1. SUFFICES ASSUME \A a \in Attempts : ~(failures'[a] > 0) PROVE FALSE
            OBVIOUS
          <5>2. {a \in Attempts : failures'[a] > 0} = {}
            BY <5>1
          <5>3. FailedCount' = 0
            BY <5>2, FS_EmptySet DEF FailedCount
          <5> QED BY <5>3, BlockAssumption
        <4> QED BY <1>0, <2>2, <4>2
      <3>2. until \in Nat /\ until >= 2
        BY <1>0, <2>5, <3>1, BlockAssumption DEF Active, Left
      <3>3. until' = until - 1
        BY <2>1, <3>2, BlockAssumption DEF Down
      <3>4. \A b \in Attempts : failures'[b] <= until'
        BY <1>0, <2>1, <2>5, <3>2, <3>3, BlockAssumption DEF Down
      <3> QED BY <3>2, <3>3, <3>4, BlockAssumption DEF Active
    <2> QED BY <2>1, <2>3, <2>4, <2>5 DEF FailedInv
  <1> QED BY <1>2, <1>3, <1>4, <1>5, <1>6, <1>7, <1>8, <1>9, <1>10 DEF Next, Proceed, Kinds

-----------------------------------------------------------------------------
(* The lone block.                                                         *)

\* It goes to the cache while nothing else is in progress.
LEMMA SavingStep ==
    ASSUME TypeOK, TimeInv, SavingInv, [Next]_vars
    PROVE  SavingInv'
  <1> SUFFICES ASSUME applied' = "saving"
               PROVE  /\ until' \in Nat \ {0}
                      /\ \E r \in Requests :
                            /\ req'[r].at = "cacheBlock" /\ req'[r].time >= until'
                            /\ \A q \in Requests \ {r} : req'[q].at = "idle"
    BY DEF SavingInv
  <1>0. /\ req \in [Requests -> Request] /\ until \in Left
        /\ \A q \in Requests : req[q].time \in 0 .. TravelTime
    BY DEF TypeOK, Request
  <1>1. CASE UNCHANGED vars
    BY <1>1 DEF SavingInv, vars
  <1>2. ASSUME NEW r \in Requests, SaveBlock(r)
        PROVE  /\ until' \in Nat \ {0}
               /\ req'[r].at = "cacheBlock" /\ req'[r].time >= until'
               /\ \A q \in Requests \ {r} : req'[q].at = "idle"
    <2>1. req[r].time \in Nat \ {0}
      BY <1>0, <1>2, BlockAssumption DEF SaveBlock, TimeInv
    <2>2. req'[r].at = "cacheBlock" /\ req'[r].time = req[r].time
          /\ \A q \in Requests : q # r => req'[q] = req[q]
      BY <1>2, Moved DEF SaveBlock, Ats
    <2> QED BY <1>2, <2>1, <2>2 DEF SaveBlock
  <1>3. ASSUME NEW r \in Requests, Proceed(r), ~SaveBlock(r)
        PROVE  FALSE
    <2>1. CASE applied # "saving"
      BY <1>3, <2>1
         DEF Proceed, ClearNothing, ClearExpired, Forget, LookupHit, LookupMiss, Store,
             RedisFails, Finish, HoursRule, TravelRule, LoginRefused, LoginAccepted,
             RecordAttempt, CountAttempts, CacheBlock, BlockCached, SaveUser
    <2>2. CASE applied = "saving"
      <3>1. PICK p \in Requests : /\ req[p].at = "cacheBlock"
                                  /\ \A q \in Requests \ {p} : req[q].at = "idle"
        BY <2>2 DEF SavingInv
      <3>2. req[r].at \in {"cacheBlock", "idle"}
        BY <3>1
      <3>3. CacheBlock(r) \/ RedisFails(r)
        BY <1>3, <3>2
           DEF Proceed, ClearNothing, ClearExpired, Forget, LookupHit, LookupMiss, Store,
               Finish, HoursRule, TravelRule, LoginRefused, LoginAccepted,
               RecordAttempt, CountAttempts, SaveUser
      <3> QED BY <2>2, <3>3 DEF CacheBlock, BlockCached, RedisFails
    <2> QED BY <2>1, <2>2
  <1>4. ASSUME NEW r \in Requests, NEW kind \in Kinds, Load(r, kind)
        PROVE  FALSE
    BY <1>4 DEF Load
  <1>5. CASE Unlock
    BY <1>5 DEF Unlock
  <1>6. CASE Tick
    <2>1. applied = "saving" /\ until # 1 /\ until' = Down(until)
      BY <1>6 DEF Tick
    <2>2. PICK r \in Requests : /\ req[r].at = "cacheBlock" /\ req[r].time >= until
                                /\ \A q \in Requests \ {r} : req[q].at = "idle"
      BY <2>1 DEF SavingInv
    <2>3. until' = until - 1 /\ until \in Nat /\ until >= 2
      BY <2>1, BlockAssumption DEF SavingInv, Down
    <2>4. \A q \in Requests : req'[q].at = req[q].at /\ req'[q].time = req[q].time
      BY <1>0, <1>6 DEF Tick, Request
    <2>5. req[r].time \in Nat
      BY <1>0, BlockAssumption
    <2> QED BY <2>2, <2>3, <2>4, <2>5
  <1> QED BY <1>1, <1>2, <1>3, <1>4, <1>5, <1>6 DEF Next, Kinds

\* It then holds the cache and the copies of the row, step by step.
LEMMA AloneStep ==
    ASSUME TypeOK, TimeInv, SavingInv, AloneInv, [Next]_vars
    PROVE  AloneInv'
  <1> SUFFICES ASSUME applied' = "alone"
               PROVE  /\ until' \in Nat \ {0}
                      /\ cache' # NoEntry /\ cache'.blocked /\ cache'.left >= until'
                      /\ \A r \in Requests :
                            req'[r].at # "idle" =>
                                /\ req'[r].at \in {"clear", "lookup", "check", "save"}
                                /\ req'[r].user = until'
    BY DEF AloneInv
  <1>0. /\ req \in [Requests -> Request] /\ until \in Left
        /\ cache \in Entry \cup {NoEntry}
        /\ \A q \in Requests : req[q].time \in 0 .. TravelTime
    BY DEF TypeOK, Request
  <1> DEFINE Small(r) == ClearNothing(r) \/ LookupHit(r) \/ LoginRefused(r) \/ SaveUser(r)
             Other(r) == \/ ClearExpired(r) \/ Forget(r) \/ LookupMiss(r) \/ Store(r)
                         \/ Finish(r) \/ HoursRule(r) \/ TravelRule(r) \/ LoginAccepted(r)
                         \/ RecordAttempt(r) \/ CountAttempts(r)
  <1>1. CASE UNCHANGED vars
    BY <1>1 DEF AloneInv, vars
  <1>2. ASSUME NEW r \in Requests, RedisFails(r) \/ SaveBlock(r)
        PROVE  FALSE
    BY <1>2 DEF RedisFails, SaveBlock
  <1>3. ASSUME NEW r \in Requests, CacheBlock(r)
        PROVE  /\ until' \in Nat \ {0}
               /\ cache' # NoEntry /\ cache'.blocked /\ cache'.left >= until'
               /\ \A q \in Requests : req'[q].at = "idle"
    <2>1. applied = "saving"
      BY <1>3, Zenon DEF CacheBlock, BlockCached
    <2>2. PICK p \in Requests : /\ req[p].at = "cacheBlock" /\ req[p].time >= until
                                /\ \A q \in Requests \ {p} : req[q].at = "idle"
      BY <2>1 DEF SavingInv
    <2>3. p = r
      BY <1>3, <2>2 DEF CacheBlock
    <2>4. until' = until /\ until \in Nat \ {0}
      BY <1>3, <2>1 DEF CacheBlock, BlockCached, SavingInv
    <2>5. cache' = [blocked |-> TRUE, left |-> req[r].time]
      BY <1>3 DEF CacheBlock
    <2>6. cache'.blocked /\ cache'.left >= until
      BY <2>2, <2>3, <2>5
    <2>7. cache' # NoEntry
      <3>1. req[r].time \in 1 .. TravelTime
        BY <1>0, <1>3, BlockAssumption DEF CacheBlock, TimeInv
      <3>2. cache' \in Entry
        BY <2>5, <3>1 DEF Entry
      <3> QED BY <3>2, BlockAssumption DEF Entry
    <2>8. req'[r].at = "idle" /\ \A q \in Requests : q # r => req'[q] = req[q]
      BY <1>3, Moved DEF CacheBlock, BlockCached, Idle
    <2> QED BY <2>2, <2>3, <2>4, <2>6, <2>7, <2>8
  <1>4. ASSUME NEW r \in Requests, Other(r)
        PROVE  FALSE
    <2>1. applied = "alone"
      BY <1>4 DEF ClearExpired, Forget, LookupMiss, Store, Finish, HoursRule, TravelRule,
                  LoginAccepted, RecordAttempt, CountAttempts
    <2>2. /\ until \in Nat \ {0} /\ cache # NoEntry
          /\ req[r].at # "idle" => /\ req[r].at \in {"clear", "lookup", "check", "save"}
                                   /\ req[r].user = until
      BY <2>1 DEF AloneInv
    <2>3. Active(until) /\ ~Expired(until)
      BY <2>2, BlockAssumption DEF Active, Expired
    <2> QED BY <1>4, <2>2, <2>3
            DEF ClearExpired, Forget, LookupMiss, Store, Finish, HoursRule, TravelRule,
                LoginAccepted, RecordAttempt, CountAttempts
  <1>5. ASSUME NEW r \in Requests, Small(r)
        PROVE  /\ until' \in Nat \ {0}
               /\ cache' # NoEntry /\ cache'.blocked /\ cache'.left >= until'
               /\ \A q \in Requests :
                     req'[q].at # "idle" =>
                         /\ req'[q].at \in {"clear", "lookup", "check", "save"}
                         /\ req'[q].user = until'
    <2>1. applied = "alone" /\ cache' = cache
      BY <1>5 DEF ClearNothing, LookupHit, LoginRefused, SaveUser
    <2>2. /\ until \in Nat \ {0}
          /\ cache # NoEntry /\ cache.blocked /\ cache.left >= until
          /\ \A q \in Requests :
                req[q].at # "idle" => /\ req[q].at \in {"clear", "lookup", "check", "save"}
                                      /\ req[q].user = until
      BY <2>1 DEF AloneInv
    <2>3. until' = until
      BY <1>5, <2>2 DEF ClearNothing, LookupHit, LoginRefused, SaveUser
    <2>4. \A q \in Requests : q # r => req'[q] = req[q]
      BY <1>5, <2>2, Moved DEF ClearNothing, LookupHit, LoginRefused, SaveUser, Ats
    <2>5. req'[r].at # "idle" =>
              req'[r].at \in {"clear", "lookup", "check", "save"} /\ req'[r].user = until
      <3>1. CASE ClearNothing(r)
        BY <3>1, <2>2, Moved DEF ClearNothing, Ats
      <3>2. CASE LookupHit(r) \/ LoginRefused(r) \/ SaveUser(r)
        BY <3>2, <2>2, Moved DEF LookupHit, LoginRefused, SaveUser, Idle
      <3> QED BY <1>5, <3>1, <3>2
    <2> QED BY <2>1, <2>2, <2>3, <2>4, <2>5
  <1>6. ASSUME NEW r \in Requests, NEW kind \in Kinds, Load(r, kind)
        PROVE  /\ until' \in Nat \ {0}
               /\ cache' # NoEntry /\ cache'.blocked /\ cache'.left >= until'
               /\ \A q \in Requests :
                     req'[q].at # "idle" =>
                         /\ req'[q].at \in {"clear", "lookup", "check", "save"}
                         /\ req'[q].user = until'
    <2>1. applied = "alone" /\ cache' = cache /\ until' = until
      BY <1>6 DEF Load
    <2>2. req'[r].at \in {"clear", "save"} /\ req'[r].user = until
          /\ \A q \in Requests : q # r => req'[q] = req[q]
      BY <1>6, Copied
    <2> QED BY <2>1, <2>2 DEF AloneInv
  <1>7. CASE Unlock
    BY <1>7 DEF Unlock
  <1>8. CASE Tick
    <2>1. applied = "alone" /\ until # 1 /\ until' = Down(until)
      BY <1>8 DEF Tick
    <2>2. /\ until \in Nat \ {0}
          /\ cache # NoEntry /\ cache.blocked /\ cache.left >= until
          /\ \A q \in Requests :
                req[q].at # "idle" => /\ req[q].at \in {"clear", "lookup", "check", "save"}
                                      /\ req[q].user = until
      BY <2>1 DEF AloneInv
    <2>3. until' = until - 1 /\ until >= 2
      BY <2>1, <2>2, BlockAssumption DEF Down
    <2>4. cache \in Entry /\ cache.left \in Nat /\ cache.left >= 2
      BY <1>0, <2>2, <2>3, BlockAssumption DEF Entry
    <2>5. cache' = [cache EXCEPT !.left = cache.left - 1]
      BY <1>8, <2>2, <2>4 DEF Tick
    <2>6. cache'.blocked /\ cache'.left = cache.left - 1
      BY <2>2, <2>4, <2>5 DEF Entry
    <2>7. cache' # NoEntry
      <3>1. cache.left - 1 \in 1 .. TravelTime
        BY <2>4, BlockAssumption DEF Entry
      <3>2. cache' \in Entry
        BY <2>4, <2>5, <3>1 DEF Entry
      <3> QED BY <3>2, BlockAssumption DEF Entry
    <2>8. \A q \in Requests : req'[q].at = req[q].at /\ req'[q].user = Down(req[q].user)
      BY <1>0, <1>8 DEF Tick, Request
    <2>9. until' \in Nat \ {0} /\ cache'.left >= until'
      BY <2>2, <2>3, <2>4, <2>6
    <2>10. ASSUME NEW q \in Requests, req'[q].at # "idle"
           PROVE  /\ req'[q].at \in {"clear", "lookup", "check", "save"}
                  /\ req'[q].user = until'
      <3>1. /\ req[q].at \in {"clear", "lookup", "check", "save"}
            /\ req[q].user = until
        BY <2>2, <2>8, <2>10
      <3> QED BY <2>1, <2>8, <3>1
    <2> QED BY <2>6, <2>2, <2>7, <2>9, <2>10
  <1> QED BY <1>1, <1>2, <1>3, <1>4, <1>5, <1>6, <1>7, <1>8 DEF Next, Proceed, Kinds

-----------------------------------------------------------------------------
(* The theorems.                                                           *)

\* The invariant holds in every reachable state.
THEOREM BlockCorrect == Spec => []BlockInv
  <1>1. Init => BlockInv
    <2> SUFFICES ASSUME Init PROVE BlockInv
      OBVIOUS
    <2>1. ~(FailedCount >= MaxAttempts)
      BY TypeInit, SomeFailed DEF Init
    <2>2. TypeOK
      BY TypeInit
    <2> QED BY <2>1, <2>2 DEF Init, BlockInv, TimeInv, FailedInv, SavingInv, AloneInv, Idle
  <1>2. BlockInv /\ [Next]_vars => BlockInv'
    BY TypeStep, TimeStep, FailedStep, SavingStep, AloneStep DEF BlockInv
  <1> QED BY <1>1, <1>2, PTL DEF Spec

\* The row, the cached answer and the requests stay within their types.
THEOREM TypeCorrect == Spec => []TypeOK
  <1>1. BlockInv => TypeOK
    BY DEF BlockInv
  <1> QED BY <1>1, BlockCorrect, PTL

\* A block that temporarily_block_user wrote to the row and to the cache while
\* nothing else was in progress refuses every request until it ends, for blocks
\* of any lengths and any number of requests.
THEOREM LoneBlockHoldsAlways == Spec => []LoneBlockHolds
  <1>1. BlockInv => LoneBlockHolds
    BY DEF BlockInv, AloneInv, LoneBlockHolds
  <1> QED BY <1>1, BlockCorrect, PTL

\* Too many failed logins never go without a block (FAILED_LOGIN_ATTEMPTS,
\* UserLoginView.post), however many logins record and count them in parallel.
THEOREM FailedLoginsBlockHolds == Spec => []FailedLoginsBlock
  <1>1. BlockInv => FailedLoginsBlock
    BY DEF BlockInv, FailedInv, FailedLoginsBlock, Counting
  <1> QED BY <1>1, BlockCorrect, PTL

=============================================================================
