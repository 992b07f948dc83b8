---------------------------- MODULE SessionsProofs ----------------------------
(***************************************************************************)
(* Proofs about Sessions, for any requests, devices, links and tokens, and *)
(* for clocks and passwords as high as one likes.                          *)
(***************************************************************************)
EXTENDS Sessions, TLAPS

-----------------------------------------------------------------------------
(* The inductive invariant.                                                *)

\* The device of a link, and of a request that follows one, is known.
DeviceInv ==
    /\ \A v \in Links : link[v] # NoLink => link[v].device \in known
    /\ \A r \in Requests : At(r, "confirm") => req[r].device \in known
    /\ \A r \in Requests : At(r, "newLink") \/ At(r, "anyLink") => req[r].device \in known

\* Rows, and copies of the row that will be saved: a password is in all of them
\* with the time it was chosen at.
Writing(r) == At(r, "write")

RowInv ==
    /\ user.password <= made
    /\ \A r \in Requests : Writing(r) =>
          /\ req[r].copy.password <= made
          /\ req[r].copy.password = user.password => req[r].copy.changed = user.changed
          /\ \A q \in Requests : Writing(q) /\ req[q].copy.password = req[r].copy.password
                => req[q].copy.changed = req[r].copy.changed

\* A token that is newer than a password which is being replaced knows it.
TokenInv ==
    \A t \in Tokens : token[t] # NoToken =>
        /\ token[t].iat <= now
        /\ \A r \in Replacing : token[t].late \/ token[t].iat <= req[r].copy.changed

SessionsInv ==
    /\ TypeOK /\ DeviceInv /\ RowInv /\ TokenInv
    /\ SessionsFollowPassword /\ RevokedAfterChange /\ KeysStay

-----------------------------------------------------------------------------
(* Types.                                                                  *)

Ats == {"idle", "device", "newLink", "anyLink", "record", "issue", "stamp", "write",
        "blacklist", "revoke", "publish", "confirm", "close"}

\* What a request keeps of the row is a row.
LEMMA NeededType ==
    ASSUME NEW u \in User, FirstUser \in User,
           NEW kind \in {"login", "code", "change", "reset", "profile", "keys", "click", "written"}
    PROVE  /\ Needed(kind, u) \in User
           /\ kind \notin {"keys", "click"} => Needed(kind, u).password = u.password
           /\ kind \in {"change", "reset", "profile"} => Needed(kind, u) = u
  <1>1. [FirstUser EXCEPT !.password = u.password] \in User
    BY DEF User
  <1>2. [FirstUser EXCEPT !.password = u.password].password = u.password
    BY DEF User
  <1> QED BY <1>1, <1>2 DEF Needed

\* The first row, and the request that does nothing, have their types.
LEMMA FirstTypes == FirstUser \in User /\ Idle \in Request
  <1>1. FirstUser \in User
    BY SessionAssumption DEF FirstUser, User, Never
  <1> QED BY <1>1 DEF Idle, Request

\* What a step does to the requests stays within their type.
LEMMA RequestTypes ==
    ASSUME TypeOK, NEW r \in Requests
    PROVE  /\ Done(r) => req' \in [Requests -> Request]
           /\ \A at \in Ats : GoTo(r, at) => req' \in [Requests -> Request]
           /\ \A kind \in {"login", "code", "change", "reset", "profile", "keys", "click"},
                 at \in Ats : Begin(r, kind, at) => req' \in [Requests -> Request]
  <1>1. \A at \in Ats : [req[r] EXCEPT !.at = at] \in Request
    BY DEF TypeOK, Request, Ats
  <1>2. ASSUME NEW kind \in {"login", "code", "change", "reset", "profile", "keys", "click"},
               NEW at \in Ats
        PROVE  [kind |-> kind, at |-> at, copy |-> Needed(kind, user),
                device |-> NoDevice, link |-> NoLink] \in Request
    <2>1. Needed(kind, user) \in User
      BY NeededType, FirstTypes DEF TypeOK
    <2> QED BY <2>1 DEF Request, Ats
  <1> QED BY <1>1, <1>2, FirstTypes DEF TypeOK, Done, GoTo, Begin

\* What Done, GoTo and Begin do to the requests.
LEMMA Moved ==
    ASSUME TypeOK, NEW r \in Requests, NEW q \in Requests
    PROVE  /\ Done(r) => req'[q] = IF q = r THEN Idle ELSE req[q]
           /\ \A at : GoTo(r, at) =>
                 /\ q # r => req'[q] = req[q]
                 /\ q = r => /\ req'[q].at = at /\ req'[q].kind = req[q].kind
                             /\ req'[q].copy = req[q].copy /\ req'[q].device = req[q].device
           /\ \A kind, at : Begin(r, kind, at) =>
                 /\ q # r => req'[q] = req[q]
                 /\ q = r => /\ req'[q].at = at /\ req'[q].kind = kind
                             /\ req'[q].copy = Needed(kind, user)
  <1>1. req \in [Requests -> Request] /\ req[r] \in Request
    BY DEF TypeOK
  <1>2. Done(r) => req'[q] = IF q = r THEN Idle ELSE req[q]
    BY <1>1 DEF Done
  <1>3. ASSUME NEW at, GoTo(r, at)
        PROVE  /\ q # r => req'[q] = req[q]
               /\ q = r => /\ req'[q].at = at /\ req'[q].kind = req[q].kind
                           /\ req'[q].copy = req[q].copy /\ req'[q].device = req[q].device
    <2>1. req'[q] = IF q = r THEN [req[r] EXCEPT !.at = at] ELSE req[q]
      BY <1>1, <1>3 DEF GoTo
    <2> QED BY <1>1, <2>1 DEF Request
  <1>4. ASSUME NEW kind, NEW at, Begin(r, kind, at)
        PROVE  /\ q # r => req'[q] = req[q]
               /\ q = r => /\ req'[q].at = at /\ req'[q].kind = kind
                           /\ req'[q].copy = Needed(kind, user)
    <2>1. req'[q] = IF q = r THEN [kind |-> kind, at |-> at, copy |-> Needed(kind, user),
                                   device |-> NoDevice, link |-> NoLink] ELSE req[q]
      BY <1>1, <1>4 DEF Begin
    <2> QED BY <2>1
  <1> QED BY <1>2, <1>3, <1>4

\* The initial states are within the types.
LEMMA TypeInit == Init => TypeOK
  <1> SUFFICES ASSUME Init PROVE TypeOK
    OBVIOUS
  <1>1. now \in 0 .. MaxTime /\ user \in User /\ made \in 0 .. MaxPassword
    BY FirstTypes, SessionAssumption DEF Init
  <1>2. link \in [Links -> Link \cup {NoLink}] /\ token \in [Tokens -> Token \cup {NoToken}]
    BY DEF Init
  <1>3. req \in [Requests -> Request]
    BY FirstTypes DEF Init
  <1> QED BY <1>1, <1>2, <1>3 DEF Init, TypeOK

\* Every step stays within the types.
LEMMA TypeStep ==
    ASSUME TypeOK, DeviceInv, [Next]_vars
    PROVE  TypeOK'
  <1> USE DEF rowVars, deviceVars
  <1>1. CASE UNCHANGED vars
    BY <1>1 DEF TypeOK, vars
  <1>2. ASSUME NEW r \in Requests, Start(r)
        PROVE  TypeOK'
    <2>1. CASE \E v \in Links : Click(r, v)
      <3>1. PICK v \in Links : Click(r, v)
        BY <2>1
      <3>2. link[v] \in Link
        BY <3>1 DEF Click, TypeOK
      <3>3. [kind |-> "click", at |-> "confirm", copy |-> FirstUser,
             device |-> link[v].device, link |-> v] \in Request
        BY <3>2, FirstTypes DEF Link, Request
      <3> QED BY <3>1, <3>3 DEF Click, TypeOK
    <2>2. CASE Login(r) \/ Reset(r) \/ VerifyResetCode(r) \/ AskResetCode(r)
      <3>1. req' \in [Requests -> Request]
        BY <2>2, RequestTypes DEF Login, Reset, VerifyResetCode, AskResetCode, Ats
      <3>2. UNCHANGED <<now, rowVars, deviceVars, token>>
        BY <2>2 DEF Login, Reset, VerifyResetCode, AskResetCode
      <3> QED BY <3>1, <3>2 DEF TypeOK
    <2>3. CASE Change(r) \/ EditProfile(r) \/ SendKeys(r)
      <3>1. req' \in [Requests -> Request]
        BY <2>3, RequestTypes DEF Change, EditProfile, SendKeys, Authenticated, Ats
      <3>2. UNCHANGED <<now, rowVars, deviceVars, token>>
        BY <2>3 DEF Change, EditProfile, SendKeys, Authenticated
      <3> QED BY <3>1, <3>2 DEF TypeOK
    <2> QED BY <1>2, <2>1, <2>2, <2>3 DEF Start
  <1>3. ASSUME NEW r \in Requests, NEW d \in Devices, GetDevice(r, d)
        PROVE  TypeOK'
    <2>1. PICK at \in {"newLink", "anyLink", "record"} :
             req' = [req EXCEPT ![r].device = d, ![r].at = at]
      <3> DEFINE at == CASE d \notin known -> "newLink"
                         [] d \in known \ verified -> "anyLink"
                         [] d \in verified -> "record"
      <3>1. at \in {"newLink", "anyLink", "record"}
        <4>1. d \notin known \/ d \in known \ verified \/ d \in verified
          OBVIOUS
        <4> QED BY <4>1, Zenon
      <3>2. req' = [req EXCEPT ![r].device = d, ![r].at = at]
        BY <1>3 DEF GetDevice
      <3> HIDE DEF at
      <3> QED BY <3>1, <3>2
    <2>2. [req[r] EXCEPT !.device = d, !.at = at] \in Request
      BY DEF TypeOK, Request
    <2>3. req' \in [Requests -> Request]
      BY <2>1, <2>2 DEF TypeOK
    <2> QED BY <1>3, <2>3 DEF GetDevice, TypeOK
  <1>4. ASSUME NEW r \in Requests, SendLink(r)
        PROVE  TypeOK'
    <2>1. req[r].device \in Devices
      BY <1>4 DEF SendLink, DeviceInv, At, TypeOK
    <2>2. [device |-> req[r].device, state |-> "open"] \in Link
      BY <2>1 DEF Link
    <2>3. req' \in [Requests -> Request]
      BY <1>4, RequestTypes DEF SendLink
    <2>4. link' \in [Links -> Link \cup {NoLink}]
      BY <1>4, <2>2 DEF SendLink, TypeOK
    <2> QED BY <1>4, <2>3, <2>4 DEF SendLink, TypeOK
  <1>5. ASSUME NEW r \in Requests, SendLinkAgain(r) \/ RecordLogin(r)
        PROVE  TypeOK'
    <2>1. req' \in [Requests -> Request]
      BY <1>5, RequestTypes DEF SendLinkAgain, RecordLogin, Ats
    <2> QED BY <1>5, <2>1 DEF SendLinkAgain, RecordLogin, TypeOK
  <1>6. ASSUME NEW r \in Requests, Issue(r)
        PROVE  TypeOK'
    <2>1. req[r].copy.password \in 0 .. MaxPassword
      BY DEF TypeOK, Request, User
    <2>2. PICK t \in Tokens : token' = [token EXCEPT ![t] =
                [iat |-> now, password |-> req[r].copy.password, black |-> FALSE,
                 late |-> req[r].copy.password # user.password \/ Replacing # {}]]
      BY <1>6 DEF Issue
    <2>3. [iat |-> now, password |-> req[r].copy.password, black |-> FALSE,
           late |-> req[r].copy.password # user.password \/ Replacing # {}] \in Token
      BY <2>1 DEF Token, TypeOK
    <2>4. token' \in [Tokens -> Token \cup {NoToken}]
      BY <2>2, <2>3 DEF TypeOK
    <2>5. req' \in [Requests -> Request]
      BY <1>6, RequestTypes DEF Issue
    <2> QED BY <1>6, <2>4, <2>5 DEF Issue, TypeOK
  <1>7. ASSUME NEW r \in Requests, Confirm(r)
        PROVE  TypeOK'
    <2>1. req[r].device \in known /\ req[r].device \in Devices
      BY <1>7 DEF Confirm, DeviceInv, TypeOK
    <2>2. req' \in [Requests -> Request]
      BY <1>7, RequestTypes DEF Confirm, Ats
    <2> QED BY <1>7, <2>1, <2>2 DEF Confirm, TypeOK
  <1>8. ASSUME NEW r \in Requests, CloseLink(r)
        PROVE  TypeOK'
    <2>1. req' \in [Requests -> Request]
      BY <1>8, RequestTypes DEF CloseLink
    <2>2. link' \in [Links -> Link \cup {NoLink}]
      BY <1>8 DEF CloseLink, TypeOK, Link
    <2> QED BY <1>8, <2>1, <2>2 DEF CloseLink, TypeOK
  <1>9. ASSUME NEW r \in Requests, Stamp(r)
        PROVE  TypeOK'
    <2>1. made' \in 0 .. MaxPassword
      BY <1>9, SessionAssumption DEF Stamp, TypeOK
    <2>2. now \in Never .. MaxTime
      BY SessionAssumption DEF TypeOK, Never
    <2>3. req[r] \in Request /\ req[r].copy \in User
      BY DEF TypeOK, Request
    <2>4. [[req[r].copy EXCEPT !.password = made'] EXCEPT !.changed = now] \in User
      BY <2>1, <2>2, <2>3 DEF User
    <2>5. \A c \in User : [[req[r] EXCEPT !.copy = c] EXCEPT !.at = "write"] \in Request
      BY <2>3 DEF Request
    <2>6. req' = [req EXCEPT ![r] = [[req[r] EXCEPT
                    !.copy = [[req[r].copy EXCEPT !.password = made'] EXCEPT !.changed = now]]
                  EXCEPT !.at = "write"]]
      BY <1>9, <2>3 DEF Stamp, TypeOK, Request, User
    <2>7. req' \in [Requests -> Request]
      BY <2>4, <2>5, <2>6 DEF TypeOK
    <2> QED BY <1>9, <2>1, <2>7 DEF Stamp, TypeOK
  <1>10. ASSUME NEW r \in Requests, WritePassword(r)
         PROVE  TypeOK'
    <2>1. req[r].copy \in User
      BY DEF TypeOK, Request
    <2>2. Needed("written", req[r].copy) \in User
      BY <2>1, NeededType, FirstTypes
    <2>3. [req[r] EXCEPT !.at = "blacklist", !.copy = Needed("written", req[r].copy)] \in Request
      BY <2>2 DEF TypeOK, Request
    <2>4. req' \in [Requests -> Request]
      BY <1>10, <2>3 DEF WritePassword, TypeOK
    <2> QED BY <1>10, <2>1, <2>4 DEF WritePassword, TypeOK, Undone
  <1>11. ASSUME NEW r \in Requests, Blacklist(r)
         PROVE  TypeOK'
    <2>1. req' \in [Requests -> Request]
      BY <1>11, RequestTypes DEF Blacklist, Ats
    <2>2. token' \in [Tokens -> Token \cup {NoToken}]
      BY <1>11 DEF Blacklist, TypeOK, Token
    <2> QED BY <1>11, <2>1, <2>2 DEF Blacklist, TypeOK
  <1>12. ASSUME NEW r \in Requests, Revoke(r) \/ Abort(r)
         PROVE  TypeOK'
    <2>1. req' \in [Requests -> Request]
      BY <1>12, RequestTypes DEF Revoke, Abort, Ats
    <2> QED BY <1>12, <2>1 DEF Revoke, Abort, TypeOK
  <1>13. ASSUME NEW r \in Requests, WriteRow(r)
         PROVE  TypeOK'
    <2>1. req' \in [Requests -> Request] /\ req[r].copy \in User
      BY <1>13, RequestTypes DEF WriteRow, TypeOK, Request
    <2> QED BY <1>13, <2>1 DEF WriteRow, TypeOK, Undone
  <1>14. ASSUME NEW r \in Requests, Publish(r)
         PROVE  TypeOK'
    <2>1. req' \in [Requests -> Request] /\ [user EXCEPT !.keys = TRUE] \in User
      BY <1>14, RequestTypes DEF Publish, TypeOK, User
    <2> QED BY <1>14, <2>1 DEF Publish, TypeOK
  <1>15. ASSUME NEW v \in Links, ExpireLink(v)
         PROVE  TypeOK'
    <2>1. link' \in [Links -> Link \cup {NoLink}]
      BY <1>15 DEF ExpireLink, TypeOK, Link
    <2> QED BY <1>15, <2>1 DEF ExpireLink, TypeOK
  <1>16. CASE Cleanup
    <2>1. link' \in [Links -> Link \cup {NoLink}]
      BY <1>16 DEF Cleanup, TypeOK
    <2> QED BY <1>16, <2>1 DEF Cleanup, TypeOK
  <1>17. ASSUME NEW t \in Tokens, Logout(t) \/ ExpireToken(t)
         PROVE  TypeOK'
    <2>1. token' \in [Tokens -> Token \cup {NoToken}]
      <3>1. ASSUME Logout(t)
            PROVE  token' = [token EXCEPT ![t] = [token[t] EXCEPT !.black = TRUE]]
                   /\ [token[t] EXCEPT !.black = TRUE] \in Token
        <4>1. token[t] \in Token
          BY <3>1 DEF Logout, Accepted, TypeOK
        <4>2. [token[t] EXCEPT !.black = TRUE] \in Token
          BY <4>1 DEF Token
        <4> QED BY <3>1, <4>2 DEF Logout
      <3>2. CASE ExpireToken(t)
        BY <3>2 DEF ExpireToken, TypeOK
      <3> QED BY <1>17, <3>1, <3>2 DEF TypeOK
    <2> QED BY <1>17, <2>1 DEF Logout, ExpireToken, TypeOK
  <1>18. CASE Tick
    BY <1>18, SessionAssumption DEF Tick, TypeOK
  <1> QED BY <1>1, <1>2, <1>3, <1>4, <1>5, <1>6, <1>7, <1>8, <1>9, <1>10, <1>11, <1>12, <1>13,
             <1>14, <1>15, <1>16, <1>17, <1>18 DEF Next, Proceed

-----------------------------------------------------------------------------
(* The steps, as far as the row, the tokens and the devices' standing go.  *)

Still(r) ==
    /\ UNCHANGED <<now, user, made, published, undone, verified, confirmed, broken, token>>
    /\ \A q \in Requests : q # r => req'[q] = req[q]

\* A step of a request that neither saves the user nor ends other sessions.
Quiet(r) ==
    /\ Still(r)
    /\ ~At(r, "blacklist") /\ ~At(r, "revoke")
    /\ req'[r].at # "write"

\* The start of a request that will save the row it reads here.
Reads(r) ==
    /\ Still(r)
    /\ At(r, "idle")
    /\ req'[r].at = "write" /\ req'[r].kind = "profile" /\ req'[r].copy = user

\* The requests start, and the logins go on, by such steps.
LEMMA QuietSteps ==
    ASSUME TypeOK, NEW r \in Requests
    PROVE  /\ Login(r) \/ Change(r) \/ Reset(r) \/ VerifyResetCode(r) \/ SendKeys(r) => Quiet(r)
           /\ \A v \in Links : Click(r, v) => Quiet(r)
           /\ \A d \in Devices : GetDevice(r, d) => Quiet(r)
           /\ SendLink(r) \/ SendLinkAgain(r) \/ RecordLogin(r) \/ CloseLink(r) => Quiet(r)
           /\ EditProfile(r) \/ AskResetCode(r) => Reads(r)
  <1> USE DEF rowVars, deviceVars
  <1>0. req \in [Requests -> Request]
    BY DEF TypeOK
  <1>1. ASSUME NEW kind, NEW at, Begin(r, kind, at)
        PROVE  /\ At(r, "idle") /\ req'[r].at = at /\ req'[r].kind = kind
               /\ req'[r].copy = Needed(kind, user)
               /\ \A q \in Requests : q # r => req'[q] = req[q]
    <2>1. /\ req'[r].at = at /\ req'[r].kind = kind /\ req'[r].copy = Needed(kind, user)
      BY <1>1, Moved
    <2>2. \A q \in Requests : q # r => req'[q] = req[q]
      BY <1>1, Moved
    <2> QED BY <1>1, <2>1, <2>2 DEF Begin
  <1>2. ASSUME Login(r)
        PROVE  Quiet(r)
    BY <1>2, <1>1 DEF Login, Quiet, Still, At
  <1>3. ASSUME Change(r)
        PROVE  Quiet(r)
    BY <1>3, <1>1 DEF Change, Authenticated, Quiet, Still, At
  <1>4. ASSUME Reset(r)
        PROVE  Quiet(r)
    BY <1>4, <1>1 DEF Reset, Quiet, Still, At
  <1>5. ASSUME VerifyResetCode(r)
        PROVE  Quiet(r)
    BY <1>5, <1>1 DEF VerifyResetCode, Quiet, Still, At
  <1>6. ASSUME SendKeys(r)
        PROVE  Quiet(r)
    BY <1>6, <1>1 DEF SendKeys, Authenticated, Quiet, Still, At
  <1>7. ASSUME NEW v \in Links, Click(r, v)
        PROVE  Quiet(r)
    BY <1>7, <1>0 DEF Click, Quiet, Still, At
  <1>8. ASSUME NEW d \in Devices, GetDevice(r, d)
        PROVE  Quiet(r)
    <2> DEFINE at == CASE d \notin known -> "newLink"
                       [] d \in known \ verified -> "anyLink"
                       [] d \in verified -> "record"
    <2>1. at \in {"newLink", "anyLink", "record"}
      <3>1. d \notin known \/ d \in known \ verified \/ d \in verified
        OBVIOUS
      <3> QED BY <3>1, Zenon
    <2>2. req' = [req EXCEPT ![r].device = d, ![r].at = at]
      BY <1>8 DEF GetDevice
    <2> HIDE DEF at
    <2>3. req'[r].at # "write" /\ \A q \in Requests : q # r => req'[q] = req[q]
      BY <2>1, <2>2, <1>0 DEF Request
    <2> QED BY <1>8, <2>3 DEF GetDevice, Quiet, Still, At
  <1>9. ASSUME SendLink(r)
        PROVE  Quiet(r)
    <2>1. req'[r] = Idle /\ \A q \in Requests : q # r => req'[q] = req[q]
      BY <1>9, Moved DEF SendLink
    <2> QED BY <1>9, <2>1 DEF SendLink, Quiet, Still, At, Idle
  <1>10. ASSUME SendLinkAgain(r)
         PROVE  Quiet(r)
    <2>1. req'[r] = Idle /\ \A q \in Requests : q # r => req'[q] = req[q]
      BY <1>10, Moved DEF SendLinkAgain
    <2> QED BY <1>10, <2>1 DEF SendLinkAgain, Quiet, Still, At, Idle
  <1>11. ASSUME RecordLogin(r)
         PROVE  Quiet(r)
    <2>1. req'[r].at = "issue" /\ \A q \in Requests : q # r => req'[q] = req[q]
      BY <1>11, Moved DEF RecordLogin
    <2> QED BY <1>11, <2>1 DEF RecordLogin, Quiet, Still, At
  <1>12. ASSUME CloseLink(r)
         PROVE  Quiet(r)
    <2>1. req'[r] = Idle /\ \A q \in Requests : q # r => req'[q] = req[q]
      BY <1>12, Moved DEF CloseLink
    <2> QED BY <1>12, <2>1 DEF CloseLink, Quiet, Still, At, Idle
  <1>13. ASSUME EditProfile(r)
         PROVE  Reads(r)
    BY <1>13, <1>1 DEF EditProfile, Authenticated, Reads, Still, Needed
  <1>14. ASSUME AskResetCode(r)
         PROVE  Reads(r)
    BY <1>14, <1>1 DEF AskResetCode, Reads, Still, Needed
  <1> QED BY <1>2, <1>3, <1>4, <1>5, <1>6, <1>7, <1>8, <1>9, <1>10, <1>11, <1>12, <1>13, <1>14

\* Every step is one of these, or a step of the kinds that remain.
LEMMA StepKinds ==
    ASSUME TypeOK, [Next]_vars
    PROVE  \/ UNCHANGED <<now, user, made, published, undone, verified, confirmed, broken,
                          token, req>>
           \/ \E r \in Requests : Quiet(r) \/ Reads(r)
           \/ \E r \in Requests : Issue(r) \/ Confirm(r) \/ Stamp(r) \/ WritePassword(r)
                                  \/ Blacklist(r) \/ Revoke(r) \/ Abort(r) \/ WriteRow(r)
                                  \/ Publish(r)
           \/ \E t \in Tokens : Logout(t) \/ ExpireToken(t)
           \/ Tick
  <1> USE DEF rowVars, deviceVars
  <1>1. CASE UNCHANGED vars
    BY <1>1 DEF vars
  <1>2. ASSUME NEW r \in Requests, Start(r)
        PROVE  Quiet(r) \/ Reads(r)
    BY <1>2, QuietSteps DEF Start
  <1>3. ASSUME NEW r \in Requests, Proceed(r)
        PROVE  \/ Quiet(r)
               \/ Issue(r) \/ Confirm(r) \/ Stamp(r) \/ WritePassword(r)
               \/ Blacklist(r) \/ Revoke(r) \/ WriteRow(r) \/ Publish(r)
    BY <1>3, QuietSteps DEF Proceed
  <1>4. CASE \E v \in Links : ExpireLink(v)
    BY <1>4 DEF ExpireLink
  <1>5. CASE Cleanup
    BY <1>5 DEF Cleanup
  <1> QED BY <1>1, <1>2, <1>3, <1>4, <1>5 DEF Next

-----------------------------------------------------------------------------
(* The parts of the invariant.                                             *)

\* A link, and a request that follows one, has a known device after any step.
LEMMA DeviceStep ==
    ASSUME TypeOK, DeviceInv, [Next]_vars
    PROVE  DeviceInv'
  <1> USE DEF rowVars, deviceVars
  <1> DEFINE Follows(a) == a \in {"confirm", "newLink", "anyLink"}
  <1>1. known \subseteq known'
    BY DEF Next, vars, Start, Proceed, Login, Change, Reset, VerifyResetCode, EditProfile,
           AskResetCode, SendKeys, Click, Authenticated, GetDevice, SendLink, SendLinkAgain,
           RecordLogin, Issue, Confirm, CloseLink, Stamp, WritePassword, Blacklist, Revoke,
           WriteRow, Publish, Abort, ExpireLink, Logout, ExpireToken, Cleanup, Tick
  <1>2. ASSUME NEW v \in Links, link'[v] # NoLink
        PROVE  link'[v].device \in known'
    <2>1. CASE link' = link
      BY <1>1, <1>2, <2>1 DEF DeviceInv
    <2>2. ASSUME NEW r \in Requests, SendLink(r)
          PROVE  link'[v].device \in known'
      <3>1. req[r].device \in known
        BY <2>2 DEF SendLink, DeviceInv
      <3>2. link'[v] = link[v] \/ link'[v] = [device |-> req[r].device, state |-> "open"]
        BY <2>2 DEF SendLink
      <3> QED BY <1>1, <1>2, <3>1, <3>2 DEF DeviceInv
    <2>3. ASSUME NEW r \in Requests, CloseLink(r)
          PROVE  link'[v].device \in known'
      <3>1. link[v] # NoLink /\ link'[v].device = link[v].device
        BY <1>2, <2>3 DEF CloseLink, TypeOK, Link
      <3> QED BY <1>1, <3>1 DEF DeviceInv
    <2>4. ASSUME NEW w \in Links, ExpireLink(w)
          PROVE  link'[v].device \in known'
      <3>1. link[v] # NoLink /\ link'[v].device = link[v].device
        BY <1>2, <2>4 DEF ExpireLink, TypeOK, Link
      <3> QED BY <1>1, <3>1 DEF DeviceInv
    <2>5. CASE Cleanup
      BY <1>1, <1>2, <2>5 DEF Cleanup, DeviceInv
    <2> QED BY <2>1, <2>2, <2>3, <2>4, <2>5
            DEF Next, vars, Start, Proceed, Login, Change, Reset, VerifyResetCode, EditProfile,
                AskResetCode, SendKeys, Click, Authenticated, GetDevice, SendLinkAgain,
                RecordLogin, Issue, Confirm, Stamp, WritePassword, Blacklist, Revoke,
                WriteRow, Publish, Abort, Logout, ExpireToken, Tick
  <1>3. ASSUME NEW q \in Requests, Follows(req'[q].at)
        PROVE  req'[q].device \in known'
    <2>0. req \in [Requests -> Request]
      BY DEF TypeOK
    <2>1. CASE req'[q] = req[q]
      BY <1>1, <1>3, <2>1 DEF DeviceInv, At
    <2>2. ASSUME NEW r \in Requests, Start(r), req'[q] # req[q]
          PROVE  req'[q].device \in known'
      <3>1. PICK v \in Links : Click(r, v)
        <4>1. ASSUME NEW kind, NEW at, Begin(r, kind, at)
              PROVE  q = r /\ req'[q].at = at
          BY <4>1, <2>2, Moved
        <4> QED BY <2>2, <1>3, <4>1 DEF Start, Login, Change, Reset, VerifyResetCode,
                   EditProfile, AskResetCode, SendKeys, Authenticated
      <3> QED BY <3>1, <2>0, <2>2, <1>1 DEF Click, DeviceInv
    <2>3. ASSUME NEW r \in Requests, Proceed(r), req'[q] # req[q]
          PROVE  req'[q].device \in known'
      <3>1. \A d \in Devices : GetDevice(r, d) => req'[q].device \in known'
        BY <2>0, <2>3 DEF GetDevice, Request
      <3>2. ASSUME Done(r)
            PROVE  FALSE
        BY <3>2, <1>3, <2>3, Moved DEF Idle
      <3>3. ASSUME NEW at, GoTo(r, at)
            PROVE  Follows(at)
        BY <3>3, <1>3, <2>3, Moved
      <3>4. ~Stamp(r)
        BY <2>0, <2>3, <1>3 DEF Stamp, Request
      <3>5. ~WritePassword(r)
        BY <2>0, <2>3, <1>3 DEF WritePassword, Request
      <3>6. ~SendLink(r) /\ ~SendLinkAgain(r) /\ ~Issue(r) /\ ~CloseLink(r) /\ ~WriteRow(r)
            /\ ~Publish(r)
        BY <3>2 DEF SendLink, SendLinkAgain, Issue, CloseLink, WriteRow, Publish
      <3>7. ~RecordLogin(r) /\ ~Confirm(r) /\ ~Blacklist(r) /\ ~Revoke(r)
        BY <3>2, <3>3 DEF RecordLogin, Confirm, Blacklist, Revoke
      <3> QED BY <2>3, <3>1, <3>4, <3>5, <3>6, <3>7 DEF Proceed
    <2>4. ASSUME NEW r \in Requests, Abort(r), req'[q] # req[q]
          PROVE  FALSE
      BY <2>4, <1>3, Moved DEF Abort, Idle
    <2> QED BY <2>1, <2>2, <2>3, <2>4
            DEF Next, vars, ExpireLink, Logout, ExpireToken, Cleanup, Tick
  <1> QED BY <1>2, <1>3 DEF DeviceInv, At

\* What a request is about to save stays in step with the row.
LEMMA RowStep ==
    ASSUME TypeOK, RowInv, [Next]_vars
    PROVE  RowInv'
  <1> USE DEF rowVars, deviceVars
  <1>0. /\ req \in [Requests -> Request] /\ user \in User /\ made \in Nat /\ now \in Int
        /\ \A q \in Requests : req[q].copy \in User
    BY SessionAssumption DEF TypeOK, Request
  <1>1. ASSUME user' = user, made' = made,
               \A q \in Requests : req'[q].at = "write" =>
                   \/ At(q, "write") /\ req'[q].copy = req[q].copy
                   \/ req'[q].copy = user
        PROVE  RowInv'
    BY <1>1 DEF RowInv, Writing, At
  <1>2. CASE UNCHANGED <<now, user, made, published, undone, verified, confirmed, broken,
                         token, req>>
    BY <1>2, <1>1 DEF At
  <1>3. ASSUME NEW r \in Requests, Quiet(r) \/ Reads(r)
        PROVE  RowInv'
    BY <1>3, <1>1 DEF Quiet, Reads, Still, At
  <1>4. ASSUME NEW r \in Requests,
               Issue(r) \/ Confirm(r) \/ Blacklist(r) \/ Revoke(r) \/ Abort(r)
        PROVE  RowInv'
    <2>1. UNCHANGED <<user, made>>
      BY <1>4 DEF Issue, Confirm, Blacklist, Revoke, Abort
    <2>2. Done(r) \/ GoTo(r, "close") \/ GoTo(r, "revoke") \/ GoTo(r, "issue")
      BY <1>4 DEF Issue, Confirm, Blacklist, Revoke, Abort
    <2>3. ASSUME NEW q \in Requests
          PROVE  req'[q] = req[q] \/ req'[q].at # "write"
      BY <2>2, Moved DEF Idle
    <2> QED BY <1>1, <2>1, <2>3 DEF At
  <1>5. ASSUME NEW r \in Requests, Stamp(r)
        PROVE  RowInv'
    <2>1. /\ req'[r].copy.password = made + 1
          /\ req'[r].copy.changed = now
          /\ \A q \in Requests : q # r => req'[q] = req[q]
      BY <1>5, <1>0 DEF Stamp, Request, User
    <2>2. user' = user /\ made' = made + 1
      BY <1>5 DEF Stamp
    <2> QED BY <1>0, <2>1, <2>2 DEF RowInv, Writing, At, User
  <1>6. ASSUME NEW r \in Requests, WritePassword(r) \/ WriteRow(r)
        PROVE  RowInv'
    <2>1. /\ req'[r].at # "write"
          /\ \A q \in Requests : q # r => req'[q] = req[q]
      <3>1. CASE WritePassword(r)
        BY <3>1, <1>0 DEF WritePassword, Request
      <3>2. CASE WriteRow(r)
        BY <3>2, Moved DEF WriteRow, Idle
      <3> QED BY <1>6, <3>1, <3>2
    <2>2. At(r, "write") /\ user' = req[r].copy /\ made' = made
      BY <1>6 DEF WritePassword, WriteRow
    <2> QED BY <1>0, <2>1, <2>2 DEF RowInv, Writing, At
  <1>7. ASSUME NEW r \in Requests, Publish(r)
        PROVE  RowInv'
    <2>1. user'.password = user.password /\ user'.changed = user.changed /\ made' = made
      BY <1>7, <1>0 DEF Publish, User
    <2>2. \A q \in Requests : req'[q] = req[q] \/ req'[q].at # "write"
      BY <1>7, Moved DEF Publish, Idle
    <2> QED BY <2>1, <2>2 DEF RowInv, Writing, At
  <1>8. ASSUME NEW t \in Tokens, Logout(t) \/ ExpireToken(t)
        PROVE  RowInv'
    BY <1>8, <1>1 DEF Logout, ExpireToken, At
  <1>9. CASE Tick
    BY <1>9, <1>1 DEF Tick, At
  <1> QED BY <1>2, <1>3, <1>4, <1>5, <1>6, <1>7, <1>8, <1>9, StepKinds

\* A token is no newer than a change stamped before it was issued, or it knows.
LEMMA TokenStep ==
    ASSUME TypeOK, TokenInv, [Next]_vars
    PROVE  TokenInv'
  <1> USE DEF rowVars, deviceVars
  <1>0. /\ req \in [Requests -> Request] /\ now \in Int
        /\ \A q \in Requests : req[q].copy \in User
        /\ \A t \in Tokens : token[t] # NoToken => token[t].iat \in Int /\ token[t] \in Token
    BY SessionAssumption DEF TypeOK, Request, Token
  <1>1. ASSUME now' = now,
               \A t \in Tokens : token'[t] # NoToken =>
                   /\ token[t] # NoToken
                   /\ token'[t].iat = token[t].iat /\ token'[t].late = token[t].late,
               \A q \in Requests : req'[q].at = "write" =>
                   \/ At(q, "write") /\ req'[q].copy = req[q].copy /\ req'[q].kind = req[q].kind
                   \/ req'[q].kind = "profile"
        PROVE  TokenInv'
    BY <1>1 DEF TokenInv, Replacing, At
  <1>2. CASE UNCHANGED <<now, user, made, published, undone, verified, confirmed, broken,
                         token, req>>
    BY <1>2, <1>1 DEF At
  <1>3. ASSUME NEW r \in Requests, Quiet(r) \/ Reads(r)
        PROVE  TokenInv'
    BY <1>3, <1>1 DEF Quiet, Reads, Still, At
  <1>4. ASSUME NEW r \in Requests, Issue(r)
        PROVE  TokenInv'
    <2>1. PICK t \in Tokens : token' = [token EXCEPT ![t] =
                [iat |-> now, password |-> req[r].copy.password, black |-> FALSE,
                 late |-> req[r].copy.password # user.password \/ Replacing # {}]]
      BY <1>4 DEF Issue
    <2>2. \A q \in Requests : req'[q] = req[q] \/ req'[q].at # "write"
      BY <1>4, Moved DEF Issue, Idle
    <2>3. Replacing' \subseteq Replacing /\ \A q \in Replacing' : req'[q] = req[q]
      BY <2>2 DEF Replacing, At
    <2>4. now' = now
      BY <1>4 DEF Issue
    <2>5. ASSUME NEW u \in Tokens, token'[u] # NoToken
          PROVE  /\ token'[u].iat <= now'
                 /\ \A q \in Replacing' : token'[u].late \/ token'[u].iat <= req'[q].copy.changed
      <3>1. CASE u = t /\ token[t] \in Token \cup {NoToken}
        <4>1. token'[u] = [iat |-> now, password |-> req[r].copy.password, black |-> FALSE,
                           late |-> req[r].copy.password # user.password \/ Replacing # {}]
          BY <2>1, <3>1 DEF TypeOK
        <4>2. token'[u].iat = now
          BY <4>1
        <4>3. token'[u].late = (req[r].copy.password # user.password \/ Replacing # {})
          BY <4>1
        <4>4. Replacing # {} => token'[u].late
          BY <4>3, Zenon
        <4> QED BY <1>0, <2>3, <2>4, <4>2, <4>4
      <3>2. CASE u # t
        <4>1. token'[u] = token[u]
          BY <2>1, <3>2
        <4> QED BY <2>3, <2>4, <2>5, <4>1 DEF TokenInv
      <3> QED BY <3>1, <3>2 DEF TypeOK
    <2> QED BY <2>5 DEF TokenInv
  <1>5. ASSUME NEW r \in Requests,
               Confirm(r) \/ Revoke(r) \/ Abort(r) \/ WriteRow(r) \/ Publish(r)
        PROVE  TokenInv'
    <2>1. UNCHANGED <<now, token>>
      BY <1>5 DEF Confirm, Revoke, Abort, WriteRow, Publish
    <2>2. Done(r) \/ GoTo(r, "close") \/ GoTo(r, "issue")
      BY <1>5 DEF Confirm, Revoke, Abort, WriteRow, Publish
    <2>3. \A q \in Requests : req'[q] = req[q] \/ req'[q].at # "write"
      BY <2>2, Moved DEF Idle
    <2> QED BY <1>1, <2>1, <2>3 DEF At
  <1>6. ASSUME NEW r \in Requests, Stamp(r)
        PROVE  TokenInv'
    <2>1. /\ req'[r].copy.changed = now
          /\ \A q \in Requests : q # r => req'[q] = req[q]
      BY <1>6, <1>0 DEF Stamp, Request, User
    <2>2. now' = now /\ token' = token
      BY <1>6 DEF Stamp
    <2> QED BY <1>0, <2>1, <2>2 DEF TokenInv, Replacing, At
  <1>7. ASSUME NEW r \in Requests, WritePassword(r)
        PROVE  TokenInv'
    <2>1. /\ req'[r].at # "write"
          /\ \A q \in Requests : q # r => req'[q] = req[q]
      BY <1>7, <1>0 DEF WritePassword, Request
    <2>2. now' = now /\ token' = token
      BY <1>7 DEF WritePassword
    <2> QED BY <1>1, <2>1, <2>2 DEF At
  <1>8. ASSUME NEW r \in Requests, Blacklist(r)
        PROVE  TokenInv'
    <2>1. \A q \in Requests : req'[q] = req[q] \/ req'[q].at # "write"
      BY <1>8, Moved DEF Blacklist
    <2>2. ASSUME NEW t \in Tokens, token'[t] # NoToken
          PROVE  /\ token[t] # NoToken
                 /\ token'[t].iat = token[t].iat /\ token'[t].late = token[t].late
      <3>1. token[t] # NoToken /\ token'[t] = [token[t] EXCEPT !.black = TRUE]
        BY <1>8, <2>2 DEF Blacklist
      <3> QED BY <1>0, <3>1 DEF Token
    <2>3. now' = now
      BY <1>8 DEF Blacklist
    <2> QED BY <1>1, <2>1, <2>2, <2>3 DEF At
  <1>9. ASSUME NEW u \in Tokens, Logout(u) \/ ExpireToken(u)
        PROVE  TokenInv'
    <2>1. ASSUME NEW t \in Tokens, token'[t] # NoToken
          PROVE  /\ token[t] # NoToken
                 /\ token'[t].iat = token[t].iat /\ token'[t].late = token[t].late
      <3>1. CASE token'[t] = token[t]
        BY <2>1, <3>1
      <3>2. CASE token'[t] = [token[t] EXCEPT !.black = TRUE] /\ token[t] # NoToken
        BY <1>0, <3>2 DEF Token
      <3>3. \/ token'[t] = token[t]
            \/ token'[t] = [token[t] EXCEPT !.black = TRUE] /\ token[t] # NoToken
        <4>1. CASE Logout(u)
          <5>1. token' = [token EXCEPT ![u] = [token[u] EXCEPT !.black = TRUE]]
                /\ token[u] # NoToken
            BY <4>1 DEF Logout, Accepted
          <5>2. token'[u] = [token[u] EXCEPT !.black = TRUE]
            BY <5>1 DEF TypeOK
          <5>3. t # u => token'[t] = token[t]
            BY <5>1 DEF TypeOK
          <5>4. CASE t = u
            BY <5>1, <5>2, <5>4
          <5> QED BY <5>3, <5>4
        <4>2. CASE ExpireToken(u)
          BY <4>2, <2>1 DEF ExpireToken, TypeOK
        <4> QED BY <1>9, <4>1, <4>2
      <3> QED BY <3>1, <3>2, <3>3
    <2>2. UNCHANGED <<now, req>>
      BY <1>9 DEF Logout, ExpireToken
    <2> QED BY <1>1, <2>1, <2>2 DEF At
  <1>10. CASE Tick
    <2>1. now' = now + 1 /\ UNCHANGED <<token, req>>
      BY <1>10 DEF Tick
    <2> QED BY <1>0, <2>1 DEF TokenInv, Replacing, At
  <1> QED BY <1>2, <1>3, <1>4, <1>5, <1>6, <1>7, <1>8, <1>9, <1>10, StepKinds

\* A password change leaves accepted only tokens that know it.
LEMMA FollowStep ==
    ASSUME TypeOK, RowInv, TokenInv, SessionsFollowPassword, [Next]_vars
    PROVE  SessionsFollowPassword'
  <1> USE DEF rowVars, deviceVars
  <1>0. /\ req \in [Requests -> Request] /\ now \in Int /\ user \in User
        /\ \A q \in Requests : req[q].copy \in User
        /\ \A t \in Tokens : token[t] # NoToken => token[t].iat \in Int /\ token[t] \in Token
    BY SessionAssumption DEF TypeOK, Request, Token
  <1>1. ASSUME user'.password = user.password, user'.changed = user.changed,
               "password" \notin undone' => "password" \notin undone,
               \A t \in Tokens : token'[t] # NoToken =>
                   /\ token[t] # NoToken /\ token'[t].iat = token[t].iat
                   /\ token'[t].late = token[t].late /\ token'[t].password = token[t].password
        PROVE  SessionsFollowPassword'
    BY <1>1 DEF SessionsFollowPassword, Accepted
  <1>2. CASE UNCHANGED <<now, user, made, published, undone, verified, confirmed, broken,
                         token, req>>
    BY <1>2, <1>1
  <1>3. ASSUME NEW r \in Requests, Quiet(r) \/ Reads(r)
        PROVE  SessionsFollowPassword'
    BY <1>3, <1>1 DEF Quiet, Reads, Still
  <1>4. ASSUME NEW r \in Requests, Issue(r)
        PROVE  SessionsFollowPassword'
    <2>1. PICK t \in Tokens : token' = [token EXCEPT ![t] =
                [iat |-> now, password |-> req[r].copy.password, black |-> FALSE,
                 late |-> req[r].copy.password # user.password \/ Replacing # {}]]
      BY <1>4 DEF Issue
    <2>2. user' = user /\ undone' = undone
      BY <1>4 DEF Issue
    <2>3. ASSUME NEW u \in Tokens, "password" \notin undone', Accepted(u)'
          PROVE  token'[u].password = user'.password \/ token'[u].late
      <3>1. CASE u = t
        <4>1. token'[u] = [iat |-> now, password |-> req[r].copy.password, black |-> FALSE,
                           late |-> req[r].copy.password # user.password \/ Replacing # {}]
          BY <2>1, <3>1 DEF TypeOK
        <4>2. token'[u].password = req[r].copy.password
          BY <4>1
        <4>3. token'[u].late = (req[r].copy.password # user.password \/ Replacing # {})
          BY <4>1
        <4>4. req[r].copy.password # user.password => token'[u].late
          BY <4>3, Zenon
        <4> QED BY <2>2, <4>2, <4>4
      <3>2. CASE u # t
        <4>1. token'[u] = token[u]
          BY <2>1, <3>2 DEF TypeOK
        <4> QED BY <2>2, <2>3, <4>1 DEF SessionsFollowPassword, Accepted
      <3> QED BY <3>1, <3>2
    <2> QED BY <2>3 DEF SessionsFollowPassword
  <1>5. ASSUME NEW r \in Requests, Confirm(r) \/ Revoke(r) \/ Abort(r) \/ Stamp(r)
        PROVE  SessionsFollowPassword'
    BY <1>5, <1>1 DEF Confirm, Revoke, Abort, Stamp
  <1>6. ASSUME NEW r \in Requests, Publish(r)
        PROVE  SessionsFollowPassword'
    <2>1. user'.password = user.password /\ user'.changed = user.changed
      BY <1>6, <1>0 DEF Publish, User
    <2> QED BY <1>6, <1>1, <2>1 DEF Publish
  <1>7. ASSUME NEW r \in Requests, WritePassword(r)
        PROVE  SessionsFollowPassword'
    <2>1. r \in Replacing /\ user' = req[r].copy /\ token' = token
      BY <1>7 DEF WritePassword, Replacing
    <2>2. ASSUME NEW t \in Tokens, Accepted(t)'
          PROVE  token'[t].late
      <3>1. token[t] # NoToken /\ token[t].iat > req[r].copy.changed
        BY <2>1, <2>2 DEF Accepted
      <3>2. token[t].late \/ token[t].iat <= req[r].copy.changed
        BY <2>1, <3>1 DEF TokenInv
      <3>3. req[r].copy.changed \in Int /\ token[t].iat \in Int
        BY <1>0, <3>1, SessionAssumption DEF User, Never
      <3> QED BY <2>1, <3>1, <3>2, <3>3
    <2> QED BY <2>2 DEF SessionsFollowPassword
  <1>8. ASSUME NEW r \in Requests, WriteRow(r)
        PROVE  SessionsFollowPassword'
    <2>1. At(r, "write") /\ user' = req[r].copy /\ token' = token
          /\ undone' = undone \cup Undone(r)
      BY <1>8 DEF WriteRow
    <2>2. CASE req[r].copy.password = user.password
      <3>1. req[r].copy.changed = user.changed
        BY <2>1, <2>2 DEF RowInv, Writing
      <3> QED BY <1>1, <2>1, <2>2, <3>1
    <2>3. CASE req[r].copy.password # user.password
      <3>1. "password" \in undone'
        BY <2>1, <2>3 DEF Undone, User
      <3> QED BY <3>1 DEF SessionsFollowPassword
    <2> QED BY <2>2, <2>3
  <1>9. ASSUME NEW r \in Requests, Blacklist(r)
        PROVE  SessionsFollowPassword'
    <2>1. ASSUME NEW t \in Tokens, token'[t] # NoToken
          PROVE  /\ token[t] # NoToken /\ token'[t].iat = token[t].iat
                 /\ token'[t].late = token[t].late /\ token'[t].password = token[t].password
      <3>1. token[t] # NoToken /\ token'[t] = [token[t] EXCEPT !.black = TRUE]
        BY <1>9, <2>1 DEF Blacklist
      <3> QED BY <1>0, <3>1 DEF Token
    <2> QED BY <1>1, <1>9, <2>1 DEF Blacklist
  <1>10. ASSUME NEW u \in Tokens, Logout(u) \/ ExpireToken(u)
         PROVE  SessionsFollowPassword'
    <2>1. ASSUME NEW t \in Tokens, token'[t] # NoToken
          PROVE  /\ token[t] # NoToken /\ token'[t].iat = token[t].iat
                 /\ token'[t].late = token[t].late /\ token'[t].password = token[t].password
      <3>1. CASE token'[t] = token[t]
        BY <2>1, <3>1
      <3>2. CASE token'[t] = [token[t] EXCEPT !.black = TRUE] /\ token[t] # NoToken
        BY <1>0, <3>2 DEF Token
      <3>3. \/ token'[t] = token[t]
            \/ token'[t] = [token[t] EXCEPT !.black = TRUE] /\ token[t] # NoToken
        <4>1. CASE Logout(u)
          <5>1. token' = [token EXCEPT ![u] = [token[u] EXCEPT !.black = TRUE]]
                /\ token[u] # NoToken
            BY <4>1 DEF Logout, Accepted
          <5>2. token'[u] = [token[u] EXCEPT !.black = TRUE]
            BY <5>1 DEF TypeOK
          <5>3. t # u => token'[t] = token[t]
            BY <5>1 DEF TypeOK
          <5>4. CASE t = u
            BY <5>1, <5>2, <5>4
          <5> QED BY <5>3, <5>4
        <4>2. CASE ExpireToken(u)
          BY <4>2, <2>1 DEF ExpireToken, TypeOK
        <4> QED BY <1>10, <4>1, <4>2
      <3> QED BY <3>1, <3>2, <3>3
    <2> QED BY <1>1, <1>10, <2>1 DEF Logout, ExpireToken
  <1>11. CASE Tick
    BY <1>11, <1>1 DEF Tick
  <1> QED BY <1>2, <1>3, <1>4, <1>5, <1>6, <1>7, <1>8, <1>9, <1>10, <1>11, StepKinds

\* Verified devices are confirmed ones once the last change has revoked the rest.
LEMMA RevokedStep ==
    ASSUME TypeOK, RevokedAfterChange, [Next]_vars
    PROVE  RevokedAfterChange'
  <1> USE DEF rowVars, deviceVars
  <1> DEFINE Revoking(q) == At(q, "blacklist") \/ At(q, "revoke")
  <1>0. req \in [Requests -> Request]
    BY DEF TypeOK
  <1>1. ASSUME UNCHANGED <<verified, confirmed, broken>>,
               \A q \in Requests : Revoking(q) => Revoking(q)'
        PROVE  RevokedAfterChange'
    BY <1>1 DEF RevokedAfterChange
  <1>2. CASE UNCHANGED <<now, user, made, published, undone, verified, confirmed, broken,
                         token, req>>
    BY <1>2, <1>1 DEF At
  <1>3. ASSUME NEW r \in Requests, Quiet(r) \/ Reads(r)
        PROVE  RevokedAfterChange'
    BY <1>3, <1>1 DEF Quiet, Reads, Still, At
  <1>4. ASSUME NEW r \in Requests, Issue(r) \/ WriteRow(r) \/ Publish(r)
        PROVE  RevokedAfterChange'
    <2>1. /\ Done(r) /\ UNCHANGED <<verified, confirmed, broken>>
          /\ ~At(r, "blacklist") /\ ~At(r, "revoke")
      BY <1>4 DEF Issue, WriteRow, Publish, At
    <2>2. \A q \in Requests : q # r => req'[q] = req[q]
      BY <2>1, Moved
    <2> QED BY <1>1, <2>1, <2>2 DEF At
  <1>5. ASSUME NEW r \in Requests, Stamp(r)
        PROVE  RevokedAfterChange'
    <2>1. \A q \in Requests : q # r => req'[q] = req[q]
      BY <1>0, <1>5 DEF Stamp
    <2>2. UNCHANGED <<verified, confirmed, broken>> /\ ~Revoking(r)
      BY <1>5 DEF Stamp, At
    <2> QED BY <1>1, <2>1, <2>2 DEF At
  <1>6. ASSUME NEW r \in Requests, Confirm(r)
        PROVE  RevokedAfterChange'
    <2>1. GoTo(r, "close") /\ ~Revoking(r)
      BY <1>6 DEF Confirm, At
    <2>2. \A q \in Requests : q # r => req'[q] = req[q]
      BY <2>1, Moved
    <2>3. /\ verified' = verified \cup {req[r].device}
          /\ confirmed' = confirmed \cup {req[r].device}
          /\ broken' = broken
      BY <1>6 DEF Confirm
    <2> QED BY <2>1, <2>2, <2>3 DEF RevokedAfterChange, At
  <1>7. ASSUME NEW r \in Requests, WritePassword(r)
        PROVE  RevokedAfterChange'
    <2>1. req'[r].at = "blacklist"
      BY <1>0, <1>7 DEF WritePassword, Request
    <2> QED BY <2>1 DEF RevokedAfterChange, At
  <1>8. ASSUME NEW r \in Requests, Blacklist(r)
        PROVE  RevokedAfterChange'
    <2>1. req'[r].at = "revoke"
      BY <1>8, Moved DEF Blacklist
    <2> QED BY <2>1 DEF RevokedAfterChange, At
  <1>9. ASSUME NEW r \in Requests, Revoke(r)
        PROVE  RevokedAfterChange'
    BY <1>9 DEF Revoke, RevokedAfterChange
  <1>10. ASSUME NEW r \in Requests, Abort(r)
         PROVE  RevokedAfterChange'
    <2>1. CASE Revoking(r)
      BY <1>10, <2>1 DEF Abort, RevokedAfterChange
    <2>2. CASE ~Revoking(r)
      <3>1. \A q \in Requests : q # r => req'[q] = req[q]
        BY <1>10, Moved DEF Abort
      <3>2. UNCHANGED <<verified, confirmed>> /\ (broken => broken')
        BY <1>10 DEF Abort
      <3> QED BY <2>2, <3>1, <3>2 DEF RevokedAfterChange, At
    <2> QED BY <2>1, <2>2
  <1>11. ASSUME NEW t \in Tokens, Logout(t) \/ ExpireToken(t)
         PROVE  RevokedAfterChange'
    BY <1>11, <1>1 DEF Logout, ExpireToken, At
  <1>12. CASE Tick
    BY <1>12, <1>1 DEF Tick, At
  <1> QED BY <1>2, <1>3, <1>4, <1>5, <1>6, <1>7, <1>8, <1>9, <1>10, <1>11, <1>12, StepKinds

\* A stored key is lost only to a stale whole-row save.
LEMMA KeysStep ==
    ASSUME TypeOK, KeysStay, [Next]_vars
    PROVE  KeysStay'
  <1> USE DEF rowVars, deviceVars
  <1>0. user \in User /\ \A q \in Requests : req[q].copy \in User
    BY DEF TypeOK, Request
  <1>1. ASSUME UNCHANGED <<user, published, undone>>
        PROVE  KeysStay'
    BY <1>1 DEF KeysStay
  <1>2. ASSUME NEW r \in Requests, Quiet(r) \/ Reads(r)
        PROVE  KeysStay'
    BY <1>1, <1>2 DEF Quiet, Reads, Still
  <1>3. ASSUME NEW r \in Requests,
               Issue(r) \/ Confirm(r) \/ Stamp(r) \/ Blacklist(r) \/ Revoke(r) \/ Abort(r)
        PROVE  KeysStay'
    BY <1>1, <1>3 DEF Issue, Confirm, Stamp, Blacklist, Revoke, Abort
  <1>4. ASSUME NEW r \in Requests, WritePassword(r) \/ WriteRow(r)
        PROVE  KeysStay'
    <2>1. /\ user' = req[r].copy /\ published' = published
          /\ \A c \in {"keys"} : c \in undone \/ c \in Undone(r) => c \in undone'
      BY <1>4 DEF WritePassword, WriteRow
    <2>2. req[r].copy.keys # user.keys => "keys" \in Undone(r)
      BY DEF Undone
    <2>3. CASE req[r].copy.keys = user.keys
      BY <2>1, <2>3 DEF KeysStay
    <2>4. CASE req[r].copy.keys # user.keys
      BY <2>1, <2>2, <2>4 DEF KeysStay
    <2> QED BY <2>3, <2>4
  <1>5. ASSUME NEW r \in Requests, Publish(r)
        PROVE  KeysStay'
    <2>1. user'.keys = TRUE
      BY <1>0, <1>5 DEF Publish, User
    <2> QED BY <2>1 DEF KeysStay
  <1>6. ASSUME NEW t \in Tokens, Logout(t) \/ ExpireToken(t)
        PROVE  KeysStay'
    BY <1>1, <1>6 DEF Logout, ExpireToken
  <1>7. CASE Tick
    BY <1>1, <1>7 DEF Tick
  <1> QED BY <1>1, <1>2, <1>3, <1>4, <1>5, <1>6, <1>7, StepKinds

\* A step that leaves a token there leaves its time of issue.
LEMMA SameToken ==
    ASSUME TypeOK, [Next]_vars, NEW t \in Tokens, token[t] # NoToken, token'[t] # NoToken
    PROVE  token'[t].iat = token[t].iat
  <1> USE DEF rowVars, deviceVars
  <1>0. token[t] \in Token
    BY DEF TypeOK
  <1>1. CASE token' = token
    BY <1>1
  <1>2. ASSUME NEW r \in Requests, Issue(r)
        PROVE  token'[t] = token[t]
    BY <1>2 DEF Issue, TypeOK
  <1>3. ASSUME NEW r \in Requests, Blacklist(r)
        PROVE  token'[t].iat = token[t].iat
    BY <1>3, <1>0 DEF Blacklist, Token
  <1>4. ASSUME NEW u \in Tokens, Logout(u) \/ ExpireToken(u)
        PROVE  token'[t].iat = token[t].iat
    BY <1>4, <1>0 DEF Logout, ExpireToken, TypeOK, Token
  <1>5. \/ token' = token
        \/ \E r \in Requests : Issue(r) \/ Blacklist(r)
        \/ \E u \in Tokens : Logout(u) \/ ExpireToken(u)
    BY StepKinds DEF Quiet, Reads, Still, Confirm, Stamp, WritePassword, Revoke, Abort, WriteRow,
                     Publish, Tick
  <1> QED BY <1>1, <1>2, <1>3, <1>4, <1>5

\* No step makes a refused token good, but for the exceptions of the property.
LEMMA RefusedStep ==
    ASSUME TypeOK, RowInv, TokenInv, [Next]_vars, NEW t \in Tokens,
           token[t] # NoToken, token'[t] # NoToken, ~Accepted(t), ~token[t].late,
           "password" \notin undone'
    PROVE  ~Accepted(t)'
  <1> USE DEF rowVars, deviceVars
  <1>0. /\ user \in User /\ token[t].iat \in Int /\ token'[t].iat = token[t].iat
        /\ user.changed \in Int /\ token[t].iat <= user.changed
        /\ \A r \in Requests : req[r].copy \in User
    BY SessionAssumption, SameToken DEF TypeOK, Token, Accepted, User, Never, Request
  \* The time of the last change is what decides.
  <1>1. ASSUME token[t].iat <= user'.changed, user'.changed \in Int
        PROVE  ~Accepted(t)'
    BY <1>0, <1>1 DEF Accepted
  <1>2. CASE user'.changed = user.changed
    BY <1>0, <1>1, <1>2
  <1>3. ASSUME NEW r \in Requests, WritePassword(r)
        PROVE  ~Accepted(t)'
    <2>1. r \in Replacing /\ user' = req[r].copy
      BY <1>3 DEF WritePassword, Replacing
    <2>2. token[t].iat <= req[r].copy.changed
      BY <2>1 DEF TokenInv
    <2>3. req[r].copy.changed \in Int
      BY <1>0, SessionAssumption DEF User, Never
    <2> QED BY <1>1, <2>1, <2>2, <2>3
  \* The copy of a profile that has the password has its time.
  <1>4. ASSUME NEW r \in Requests, WriteRow(r)
        PROVE  user'.changed = user.changed
    <2>1. user' = req[r].copy /\ Writing(r)
      BY <1>4 DEF WriteRow, Writing
    <2>2. req[r].copy.password = user.password
      BY <1>4 DEF WriteRow, Undone
    <2> QED BY <2>1, <2>2 DEF RowInv
  <1>5. ASSUME NEW r \in Requests, Publish(r)
        PROVE  user'.changed = user.changed
    BY <1>0, <1>5 DEF Publish, User
  <1>6. \/ user' = user
        \/ \E r \in Requests : WritePassword(r) \/ WriteRow(r) \/ Publish(r)
    BY StepKinds DEF Quiet, Reads, Still, Issue, Confirm, Stamp, Blacklist, Revoke, Abort,
                     Logout, ExpireToken, Tick
  <1> QED BY <1>2, <1>3, <1>4, <1>5, <1>6

-----------------------------------------------------------------------------
(* The theorems.                                                           *)

\* The invariant holds in every reachable state.
THEOREM SessionsCorrect == Spec => []SessionsInv
  <1>1. Init => SessionsInv
    <2> SUFFICES ASSUME Init PROVE SessionsInv
      OBVIOUS
    <2>1. TypeOK
      BY TypeInit
    <2>2. DeviceInv
      BY DEF Init, DeviceInv, At, Idle
    <2>3. RowInv
      BY DEF Init, RowInv, Writing, At, Idle, FirstUser
    <2>4. TokenInv /\ SessionsFollowPassword /\ RevokedAfterChange /\ KeysStay
      BY DEF Init, TokenInv, SessionsFollowPassword, Accepted, RevokedAfterChange, KeysStay
    <2> QED BY <2>1, <2>2, <2>3, <2>4 DEF SessionsInv
  <1>2. SessionsInv /\ [Next]_vars => SessionsInv'
    BY TypeStep, DeviceStep, RowStep, TokenStep, FollowStep, RevokedStep, KeysStep
       DEF SessionsInv
  <1> QED BY <1>1, <1>2, PTL DEF Spec

\* The rows, the requests and the tokens stay within their types.
THEOREM TypeCorrect == Spec => []TypeOK
  <1>1. SessionsInv => TypeOK
    BY DEF SessionsInv
  <1> QED BY <1>1, SessionsCorrect, PTL

\* An accepted token was asked for with the password the account has
\* (BlacklistCheckJWTAuthentication.get_user), with the exceptions the property
\* names, for any number of parallel logins, changes and resets.
THEOREM SessionsFollowPasswordHolds == Spec => []SessionsFollowPassword
  <1>1. SessionsInv => SessionsFollowPassword
    BY DEF SessionsInv
  <1> QED BY <1>1, SessionsCorrect, PTL

\* After a change of the password a device is verified only by a link followed
\* since (ChangePasswordView, VerifyDeviceView), for any number of requests.
THEOREM RevokedAfterChangeHolds == Spec => []RevokedAfterChange
  <1>1. SessionsInv => RevokedAfterChange
    BY DEF SessionsInv
  <1> QED BY <1>1, SessionsCorrect, PTL

\* Keys the owner was told are stored stay, unless a stale copy of the row is
\* saved over them (StorePublicKeyView), for any number of requests.
THEOREM KeysStayHolds == Spec => []KeysStay
  <1>1. SessionsInv => KeysStay
    BY DEF SessionsInv
  <1> QED BY <1>1, SessionsCorrect, PTL

\* A token BlacklistCheckJWTAuthentication refuses is refused for good, with the
\* exceptions the property names, for any number of overlapping changes.
THEOREM RefusedForGoodHolds == Spec => RefusedForGood
  <1> DEFINE Final ==
        \A t \in Tokens : token[t] # NoToken /\ token'[t] # NoToken =>
            \/ Accepted(t) \/ ~Accepted(t)'
            \/ token[t].late
            \/ "password" \in undone'
  <1>1. SessionsInv /\ [Next]_vars => [Final]_vars
    BY RefusedStep DEF SessionsInv
  <1> QED BY <1>1, SessionsCorrect, PTL DEF Spec, RefusedForGood

=============================================================================
