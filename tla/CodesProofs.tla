------------------------------ MODULE CodesProofs ------------------------------
(***************************************************************************)
(* Proofs about Codes, for any requests, registrations and codes, any life *)
(* of a code and any cooldown, and whether or not queueing a mail fails.   *)
(***************************************************************************)
EXTENDS Codes, TLAPS

-----------------------------------------------------------------------------
(* The inductive invariant.                                                *)

\* The row and every copy of it.
Rows == {row} \cup {req[r].copy : r \in Requests}

\* A request that does nothing remembers no code; one that is to store or to
\* create has a registration, one past the drawing of its code has a code.
RequestInv ==
    \A r \in Requests :
        /\ At(r, "idle") => req[r].copy.change = NoCode /\ req[r].copy.reset = NoCode
        /\ req[r].at \in {"store", "check", "open", "create"} => req[r].form \in Forms
        /\ req[r].at \in {"mail", "check", "open", "create", "tidy", "cooldown", "queue", "cool",
                          "clearChange", "reread", "clearReset"} => req[r].code \in Codes

\* Every code in use has been drawn.
DrawnInv ==
    /\ entry # NoEntry => entry.code \in drawn
    /\ \A m \in mailed : m[1] \in drawn
    /\ \A r \in Requests : req[r].code \in drawn \cup {NoCode}
    /\ \A x \in Rows : {x.change, x.reset} \subseteq drawn \cup {NoCode}
    /\ dead \subseteq drawn

\* The code of the entry is mailed, if at all, with the data of the entry.
FormInv ==
    /\ entry # NoEntry =>
          /\ \A m \in mailed : m[1] = entry.code => m[2] = entry.form
          /\ \A r \in Requests : At(r, "mail") /\ req[r].code = entry.code
                                     => req[r].form = entry.form
          /\ \A r \in Requests : At(r, "cooldown") \/ At(r, "queue") => req[r].code # entry.code
    /\ \A r \in Requests : req[r].at \in {"check", "open", "create"}
                               => <<req[r].code, req[r].form>> \in mailed

\* Nobody removes a picture before there is an account.
PictureInv ==
    ~Verified =>
        /\ entry # NoEntry => entry.form \in pictures
        /\ \A r \in Requests :
              /\ req[r].at \in {"store", "check", "open"} => req[r].form \in pictures
              /\ At(r, "create") => req[r].picture
              /\ ~At(r, "tidy")

\* A code that changes the password never stands where one that resets it does.
KindInv ==
    \A x \in Rows :
        /\ \A y \in Rows : x.change # NoCode => x.change # y.reset
        /\ \A r \in Requests : At(r, "reread") \/ At(r, "clearReset") => req[r].code # x.change

\* A code that was used alone is in no copy, and a clearing clears its own code.
DeadInv ==
    /\ \A x \in Rows : {x.change, x.reset} \cap dead = {}
    /\ \A r \in Requests : At(r, "clearChange") => req[r].copy.change = req[r].code

\* The time beside a code is its own, unless it was renewed.
TimedInv ==
    \A x \in Rows : \A c \in {x.change, x.reset} \ {NoCode} : c \notin renewed => x.left = life[c]

CodesInv ==
    /\ TypeOK /\ RequestInv /\ DrawnInv /\ FormInv /\ PictureInv
    /\ KindInv /\ DeadInv /\ TimedInv
    /\ AccountIsMailed /\ PictureKept /\ LoneCodeDies /\ LateOnlyIfRenewed
-----------------------------------------------------------------------------
(* The requests.                                                           *)

Ats == {"idle", "store", "mail", "check", "open", "create", "tidy", "forget",
        "writeChange", "cooldown", "queue", "cool", "writeReset",
        "clearChange", "reread", "clearReset", "save"}

\* The row of nobody and the request that does nothing have their types.
LEMMA NoTypes ==
    /\ NoRow \in Row /\ Idle \in Request
    /\ Idle.at = "idle" /\ Idle.form = NoForm /\ Idle.code = NoCode
    /\ Idle.picture = FALSE /\ Idle.copy = NoRow
    /\ NoRow.change = NoCode /\ NoRow.reset = NoCode /\ NoRow.left = NoTime
  <1>1. NoRow \in Row
    BY CodesAssumption DEF NoRow, Row, Left
  <1> QED BY <1>1 DEF Idle, Request, NoRow

\* A request is replaced, and the others stay.
LEMMA Replaced ==
    ASSUME TypeOK, NEW r \in Requests, NEW v \in Request, req' = [req EXCEPT ![r] = v]
    PROVE  /\ req' \in [Requests -> Request]
           /\ req'[r] = v
           /\ \A q \in Requests : q # r => req'[q] = req[q]
  BY DEF TypeOK

\* What a request does next, and what it keeps.
LEMMA Moved ==
    ASSUME TypeOK, NEW r \in Requests
    PROVE  /\ Done(r) => /\ req' \in [Requests -> Request]
                         /\ req'[r] = Idle
                         /\ \A q \in Requests : q # r => req'[q] = req[q]
           /\ \A at \in Ats : GoTo(r, at) =>
                 /\ req' \in [Requests -> Request]
                 /\ req'[r].at = at /\ req'[r].form = req[r].form /\ req'[r].code = req[r].code
                 /\ req'[r].picture = req[r].picture /\ req'[r].copy = req[r].copy
                 /\ \A q \in Requests : q # r => req'[q] = req[q]
  <1>0. req \in [Requests -> Request] /\ req[r] \in Request
    BY DEF TypeOK
  <1>1. ASSUME Done(r)
        PROVE  /\ req' \in [Requests -> Request]
               /\ req'[r] = Idle
               /\ \A q \in Requests : q # r => req'[q] = req[q]
    <2>1. req' = [req EXCEPT ![r] = Idle]
      BY <1>1 DEF Done
    <2> QED BY <2>1, NoTypes, Replaced
  <1>2. ASSUME NEW at \in Ats, GoTo(r, at)
        PROVE  /\ req' \in [Requests -> Request]
               /\ req'[r].at = at /\ req'[r].form = req[r].form /\ req'[r].code = req[r].code
               /\ req'[r].picture = req[r].picture /\ req'[r].copy = req[r].copy
               /\ \A q \in Requests : q # r => req'[q] = req[q]
    <2> DEFINE v == [req[r] EXCEPT !.at = at]
    <2>1. /\ v \in Request
          /\ v.at = at /\ v.form = req[r].form /\ v.code = req[r].code
          /\ v.picture = req[r].picture /\ v.copy = req[r].copy
      BY <1>0 DEF Request, Ats
    <2>2. req' = [req EXCEPT ![r] = v]
      BY <1>0, <1>2 DEF GoTo
    <2> HIDE DEF v
    <2> QED BY <2>1, <2>2, Replaced
  <1> QED BY <1>1, <1>2

\* How a request begins.
LEMMA Begun ==
    ASSUME TypeOK, NEW r \in Requests
    PROVE  /\ \A f \in Forms : Register(r, f) =>
                 /\ req' \in [Requests -> Request]
                 /\ req'[r].at = "store" /\ req'[r].code = NoCode /\ req'[r].copy = NoRow
                 /\ req'[r].form = f
                 /\ \A q \in Requests : q # r => req'[q] = req[q]
           /\ Resend(r) =>
                 /\ req' \in [Requests -> Request]
                 /\ req'[r].at = "store" /\ req'[r].code = NoCode /\ req'[r].copy = NoRow
                 /\ req'[r].form = entry.form
                 /\ entry.form \in Forms
                 /\ \A q \in Requests : q # r => req'[q] = req[q]
           /\ VerifyCode(r) =>
                 /\ req' \in [Requests -> Request]
                 /\ req'[r].at = "check" /\ req'[r].code = entry.code /\ req'[r].copy = NoRow
                 /\ req'[r].form = entry.form
                 /\ entry.form \in Forms /\ entry.code \in Codes
                 /\ \A q \in Requests : q # r => req'[q] = req[q]
           /\ Change(r) =>
                 /\ req' \in [Requests -> Request]
                 /\ req'[r].at = "clearChange" /\ req'[r].code = row.change /\ req'[r].copy = row
                 /\ row.change \in Codes
                 /\ \A q \in Requests : q # r => req'[q] = req[q]
           /\ Reset(r) =>
                 /\ req' \in [Requests -> Request]
                 /\ req'[r].at = "reread" /\ req'[r].code = row.reset /\ req'[r].copy = NoRow
                 /\ row.reset \in Codes
                 /\ \A q \in Requests : q # r => req'[q] = req[q]
           /\ \A at \in Ats, c \in Codes \cup {NoCode} : Read(r, at, c) =>
                 /\ req' \in [Requests -> Request]
                 /\ req'[r].at = at /\ req'[r].code = c /\ req'[r].copy = row
                 /\ \A q \in Requests : q # r => req'[q] = req[q]
  <1>0. req \in [Requests -> Request] /\ row \in Row
    BY DEF TypeOK
  <1>1. ASSUME NEW v \in Request, Begin(r, v)
        PROVE  /\ req' \in [Requests -> Request] /\ req'[r] = v
               /\ \A q \in Requests : q # r => req'[q] = req[q]
    <2>1. req' = [req EXCEPT ![r] = v]
      BY <1>1 DEF Begin
    <2> QED BY <2>1, Replaced
  <1>2. \A c : Given(c) => c \in Codes
    BY DEF Given, TypeOK
  <1>3. ASSUME NEW f \in Forms, Register(r, f)
        PROVE  /\ req' \in [Requests -> Request]
               /\ req'[r].at = "store" /\ req'[r].code = NoCode /\ req'[r].copy = NoRow
               /\ req'[r].form = f
               /\ \A q \in Requests : q # r => req'[q] = req[q]
    <2> DEFINE v == [Idle EXCEPT !.at = "store", !.form = f]
    <2>1. /\ v \in Request
          /\ v.at = "store" /\ v.code = NoCode /\ v.copy = NoRow
          /\ v.form = f
      BY <1>0, NoTypes DEF Request
    <2>2. Begin(r, v)
      BY <1>3 DEF Register
    <2> HIDE DEF v
    <2> QED BY <1>1, <2>1, <2>2
  <1>4. ASSUME Resend(r)
        PROVE  /\ req' \in [Requests -> Request]
               /\ req'[r].at = "store" /\ req'[r].code = NoCode /\ req'[r].copy = NoRow
               /\ req'[r].form = entry.form
               /\ entry.form \in Forms
               /\ \A q \in Requests : q # r => req'[q] = req[q]
    <2> DEFINE v == [Idle EXCEPT !.at = "store", !.form = entry.form]
    <2>1. entry.form \in Forms
      BY <1>2, <1>4 DEF Resend, TypeOK, Entry
    <2>2. /\ v \in Request
          /\ v.at = "store" /\ v.code = NoCode /\ v.copy = NoRow
          /\ v.form = entry.form
      BY <1>0, <2>1, NoTypes DEF Request
    <2>3. Begin(r, v)
      BY <1>4 DEF Resend
    <2> HIDE DEF v
    <2> QED BY <1>1, <2>1, <2>2, <2>3
  <1>5. ASSUME VerifyCode(r)
        PROVE  /\ req' \in [Requests -> Request]
               /\ req'[r].at = "check" /\ req'[r].code = entry.code /\ req'[r].copy = NoRow
               /\ req'[r].form = entry.form
               /\ entry.form \in Forms /\ entry.code \in Codes
               /\ \A q \in Requests : q # r => req'[q] = req[q]
    <2> DEFINE v == [Idle EXCEPT !.at = "check", !.form = entry.form, !.code = entry.code]
    <2>1. entry.form \in Forms /\ entry.code \in Codes
      BY <1>2, <1>5 DEF VerifyCode, TypeOK, Entry
    <2>2. /\ v \in Request
          /\ v.at = "check" /\ v.code = entry.code /\ v.copy = NoRow
          /\ v.form = entry.form
      BY <1>0, <2>1, NoTypes DEF Request
    <2>3. Begin(r, v)
      BY <1>5 DEF VerifyCode
    <2> HIDE DEF v
    <2> QED BY <1>1, <2>1, <2>2, <2>3
  <1>6. ASSUME Change(r)
        PROVE  /\ req' \in [Requests -> Request]
               /\ req'[r].at = "clearChange" /\ req'[r].code = row.change /\ req'[r].copy = row
               /\ row.change \in Codes
               /\ \A q \in Requests : q # r => req'[q] = req[q]
    <2> DEFINE v == [Idle EXCEPT !.at = "clearChange", !.code = row.change, !.copy = row]
    <2>1. row.change \in Codes
      BY <1>2, <1>6 DEF Change, Read, TypeOK, Entry
    <2>2. /\ v \in Request
          /\ v.at = "clearChange" /\ v.code = row.change /\ v.copy = row
      BY <1>0, <2>1, NoTypes DEF Request
    <2>3. Begin(r, v)
      BY <1>6 DEF Change, Read
    <2> HIDE DEF v
    <2> QED BY <1>1, <2>1, <2>2, <2>3
  <1>7. ASSUME Reset(r)
        PROVE  /\ req' \in [Requests -> Request]
               /\ req'[r].at = "reread" /\ req'[r].code = row.reset /\ req'[r].copy = NoRow
               /\ row.reset \in Codes
               /\ \A q \in Requests : q # r => req'[q] = req[q]
    <2> DEFINE v == [Idle EXCEPT !.at = "reread", !.code = row.reset]
    <2>1. row.reset \in Codes
      BY <1>2, <1>7 DEF Reset, ResetGood, TypeOK, Entry
    <2>2. /\ v \in Request
          /\ v.at = "reread" /\ v.code = row.reset /\ v.copy = NoRow
      BY <1>0, <2>1, NoTypes DEF Request
    <2>3. Begin(r, v)
      BY <1>7 DEF Reset, ResetGood
    <2> HIDE DEF v
    <2> QED BY <1>1, <2>1, <2>2, <2>3
  <1>8. ASSUME NEW at \in Ats, NEW c \in Codes \cup {NoCode}, Read(r, at, c)
        PROVE  /\ req' \in [Requests -> Request]
               /\ req'[r].at = at /\ req'[r].code = c /\ req'[r].copy = row
               /\ \A q \in Requests : q # r => req'[q] = req[q]
    <2> DEFINE v == [Idle EXCEPT !.at = at, !.code = c, !.copy = row]
    <2>1. v \in Request /\ v.at = at /\ v.code = c /\ v.copy = row
      BY <1>0, NoTypes DEF Request, Ats
    <2>2. Begin(r, v)
      BY <1>8 DEF Read
    <2> HIDE DEF v
    <2> QED BY <1>1, <2>1, <2>2
  <1> QED BY <1>3, <1>4, <1>5, <1>6, <1>7, <1>8

\* How the other steps change their request.
LEMMA Changed ==
    ASSUME TypeOK, NEW r \in Requests
    PROVE  /\ \A c \in Codes : Store(r, c) =>
                 /\ req' \in [Requests -> Request]
                 /\ req'[r].at = "mail" /\ req'[r].code = c
                 /\ req'[r].form = req[r].form /\ req'[r].copy = req[r].copy
                 /\ \A q \in Requests : q # r => req'[q] = req[q]
           /\ OpenPicture(r) =>
                 /\ req' \in [Requests -> Request]
                 /\ req'[r].at = "create" /\ req'[r].code = req[r].code
                 /\ req'[r].form = req[r].form /\ req'[r].copy = req[r].copy
                 /\ req'[r].picture = (req[r].form \in pictures)
                 /\ \A q \in Requests : q # r => req'[q] = req[q]
           /\ \A c \in Codes : WriteChangeCode(r, c) =>
                 /\ req' \in [Requests -> Request]
                 /\ req'[r].at = "cooldown" /\ req'[r].code = c /\ req'[r].copy = NoRow
                 /\ \A q \in Requests : q # r => req'[q] = req[q]
           /\ \A c \in Codes : WriteResetCode(r, c) =>
                 /\ req' \in [Requests -> Request]
                 /\ req'[r].at = "mail" /\ req'[r].code = c /\ req'[r].copy = NoRow
                 /\ \A q \in Requests : q # r => req'[q] = req[q]
           /\ ReadAgain(r) =>
                 /\ req' \in [Requests -> Request]
                 /\ req'[r].at = "clearReset" /\ req'[r].code = req[r].code
                 /\ req'[r].copy = row
                 /\ \A q \in Requests : q # r => req'[q] = req[q]
  <1>0. req \in [Requests -> Request] /\ req[r] \in Request /\ row \in Row
    BY DEF TypeOK
  <1>1. ASSUME NEW c \in Codes, Store(r, c)
        PROVE  /\ req' \in [Requests -> Request]
               /\ req'[r].at = "mail" /\ req'[r].code = c
               /\ req'[r].form = req[r].form /\ req'[r].copy = req[r].copy
               /\ \A q \in Requests : q # r => req'[q] = req[q]
    <2> DEFINE v == [[req[r] EXCEPT !.at = "mail"] EXCEPT !.code = c]
    <2>1. /\ v \in Request /\ v.at = "mail" /\ v.code = c
          /\ v.form = req[r].form /\ v.copy = req[r].copy
      BY <1>0 DEF Request
    <2>2. req' = [req EXCEPT ![r] = v]
      BY <1>0, <1>1 DEF Store
    <2> HIDE DEF v
    <2> QED BY <2>1, <2>2, Replaced
  <1>2. ASSUME OpenPicture(r)
        PROVE  /\ req' \in [Requests -> Request]
               /\ req'[r].at = "create" /\ req'[r].code = req[r].code
               /\ req'[r].form = req[r].form /\ req'[r].copy = req[r].copy
               /\ req'[r].picture = (req[r].form \in pictures)
               /\ \A q \in Requests : q # r => req'[q] = req[q]
    <2> DEFINE found == req[r].form \in pictures
               v == [[req[r] EXCEPT !.at = "create"] EXCEPT !.picture = found]
    <2>1. req' = [req EXCEPT ![r] = v]
      BY <1>0, <1>2 DEF OpenPicture
    <2>2. found \in BOOLEAN
      OBVIOUS
    <2>3. found = (req[r].form \in pictures)
      OBVIOUS
    <2> HIDE DEF found
    <2>4. /\ v \in Request /\ v.at = "create" /\ v.code = req[r].code
          /\ v.form = req[r].form /\ v.copy = req[r].copy
      BY <1>0, <2>2 DEF Request
    <2>5. v.picture = found
      BY <1>0 DEF Request
    <2> HIDE DEF v
    <2>6. /\ req' \in [Requests -> Request] /\ req'[r] = v
          /\ \A q \in Requests : q # r => req'[q] = req[q]
      BY <2>1, <2>4, Replaced
    <2>7. req'[r].picture = (req[r].form \in pictures)
      BY <2>3, <2>5, <2>6, Zenon
    <2> QED BY <2>4, <2>6, <2>7
  <1>3. ASSUME NEW c \in Codes, WriteChangeCode(r, c)
        PROVE  /\ req' \in [Requests -> Request]
               /\ req'[r].at = "cooldown" /\ req'[r].code = c /\ req'[r].copy = NoRow
               /\ \A q \in Requests : q # r => req'[q] = req[q]
    <2> DEFINE v == [[[req[r] EXCEPT !.at = "cooldown"] EXCEPT !.code = c] EXCEPT !.copy = NoRow]
    <2>1. v \in Request /\ v.at = "cooldown" /\ v.code = c /\ v.copy = NoRow
      BY <1>0, NoTypes DEF Request
    <2>2. req' = [req EXCEPT ![r] = v]
      BY <1>0, <1>3 DEF WriteChangeCode
    <2> HIDE DEF v
    <2> QED BY <2>1, <2>2, Replaced
  <1>4. ASSUME NEW c \in Codes, WriteResetCode(r, c)
        PROVE  /\ req' \in [Requests -> Request]
               /\ req'[r].at = "mail" /\ req'[r].code = c /\ req'[r].copy = NoRow
               /\ \A q \in Requests : q # r => req'[q] = req[q]
    <2> DEFINE v == [[[req[r] EXCEPT !.at = "mail"] EXCEPT !.code = c] EXCEPT !.copy = NoRow]
    <2>1. v \in Request /\ v.at = "mail" /\ v.code = c /\ v.copy = NoRow
      BY <1>0, NoTypes DEF Request
    <2>2. req' = [req EXCEPT ![r] = v]
      BY <1>0, <1>4 DEF WriteResetCode
    <2> HIDE DEF v
    <2> QED BY <2>1, <2>2, Replaced
  <1>5. ASSUME ReadAgain(r)
        PROVE  /\ req' \in [Requests -> Request]
               /\ req'[r].at = "clearReset" /\ req'[r].code = req[r].code
               /\ req'[r].copy = row
               /\ \A q \in Requests : q # r => req'[q] = req[q]
    <2> DEFINE v == [[req[r] EXCEPT !.at = "clearReset"] EXCEPT !.copy = row]
    <2>1. v \in Request /\ v.at = "clearReset" /\ v.code = req[r].code /\ v.copy = row
      BY <1>0 DEF Request
    <2>2. req' = [req EXCEPT ![r] = v]
      BY <1>0, <1>5 DEF ReadAgain
    <2> HIDE DEF v
    <2> QED BY <2>1, <2>2, Replaced
  <1> QED BY <1>1, <1>2, <1>3, <1>4, <1>5

-----------------------------------------------------------------------------
(* Types.                                                                  *)

\* A row that grows older is a row with the same codes.
LEMMA OlderType ==
    ASSUME NEW x \in Row
    PROVE  /\ Older(x) \in Row
           /\ Older(x).change = x.change /\ Older(x).reset = x.reset
           /\ Older(x).left = Down(x.left)
  <1>1. x.left \in Left
    BY DEF Row
  <1>2. Down(x.left) \in Left
    BY <1>1, CodesAssumption DEF Down, Left
  <1>3. Older(x) = [x EXCEPT !.left = Down(x.left)]
    BY DEF Older
  <1> QED BY <1>2, <1>3 DEF Row

\* The initial states are within the types.
LEMMA TypeInit == Init => TypeOK
  <1>1. NoAccount \in Account
    BY DEF NoAccount, Account
  <1>2. 0 \in 0 .. CodeTime /\ 0 \in 0 .. Cooldown
    BY CodesAssumption
  <1> QED BY <1>1, <1>2, NoTypes DEF Init, TypeOK

\* Every step stays within the types.
LEMMA TypeStep ==
    ASSUME TypeOK, RequestInv, [Next]_vars
    PROVE  TypeOK'
  <1> USE DEF registration, history
  <1>1. CASE UNCHANGED vars
    BY <1>1 DEF TypeOK, vars
  <1>2. ASSUME NEW r \in Requests, NEW f \in Forms, Register(r, f)
        PROVE  TypeOK'
    BY <1>2, Begun DEF Register, TypeOK
  <1>3. ASSUME NEW r \in Requests, Resend(r)
        PROVE  TypeOK'
    BY <1>3, Begun DEF Resend, TypeOK
  <1>4. ASSUME NEW r \in Requests, NEW c \in Codes, Store(r, c)
        PROVE  TypeOK'
    <2>1. [form |-> req[r].form, code |-> c, left |-> CodeTime] \in Entry
      BY <1>4, CodesAssumption DEF Store, RequestInv, At, Entry
    <2> QED BY <1>4, <2>1, Changed DEF Store, Draw, TypeOK
  <1>5. ASSUME NEW r \in Requests, Mail(r)
        PROVE  TypeOK'
    <2>1. <<req[r].code, req[r].form>> \in Codes \X (Forms \cup {NoForm})
      BY <1>5 DEF Mail, RequestInv, At, TypeOK, Request
    <2> QED BY <1>5, <2>1, Moved DEF Mail, TypeOK
  <1>6. ASSUME NEW r \in Requests, VerifyCode(r)
        PROVE  TypeOK'
    BY <1>6, Begun DEF VerifyCode, TypeOK
  <1>7. ASSUME NEW r \in Requests, CheckVerified(r) \/ Forget(r) \/ RemovePicture(r) \/ Abort(r)
        PROVE  TypeOK'
    BY <1>7, Moved DEF CheckVerified, Forget, RemovePicture, Abort, TypeOK, Ats
  <1>8. ASSUME NEW r \in Requests, OpenPicture(r) \/ ReadAgain(r)
        PROVE  TypeOK'
    BY <1>8, Changed DEF OpenPicture, ReadAgain, TypeOK
  <1>9. ASSUME NEW r \in Requests, CreateUser(r)
        PROVE  TypeOK'
    <2>1. [form |-> req[r].form, code |-> req[r].code, picture |-> req[r].picture] \in Account
      BY DEF TypeOK, Request, Account
    <2> QED BY <1>9, <2>1, Moved DEF CreateUser, TypeOK, Ats
  <1>10. ASSUME NEW r \in Requests, AskChangeCode(r) \/ AskResetCode(r) \/ EditProfile(r)
         PROVE  TypeOK'
    BY <1>10, Begun DEF AskChangeCode, AskResetCode, EditProfile, TypeOK, Ats
  <1>11. ASSUME NEW r \in Requests, NEW c \in Codes, WriteChangeCode(r, c)
         PROVE  TypeOK'
    <2>1. [[row EXCEPT !.change = c] EXCEPT !.left = CodeTime] \in Row
      <3>1. CodeTime \in Left
        BY CodesAssumption DEF Left
      <3> QED BY <3>1 DEF TypeOK, Row
    <2>2. [life EXCEPT ![c] = CodeTime] \in [Codes -> 0 .. CodeTime]
      BY CodesAssumption DEF TypeOK
    <2>3. renewed' \subseteq Codes
      BY <1>11 DEF WriteChangeCode, TypeOK, Row
    <2> QED BY <1>11, <2>1, <2>2, <2>3, Changed DEF WriteChangeCode, Draw, TypeOK
  <1>12. ASSUME NEW r \in Requests, NEW c \in Codes, WriteResetCode(r, c)
         PROVE  TypeOK'
    <2>1. req[r].copy \in Row
      BY DEF TypeOK, Request
    <2>2. [[req[r].copy EXCEPT !.reset = c] EXCEPT !.left = CodeTime] \in Row
      <3>1. CodeTime \in Left
        BY CodesAssumption DEF Left
      <3> QED BY <2>1, <3>1 DEF Row
    <2>3. [life EXCEPT ![c] = CodeTime] \in [Codes -> 0 .. CodeTime]
      BY CodesAssumption DEF TypeOK
    <2>4. renewed' \subseteq Codes
      BY <1>12, <2>1 DEF WriteResetCode, TypeOK, Row
    <2> QED BY <1>12, <2>2, <2>3, <2>4, Changed DEF WriteResetCode, Draw, TypeOK
  <1>13. ASSUME NEW r \in Requests, CheckCooldown(r)
         PROVE  TypeOK'
    <2>1. answered' \subseteq Codes
      BY <1>13 DEF CheckCooldown, Answer, RequestInv, At, TypeOK
    <2>2. req' \in [Requests -> Request]
      BY <1>13, Moved DEF CheckCooldown, Answer, Ats
    <2> QED BY <1>13, <2>1, <2>2 DEF CheckCooldown, TypeOK
  <1>14. ASSUME NEW r \in Requests, QueueMail(r)
         PROVE  TypeOK'
    <2>1. answered' \subseteq Codes /\ mailed' \subseteq Codes \X (Forms \cup {NoForm})
      BY <1>14 DEF QueueMail, Answer, RequestInv, At, TypeOK
    <2>2. req' \in [Requests -> Request]
      BY <1>14, Moved DEF QueueMail, Answer, Ats
    <2> QED BY <1>14, <2>1, <2>2 DEF QueueMail, TypeOK
  <1>15. ASSUME NEW r \in Requests, SetCooldown(r)
         PROVE  TypeOK'
    <2>1. answered' \subseteq Codes
      BY <1>15 DEF SetCooldown, Answer, RequestInv, At, TypeOK
    <2>2. Cooldown \in 0 .. Cooldown
      BY CodesAssumption
    <2> QED BY <1>15, <2>1, <2>2, Moved DEF SetCooldown, Answer, TypeOK
  <1>16. ASSUME NEW r \in Requests, Change(r) \/ VerifyReset(r) \/ Reset(r)
         PROVE  TypeOK'
    <2>1. \A c : Given(c) => c \in Codes
      BY DEF Given, TypeOK
    <2>2. late' \subseteq Codes
      BY <1>16, <2>1 DEF Change, VerifyReset, Reset, ResetGood, Accept, TypeOK
    <2>3. req' \in [Requests -> Request]
      BY <1>16, Begun DEF VerifyReset, TypeOK
    <2> QED BY <1>16, <2>2, <2>3 DEF Change, VerifyReset, Reset, TypeOK
  <1>17. ASSUME NEW r \in Requests, ClearChange(r) \/ ClearReset(r)
         PROVE  TypeOK'
    <2>1. req[r].copy \in Row /\ NoTime \in Left
      BY DEF TypeOK, Request, Left
    <2>2. /\ [[req[r].copy EXCEPT !.change = NoCode] EXCEPT !.left = NoTime] \in Row
          /\ [[req[r].copy EXCEPT !.reset = NoCode] EXCEPT !.left = NoTime] \in Row
      BY <2>1 DEF Row
    <2>3. row' \in Row
      BY <1>17, <2>2 DEF ClearChange, ClearReset, Clear
    <2>4. renewed' \subseteq Codes
      BY <1>17, <2>1 DEF ClearChange, ClearReset, Clear, Row, TypeOK
    <2>5. dead' \subseteq Codes
      BY <1>17 DEF ClearChange, ClearReset, Clear, RequestInv, At, TypeOK
    <2>6. req' \in [Requests -> Request]
      BY <1>17, Moved DEF ClearChange, ClearReset, Clear
    <2> QED BY <1>17, <2>3, <2>4, <2>5, <2>6 DEF ClearChange, ClearReset, Clear, TypeOK
  <1>18. ASSUME NEW r \in Requests, SaveProfile(r)
         PROVE  TypeOK'
    <2>1. req[r].copy \in Row
      BY DEF TypeOK, Request
    <2> QED BY <1>18, <2>1, Moved DEF SaveProfile, TypeOK
  <1>19. CASE Tick
    <2>1. entry' = NoEntry \/ entry' \in Entry
      <3>1. CASE entry = NoEntry \/ entry.left = 1
        BY <1>19, <3>1 DEF Tick
      <3>2. CASE ~(entry = NoEntry \/ entry.left = 1)
        <4>1. entry \in Entry /\ entry.left - 1 \in 1 .. CodeTime
          BY <3>2, CodesAssumption DEF TypeOK, Entry
        <4>2. [entry EXCEPT !.left = entry.left - 1] \in Entry
          BY <4>1 DEF Entry
        <4> QED BY <1>19, <3>2, <4>2 DEF Tick
      <3> QED BY <3>1, <3>2
    <2>2. row' \in Row
      BY <1>19, OlderType DEF Tick, TypeOK
    <2>3. \A r \in Requests : [req[r] EXCEPT !.copy = Older(req[r].copy)] \in Request
      <3>1. \A r \in Requests : req[r] \in Request /\ Older(req[r].copy) \in Row
        BY OlderType DEF TypeOK, Request
      <3> QED BY <3>1 DEF Request
    <2>4. req' \in [Requests -> Request]
      BY <1>19, <2>3 DEF Tick
    <2>5. cooldown' \in 0 .. Cooldown
      BY <1>19, CodesAssumption DEF Tick, Down, TypeOK
    <2>6. \A c \in Codes : Down(life[c]) \in 0 .. CodeTime
      BY CodesAssumption DEF Down, TypeOK
    <2>7. life' \in [Codes -> 0 .. CodeTime]
      BY <1>19, <2>6 DEF Tick
    <2> QED BY <1>19, <2>1, <2>2, <2>4, <2>5, <2>7 DEF Tick, TypeOK
  <1> QED BY <1>1, <1>2, <1>3, <1>4, <1>5, <1>6, <1>7, <1>8, <1>9, <1>10, <1>11, <1>12,
             <1>13, <1>14, <1>15, <1>16, <1>17, <1>18, <1>19
          DEF Next, Registering, Changing

-----------------------------------------------------------------------------
(* The parts of the invariant.                                             *)

\* A request keeps what its next step needs.
LEMMA RequestStep ==
    ASSUME TypeOK, RequestInv, [Next]_vars
    PROVE  RequestInv'
  <1> DEFINE Ok(q) == /\ q.at = "idle" => q.copy.change = NoCode /\ q.copy.reset = NoCode
                      /\ q.at \in {"store", "check", "open", "create"} => q.form \in Forms
                      /\ q.at \in {"mail", "check", "open", "create", "tidy", "cooldown", "queue",
                                   "cool", "clearChange", "reread", "clearReset"}
                             => q.code \in Codes
  <1>a. \A q \in Requests : Ok(req[q])
    BY DEF RequestInv, At
  <1>b. ASSUME NEW r \in Requests, Ok(req'[r]),
               \A q \in Requests : q # r => req'[q] = req[q]
        PROVE  RequestInv'
    BY <1>a, <1>b DEF RequestInv, At
  <1>1. CASE UNCHANGED vars
    BY <1>1 DEF RequestInv, At, vars
  <1>2. ASSUME NEW r \in Requests, NEW f \in Forms, Register(r, f)
        PROVE  RequestInv'
    BY <1>b, <1>2, Begun
  <1>3. ASSUME NEW r \in Requests, Resend(r) \/ VerifyCode(r)
        PROVE  RequestInv'
    BY <1>b, <1>3, Begun
  <1>4. ASSUME NEW r \in Requests, NEW c \in Codes, Store(r, c)
        PROVE  RequestInv'
    BY <1>4, <1>b, Changed
  <1>5. ASSUME NEW r \in Requests, Done(r)
        PROVE  RequestInv'
    BY <1>5, <1>b, Moved, NoTypes
  <1>6. ASSUME NEW r \in Requests, CheckVerified(r)
        PROVE  RequestInv'
    BY <1>6, <1>a, <1>b, Moved DEF CheckVerified, Ats, At
  <1>7. ASSUME NEW r \in Requests, OpenPicture(r)
        PROVE  RequestInv'
    BY <1>7, <1>a, <1>b, Changed DEF OpenPicture, At
  <1>8. ASSUME NEW r \in Requests, ReadAgain(r)
        PROVE  RequestInv'
    BY <1>8, <1>a, <1>b, Changed DEF ReadAgain, At
  <1>9. ASSUME NEW r \in Requests, GoTo(r, "tidy") /\ At(r, "create")
        PROVE  RequestInv'
    BY <1>9, <1>a, <1>b, Moved DEF Ats, At
  <1>10. ASSUME NEW r \in Requests, RemovePicture(r)
         PROVE  RequestInv'
    BY <1>10, <1>b, Moved DEF RemovePicture, Ats
  <1>11. ASSUME NEW r \in Requests, AskChangeCode(r) \/ AskResetCode(r) \/ EditProfile(r)
         PROVE  RequestInv'
    BY <1>11, <1>b, Begun DEF AskChangeCode, AskResetCode, EditProfile, Ats
  <1>12. ASSUME NEW r \in Requests, NEW c \in Codes, WriteChangeCode(r, c) \/ WriteResetCode(r, c)
         PROVE  RequestInv'
    BY <1>12, <1>b, Changed
  <1>13. ASSUME NEW r \in Requests, GoTo(r, "queue") /\ At(r, "cooldown")
         PROVE  RequestInv'
    BY <1>13, <1>a, <1>b, Moved DEF Ats, At
  <1>14. ASSUME NEW r \in Requests, GoTo(r, "cool") /\ At(r, "queue")
         PROVE  RequestInv'
    BY <1>14, <1>a, <1>b, Moved DEF Ats, At
  <1>15. ASSUME NEW r \in Requests, Change(r) \/ Reset(r)
         PROVE  RequestInv'
    BY <1>b, <1>15, Begun
  <1>16. ASSUME req' = req
         PROVE  RequestInv'
    BY <1>16 DEF RequestInv, At
  <1>17. CASE Tick
    <2>1. ASSUME NEW q \in Requests
          PROVE  Ok(req'[q])
      <3>1. req[q] \in Request /\ req[q].copy \in Row
        BY DEF TypeOK, Request
      <3>2. req'[q] = [req[q] EXCEPT !.copy = Older(req[q].copy)]
        BY <1>17 DEF Tick, TypeOK
      <3>3. /\ req'[q].at = req[q].at /\ req'[q].form = req[q].form /\ req'[q].code = req[q].code
            /\ req'[q].copy = Older(req[q].copy)
        BY <3>1, <3>2 DEF Request
      <3> QED BY <1>a, <3>1, <3>3, OlderType
    <2> QED BY <2>1 DEF RequestInv, At
  <1> QED BY <1>1, <1>2, <1>3, <1>4, <1>5, <1>6, <1>7, <1>8, <1>9, <1>10, <1>11, <1>12,
             <1>13, <1>14, <1>15, <1>16, <1>17
          DEF Next, Registering, Changing, Mail, CreateUser, Forget, Abort, CheckCooldown,
              QueueMail, SetCooldown, Answer, VerifyReset, ClearChange, ClearReset, Clear,
              SaveProfile

\* The rows after a step of a request are those before, and what it wrote.
LEMMA RowsMove ==
    ASSUME NEW r \in Requests, \A q \in Requests : q # r => req'[q] = req[q]
    PROVE  /\ \A x \in Rows' : x = row' \/ x = req'[r].copy \/ x \in Rows
           /\ row \in Rows /\ \A q \in Requests : req[q].copy \in Rows
  BY DEF Rows

\* Most steps write no new row; what the others write.
LEMMA RowSteps ==
    ASSUME TypeOK, [Next]_vars
    PROVE  \/ Rows' \subseteq Rows \cup {NoRow} /\ UNCHANGED <<life, renewed, dead>>
           \/ \E r \in Requests, c \in Codes : WriteChangeCode(r, c) \/ WriteResetCode(r, c)
           \/ \E r \in Requests : ClearChange(r) \/ ClearReset(r)
           \/ Tick
  <1> USE DEF registration, history
  <1> DEFINE Plain == Rows' \subseteq Rows \cup {NoRow} /\ UNCHANGED <<life, renewed, dead>>
  <1>1. ASSUME req' = req, row' = row, UNCHANGED <<life, renewed, dead>>
        PROVE  Plain
    BY <1>1 DEF Rows
  <1>2. ASSUME NEW r \in Requests, \A q \in Requests : q # r => req'[q] = req[q],
               req'[r].copy \in {NoRow, row, req[r].copy}, row' \in {row, req[r].copy},
               UNCHANGED <<life, renewed, dead>>
        PROVE  Plain
    BY <1>2, RowsMove
  <1>3. ASSUME NEW r \in Requests, Mail(r) \/ CheckVerified(r) \/ CreateUser(r)
                   \/ RemovePicture(r) \/ Forget(r) \/ CheckCooldown(r) \/ QueueMail(r)
                   \/ SetCooldown(r) \/ Abort(r)
        PROVE  Plain
    <2>1. row' = row /\ UNCHANGED <<life, renewed, dead>>
      BY <1>3 DEF Mail, CheckVerified, CreateUser, RemovePicture, Forget, CheckCooldown,
                  QueueMail, SetCooldown, Abort
    <2>2. Done(r) \/ \E at \in Ats : GoTo(r, at)
      BY <1>3 DEF Mail, CheckVerified, CreateUser, RemovePicture, Forget, CheckCooldown,
                  QueueMail, SetCooldown, Abort, Answer, Ats
    <2>3. /\ req'[r].copy \in {NoRow, req[r].copy}
          /\ \A q \in Requests : q # r => req'[q] = req[q]
      BY <2>2, Moved, NoTypes
    <2> QED BY <1>2, <2>1, <2>3
  <1>4. ASSUME NEW r \in Requests, NEW f \in Forms, Register(r, f)
        PROVE  Plain
    BY <1>2, <1>4, Begun DEF Register
  <1>5. ASSUME NEW r \in Requests, Resend(r) \/ VerifyCode(r) \/ Change(r) \/ Reset(r)
        PROVE  Plain
    <2>1. row' = row /\ UNCHANGED <<life, renewed, dead>>
      BY <1>5 DEF Resend, VerifyCode, Change, Reset
    <2>2. /\ req'[r].copy \in {NoRow, row}
          /\ \A q \in Requests : q # r => req'[q] = req[q]
      BY <1>5, Begun
    <2> QED BY <1>2, <2>1, <2>2
  <1>6. ASSUME NEW r \in Requests, NEW c \in Codes, Store(r, c)
        PROVE  Plain
    BY <1>2, <1>6, Changed DEF Store
  <1>7. ASSUME NEW r \in Requests, OpenPicture(r) \/ ReadAgain(r)
        PROVE  Plain
    <2>1. row' = row /\ UNCHANGED <<life, renewed, dead>>
      BY <1>7 DEF OpenPicture, ReadAgain
    <2>2. /\ req'[r].copy \in {row, req[r].copy}
          /\ \A q \in Requests : q # r => req'[q] = req[q]
      BY <1>7, Changed
    <2> QED BY <1>2, <2>1, <2>2
  <1>8. ASSUME NEW r \in Requests, AskChangeCode(r) \/ AskResetCode(r) \/ EditProfile(r)
        PROVE  Plain
    <2>1. row' = row /\ UNCHANGED <<life, renewed, dead>>
      BY <1>8 DEF AskChangeCode, AskResetCode, EditProfile
    <2>2. /\ req'[r].copy = row
          /\ \A q \in Requests : q # r => req'[q] = req[q]
      BY <1>8, Begun DEF AskChangeCode, AskResetCode, EditProfile, Ats
    <2> QED BY <1>2, <2>1, <2>2
  <1>9. ASSUME NEW r \in Requests, SaveProfile(r)
        PROVE  Plain
    BY <1>2, <1>9, Moved, NoTypes DEF SaveProfile
  <1>10. ASSUME NEW r \in Requests, VerifyReset(r)
         PROVE  Plain
    BY <1>1, <1>10 DEF VerifyReset
  <1>11. CASE UNCHANGED vars
    BY <1>1, <1>11 DEF vars
  <1> QED BY <1>3, <1>4, <1>5, <1>6, <1>7, <1>8, <1>9, <1>10, <1>11
          DEF Next, Registering, Changing

\* A new code goes into the row, or into the stale copy that replaces it.
LEMMA Written ==
    ASSUME TypeOK, NEW r \in Requests, NEW c \in Codes
    PROVE  /\ WriteChangeCode(r, c) =>
                 /\ row'.change = c /\ row'.reset = row.reset /\ row'.left = CodeTime
                 /\ Rows' \subseteq Rows \cup {NoRow, row'}
           /\ WriteResetCode(r, c) =>
                 /\ row'.change = req[r].copy.change /\ row'.reset = c /\ row'.left = CodeTime
                 /\ Rows' \subseteq Rows \cup {NoRow, row'}
           /\ WriteChangeCode(r, c) \/ WriteResetCode(r, c) =>
                 /\ c \notin drawn /\ drawn' = drawn \cup {c} /\ dead' = dead
                 /\ life'[c] = CodeTime
                 /\ \A d \in Codes : d # c => life'[d] = life[d]
  <1>0. row \in Row /\ req[r].copy \in Row
    BY DEF TypeOK, Request
  <1>1. ASSUME WriteChangeCode(r, c)
        PROVE  /\ row'.change = c /\ row'.reset = row.reset /\ row'.left = CodeTime
               /\ Rows' \subseteq Rows \cup {NoRow, row'}
    <2>1. row' = [[row EXCEPT !.change = c] EXCEPT !.left = CodeTime]
      BY <1>1 DEF WriteChangeCode
    <2> QED BY <1>0, <1>1, <2>1, Changed, RowsMove DEF Row
  <1>2. ASSUME WriteResetCode(r, c)
        PROVE  /\ row'.change = req[r].copy.change /\ row'.reset = c /\ row'.left = CodeTime
               /\ Rows' \subseteq Rows \cup {NoRow, row'}
    <2>1. row' = [[req[r].copy EXCEPT !.reset = c] EXCEPT !.left = CodeTime]
      BY <1>2 DEF WriteResetCode
    <2> QED BY <1>0, <1>2, <2>1, Changed, RowsMove DEF Row
  <1>3. ASSUME WriteChangeCode(r, c) \/ WriteResetCode(r, c)
        PROVE  /\ c \notin drawn /\ drawn' = drawn \cup {c} /\ dead' = dead
               /\ life'[c] = CodeTime
               /\ \A d \in Codes : d # c => life'[d] = life[d]
    <2>1. life' = [life EXCEPT ![c] = CodeTime]
      BY <1>3 DEF WriteChangeCode, WriteResetCode
    <2>2. c \notin drawn /\ drawn' = drawn \cup {c} /\ dead' = dead
      BY <1>3 DEF WriteChangeCode, WriteResetCode, Draw
    <2> QED BY <2>1, <2>2 DEF TypeOK
  <1> QED BY <1>1, <1>2, <1>3

\* The code that was used goes, the other stays without a time.
LEMMA Cleared ==
    ASSUME TypeOK, NEW r \in Requests
    PROVE  /\ ClearChange(r) =>
                 /\ row'.change = NoCode /\ row'.reset = req[r].copy.reset /\ row'.left = NoTime
                 /\ renewed' = renewed \cup ({req[r].copy.reset} \ {NoCode})
           /\ ClearReset(r) =>
                 /\ row'.change = req[r].copy.change /\ row'.reset = NoCode /\ row'.left = NoTime
                 /\ renewed' = renewed \cup ({req[r].copy.change} \ {NoCode})
           /\ ClearChange(r) \/ ClearReset(r) =>
                 /\ Rows' \subseteq Rows \cup {NoRow, row'}
                 /\ life' = life /\ drawn' = drawn
                 /\ dead' \subseteq dead \cup {req[r].code}
                 /\ dead' = dead \/ \A q \in Requests : q # r => At(q, "idle")
                 /\ req'[r] = Idle
                 /\ \A q \in Requests : q # r => req'[q] = req[q]
  <1>0. req[r].copy \in Row
    BY DEF TypeOK, Request
  <1>1. ASSUME ClearChange(r)
        PROVE  /\ row'.change = NoCode /\ row'.reset = req[r].copy.reset /\ row'.left = NoTime
               /\ renewed' = renewed \cup ({req[r].copy.reset} \ {NoCode})
    <2>1. row' = [[req[r].copy EXCEPT !.change = NoCode] EXCEPT !.left = NoTime]
      BY <1>1 DEF ClearChange, Clear
    <2> QED BY <1>0, <1>1, <2>1 DEF Row, ClearChange, Clear
  <1>2. ASSUME ClearReset(r)
        PROVE  /\ row'.change = req[r].copy.change /\ row'.reset = NoCode /\ row'.left = NoTime
               /\ renewed' = renewed \cup ({req[r].copy.change} \ {NoCode})
    <2>1. row' = [[req[r].copy EXCEPT !.reset = NoCode] EXCEPT !.left = NoTime]
      BY <1>2 DEF ClearReset, Clear
    <2> QED BY <1>0, <1>2, <2>1 DEF Row, ClearReset, Clear
  <1>3. ASSUME ClearChange(r) \/ ClearReset(r)
        PROVE  /\ Rows' \subseteq Rows \cup {NoRow, row'}
               /\ life' = life /\ drawn' = drawn
               /\ dead' \subseteq dead \cup {req[r].code}
               /\ dead' = dead \/ \A q \in Requests : q # r => At(q, "idle")
               /\ req'[r] = Idle
               /\ \A q \in Requests : q # r => req'[q] = req[q]
    <2>1. Done(r) /\ life' = life /\ drawn' = drawn
      BY <1>3 DEF ClearChange, ClearReset, Clear
    <2>2. dead' = IF \A q \in Requests \ {r} : At(q, "idle") THEN dead \cup {req[r].code} ELSE dead
      BY <1>3 DEF ClearChange, ClearReset, Clear
    <2> QED BY <2>1, <2>2, Moved, NoTypes, RowsMove
  <1> QED BY <1>1, <1>2, <1>3

\* Time changes the times of the rows, and nothing else of the requests.
LEMMA Ticked ==
    ASSUME TypeOK, Tick
    PROVE  /\ \A x \in Rows' : \E y \in Rows : /\ x.change = y.change /\ x.reset = y.reset
                                               /\ x.left = Down(y.left)
           /\ \A q \in Requests :
                 /\ req'[q].at = req[q].at /\ req'[q].form = req[q].form
                 /\ req'[q].code = req[q].code /\ req'[q].picture = req[q].picture
                 /\ req'[q].copy.change = req[q].copy.change
           /\ \A c \in Codes : life'[c] = Down(life[c])
           /\ entry' # NoEntry => /\ entry # NoEntry
                                  /\ entry'.form = entry.form /\ entry'.code = entry.code
  <1>0. row \in Row /\ \A q \in Requests : req[q] \in Request /\ req[q].copy \in Row
    BY DEF TypeOK, Request
  <1>1. \A q \in Requests : req'[q] = [req[q] EXCEPT !.copy = Older(req[q].copy)]
    BY DEF Tick
  <1>2. \A q \in Requests :
           /\ req'[q].at = req[q].at /\ req'[q].form = req[q].form
           /\ req'[q].code = req[q].code /\ req'[q].picture = req[q].picture
           /\ req'[q].copy = Older(req[q].copy)
    BY <1>0, <1>1 DEF Request
  <1>3. row' = Older(row)
    BY DEF Tick
  <1>4. ASSUME NEW x \in Rows'
        PROVE  \E y \in Rows : /\ x.change = y.change /\ x.reset = y.reset
                               /\ x.left = Down(y.left)
    <2>1. \E y \in Rows : y \in Row /\ x = Older(y)
      BY <1>0, <1>2, <1>3 DEF Rows
    <2> QED BY <2>1, OlderType
  <1>5. \A c \in Codes : life'[c] = Down(life[c])
    BY DEF Tick
  <1>6. ASSUME entry' # NoEntry
        PROVE  /\ entry # NoEntry
               /\ entry'.form = entry.form /\ entry'.code = entry.code
    <2>1. entry # NoEntry /\ entry' = [entry EXCEPT !.left = entry.left - 1]
      BY <1>6 DEF Tick
    <2> QED BY <2>1 DEF TypeOK, Entry
  <1> QED BY <1>0, <1>2, <1>4, <1>5, <1>6, OlderType

\* Codes come from drawing alone.
LEMMA DrawnStep ==
    ASSUME TypeOK, RequestInv, DrawnInv, [Next]_vars
    PROVE  DrawnInv'
  <1> USE DEF registration, history
  <1>1. drawn \subseteq drawn'
    BY DEF Next, vars, Registering, Changing, Register, Resend, Store, Draw, Mail, VerifyCode,
           CheckVerified, OpenPicture, CreateUser, RemovePicture, Forget, AskChangeCode,
           WriteChangeCode, CheckCooldown, QueueMail, SetCooldown, AskResetCode, WriteResetCode,
           Change, VerifyReset, Reset, ReadAgain, ClearChange, ClearReset, Clear, EditProfile,
           SaveProfile, Abort, Tick
  <1>2. ASSUME NEW x \in Rows'
        PROVE  {x.change, x.reset} \subseteq drawn' \cup {NoCode}
    <2>1. CASE Rows' \subseteq Rows \cup {NoRow}
      BY <1>1, <1>2, <2>1, NoTypes DEF DrawnInv
    <2>2. ASSUME NEW r \in Requests, NEW c \in Codes, WriteChangeCode(r, c) \/ WriteResetCode(r, c)
          PROVE  {x.change, x.reset} \subseteq drawn' \cup {NoCode}
      <3>1. x \in Rows \/ x = NoRow \/ x = row'
        BY <1>2, <2>2, Written
      <3>2. row \in Rows /\ req[r].copy \in Rows
        BY DEF Rows
      <3>3. {row'.change, row'.reset} \subseteq drawn' \cup {NoCode}
        BY <2>2, <3>2, Written DEF DrawnInv
      <3> QED BY <1>1, <3>1, <3>3, NoTypes DEF DrawnInv
    <2>3. ASSUME NEW r \in Requests, ClearChange(r) \/ ClearReset(r)
          PROVE  {x.change, x.reset} \subseteq drawn' \cup {NoCode}
      <3>1. x \in Rows \/ x = NoRow \/ x = row'
        BY <1>2, <2>3, Cleared
      <3>2. req[r].copy \in Rows
        BY DEF Rows
      <3>3. {row'.change, row'.reset} \subseteq drawn' \cup {NoCode}
        BY <1>1, <2>3, <3>2, Cleared DEF DrawnInv
      <3> QED BY <1>1, <3>1, <3>3, NoTypes DEF DrawnInv
    <2>4. CASE Tick
      BY <1>1, <1>2, <2>4, Ticked DEF DrawnInv
    <2> QED BY <2>1, <2>2, <2>3, <2>4, RowSteps
  <1>3. ASSUME NEW q \in Requests
        PROVE  req'[q].code \in drawn' \cup {NoCode}
    <2>0. req[q].code \in drawn' \cup {NoCode}
      BY <1>1 DEF DrawnInv
    <2>1. ASSUME NEW r \in Requests, \A p \in Requests : p # r => req'[p] = req[p],
                 q = r => req'[q].code \in drawn' \cup {NoCode}
          PROVE  req'[q].code \in drawn' \cup {NoCode}
      BY <2>0, <2>1
    <2>2. ASSUME NEW r \in Requests, Done(r) \/ \E at \in Ats : GoTo(r, at)
          PROVE  req'[q].code \in drawn' \cup {NoCode}
      BY <2>0, <2>1, <2>2, Moved, NoTypes
    <2>3. ASSUME NEW r \in Requests, Mail(r) \/ CheckVerified(r) \/ CreateUser(r)
                     \/ RemovePicture(r) \/ Forget(r) \/ CheckCooldown(r) \/ QueueMail(r)
                     \/ SetCooldown(r) \/ Abort(r) \/ ClearChange(r) \/ ClearReset(r)
                     \/ SaveProfile(r)
          PROVE  req'[q].code \in drawn' \cup {NoCode}
      <3>1. Done(r) \/ \E at \in Ats : GoTo(r, at)
        BY <2>3 DEF Mail, CheckVerified, CreateUser, RemovePicture, Forget, CheckCooldown,
                    QueueMail, SetCooldown, Abort, Answer, ClearChange, ClearReset, Clear,
                    SaveProfile, Ats
      <3> QED BY <2>2, <3>1
    <2>4. ASSUME NEW r \in Requests, NEW f \in Forms, Register(r, f)
          PROVE  req'[q].code \in drawn' \cup {NoCode}
      BY <2>1, <2>4, Begun
    <2>5. ASSUME NEW r \in Requests, Resend(r) \/ VerifyCode(r)
          PROVE  req'[q].code \in drawn' \cup {NoCode}
      <3>1. entry # NoEntry
        BY <2>5 DEF Resend, VerifyCode
      <3> QED BY <1>1, <2>1, <2>5, <3>1, Begun DEF DrawnInv
    <2>6. ASSUME NEW r \in Requests, Change(r) \/ Reset(r)
          PROVE  req'[q].code \in drawn' \cup {NoCode}
      <3>1. row \in Rows
        BY DEF Rows
      <3> QED BY <1>1, <2>1, <2>6, <3>1, Begun DEF DrawnInv
    <2>7. ASSUME NEW r \in Requests, AskChangeCode(r) \/ AskResetCode(r) \/ EditProfile(r)
          PROVE  req'[q].code \in drawn' \cup {NoCode}
      BY <2>1, <2>7, Begun DEF AskChangeCode, AskResetCode, EditProfile, Ats
    <2>8. ASSUME NEW r \in Requests, NEW c \in Codes, Store(r, c) \/ WriteChangeCode(r, c)
                                                     \/ WriteResetCode(r, c)
          PROVE  req'[q].code \in drawn' \cup {NoCode}
      <3>1. c \in drawn'
        BY <2>8 DEF Store, WriteChangeCode, WriteResetCode, Draw
      <3> QED BY <2>1, <2>8, <3>1, Changed
    <2>9. ASSUME NEW r \in Requests, OpenPicture(r) \/ ReadAgain(r)
          PROVE  req'[q].code \in drawn' \cup {NoCode}
      BY <2>0, <2>1, <2>9, Changed
    <2>10. CASE Tick
      BY <2>0, <2>10, Ticked
    <2>11. CASE req' = req
      BY <2>0, <2>11
    <2> QED BY <2>3, <2>4, <2>5, <2>6, <2>7, <2>8, <2>9, <2>10, <2>11
            DEF Next, vars, Registering, Changing, VerifyReset
  <1>4. ASSUME entry' # NoEntry
        PROVE  entry'.code \in drawn'
    <2>1. CASE entry' = entry
      BY <1>1, <1>4, <2>1 DEF DrawnInv
    <2>2. ASSUME NEW r \in Requests, NEW c \in Codes, Store(r, c)
          PROVE  entry'.code \in drawn'
      BY <2>2 DEF Store, Draw
    <2>3. CASE Tick
      BY <1>1, <1>4, <2>3, Ticked DEF DrawnInv
    <2>4. ASSUME NEW r \in Requests, Forget(r)
          PROVE  FALSE
      BY <1>4, <2>4 DEF Forget
    <2> QED BY <2>1, <2>2, <2>3, <2>4
            DEF Next, vars, Registering, Changing, Register, Resend, Mail, VerifyCode,
                CheckVerified, OpenPicture, CreateUser, RemovePicture, AskChangeCode,
                WriteChangeCode, CheckCooldown, QueueMail, SetCooldown, AskResetCode,
                WriteResetCode, Change, VerifyReset, Reset, ReadAgain, ClearChange, ClearReset,
                Clear, EditProfile, SaveProfile, Abort
  <1>5. ASSUME NEW m \in mailed'
        PROVE  m[1] \in drawn'
    <2>1. CASE mailed' = mailed
      BY <1>1, <1>5, <2>1 DEF DrawnInv
    <2>2. ASSUME NEW r \in Requests, Mail(r) \/ QueueMail(r), mailed' # mailed
          PROVE  m[1] \in drawn'
      <3>1. req[r].code \in Codes
        BY <2>2 DEF Mail, QueueMail, RequestInv, At
      <3>2. req[r].code \in drawn
        BY <3>1, CodesAssumption DEF DrawnInv
      <3>3. m \in mailed \/ m[1] = req[r].code
        BY <1>5, <2>2 DEF Mail, QueueMail
      <3> QED BY <1>1, <3>2, <3>3 DEF DrawnInv
    <2> QED BY <2>1, <2>2
            DEF Next, vars, Registering, Changing, Register, Resend, Store, VerifyCode,
                CheckVerified, OpenPicture, CreateUser, RemovePicture, Forget, AskChangeCode,
                WriteChangeCode, CheckCooldown, SetCooldown, AskResetCode,
                WriteResetCode, Change, VerifyReset, Reset, ReadAgain, ClearChange, ClearReset,
                Clear, EditProfile, SaveProfile, Abort, Tick
  <1>6. dead' \subseteq drawn'
    <2>1. CASE dead' = dead
      BY <1>1, <2>1 DEF DrawnInv
    <2>2. ASSUME NEW r \in Requests, ClearChange(r) \/ ClearReset(r)
          PROVE  dead' \subseteq drawn'
      <3>1. req[r].code \in Codes
        BY <2>2 DEF ClearChange, ClearReset, RequestInv, At
      <3>2. req[r].code \in drawn
        BY <3>1, CodesAssumption DEF DrawnInv
      <3> QED BY <1>1, <2>2, <3>2, Cleared DEF DrawnInv
    <2>3. CASE Tick
      BY <2>1, <2>3 DEF Tick
    <2>4. ASSUME NEW r \in Requests, NEW c \in Codes, WriteChangeCode(r, c) \/ WriteResetCode(r, c)
          PROVE  dead' = dead
      BY <2>4, Written
    <2> QED BY <2>1, <2>2, <2>3, <2>4, RowSteps
  <1> QED BY <1>2, <1>3, <1>4, <1>5, <1>6 DEF DrawnInv

\* The password's codes and the reset's never mix.
LEMMA KindStep ==
    ASSUME TypeOK, RequestInv, DrawnInv, KindInv, [Next]_vars
    PROVE  KindInv'
  <1> USE DEF registration, history
  <1> DEFINE Resets(q) == At(q, "reread") \/ At(q, "clearReset")
  <1>0. row \in Rows /\ \A q \in Requests : req[q].copy \in Rows
    BY DEF Rows
  <1>1. ASSUME NEW x \in Rows', NEW y \in Rows', x.change # NoCode
        PROVE  x.change # y.reset
    <2>1. CASE Rows' \subseteq Rows \cup {NoRow}
      BY <1>1, <2>1, NoTypes DEF KindInv
    <2>2. ASSUME NEW r \in Requests, NEW c \in Codes, WriteChangeCode(r, c)
          PROVE  x.change # y.reset
      <3>1. c \notin drawn /\ c # NoCode
        BY <2>2, CodesAssumption, Written
      <3>2. x.change = c \/ \E z \in Rows : x.change = z.change
        BY <1>0, <1>1, <2>2, Written, NoTypes
      <3>3. y.reset = NoCode \/ \E z \in Rows : y.reset = z.reset
        BY <1>0, <2>2, Written, NoTypes
      <3>4. \A z \in Rows : z.reset # c
        BY <3>1 DEF DrawnInv
      <3> QED BY <1>1, <3>1, <3>2, <3>3, <3>4 DEF KindInv
    <2>3. ASSUME NEW r \in Requests, NEW c \in Codes, WriteResetCode(r, c)
          PROVE  x.change # y.reset
      <3>1. c \notin drawn /\ c # NoCode
        BY <2>3, CodesAssumption, Written
      <3>2. \E z \in Rows : x.change = z.change
        BY <1>0, <1>1, <2>3, Written, NoTypes
      <3>3. y.reset = c \/ y.reset = NoCode \/ \E z \in Rows : y.reset = z.reset
        BY <1>0, <2>3, Written, NoTypes
      <3>4. \A z \in Rows : z.change # c
        BY <3>1 DEF DrawnInv
      <3> QED BY <1>1, <3>1, <3>2, <3>3, <3>4 DEF KindInv
    <2>4. ASSUME NEW r \in Requests, ClearChange(r) \/ ClearReset(r)
          PROVE  x.change # y.reset
      <3>1. \E z \in Rows : x.change = z.change
        BY <1>0, <1>1, <2>4, Cleared, NoTypes
      <3>2. y.reset = NoCode \/ \E z \in Rows : y.reset = z.reset
        BY <1>0, <2>4, Cleared, NoTypes
      <3> QED BY <1>1, <3>1, <3>2 DEF KindInv
    <2>5. CASE Tick
      <3>1. (\E z \in Rows : x.change = z.change) /\ (\E z \in Rows : y.reset = z.reset)
        BY <2>5, Ticked
      <3> QED BY <1>1, <3>1 DEF KindInv
    <2> QED BY <2>1, <2>2, <2>3, <2>4, <2>5, RowSteps
  <1>2. ASSUME NEW x \in Rows', NEW q \in Requests, Resets(q)'
        PROVE  req'[q].code # x.change
    <2>1. /\ req'[q].code \in Codes
          /\ \/ Resets(q) /\ req'[q].code = req[q].code
             \/ row.reset = req'[q].code
      <3>1. ASSUME NEW r \in Requests, \A p \in Requests : p # r => req'[p] = req[p],
                   q = r => req'[q].at \notin {"reread", "clearReset"}
            PROVE  Resets(q) /\ req'[q].code = req[q].code
        BY <1>2, <3>1 DEF At
      <3>2. ASSUME NEW r \in Requests, Done(r) \/ \E at \in Ats \ {"reread", "clearReset"} : GoTo(r, at)
            PROVE  Resets(q) /\ req'[q].code = req[q].code
        BY <3>1, <3>2, Moved, NoTypes
      <3>3. ASSUME NEW r \in Requests, Mail(r) \/ CheckVerified(r) \/ CreateUser(r)
                       \/ RemovePicture(r) \/ Forget(r) \/ CheckCooldown(r) \/ QueueMail(r)
                       \/ SetCooldown(r) \/ Abort(r) \/ ClearChange(r) \/ ClearReset(r)
                       \/ SaveProfile(r)
            PROVE  Resets(q) /\ req'[q].code = req[q].code
        <4>1. Done(r) \/ \E at \in Ats \ {"reread", "clearReset"} : GoTo(r, at)
          BY <3>3 DEF Mail, CheckVerified, CreateUser, RemovePicture, Forget, CheckCooldown,
                      QueueMail, SetCooldown, Abort, Answer, ClearChange, ClearReset, Clear,
                      SaveProfile, Ats
        <4> QED BY <3>2, <4>1
      <3>4. ASSUME NEW r \in Requests, NEW f \in Forms, Register(r, f)
            PROVE  Resets(q) /\ req'[q].code = req[q].code
        BY <3>1, <3>4, Begun
      <3>5. ASSUME NEW r \in Requests, Resend(r) \/ VerifyCode(r) \/ Change(r)
            PROVE  Resets(q) /\ req'[q].code = req[q].code
        BY <3>1, <3>5, Begun
      <3>6. ASSUME NEW r \in Requests, AskChangeCode(r) \/ AskResetCode(r) \/ EditProfile(r)
            PROVE  Resets(q) /\ req'[q].code = req[q].code
        BY <3>1, <3>6, Begun DEF AskChangeCode, AskResetCode, EditProfile, Ats
      <3>7. ASSUME NEW r \in Requests, NEW c \in Codes, Store(r, c) \/ WriteChangeCode(r, c)
                                                       \/ WriteResetCode(r, c)
            PROVE  Resets(q) /\ req'[q].code = req[q].code
        BY <3>1, <3>7, Changed
      <3>8. ASSUME NEW r \in Requests, OpenPicture(r)
            PROVE  Resets(q) /\ req'[q].code = req[q].code
        BY <3>1, <3>8, Changed
      <3>9. ASSUME NEW r \in Requests, ReadAgain(r)
            PROVE  Resets(q) /\ req'[q].code = req[q].code
        BY <1>2, <3>9, Changed DEF ReadAgain, At
      <3>10. ASSUME NEW r \in Requests, Reset(r)
             PROVE  \/ Resets(q) /\ req'[q].code = req[q].code
                    \/ row.reset = req'[q].code
        BY <1>2, <3>10, Begun DEF At
      <3>11. ASSUME Tick
             PROVE  Resets(q) /\ req'[q].code = req[q].code
        BY <1>2, <3>11, Ticked DEF At
      <3>12. ASSUME req' = req
             PROVE  Resets(q) /\ req'[q].code = req[q].code
        BY <1>2, <3>12 DEF At
      <3>13. req'[q].code \in Codes
        BY <1>2, RequestStep DEF RequestInv, At
      <3> QED BY <3>3, <3>4, <3>5, <3>6, <3>7, <3>8, <3>9, <3>10, <3>11, <3>12, <3>13
              DEF Next, vars, Registering, Changing, VerifyReset
    <2>2. \A z \in Rows : req'[q].code # z.change
      BY <1>0, <2>1, CodesAssumption DEF KindInv
    <2>3. req'[q].code \in drawn
      BY <1>0, <2>1, CodesAssumption DEF DrawnInv
    <2>4. x.change = NoCode \/ (\E z \in Rows : x.change = z.change) \/ x.change \notin drawn
      BY <1>0, RowSteps, Written, Cleared, Ticked, NoTypes
    <2> QED BY <2>1, <2>2, <2>3, <2>4, CodesAssumption
  <1> QED BY <1>1, <1>2 DEF KindInv

\* A code that was used alone stays out of the rows.
LEMMA DeadStep ==
    ASSUME TypeOK, RequestInv, DrawnInv, KindInv, DeadInv, [Next]_vars
    PROVE  DeadInv'
  <1> USE DEF registration, history
  <1>0. row \in Rows /\ \A q \in Requests : req[q].copy \in Rows
    BY DEF Rows
  <1>1. ASSUME NEW x \in Rows'
        PROVE  {x.change, x.reset} \cap dead' = {}
    <2>0. NoCode \notin dead
      BY CodesAssumption DEF TypeOK
    <2>1. ASSUME x \in Rows \cup {NoRow}, dead' = dead
          PROVE  {x.change, x.reset} \cap dead' = {}
      BY <2>0, <2>1, NoTypes DEF DeadInv
    <2>2. ASSUME NEW r \in Requests, NEW c \in Codes, WriteChangeCode(r, c) \/ WriteResetCode(r, c)
          PROVE  {x.change, x.reset} \cap dead' = {}
      <3>1. x \in Rows \cup {NoRow} \/ x = row'
        BY <2>2, Written
      <3>2. c \notin dead /\ dead' = dead
        BY <2>2, Written DEF DrawnInv
      <3>3. {row'.change, row'.reset} \cap dead = {}
        BY <1>0, <2>2, <3>2, Written DEF DeadInv
      <3> QED BY <2>1, <3>1, <3>2, <3>3
    <2>3. ASSUME NEW r \in Requests, ClearChange(r) \/ ClearReset(r)
          PROVE  {x.change, x.reset} \cap dead' = {}
      <3>1. /\ x \in Rows \cup {NoRow} \/ x = row'
            /\ dead' \subseteq dead \cup {req[r].code}
        BY <2>3, Cleared
      <3>2. {row'.change, row'.reset} \cap dead = {}
        BY <1>0, <2>0, <2>3, Cleared DEF DeadInv
      <3>3. CASE dead' = dead
        BY <2>1, <3>1, <3>2, <3>3
      <3>4. CASE \A q \in Requests : q # r => At(q, "idle")
        <4>1. req[r].code \in Codes
          BY <2>3 DEF ClearChange, ClearReset, RequestInv, At
        <4>2. req[r].code # NoCode
          BY <4>1, CodesAssumption
        <4>3. req[r].code \notin {row'.change, row'.reset}
          <5>1. ASSUME ClearChange(r)
                PROVE  req[r].code # req[r].copy.reset
            BY <1>0, <4>2, <5>1 DEF ClearChange, DeadInv, KindInv
          <5>2. ASSUME ClearReset(r)
                PROVE  req[r].code # req[r].copy.change
            BY <1>0, <5>2 DEF ClearReset, KindInv
          <5> QED BY <2>3, <4>2, <5>1, <5>2, Cleared
        <4>4. \/ x = row' \/ x = NoRow
              \/ \E q \in Requests : q # r /\ x = req[q].copy
          BY <2>3, Cleared, NoTypes DEF Rows
        <4>5. \/ x = row'
              \/ x.change = NoCode /\ x.reset = NoCode
          <5>1. \A q \in Requests : q # r => req[q].copy.change = NoCode /\ req[q].copy.reset = NoCode
            BY <3>4 DEF RequestInv
          <5>2. NoRow.change = NoCode /\ NoRow.reset = NoCode
            BY NoTypes
          <5> QED BY <4>4, <5>1, <5>2
        <4> QED BY <2>0, <3>1, <3>2, <4>2, <4>3, <4>5
      <3> QED BY <2>3, <3>3, <3>4, Cleared
    <2>4. ASSUME Tick
          PROVE  {x.change, x.reset} \cap dead' = {}
      <3>1. dead' = dead
        BY <2>4 DEF Tick
      <3> QED BY <2>4, <3>1, Ticked DEF DeadInv
    <2> QED BY <2>1, <2>2, <2>3, <2>4, RowSteps
  <1>2. ASSUME NEW q \in Requests, At(q, "clearChange")'
        PROVE  req'[q].copy.change = req'[q].code
    <2>0. At(q, "clearChange") => req[q].copy.change = req[q].code
      BY DEF DeadInv
    <2>1. ASSUME NEW r \in Requests, \A p \in Requests : p # r => req'[p] = req[p],
                 q = r => req'[q].at # "clearChange"
          PROVE  req'[q].copy.change = req'[q].code
      BY <1>2, <2>0, <2>1 DEF At
    <2>2. ASSUME NEW r \in Requests, Done(r) \/ \E at \in Ats \ {"clearChange"} : GoTo(r, at)
          PROVE  req'[q].copy.change = req'[q].code
      BY <2>1, <2>2, Moved, NoTypes
    <2>3. ASSUME NEW r \in Requests, Mail(r) \/ CheckVerified(r) \/ CreateUser(r)
                     \/ RemovePicture(r) \/ Forget(r) \/ CheckCooldown(r) \/ QueueMail(r)
                     \/ SetCooldown(r) \/ Abort(r) \/ ClearChange(r) \/ ClearReset(r)
                     \/ SaveProfile(r)
          PROVE  req'[q].copy.change = req'[q].code
      <3>1. Done(r) \/ \E at \in Ats \ {"clearChange"} : GoTo(r, at)
        BY <2>3 DEF Mail, CheckVerified, CreateUser, RemovePicture, Forget, CheckCooldown,
                    QueueMail, SetCooldown, Abort, Answer, ClearChange, ClearReset, Clear,
                    SaveProfile, Ats
      <3> QED BY <2>2, <3>1
    <2>4. ASSUME NEW r \in Requests, NEW f \in Forms, Register(r, f)
          PROVE  req'[q].copy.change = req'[q].code
      BY <2>1, <2>4, Begun
    <2>5. ASSUME NEW r \in Requests, Resend(r) \/ VerifyCode(r) \/ Reset(r)
          PROVE  req'[q].copy.change = req'[q].code
      BY <2>1, <2>5, Begun
    <2>6. ASSUME NEW r \in Requests, Change(r)
          PROVE  req'[q].copy.change = req'[q].code
      <3>1. CASE q = r
        BY <2>6, <3>1, Begun
      <3>2. CASE q # r
        BY <2>1, <2>6, <3>2, Begun
      <3> QED BY <3>1, <3>2
    <2>7. ASSUME NEW r \in Requests, AskChangeCode(r) \/ AskResetCode(r) \/ EditProfile(r)
          PROVE  req'[q].copy.change = req'[q].code
      BY <2>1, <2>7, Begun DEF AskChangeCode, AskResetCode, EditProfile, Ats
    <2>8. ASSUME NEW r \in Requests, NEW c \in Codes, Store(r, c) \/ WriteChangeCode(r, c)
                                                     \/ WriteResetCode(r, c)
          PROVE  req'[q].copy.change = req'[q].code
      BY <2>1, <2>8, Changed
    <2>9. ASSUME NEW r \in Requests, OpenPicture(r) \/ ReadAgain(r)
          PROVE  req'[q].copy.change = req'[q].code
      BY <2>1, <2>9, Changed
    <2>10. ASSUME Tick
           PROVE  req'[q].copy.change = req'[q].code
      BY <1>2, <2>0, <2>10, Ticked DEF At
    <2>11. ASSUME req' = req
           PROVE  req'[q].copy.change = req'[q].code
      BY <1>2, <2>0, <2>11 DEF At
    <2> QED BY <2>3, <2>4, <2>5, <2>6, <2>7, <2>8, <2>9, <2>10, <2>11
            DEF Next, vars, Registering, Changing, VerifyReset
  <1> QED BY <1>1, <1>2 DEF DeadInv

\* A code's time is replaced only with the code recorded as renewed.
LEMMA TimedStep ==
    ASSUME TypeOK, DrawnInv, TimedInv, [Next]_vars
    PROVE  TimedInv'
  <1>0. row \in Rows /\ \A q \in Requests : req[q].copy \in Rows
    BY DEF Rows
  <1>1. ASSUME NEW x \in Rows', NEW c \in {x.change, x.reset} \ {NoCode}, c \notin renewed'
        PROVE  x.left = life'[c]
    <2>1. ASSUME Rows' \subseteq Rows \cup {NoRow}, UNCHANGED <<life, renewed, dead>>
          PROVE  x.left = life'[c]
      BY <1>1, <2>1, NoTypes DEF TimedInv
    <2>2. ASSUME NEW r \in Requests, NEW d \in Codes, WriteChangeCode(r, d) \/ WriteResetCode(r, d)
          PROVE  x.left = life'[c]
      <3>1. /\ renewed \subseteq renewed'
            /\ WriteChangeCode(r, d) => row.reset = NoCode \/ row.reset \in renewed'
            /\ WriteResetCode(r, d) => req[r].copy.change = NoCode \/ req[r].copy.change \in renewed'
        BY <2>2 DEF WriteChangeCode, WriteResetCode
      <3>2. CASE x \in Rows
        <4>1. c \in drawn
          BY <3>2 DEF DrawnInv
        <4>2. life'[c] = life[c]
          <5>1. c \in Codes /\ c # d
            BY <2>2, <4>1, Written DEF TypeOK
          <5> QED BY <2>2, <5>1, Written
        <4> QED BY <1>1, <3>1, <3>2, <4>2 DEF TimedInv
      <3>3. CASE x = NoRow
        BY <3>3, NoTypes
      <3>4. CASE x = row'
        <4>1. c = d
          BY <1>1, <2>2, <3>1, <3>4, Written
        <4> QED BY <2>2, <3>4, <4>1, Written
      <3> QED BY <2>2, <3>2, <3>3, <3>4, Written
    <2>3. ASSUME NEW r \in Requests, ClearChange(r) \/ ClearReset(r)
          PROVE  x.left = life'[c]
      <3>1. renewed \subseteq renewed' /\ life' = life
        BY <2>3, Cleared
      <3>2. x # row'
        BY <1>1, <2>3, Cleared
      <3>3. x \in Rows
        BY <2>3, <3>2, Cleared, NoTypes
      <3> QED BY <1>1, <3>1, <3>3 DEF TimedInv
    <2>4. ASSUME Tick
          PROVE  x.left = life'[c]
      <3>1. PICK y \in Rows : x.change = y.change /\ x.reset = y.reset /\ x.left = Down(y.left)
        BY <2>4, Ticked
      <3>2. renewed' = renewed
        BY <2>4 DEF Tick
      <3>3. y.left = life[c]
        BY <1>1, <3>1, <3>2 DEF TimedInv
      <3>4. c \in Codes
        BY <3>1 DEF DrawnInv, TypeOK
      <3> QED BY <2>4, <3>1, <3>3, <3>4, Ticked
    <2> QED BY <2>1, <2>2, <2>3, <2>4, RowSteps
  <1> QED BY <1>1 DEF TimedInv

\* A code is accepted only while the time beside it has not ended.
LEMMA LateStep ==
    ASSUME TypeOK, TimedInv, LateOnlyIfRenewed, [Next]_vars
    PROVE  LateOnlyIfRenewed'
  <1> USE DEF registration, history
  <1>1. renewed \subseteq renewed'
    <2>1. ASSUME NEW r \in Requests, NEW c \in Codes, WriteChangeCode(r, c) \/ WriteResetCode(r, c)
          PROVE  renewed \subseteq renewed'
      BY <2>1 DEF WriteChangeCode, WriteResetCode
    <2>2. ASSUME NEW r \in Requests, ClearChange(r) \/ ClearReset(r)
          PROVE  renewed \subseteq renewed'
      BY <2>2, Cleared
    <2>3. ASSUME Tick
          PROVE  renewed \subseteq renewed'
      BY <2>3 DEF Tick
    <2> QED BY <2>1, <2>2, <2>3, RowSteps
  <1>2. ASSUME NEW c, Accept(c), Given(c), row.left # 0, c \in {row.change, row.reset}
        PROVE  late' \subseteq renewed
    <2>1. c \in Codes
      BY <1>2 DEF Given, TypeOK
    <2>2. row \in Rows /\ c # NoCode
      BY <2>1, CodesAssumption DEF Rows
    <2>3. life[c] = 0 => c \in renewed
      BY <1>2, <2>2 DEF TimedInv
    <2> QED BY <1>2, <2>3 DEF Accept, LateOnlyIfRenewed
  <1>3. ASSUME NEW r \in Requests, Change(r) \/ VerifyReset(r) \/ Reset(r)
        PROVE  late' \subseteq renewed
    <2>1. CASE Change(r)
      BY <1>2, <2>1 DEF Change
    <2>2. CASE VerifyReset(r) \/ Reset(r)
      <3>1. Given(row.reset) /\ row.left # 0 /\ Accept(row.reset)
        BY <2>2, CodesAssumption DEF VerifyReset, Reset, ResetGood
      <3> QED BY <1>2, <3>1
    <2> QED BY <1>3, <2>1, <2>2
  <1>4. late' = late \/ late' \subseteq renewed
    BY <1>3
       DEF Next, vars, Registering, Changing, Register, Resend, Store, Mail, VerifyCode,
           CheckVerified, OpenPicture, CreateUser, RemovePicture, Forget, AskChangeCode,
           WriteChangeCode, CheckCooldown, QueueMail, SetCooldown, AskResetCode, WriteResetCode,
           ReadAgain, ClearChange, ClearReset, Clear, EditProfile, SaveProfile, Abort, Tick
  <1> QED BY <1>1, <1>4 DEF LateOnlyIfRenewed

\* Registered pictures stay until the account has one.
LEMMA PictureStep ==
    ASSUME TypeOK, RequestInv, PictureInv, [Next]_vars
    PROVE  PictureInv'
  <1> USE DEF registration, history
  <1> DEFINE Waits(q) == /\ q.at \in {"store", "check", "open"} => q.form \in pictures'
                         /\ q.at = "create" => q.picture
                         /\ q.at # "tidy"
  <1> SUFFICES ASSUME ~Verified'
               PROVE  /\ entry' # NoEntry => entry'.form \in pictures'
                      /\ \A q \in Requests : Waits(req'[q])
    BY DEF PictureInv, At
  <1>0. account' = account \/ (account' \in Account /\ account' # NoAccount)
    <2>1. ASSUME NEW r \in Requests, CreateUser(r)
          PROVE  account' = account \/ account' # NoAccount
      <3>1. req[r].form \in Forms
        BY <2>1 DEF CreateUser, RequestInv, At
      <3> QED BY <2>1, <3>1, CodesAssumption DEF CreateUser, NoAccount
    <2>2. account' \in Account
      BY TypeStep DEF TypeOK
    <2> QED BY <2>1, <2>2
            DEF Next, vars, Registering, Changing, Register, Resend, Store, Mail, VerifyCode,
                CheckVerified, OpenPicture, RemovePicture, Forget, AskChangeCode,
                WriteChangeCode, CheckCooldown, QueueMail, SetCooldown, AskResetCode,
                WriteResetCode, Change, VerifyReset, Reset, ReadAgain, ClearChange, ClearReset,
                Clear, EditProfile, SaveProfile, Abort, Tick
  <1>1. ~Verified /\ account' = account
    BY <1>0 DEF Verified
  <1>2. /\ entry # NoEntry => entry.form \in pictures
        /\ \A q \in Requests : /\ req[q].at \in {"store", "check", "open"} => req[q].form \in pictures
                               /\ req[q].at = "create" => req[q].picture
                               /\ req[q].at # "tidy"
    BY <1>1 DEF PictureInv, At
  <1>3. pictures \subseteq pictures'
    <2>1. ASSUME NEW r \in Requests, RemovePicture(r)
          PROVE  FALSE
      BY <1>2, <2>1 DEF RemovePicture, At
    <2> QED BY <2>1
            DEF Next, vars, Registering, Changing, Register, Resend, Store, Mail, VerifyCode,
                CheckVerified, OpenPicture, CreateUser, Forget, AskChangeCode,
                WriteChangeCode, CheckCooldown, QueueMail, SetCooldown, AskResetCode,
                WriteResetCode, Change, VerifyReset, Reset, ReadAgain, ClearChange, ClearReset,
                Clear, EditProfile, SaveProfile, Abort, Tick
  <1>4. ASSUME entry' # NoEntry
        PROVE  entry'.form \in pictures'
    <2>1. CASE entry' = entry
      BY <1>2, <1>3, <1>4, <2>1
    <2>2. ASSUME NEW r \in Requests, NEW c \in Codes, Store(r, c)
          PROVE  entry'.form \in pictures'
      <3>1. entry'.form = req[r].form /\ req[r].at = "store"
        BY <2>2 DEF Store, At
      <3> QED BY <1>2, <1>3, <3>1
    <2>3. ASSUME Tick
          PROVE  entry'.form \in pictures'
      BY <1>2, <1>3, <1>4, <2>3, Ticked
    <2>4. ASSUME NEW r \in Requests, Forget(r)
          PROVE  FALSE
      BY <1>4, <2>4 DEF Forget
    <2> QED BY <2>1, <2>2, <2>3, <2>4
            DEF Next, vars, Registering, Changing, Register, Resend, Mail, VerifyCode,
                CheckVerified, OpenPicture, CreateUser, RemovePicture, AskChangeCode,
                WriteChangeCode, CheckCooldown, QueueMail, SetCooldown, AskResetCode,
                WriteResetCode, Change, VerifyReset, Reset, ReadAgain, ClearChange, ClearReset,
                Clear, EditProfile, SaveProfile, Abort
  <1>5. ASSUME NEW q \in Requests
        PROVE  Waits(req'[q])
    <2>0. Waits(req[q])
      BY <1>2, <1>3
    <2>1. ASSUME NEW r \in Requests, \A p \in Requests : p # r => req'[p] = req[p], Waits(req'[r])
          PROVE  Waits(req'[q])
      <3>1. CASE q = r
        BY <2>1, <3>1
      <3>2. CASE q # r
        BY <2>0, <2>1, <3>2
      <3> QED BY <3>1, <3>2
    <2>2. ASSUME NEW r \in Requests, \A p \in Requests : p # r => req'[p] = req[p],
                 req'[r].at \in Ats \ {"store", "check", "open", "create", "tidy"}
          PROVE  Waits(req'[q])
      BY <2>1, <2>2
    <2>3. ASSUME NEW r \in Requests,
                 Done(r) \/ \E at \in {"forget", "queue", "cool"} : GoTo(r, at)
          PROVE  Waits(req'[q])
      BY <2>2, <2>3, Moved, NoTypes DEF Ats
    <2>4. ASSUME NEW r \in Requests, Mail(r) \/ RemovePicture(r) \/ Forget(r) \/ CheckCooldown(r)
                     \/ QueueMail(r) \/ SetCooldown(r) \/ Abort(r) \/ ClearChange(r)
                     \/ ClearReset(r) \/ SaveProfile(r)
          PROVE  Waits(req'[q])
      <3>1. Done(r) \/ \E at \in {"forget", "queue", "cool"} : GoTo(r, at)
        BY <2>4 DEF Mail, RemovePicture, Forget, CheckCooldown,
                    QueueMail, SetCooldown, Abort, Answer, ClearChange, ClearReset, Clear,
                    SaveProfile
      <3> QED BY <2>3, <3>1
    <2>5. ASSUME NEW r \in Requests, NEW f \in Forms, Register(r, f)
          PROVE  Waits(req'[q])
      <3>1. f \in pictures'
        BY <2>5 DEF Register
      <3> QED BY <2>1, <2>5, <3>1, Begun
    <2>6. ASSUME NEW r \in Requests, Resend(r) \/ VerifyCode(r)
          PROVE  Waits(req'[q])
      <3>1. entry.form \in pictures'
        BY <1>2, <1>3, <2>6 DEF Resend, VerifyCode
      <3> QED BY <2>1, <2>6, <3>1, Begun
    <2>7. ASSUME NEW r \in Requests, CheckVerified(r)
          PROVE  Waits(req'[q])
      <3>1. GoTo(r, "open") /\ req[r].at = "check"
        BY <1>1, <2>7 DEF CheckVerified, At
      <3>2. /\ req'[r].at = "open" /\ req'[r].form = req[r].form
            /\ \A p \in Requests : p # r => req'[p] = req[p]
        BY <3>1, Moved DEF Ats
      <3>3. req[r].form \in pictures'
        BY <1>2, <1>3, <3>1
      <3> QED BY <2>1, <3>2, <3>3
    <2>8. ASSUME NEW r \in Requests, OpenPicture(r)
          PROVE  Waits(req'[q])
      <3>1. req[r].form \in pictures
        BY <1>2, <2>8 DEF OpenPicture, At
      <3> QED BY <2>1, <2>8, <3>1, Changed
    <2>9. ASSUME NEW r \in Requests, CreateUser(r)
          PROVE  FALSE
      <3>1. account' # NoAccount
        <4>1. req[r].form \in Forms
          BY <2>9 DEF CreateUser, RequestInv, At
        <4> QED BY <1>1, <2>9, <4>1, CodesAssumption DEF CreateUser, NoAccount
      <3> QED BY <1>1, <3>1 DEF Verified
    <2>10. ASSUME NEW r \in Requests, AskChangeCode(r) \/ AskResetCode(r) \/ EditProfile(r)
                      \/ Change(r) \/ Reset(r)
           PROVE  FALSE
      BY <1>1, <2>10 DEF AskChangeCode, AskResetCode, EditProfile, Change, Reset, Read
    <2>11. ASSUME NEW r \in Requests, NEW c \in Codes, Store(r, c) \/ WriteChangeCode(r, c)
                                                      \/ WriteResetCode(r, c)
           PROVE  Waits(req'[q])
      BY <2>2, <2>11, Changed DEF Ats
    <2>12. ASSUME NEW r \in Requests, ReadAgain(r)
           PROVE  Waits(req'[q])
      BY <2>2, <2>12, Changed DEF Ats
    <2>13. ASSUME Tick
           PROVE  Waits(req'[q])
      BY <2>0, <2>13, Ticked
    <2>14. ASSUME req' = req
           PROVE  Waits(req'[q])
      BY <2>0, <2>14
    <2> QED BY <2>4, <2>5, <2>6, <2>7, <2>8, <2>9, <2>10, <2>11, <2>12, <2>13, <2>14
            DEF Next, vars, Registering, Changing, VerifyReset
  <1> QED BY <1>4, <1>5

\* A code is mailed with one registration, and it stays the registration's.
LEMMA FormStep ==
    ASSUME TypeOK, RequestInv, DrawnInv, FormInv, [Next]_vars
    PROVE  FormInv'
  <1> USE DEF registration, history
  <1> DEFINE Pair(q) == <<q.code, q.form>>
             Creates(q) == q.at \in {"check", "open", "create"}
  <1>0. mailed \subseteq mailed'
    BY DEF Next, vars, Registering, Changing, Register, Resend, Store, Mail, VerifyCode,
           CheckVerified, OpenPicture, CreateUser, RemovePicture, Forget, AskChangeCode,
           WriteChangeCode, CheckCooldown, QueueMail, SetCooldown, AskResetCode, WriteResetCode,
           Change, VerifyReset, Reset, ReadAgain, ClearChange, ClearReset, Clear, EditProfile,
           SaveProfile, Abort, Tick
  <1>1. ASSUME NEW q \in Requests, Creates(req'[q])
        PROVE  Pair(req'[q]) \in mailed'
    <2>0. ASSUME Creates(req[q])
          PROVE  Pair(req[q]) \in mailed'
      BY <1>0, <2>0 DEF FormInv
    <2>1. ASSUME NEW r \in Requests, \A p \in Requests : p # r => req'[p] = req[p],
                 Creates(req'[r]) => Pair(req'[r]) \in mailed'
          PROVE  Pair(req'[q]) \in mailed'
      <3>1. CASE q = r
        BY <1>1, <2>1, <3>1
      <3>2. CASE q # r
        BY <1>1, <2>0, <2>1, <3>2
      <3> QED BY <3>1, <3>2
    <2>2. ASSUME NEW r \in Requests,
                 Done(r) \/ \E at \in {"tidy", "forget", "queue", "cool"} : GoTo(r, at)
          PROVE  Pair(req'[q]) \in mailed'
      <3>1. /\ \A p \in Requests : p # r => req'[p] = req[p]
            /\ ~Creates(req'[r])
        BY <2>2, Moved, NoTypes DEF Ats
      <3> QED BY <2>1, <3>1
    <2>3. ASSUME NEW r \in Requests, Mail(r) \/ CreateUser(r) \/ RemovePicture(r) \/ Forget(r)
                     \/ CheckCooldown(r) \/ QueueMail(r) \/ SetCooldown(r) \/ Abort(r)
                     \/ ClearChange(r) \/ ClearReset(r) \/ SaveProfile(r)
          PROVE  Pair(req'[q]) \in mailed'
      <3>1. Done(r) \/ \E at \in {"tidy", "forget", "queue", "cool"} : GoTo(r, at)
        BY <2>3 DEF Mail, CreateUser, RemovePicture, Forget, CheckCooldown,
                    QueueMail, SetCooldown, Abort, Answer, ClearChange, ClearReset, Clear,
                    SaveProfile
      <3> QED BY <2>2, <3>1
    <2>4. ASSUME NEW r \in Requests, NEW f \in Forms, Register(r, f)
          PROVE  Pair(req'[q]) \in mailed'
      <3>1. /\ \A p \in Requests : p # r => req'[p] = req[p]
            /\ ~Creates(req'[r])
        BY <2>4, Begun
      <3> QED BY <2>1, <3>1
    <2>5. ASSUME NEW r \in Requests, Resend(r) \/ Change(r) \/ Reset(r)
          PROVE  Pair(req'[q]) \in mailed'
      <3>1. /\ \A p \in Requests : p # r => req'[p] = req[p]
            /\ ~Creates(req'[r])
        BY <2>5, Begun
      <3> QED BY <2>1, <3>1
    <2>6. ASSUME NEW r \in Requests, VerifyCode(r)
          PROVE  Pair(req'[q]) \in mailed'
      <3>1. PICK m \in mailed : m[1] = entry.code
        BY <2>6 DEF VerifyCode, Given
      <3>2. m = <<m[1], m[2]>>
        BY DEF TypeOK
      <3>3. <<entry.code, entry.form>> \in mailed'
        BY <1>0, <2>6, <3>1, <3>2 DEF VerifyCode, FormInv
      <3>4. /\ \A p \in Requests : p # r => req'[p] = req[p]
            /\ Pair(req'[r]) \in mailed'
        BY <2>6, <3>3, Begun
      <3> QED BY <2>1, <3>4
    <2>7. ASSUME NEW r \in Requests, CheckVerified(r)
          PROVE  Pair(req'[q]) \in mailed'
      <3>1. Creates(req[r]) /\ (GoTo(r, "forget") \/ GoTo(r, "open"))
        BY <2>7 DEF CheckVerified, At
      <3>2. /\ \A p \in Requests : p # r => req'[p] = req[p]
            /\ Pair(req'[r]) = Pair(req[r])
        BY <3>1, Moved DEF Ats
      <3>3. Pair(req[r]) \in mailed'
        BY <1>0, <3>1 DEF FormInv
      <3> QED BY <2>1, <3>2, <3>3
    <2>8. ASSUME NEW r \in Requests, OpenPicture(r)
          PROVE  Pair(req'[q]) \in mailed'
      <3>1. /\ \A p \in Requests : p # r => req'[p] = req[p]
            /\ Pair(req'[r]) = Pair(req[r])
        BY <2>8, Changed
      <3>2. Pair(req[r]) \in mailed'
        BY <1>0, <2>8 DEF FormInv, OpenPicture, At
      <3> QED BY <2>1, <3>1, <3>2
    <2>9. ASSUME NEW r \in Requests, AskChangeCode(r) \/ AskResetCode(r) \/ EditProfile(r)
          PROVE  Pair(req'[q]) \in mailed'
      <3>1. /\ \A p \in Requests : p # r => req'[p] = req[p]
            /\ ~Creates(req'[r])
        BY <2>9, Begun DEF AskChangeCode, AskResetCode, EditProfile, Ats
      <3> QED BY <2>1, <3>1
    <2>10. ASSUME NEW r \in Requests, NEW c \in Codes, Store(r, c) \/ WriteChangeCode(r, c)
                                                      \/ WriteResetCode(r, c)
           PROVE  Pair(req'[q]) \in mailed'
      <3>1. /\ \A p \in Requests : p # r => req'[p] = req[p]
            /\ ~Creates(req'[r])
        BY <2>10, Changed
      <3> QED BY <2>1, <3>1
    <2>11. ASSUME NEW r \in Requests, ReadAgain(r)
           PROVE  Pair(req'[q]) \in mailed'
      <3>1. /\ \A p \in Requests : p # r => req'[p] = req[p]
            /\ ~Creates(req'[r])
        BY <2>11, Changed
      <3> QED BY <2>1, <3>1
    <2>12. ASSUME Tick
           PROVE  Pair(req'[q]) \in mailed'
      <3>1. Pair(req'[q]) = Pair(req[q]) /\ Creates(req[q])
        BY <1>1, <2>12, Ticked
      <3> QED BY <2>0, <3>1
    <2>13. ASSUME req' = req
           PROVE  Pair(req'[q]) \in mailed'
      BY <1>1, <2>0, <2>13
    <2> QED BY <2>3, <2>4, <2>5, <2>6, <2>7, <2>8, <2>9, <2>10, <2>11, <2>12, <2>13
            DEF Next, vars, Registering, Changing, VerifyReset
  <1> DEFINE Ok(q) == /\ q.at = "mail" /\ q.code = entry'.code => q.form = entry'.form
                      /\ q.at \in {"cooldown", "queue"} => q.code # entry'.code
             Entered == /\ \A m \in mailed' : m[1] = entry'.code => m[2] = entry'.form
                        /\ \A q \in Requests : Ok(req'[q])
  <1>2. ASSUME NEW r \in Requests, NEW c \in Codes, Store(r, c)
        PROVE  Entered
    <2>1. entry'.code = c /\ entry'.form = req[r].form /\ mailed' = mailed /\ c \notin drawn
      BY <1>2 DEF Store, Draw
    <2>2. \A m \in mailed' : m[1] # entry'.code
      BY <2>1 DEF DrawnInv
    <2>3. Ok(req'[r])
      BY <1>2, <2>1, Changed
    <2>4. ASSUME NEW q \in Requests, q # r
          PROVE  Ok(req'[q])
      <3>1. req'[q] = req[q] /\ req[q].code # c
        BY <1>2, <2>1, <2>4, Changed, CodesAssumption DEF DrawnInv
      <3> QED BY <2>1, <3>1
    <2> QED BY <2>2, <2>3, <2>4
  <1>3. ASSUME entry # NoEntry, entry'.code = entry.code, entry'.form = entry.form,
               \A r \in Requests, c \in Codes : ~Store(r, c)
        PROVE  Entered
    <2>0. \A q \in Requests : Ok(req[q])
      BY <1>3 DEF FormInv, At
    <2>1. ASSUME NEW m \in mailed', m[1] = entry'.code
          PROVE  m[2] = entry'.form
      <3>1. CASE m \in mailed
        BY <1>3, <2>1, <3>1 DEF FormInv
      <3>2. ASSUME NEW r \in Requests, Mail(r) \/ QueueMail(r), m \notin mailed
            PROVE  m[2] = entry'.form
        <4>1. CASE Mail(r)
          <5>1. m = <<req[r].code, req[r].form>> /\ req[r].at = "mail"
            BY <2>1, <3>2, <4>1 DEF Mail, At
          <5> QED BY <2>0, <2>1, <5>1
        <4>2. CASE QueueMail(r)
          <5>1. m = <<req[r].code, NoForm>> /\ req[r].at = "queue"
            BY <2>1, <3>2, <4>2 DEF QueueMail, At
          <5> QED BY <2>0, <2>1, <5>1
        <4> QED BY <3>2, <4>1, <4>2
      <3>3. mailed' = mailed \/ \E r \in Requests : Mail(r) \/ QueueMail(r)
        BY DEF Next, vars, Registering, Changing, Register, Resend, Store, VerifyCode,
               CheckVerified, OpenPicture, CreateUser, RemovePicture, Forget, AskChangeCode,
               WriteChangeCode, CheckCooldown, SetCooldown, AskResetCode, WriteResetCode,
               Change, VerifyReset, Reset, ReadAgain, ClearChange, ClearReset, Clear, EditProfile,
               SaveProfile, Abort, Tick
      <3> QED BY <2>1, <3>1, <3>2, <3>3
    <2>2. ASSUME NEW q \in Requests
          PROVE  Ok(req'[q])
      <3>1. ASSUME NEW r \in Requests, \A p \in Requests : p # r => req'[p] = req[p], Ok(req'[r])
            PROVE  Ok(req'[q])
        BY <2>0, <3>1
      <3>2. ASSUME NEW r \in Requests, \A p \in Requests : p # r => req'[p] = req[p],
                   req'[r].at \notin {"mail", "cooldown", "queue"}
            PROVE  Ok(req'[q])
        BY <3>1, <3>2
      <3>3. ASSUME NEW r \in Requests,
                   Done(r) \/ \E at \in {"tidy", "forget", "open", "cool"} : GoTo(r, at)
            PROVE  Ok(req'[q])
        BY <3>2, <3>3, Moved, NoTypes DEF Ats
      <3>4. ASSUME NEW r \in Requests, GoTo(r, "queue") /\ At(r, "cooldown")
            PROVE  Ok(req'[q])
        <4>1. /\ \A p \in Requests : p # r => req'[p] = req[p]
              /\ req'[r].at = "queue" /\ req'[r].code = req[r].code
          BY <3>4, Moved DEF Ats
        <4>2. req[r].code # entry'.code
          BY <2>0, <3>4 DEF At
        <4> QED BY <3>1, <4>1, <4>2
      <3>5. ASSUME NEW r \in Requests, Mail(r) \/ CheckVerified(r) \/ CreateUser(r)
                       \/ RemovePicture(r) \/ Forget(r) \/ CheckCooldown(r) \/ QueueMail(r)
                       \/ SetCooldown(r) \/ Abort(r) \/ ClearChange(r) \/ ClearReset(r)
                       \/ SaveProfile(r)
            PROVE  Ok(req'[q])
        <4>1. \/ Done(r) \/ \E at \in {"tidy", "forget", "open", "cool"} : GoTo(r, at)
              \/ GoTo(r, "queue") /\ At(r, "cooldown")
          BY <3>5 DEF Mail, CheckVerified, CreateUser, RemovePicture, Forget, CheckCooldown,
                      QueueMail, SetCooldown, Abort, Answer, ClearChange, ClearReset, Clear,
                      SaveProfile
        <4> QED BY <3>3, <3>4, <4>1
      <3>6. ASSUME NEW r \in Requests, NEW f \in Forms, Register(r, f)
            PROVE  Ok(req'[q])
        BY <3>2, <3>6, Begun
      <3>7. ASSUME NEW r \in Requests, Resend(r) \/ VerifyCode(r) \/ Change(r) \/ Reset(r)
            PROVE  Ok(req'[q])
        BY <3>2, <3>7, Begun
      <3>8. ASSUME NEW r \in Requests, AskChangeCode(r) \/ AskResetCode(r) \/ EditProfile(r)
            PROVE  Ok(req'[q])
        BY <3>2, <3>8, Begun DEF AskChangeCode, AskResetCode, EditProfile, Ats
      <3>9. ASSUME NEW r \in Requests, NEW c \in Codes, WriteChangeCode(r, c) \/ WriteResetCode(r, c)
            PROVE  Ok(req'[q])
        <4>1. c # entry'.code
          BY <1>3, <3>9, Written DEF DrawnInv
        <4> QED BY <3>1, <3>9, <4>1, Changed
      <3>10. ASSUME NEW r \in Requests, OpenPicture(r) \/ ReadAgain(r)
             PROVE  Ok(req'[q])
        BY <3>2, <3>10, Changed
      <3>11. ASSUME Tick
             PROVE  Ok(req'[q])
        BY <2>0, <3>11, Ticked
      <3>12. ASSUME req' = req
             PROVE  Ok(req'[q])
        BY <2>0, <3>12
      <3> QED BY <1>3, <3>5, <3>6, <3>7, <3>8, <3>9, <3>10, <3>11, <3>12
              DEF Next, vars, Registering, Changing, VerifyReset
    <2> QED BY <2>1, <2>2
  <1>4. ASSUME entry' # NoEntry
        PROVE  Entered
    <2>1. \/ \E r \in Requests, c \in Codes : Store(r, c)
          \/ entry' = entry
          \/ Tick
      BY <1>4
         DEF Next, vars, Registering, Changing, Register, Resend, Mail, VerifyCode,
             CheckVerified, OpenPicture, CreateUser, RemovePicture, Forget, AskChangeCode,
             WriteChangeCode, CheckCooldown, QueueMail, SetCooldown, AskResetCode,
             WriteResetCode, Change, VerifyReset, Reset, ReadAgain, ClearChange, ClearReset,
             Clear, EditProfile, SaveProfile, Abort
    <2>2. CASE \E r \in Requests, c \in Codes : Store(r, c)
      BY <1>2, <2>2
    <2>3. CASE \A r \in Requests, c \in Codes : ~Store(r, c)
      <3>1. entry # NoEntry /\ entry'.code = entry.code /\ entry'.form = entry.form
        BY <1>4, <2>1, <2>3, Ticked
      <3> QED BY <1>3, <2>3, <3>1
    <2> QED BY <2>2, <2>3
  <1>5. /\ entry' # NoEntry =>
              /\ \A m \in mailed' : m[1] = entry'.code => m[2] = entry'.form
              /\ \A r \in Requests : req'[r].at = "mail" /\ req'[r].code = entry'.code
                                         => req'[r].form = entry'.form
              /\ \A r \in Requests : req'[r].at \in {"cooldown", "queue"} => req'[r].code # entry'.code
        /\ \A r \in Requests : req'[r].at \in {"check", "open", "create"}
                                   => <<req'[r].code, req'[r].form>> \in mailed'
    BY <1>1, <1>4
  <1> QED BY <1>5 DEF FormInv, At

-----------------------------------------------------------------------------
(* The results.                                                            *)

\* The account was created from a mailed code and with a picture.
LEMMA AccountStep ==
    ASSUME TypeOK, FormInv, PictureInv, AccountIsMailed, PictureKept, [Next]_vars
    PROVE  AccountIsMailed' /\ PictureKept'
  <1> USE DEF registration, history
  <1>1. CASE \E r \in Requests : CreateUser(r) /\ ~Verified
    <2>1. PICK r \in Requests : CreateUser(r) /\ ~Verified
      BY <1>1
    <2>2. /\ account' = [form |-> req[r].form, code |-> req[r].code, picture |-> req[r].picture]
          /\ mailed' = mailed /\ At(r, "create")
      BY <2>1 DEF CreateUser
    <2>3. <<req[r].code, req[r].form>> \in mailed /\ req[r].picture
      BY <2>1, <2>2 DEF FormInv, PictureInv, At
    <2> QED BY <2>2, <2>3 DEF AccountIsMailed, PictureKept
  <1>2. CASE ~\E r \in Requests : CreateUser(r) /\ ~Verified
    <2>1. account' = account
      BY <1>2
         DEF Next, vars, Registering, Changing, Register, Resend, Store, Mail, VerifyCode,
             CheckVerified, OpenPicture, CreateUser, RemovePicture, Forget, AskChangeCode,
             WriteChangeCode, CheckCooldown, QueueMail, SetCooldown, AskResetCode,
             WriteResetCode, Change, VerifyReset, Reset, ReadAgain, ClearChange, ClearReset,
             Clear, EditProfile, SaveProfile, Abort, Tick
    <2>2. mailed \subseteq mailed'
      BY DEF Next, vars, Registering, Changing, Register, Resend, Store, Mail, VerifyCode,
             CheckVerified, OpenPicture, CreateUser, RemovePicture, Forget, AskChangeCode,
             WriteChangeCode, CheckCooldown, QueueMail, SetCooldown, AskResetCode,
             WriteResetCode, Change, VerifyReset, Reset, ReadAgain, ClearChange, ClearReset,
             Clear, EditProfile, SaveProfile, Abort, Tick
    <2> QED BY <2>1, <2>2 DEF AccountIsMailed, PictureKept, Verified
  <1> QED BY <1>1, <1>2

\* The invariant holds at the start.
LEMMA InvInit == Init => CodesInv
  <1> SUFFICES ASSUME Init
               PROVE  CodesInv
    OBVIOUS
  <1>1. TypeOK
    BY TypeInit
  <1>2. /\ \A r \in Requests : req[r] = Idle
        /\ Rows \subseteq {NoRow}
    BY NoTypes DEF Init, Rows
  <1>3. RequestInv
    BY <1>2, NoTypes DEF RequestInv, At
  <1>4. DrawnInv /\ KindInv /\ DeadInv /\ TimedInv
    BY <1>2, NoTypes DEF DrawnInv, KindInv, DeadInv, TimedInv, At, Init
  <1>5. FormInv /\ PictureInv
    BY <1>2, NoTypes DEF FormInv, PictureInv, At, Init
  <1>6. AccountIsMailed /\ PictureKept /\ LoneCodeDies /\ LateOnlyIfRenewed
    BY DEF Init, AccountIsMailed, PictureKept, LoneCodeDies, LateOnlyIfRenewed, Verified
  <1> QED BY <1>1, <1>3, <1>4, <1>5, <1>6 DEF CodesInv

\* Every step keeps the invariant.
LEMMA InvStep == CodesInv /\ [Next]_vars => CodesInv'
  <1> SUFFICES ASSUME CodesInv, [Next]_vars
               PROVE  CodesInv'
    OBVIOUS
  <1> USE DEF CodesInv
  <1>1. TypeOK' /\ RequestInv'
    BY TypeStep, RequestStep
  <1>2. DrawnInv' /\ KindInv'
    BY DrawnStep, KindStep
  <1>3. FormInv' /\ PictureInv'
    BY FormStep, PictureStep
  <1>4. DeadInv' /\ TimedInv'
    BY DeadStep, TimedStep
  <1>5. AccountIsMailed' /\ PictureKept' /\ LateOnlyIfRenewed'
    BY AccountStep, LateStep
  <1>6. LoneCodeDies'
    BY <1>4 DEF DeadInv, LoneCodeDies, Rows
  <1> QED BY <1>1, <1>2, <1>3, <1>4, <1>5, <1>6

\* However registrations, password codes and saves of stale rows interleave, the
\* codes, the pictures and the row stay consistent: no code of one purpose turns
\* up as the other's, and the time beside a code is its own or known renewed.
THEOREM CodesCorrect == Spec => []CodesInv
  <1>1. Init => CodesInv
    BY InvInit
  <1>2. CodesInv /\ [Next]_vars => CodesInv'
    BY InvStep
  <1> QED BY <1>1, <1>2, PTL DEF Spec

\* Entry, row, copies and histories keep their types.
THEOREM TypeCorrect == Spec => []TypeOK
  <1>1. CodesInv => TypeOK
    BY DEF CodesInv
  <1> QED BY <1>1, CodesCorrect, PTL

\* The account holds the data that the code of its verification was mailed for,
\* since code and data come from one read of the entry.
THEOREM AccountIsMailedHolds == Spec => []AccountIsMailed
  <1>1. CodesInv => AccountIsMailed
    BY DEF CodesInv
  <1> QED BY <1>1, CodesCorrect, PTL

\* Whoever verifies first finds the picture, for it is removed after the account
\* has been created.
THEOREM PictureKeptHolds == Spec => []PictureKept
  <1>1. CodesInv => PictureKept
    BY DEF CodesInv
  <1> QED BY <1>1, CodesCorrect, PTL

\* A code used while nothing else ran is not in the row again.
THEOREM LoneCodeDiesHolds == Spec => []LoneCodeDies
  <1>1. CodesInv => LoneCodeDies
    BY DEF CodesInv
  <1> QED BY <1>1, CodesCorrect, PTL

\* A code outlives its ten minutes only through the time it shares.
THEOREM LateOnlyIfRenewedHolds == Spec => []LateOnlyIfRenewed
  <1>1. CodesInv => LateOnlyIfRenewed
    BY DEF CodesInv
  <1> QED BY <1>1, CodesCorrect, PTL

=============================================================================
