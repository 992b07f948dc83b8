----------------------------- MODULE VaultProofs -----------------------------
(***************************************************************************)
(* Proofs about Vault, for any files, images, links and number of requests.*)
(***************************************************************************)
EXTENDS Vault, FiniteSetTheorems, TLAPS

-----------------------------------------------------------------------------
(* The inductive invariant.                                                *)

\* What a request that is under way knows: nobody else stores its upload, it
\* holds the lock of what it deletes, and the link it came by is its own or one
\* that was opened.
RequestInvOf(q) ==
    /\ ~At(q, "idle") => req[q].thing \in Things
    /\ At(q, "insert") =>
          /\ row[req[q].thing] = "fresh" /\ disk[req[q].thing]
          /\ \A s \in Requests : At(s, "insert") /\ req[s].thing = req[q].thing => s = q
    /\ At(q, "unlink") \/ At(q, "drop") =>
          row[req[q].thing] = "live" /\ lock[req[q].thing] = q
    /\ At(q, "drop") => ~disk[req[q].thing]
    /\ req[q].at \in {"decrypt", "log", "mark", "serve", "link"} => row[req[q].thing] # "fresh"
    /\ At(q, "log") => req[q].by = NoLink
    /\ At(q, "mark") => req[q].by \in Links
    /\ At(q, "link") =>
          /\ req[q].by \in Links /\ link[req[q].by].state = "fresh"
          /\ \A s \in Requests : req[s].by = req[q].by => s = q
    /\ req[q].at \in {"decrypt", "mark", "serve"} /\ req[q].by # NoLink =>
          link[req[q].by].of = req[q].thing /\ link[req[q].by].state # "fresh"
    /\ At(q, "serve") /\ req[q].by # NoLink => link[req[q].by].state \in {"used", "gone"}

RequestInv == \A q \in Requests : RequestInvOf(q)

\* A link that was made refers to a thing, and is gone with its row.
LinkInv ==
    \A l \in Links :
        /\ link[l].state = "fresh" => link[l].of = NoThing
        /\ link[l].state # "fresh" => link[l].of \in Things /\ row[link[l].of] # "fresh"
        /\ link[l].state \in {"open", "expired", "used"} => row[link[l].of] = "live"
        /\ shown[l] > 0 => link[l].state \in {"used", "gone"}

\* The owner's requests that were granted x and have not answered.
Granting(x) == {r \in Requests : At(r, "serve") /\ req[r].thing = x /\ req[r].by = NoLink}

\* Each of them has its entry, as each answer has.
LogOf(x) ==
    /\ row[x] = "fresh" => served[x] = 0
    /\ row[x] = "live" => served[x] + Cardinality(Granting(x)) < entries[x]

LogInv == \A x \in Things : LogOf(x)

-----------------------------------------------------------------------------
(* Types.                                                                  *)

\* What a step does to the requests stays within their type.
LEMMA RequestTypes ==
    ASSUME NEW r \in Requests, req \in [Requests -> Request]
    PROVE  /\ Done(r) => req' \in [Requests -> Request]
           /\ \A at \in {"log", "mark", "serve", "drop"} :
                 GoTo(r, at) => req' \in [Requests -> Request]
           /\ \A x \in Things, l \in Links \cup {NoLink},
                 at \in {"insert", "decrypt", "unlink", "link"} :
                 Begin(r, x, l, at) => req' \in [Requests -> Request]
  <1>1. Idle \in Request
    BY DEF Idle, Request
  <1>2. \A at \in {"log", "mark", "serve", "drop"} : [req[r] EXCEPT !.at = at] \in Request
    BY DEF Request
  <1>3. \A x \in Things, l \in Links \cup {NoLink}, at \in {"insert", "decrypt", "unlink", "link"} :
           [at |-> at, thing |-> x, by |-> l, badKey |-> "key" \in damaged[x]] \in Request
    BY DEF Request
  <1> QED BY <1>1, <1>2, <1>3 DEF Done, GoTo, Begin

\* The initial states are within the types.
LEMMA TypeInit == Init => TypeOK
  BY DEF Init, TypeOK, Idle, Request, Link

\* Every step stays within the types.
LEMMA TypeStep ==
    ASSUME TypeOK, RequestInv, LinkInv, [Next]_vars
    PROVE  TypeOK'
  <1>0. CASE UNCHANGED vars
    BY <1>0 DEF TypeOK, vars
  <1>1. ASSUME NEW r \in Requests, Proceed(r)
        PROVE  TypeOK'
    <2>1. req[r] \in Request /\ req' \in [Requests -> Request]
      BY <1>1, RequestTypes DEF TypeOK, Proceed, CommitUpload, DecryptGood, DecryptTampered,
         DecryptMissing, LogAccess, Serve, Unlink, Drop, CreateLink, MarkUsed
    <2>2. CASE CommitUpload(r) \/ LogAccess(r)
      <3>1. entries' \in [Things -> Nat]
        BY <2>2 DEF TypeOK, CommitUpload, LogAccess
      <3> QED BY <2>1, <2>2, <3>1 DEF TypeOK, CommitUpload, LogAccess
    <2>9. CASE Unlink(r)
      BY <2>1, <2>9 DEF TypeOK, Unlink
    <2>3. CASE DecryptGood(r) \/ DecryptMissing(r)
      BY <2>1, <2>3 DEF TypeOK, DecryptGood, DecryptMissing
    <2>4. CASE DecryptTampered(r)
      <3>1. req[r].thing \in Things
        BY <2>4 DEF DecryptTampered, RequestInv, RequestInvOf, At
      <3> QED BY <2>1, <2>4, <3>1 DEF TypeOK, DecryptTampered
    <2>5. CASE Serve(r)
      BY <2>1, <2>5 DEF TypeOK, Serve
    <2>6. CASE Drop(r)
      BY <2>1, <2>6 DEF TypeOK, Drop, Link
    <2>7. CASE CreateLink(r)
      BY <2>1, <2>7 DEF TypeOK, CreateLink, Link, Request
    <2>8. CASE MarkUsed(r)
      BY <2>1, <2>8 DEF TypeOK, MarkUsed, Link
    <2> QED BY <1>1, <2>2, <2>3, <2>4, <2>5, <2>6, <2>7, <2>8, <2>9 DEF Proceed
  <1>2. ASSUME NEW r \in Requests, NEW x \in Things,
               SaveToDisk(r, x) \/ Fetch(r, x) \/ RefuseOther(r, x) \/ LockRow(r, x)
        PROVE  TypeOK'
    <2>1. req' \in [Requests -> Request]
      BY <1>2, RequestTypes DEF TypeOK, SaveToDisk, Fetch, RefuseOther, LockRow
    <2>2. CASE SaveToDisk(r, x)
      BY <2>1, <2>2 DEF TypeOK, SaveToDisk
    <2>3. CASE Fetch(r, x) \/ RefuseOther(r, x)
      BY <2>1, <2>3 DEF TypeOK, Fetch, RefuseOther
    <2>4. CASE LockRow(r, x)
      BY <2>1, <2>4 DEF TypeOK, LockRow
    <2> QED BY <1>2, <2>2, <2>3, <2>4
  <1>3. ASSUME NEW r \in Requests, NEW x \in Things, NEW l \in Links, ShareRead(r, x, l)
        PROVE  TypeOK'
    <2>1. req' \in [Requests -> Request]
      BY <1>3, RequestTypes DEF TypeOK, ShareRead
    <2> QED BY <1>3, <2>1 DEF TypeOK, ShareRead
  <1>4. ASSUME NEW r \in Requests, NEW l \in Links, link[l].of \in Things, OpenLink(r, l)
        PROVE  TypeOK'
    <2>1. req' \in [Requests -> Request]
      BY <1>4, RequestTypes DEF TypeOK, OpenLink
    <2> QED BY <1>4, <2>1 DEF TypeOK, OpenLink
  <1>5. ASSUME NEW r \in Requests, Abort(r)
        PROVE  TypeOK'
    <2>1. req' \in [Requests -> Request] /\ req[r].thing \in Things
      BY <1>5, RequestTypes DEF TypeOK, Abort, RequestInv, RequestInvOf
    <2> QED BY <1>5, <2>1 DEF TypeOK, Abort
  <1>6. ASSUME NEW l \in Links, Expire(l)
        PROVE  TypeOK'
    BY <1>6 DEF TypeOK, Expire, Link
  <1>7. ASSUME NEW x \in Things, NEW part \in {"key", "content"}, Damage(x, part)
        PROVE  TypeOK'
    BY <1>7 DEF TypeOK, Damage
  <1>8. \A r \in Requests, l \in Links : OpenLink(r, l) => link[l].of \in Things
    BY DEF OpenLink, LinkInv
  <1> QED BY <1>0, <1>1, <1>2, <1>3, <1>4, <1>5, <1>6, <1>7, <1>8
          DEF Next, Arrive, UploadFile, UploadImage, ReadFile, ReadImage, DeleteFile, DeleteImage

-----------------------------------------------------------------------------
(* What a request does to itself.                                          *)

\* What Done, GoTo and Begin leave of the requests.
LEMMA Moved ==
    ASSUME TypeOK, NEW r \in Requests, NEW q \in Requests
    PROVE  /\ Done(r) => req'[q] = IF q = r THEN Idle ELSE req[q]
           /\ \A at : GoTo(r, at) => /\ req'[q].at = IF q = r THEN at ELSE req[q].at
                                     /\ req'[q].thing = req[q].thing /\ req'[q].by = req[q].by
           /\ \A x, l, at : Begin(r, x, l, at) =>
                 /\ At(r, "idle")
                 /\ q # r => req'[q] = req[q]
                 /\ q = r => req'[q].at = at /\ req'[q].thing = x /\ req'[q].by = l
  BY DEF TypeOK, Done, GoTo, Begin, Request

-----------------------------------------------------------------------------
(* The steps of the requests' invariant: one for each action.              *)

\* Every step leaves each request what it knows.
LEMMA RequestStep ==
    ASSUME TypeOK, RequestInv, LinkInv, [Next]_vars
    PROVE  RequestInv'
  <1> USE VaultAssumption
  <1> SUFFICES ASSUME NEW q \in Requests PROVE RequestInvOf(q)'
    BY DEF RequestInv
  <1>0. /\ RequestInvOf(q) /\ \A s \in Requests : RequestInvOf(s)
        /\ row \in [Things -> {"fresh", "live", "gone"}] /\ disk \in [Things -> BOOLEAN]
        /\ lock \in [Things -> Requests \cup {NoRequest}] /\ link \in [Links -> Link]
        /\ req \in [Requests -> Request]
    BY DEF RequestInv, TypeOK
  <1>1. CASE UNCHANGED vars
    BY <1>0, <1>1 DEF vars, RequestInvOf, At
  <1>2. ASSUME NEW r \in Requests, CommitUpload(r)
        PROVE  RequestInvOf(q)'
    <2>1. \A s \in Requests : req'[s] = IF s = r THEN Idle ELSE req[s]
      BY <1>2, Moved DEF CommitUpload
    <2> QED BY <1>0, <1>2, <2>1 DEF CommitUpload, RequestInvOf, At, Idle
  <1>3. ASSUME NEW r \in Requests, DecryptGood(r)
        PROVE  RequestInvOf(q)'
    <2>1. \A s \in Requests :
             /\ req'[s].at = IF s # r THEN req[s].at
                             ELSE IF req[r].by = NoLink THEN "log" ELSE "mark"
             /\ req'[s].thing = req[s].thing /\ req'[s].by = req[s].by
      BY <1>3, Moved DEF DecryptGood
    <2> QED BY <1>0, <1>3, <2>1 DEF DecryptGood, RequestInvOf, At, Request
  <1>4. ASSUME NEW r \in Requests, DecryptTampered(r) \/ DecryptMissing(r)
        PROVE  RequestInvOf(q)'
    <2>1. \A s \in Requests : req'[s] = IF s = r THEN Idle ELSE req[s]
      BY <1>4, Moved DEF DecryptTampered, DecryptMissing
    <2> QED BY <1>0, <1>4, <2>1 DEF DecryptTampered, DecryptMissing, RequestInvOf, At, Idle
  <1>5. ASSUME NEW r \in Requests, LogAccess(r)
        PROVE  RequestInvOf(q)'
    <2>1. CASE GoTo(r, "serve")
      <3>1. \A s \in Requests :
               /\ req'[s].at = IF s # r THEN req[s].at ELSE "serve"
               /\ req'[s].thing = req[s].thing /\ req'[s].by = req[s].by
        BY <2>1, Moved
      <3> QED BY <1>0, <1>5, <3>1 DEF LogAccess, RequestInvOf, At
    <2>2. CASE Done(r)
      <3>1. \A s \in Requests : req'[s] = IF s = r THEN Idle ELSE req[s]
        BY <2>2, Moved
      <3> QED BY <1>0, <1>5, <3>1 DEF LogAccess, RequestInvOf, At, Idle
    <2> QED BY <1>5, <2>1, <2>2 DEF LogAccess
  <1>6. ASSUME NEW r \in Requests, Serve(r)
        PROVE  RequestInvOf(q)'
    <2>1. \A s \in Requests : req'[s] = IF s = r THEN Idle ELSE req[s]
      BY <1>6, Moved DEF Serve
    <2> QED BY <1>0, <1>6, <2>1 DEF Serve, RequestInvOf, At, Idle
  <1>7. ASSUME NEW r \in Requests, Unlink(r)
        PROVE  RequestInvOf(q)'
    <2>1. \A s \in Requests :
             /\ req'[s].at = IF s # r THEN req[s].at ELSE "drop"
             /\ req'[s].thing = req[s].thing /\ req'[s].by = req[s].by
      BY <1>7, Moved DEF Unlink
    <2> QED BY <1>0, <1>7, <2>1 DEF Unlink, RequestInvOf, At
  <1>8. ASSUME NEW r \in Requests, Drop(r)
        PROVE  RequestInvOf(q)'
    <2>1. \A s \in Requests : req'[s] = IF s = r THEN Idle ELSE req[s]
      BY <1>8, Moved DEF Drop
    <2>2. \A l \in Links :
             /\ link'[l].of = link[l].of
             /\ link[l].of = req[r].thing => link'[l].state = "gone"
             /\ link[l].of # req[r].thing => link'[l].state = link[l].state
      BY <1>0, <1>8 DEF Drop, Link
    <2>3. CASE q = r
      BY <2>1, <2>3 DEF RequestInvOf, At, Idle
    <2>4. CASE q # r
      <3>1. req'[q] = req[q] /\ req[q].by \in Links \cup {NoLink}
        BY <1>0, <2>1, <2>4 DEF Request
      <3>2. At(q, "unlink") \/ At(q, "drop") => req[q].thing # req[r].thing
        BY <1>0, <1>8, <2>4 DEF Drop, RequestInvOf, At
      <3>3. /\ \A x \in Things : row'[x] = IF x = req[r].thing THEN "gone" ELSE row[x]
            /\ \A x \in Things : lock'[x] = IF x = req[r].thing THEN NoRequest ELSE lock[x]
            /\ disk' = disk
        BY <1>0, <1>8 DEF Drop
      <3>4. At(q, "insert") => req[q].thing # req[r].thing
        BY <1>0, <1>8 DEF Drop, RequestInvOf, At
      <3>5. At(q, "insert")' =>
               /\ row'[req'[q].thing] = "fresh" /\ disk'[req'[q].thing]
               /\ \A s \in Requests : At(s, "insert")' /\ req'[s].thing = req'[q].thing => s = q
        BY <1>0, <2>1, <3>1, <3>3, <3>4 DEF RequestInvOf, At, Idle
      <3>6. At(q, "link")' =>
               /\ req'[q].by \in Links /\ link'[req'[q].by].state = "fresh"
               /\ \A s \in Requests : req'[s].by = req'[q].by => s = q
        <4>1. SUFFICES ASSUME At(q, "link")
                       PROVE  /\ req[q].by \in Links /\ link'[req[q].by].state = "fresh"
                              /\ \A s \in Requests : req'[s].by = req[q].by => s = q
          BY <3>1 DEF At
        <4>2. /\ req[q].by \in Links /\ link[req[q].by].state = "fresh"
              /\ \A s \in Requests : req[s].by = req[q].by => s = q
          BY <1>0, <4>1 DEF RequestInvOf
        <4>3. req[r].thing \in Things /\ link[req[q].by].of # req[r].thing
          BY <1>0, <1>8, <4>2 DEF RequestInvOf, At, Drop, LinkInv
        <4> QED BY <2>1, <2>2, <4>2, <4>3 DEF Idle
      <3>7. /\ ~At(q, "idle")' => req'[q].thing \in Things
            /\ At(q, "unlink")' \/ At(q, "drop")' =>
                  row'[req'[q].thing] = "live" /\ lock'[req'[q].thing] = q
            /\ At(q, "drop")' => ~disk'[req'[q].thing]
            /\ req'[q].at \in {"decrypt", "log", "mark", "serve", "link"}
                  => row'[req'[q].thing] # "fresh"
            /\ At(q, "log")' => req'[q].by = NoLink
            /\ At(q, "mark")' => req'[q].by \in Links
        BY <1>0, <3>1, <3>2, <3>3 DEF RequestInvOf, At
      <3>8. /\ req'[q].at \in {"decrypt", "mark", "serve"} /\ req'[q].by # NoLink =>
                  link'[req'[q].by].of = req'[q].thing /\ link'[req'[q].by].state # "fresh"
            /\ At(q, "serve")' /\ req'[q].by # NoLink =>
                  link'[req'[q].by].state \in {"used", "gone"}
        BY <1>0, <2>2, <3>1 DEF RequestInvOf, At
      <3> QED BY <3>5, <3>6, <3>7, <3>8 DEF RequestInvOf
    <2> QED BY <2>3, <2>4
  <1>9. ASSUME NEW r \in Requests, CreateLink(r)
        PROVE  RequestInvOf(q)'
    <2>1. \A s \in Requests : req'[s] = IF s = r THEN Idle ELSE req[s]
      BY <1>9, Moved DEF CreateLink
    <2> QED BY <1>0, <1>9, <2>1 DEF CreateLink, RequestInvOf, At, Idle, Request
  <1>10. ASSUME NEW r \in Requests, MarkUsed(r)
         PROVE  RequestInvOf(q)'
    <2>1. CASE GoTo(r, "serve") /\ link' = [link EXCEPT ![req[r].by].state = "used"]
      <3>1. \A s \in Requests :
               /\ req'[s].at = IF s # r THEN req[s].at ELSE "serve"
               /\ req'[s].thing = req[s].thing /\ req'[s].by = req[s].by
        BY <2>1, Moved
      <3>2. \A l \in Links : /\ link'[l].of = link[l].of
                              /\ link'[l].state = IF l = req[r].by THEN "used" ELSE link[l].state
        BY <1>0, <2>1 DEF Link
      <3> QED BY <1>0, <1>10, <3>1, <3>2 DEF MarkUsed, RequestInvOf, At, Request
    <2>2. CASE Done(r) /\ UNCHANGED link
      <3>1. \A s \in Requests : req'[s] = IF s = r THEN Idle ELSE req[s]
        BY <2>2, Moved
      <3> QED BY <1>0, <1>10, <2>2, <3>1 DEF MarkUsed, RequestInvOf, At, Idle
    <2> QED BY <1>10, <2>1, <2>2 DEF MarkUsed
  <1>11. ASSUME NEW r \in Requests, NEW x \in Things, SaveToDisk(r, x)
         PROVE  RequestInvOf(q)'
    <2>1. \A s \in Requests :
             /\ s # r => req'[s] = req[s]
             /\ s = r => req'[s].at = "insert" /\ req'[s].thing = x /\ req'[s].by = NoLink
      BY <1>11, Moved DEF SaveToDisk
    <2> QED BY <1>0, <1>11, <2>1 DEF SaveToDisk, RequestInvOf, At
  <1>12. ASSUME NEW r \in Requests, NEW x \in Things, Fetch(r, x)
         PROVE  RequestInvOf(q)'
    <2>1. \A s \in Requests :
             /\ s # r => req'[s] = req[s]
             /\ s = r => req'[s].at = "decrypt" /\ req'[s].thing = x /\ req'[s].by = NoLink
      BY <1>12, Moved DEF Fetch
    <2> QED BY <1>0, <1>12, <2>1 DEF Fetch, RequestInvOf, At
  <1>13. ASSUME NEW r \in Requests, NEW x \in Things, RefuseOther(r, x)
         PROVE  RequestInvOf(q)'
    BY <1>0, <1>13 DEF RefuseOther, RequestInvOf, At
  <1>14. ASSUME NEW r \in Requests, NEW x \in Things, LockRow(r, x)
         PROVE  RequestInvOf(q)'
    <2>1. \A s \in Requests :
             /\ s # r => req'[s] = req[s]
             /\ s = r => req'[s].at = "unlink" /\ req'[s].thing = x /\ req'[s].by = NoLink
      BY <1>14, Moved DEF LockRow
    <2> QED BY <1>0, <1>14, <2>1 DEF LockRow, RequestInvOf, At
  <1>15. ASSUME NEW r \in Requests, NEW x \in Things, NEW l \in Links, ShareRead(r, x, l)
         PROVE  RequestInvOf(q)'
    <2>1. \A s \in Requests :
             /\ s # r => req'[s] = req[s]
             /\ s = r => req'[s].at = "link" /\ req'[s].thing = x /\ req'[s].by = l
      BY <1>15, Moved DEF ShareRead
    <2> QED BY <1>0, <1>15, <2>1 DEF ShareRead, RequestInvOf, At
  <1>16. ASSUME NEW r \in Requests, NEW l \in Links, OpenLink(r, l)
         PROVE  RequestInvOf(q)'
    <2>1. \A s \in Requests :
             /\ s # r => req'[s] = req[s]
             /\ s = r => req'[s].at = "decrypt" /\ req'[s].thing = link[l].of /\ req'[s].by = l
      BY <1>16, Moved DEF OpenLink
    <2>2. link[l].of \in Things /\ row[link[l].of] # "fresh"
      BY <1>16 DEF OpenLink, LinkInv
    <2> QED BY <1>0, <1>16, <2>1, <2>2 DEF OpenLink, RequestInvOf, At
  <1>17. ASSUME NEW r \in Requests, Abort(r)
         PROVE  RequestInvOf(q)'
    <2>1. \A s \in Requests : req'[s] = IF s = r THEN Idle ELSE req[s]
      BY <1>17, Moved DEF Abort
    <2> QED BY <1>0, <1>17, <2>1 DEF Abort, RequestInvOf, At, Idle
  <1>18. ASSUME NEW l \in Links, Expire(l)
         PROVE  RequestInvOf(q)'
    <2>1. \A k \in Links :
             /\ link'[k].of = link[k].of
             /\ link'[k].state = IF k = l THEN "expired" ELSE link[k].state
      BY <1>0, <1>18 DEF Expire, Link
    <2> QED BY <1>0, <1>18, <2>1 DEF Expire, RequestInvOf, At, Request
  <1>19. ASSUME NEW x \in Things, NEW part \in {"key", "content"}, Damage(x, part)
         PROVE  RequestInvOf(q)'
    BY <1>0, <1>19 DEF Damage, RequestInvOf, At
  <1> QED BY <1>1, <1>2, <1>3, <1>4, <1>5, <1>6, <1>7, <1>8, <1>9, <1>10, <1>11, <1>12, <1>13,
             <1>14, <1>15, <1>16, <1>17, <1>18, <1>19
          DEF Next, Proceed, Arrive, UploadFile, UploadImage, ReadFile, ReadImage, DeleteFile,
              DeleteImage

-----------------------------------------------------------------------------
(* The links.                                                              *)

\* Every step leaves the links as they should be.
LEMMA LinkStep ==
    ASSUME TypeOK, RequestInv, LinkInv, [Next]_vars
    PROVE  LinkInv'
  <1> USE VaultAssumption
  <1>0. /\ \A s \in Requests : RequestInvOf(s)
        /\ row \in [Things -> {"fresh", "live", "gone"}] /\ link \in [Links -> Link]
        /\ req \in [Requests -> Request] /\ shown \in [Links -> Nat]
    BY DEF RequestInv, TypeOK
  <1>1. CASE row' = row /\ link' = link /\ shown' = shown
    BY <1>1 DEF LinkInv
  <1>2. ASSUME NEW r \in Requests, CommitUpload(r)
        PROVE  LinkInv'
    BY <1>0, <1>2 DEF CommitUpload, RequestInvOf, At, LinkInv, Link
  <1>3. ASSUME NEW r \in Requests, Serve(r)
        PROVE  LinkInv'
    <2>1. CASE req[r].by = NoLink
      BY <1>1, <1>3, <2>1 DEF Serve
    <2>2. CASE req[r].by # NoLink
      BY <1>0, <1>3, <2>2 DEF Serve, RequestInvOf, At, LinkInv
    <2> QED BY <2>1, <2>2
  <1>4. ASSUME NEW r \in Requests, Drop(r)
        PROVE  LinkInv'
    <2>1. \A l \in Links :
             /\ link'[l].of = link[l].of
             /\ link[l].of = req[r].thing => link'[l].state = "gone"
             /\ link[l].of # req[r].thing => link'[l].state = link[l].state
      BY <1>0, <1>4 DEF Drop, Link
    <2>2. req[r].thing \in Things
      BY <1>0, <1>4 DEF Drop, RequestInvOf, At
    <2> QED BY <1>0, <1>4, <2>1, <2>2 DEF Drop, LinkInv
  <1>5. ASSUME NEW r \in Requests, CreateLink(r)
        PROVE  LinkInv'
    <2>1. CASE row[req[r].thing] = "live"
      <3>1. \A l \in Links :
               link'[l] = IF l = req[r].by THEN [of |-> req[r].thing, state |-> "open"] ELSE link[l]
        BY <1>0, <1>5, <2>1 DEF CreateLink
      <3>2. /\ req[r].by \in Links /\ link[req[r].by].state = "fresh"
            /\ req[r].thing \in Things
        BY <1>0, <1>5 DEF CreateLink, RequestInvOf, At
      <3> QED BY <1>0, <1>5, <2>1, <3>1, <3>2 DEF CreateLink, LinkInv
    <2>2. CASE row[req[r].thing] # "live"
      BY <1>1, <1>5, <2>2 DEF CreateLink
    <2> QED BY <2>1, <2>2
  <1>6. ASSUME NEW r \in Requests, MarkUsed(r)
        PROVE  LinkInv'
    <2>1. CASE link[req[r].by].state # "gone"
      <3>1. req[r].by \in Links /\ link[req[r].by].state # "fresh"
        BY <1>0, <1>6 DEF MarkUsed, RequestInvOf, At, Request
      <3>2. \A l \in Links : /\ link'[l].of = link[l].of
                              /\ link'[l].state = IF l = req[r].by THEN "used" ELSE link[l].state
        BY <1>0, <1>6, <2>1 DEF MarkUsed, Link
      <3>3. link[req[r].by].state \in {"open", "expired", "used"}
        BY <1>0, <2>1, <3>1 DEF Link
      <3> QED BY <1>6, <3>1, <3>2, <3>3 DEF MarkUsed, LinkInv
    <2>2. CASE link[req[r].by].state = "gone"
      BY <1>1, <1>6, <2>2 DEF MarkUsed
    <2> QED BY <2>1, <2>2
  <1>7. ASSUME NEW l \in Links, Expire(l)
        PROVE  LinkInv'
    <2>1. \A k \in Links :
             /\ link'[k].of = link[k].of
             /\ link'[k].state = IF k = l THEN "expired" ELSE link[k].state
      BY <1>0, <1>7 DEF Expire, Link
    <2> QED BY <1>7, <2>1 DEF Expire, LinkInv
  <1>8. ASSUME NEW r \in Requests,
               \/ DecryptGood(r) \/ DecryptTampered(r) \/ DecryptMissing(r) \/ LogAccess(r)
               \/ Unlink(r) \/ Abort(r)
        PROVE  row' = row /\ link' = link /\ shown' = shown
    BY <1>8 DEF DecryptGood, DecryptTampered, DecryptMissing, LogAccess, Unlink, Abort
  <1>9. ASSUME NEW r \in Requests, Arrive(r)
        PROVE  row' = row /\ link' = link /\ shown' = shown
    BY <1>9 DEF Arrive, UploadFile, UploadImage, ReadFile, ReadImage, DeleteFile, DeleteImage,
                SaveToDisk, Fetch, RefuseOther, LockRow, ShareRead, OpenLink
  <1>10. ASSUME NEW x, NEW part, Damage(x, part)
         PROVE  row' = row /\ link' = link /\ shown' = shown
    BY <1>10 DEF Damage
  <1> QED BY <1>1, <1>2, <1>3, <1>4, <1>5, <1>6, <1>7, <1>8, <1>9, <1>10 DEF Next, Proceed, vars

-----------------------------------------------------------------------------
(* The disk.                                                               *)

\* DiskMatches, thing by thing.
DiskOf(x) ==
    /\ row[x] = "live" => \/ disk[x] \/ x \in unlinked
                         \/ \E s \in Requests : At(s, "drop") /\ req[s].thing = x
    /\ row[x] = "gone" => ~disk[x]

DiskInv == \A x \in Things : DiskOf(x)

\* What is said of each thing is DiskMatches.
LEMMA DiskFromInv == DiskInv => DiskMatches
  BY DEF DiskMatches, DiskInv, DiskOf, Listed, ListedFiles, ListedImages, Things

\* Every step keeps the disk and the row of a thing in agreement.
LEMMA DiskStep ==
    ASSUME TypeOK, RequestInv, DiskInv, [Next]_vars
    PROVE  DiskInv'
  <1> SUFFICES ASSUME NEW y \in Things PROVE DiskOf(y)'
    BY DEF DiskInv
  <1>0. /\ \A s \in Requests : RequestInvOf(s)
        /\ row \in [Things -> {"fresh", "live", "gone"}] /\ disk \in [Things -> BOOLEAN]
        /\ req \in [Requests -> Request]
        /\ DiskOf(y)
    BY DEF RequestInv, TypeOK, DiskInv
  <1>1. CASE row' = row /\ disk' = disk /\ unlinked' = unlinked
             /\ \A s \in Requests : At(s, "drop") => req'[s] = req[s]
    BY <1>0, <1>1 DEF DiskOf, At
  <1>2. ASSUME NEW r \in Requests, CommitUpload(r)
        PROVE  DiskOf(y)'
    <2>1. \A s \in Requests : At(s, "drop") => req'[s] = req[s]
      BY <1>2, Moved DEF CommitUpload, At
    <2>2. req[r].thing \in Things /\ disk[req[r].thing]
      BY <1>0, <1>2 DEF CommitUpload, RequestInvOf, At
    <2> QED BY <1>0, <1>2, <2>1, <2>2 DEF CommitUpload, DiskOf, At
  <1>3. ASSUME NEW r \in Requests, Unlink(r)
        PROVE  DiskOf(y)'
    <2>1. \A s \in Requests : /\ req'[s].at = IF s = r THEN "drop" ELSE req[s].at
                              /\ req'[s].thing = req[s].thing
      BY <1>3, Moved DEF Unlink
    <2>2. req[r].thing \in Things /\ row[req[r].thing] = "live"
      BY <1>0, <1>3 DEF Unlink, RequestInvOf, At
    <2> QED BY <1>0, <1>3, <2>1, <2>2 DEF Unlink, DiskOf, At
  <1>4. ASSUME NEW r \in Requests, Drop(r)
        PROVE  DiskOf(y)'
    <2>1. \A s \in Requests : s # r => req'[s] = req[s]
      BY <1>4, Moved DEF Drop
    <2>2. req[r].thing \in Things /\ ~disk[req[r].thing]
      BY <1>0, <1>4 DEF Drop, RequestInvOf, At
    <2> QED BY <1>0, <1>4, <2>1, <2>2 DEF Drop, DiskOf, At
  <1>5. ASSUME NEW r \in Requests, Abort(r)
        PROVE  DiskOf(y)'
    <2>1. \A s \in Requests : s # r => req'[s] = req[s]
      BY <1>5, Moved DEF Abort
    <2> QED BY <1>0, <1>5, <2>1 DEF Abort, DiskOf, At
  <1>6. ASSUME NEW r \in Requests, NEW x \in Things, SaveToDisk(r, x)
        PROVE  DiskOf(y)'
    <2>1. \A s \in Requests : At(s, "drop") => req'[s] = req[s]
      BY <1>6, Moved DEF SaveToDisk, At
    <2> QED BY <1>0, <1>6, <2>1 DEF SaveToDisk, DiskOf, At
  <1>7. ASSUME NEW r \in Requests,
               \/ DecryptGood(r) \/ DecryptTampered(r) \/ DecryptMissing(r) \/ LogAccess(r)
               \/ Serve(r) \/ CreateLink(r) \/ MarkUsed(r)
        PROVE  /\ row' = row /\ disk' = disk /\ unlinked' = unlinked
               /\ \A s \in Requests : At(s, "drop") => req'[s] = req[s]
    <2>1. ~At(r, "drop") /\ \A s \in Requests : s # r => req'[s] = req[s]
      BY <1>0, <1>7 DEF DecryptGood, DecryptTampered, DecryptMissing, LogAccess, Serve, CreateLink,
         MarkUsed, At, GoTo, Done
    <2>2. row' = row /\ disk' = disk /\ unlinked' = unlinked
      BY <1>7 DEF DecryptGood, DecryptTampered, DecryptMissing, LogAccess, Serve, CreateLink, MarkUsed
    <2> QED BY <2>1, <2>2
  <1>8. ASSUME NEW r \in Requests, NEW x, NEW l, NEW at, Begin(r, x, l, at)
        PROVE  \A s \in Requests : At(s, "drop") => req'[s] = req[s]
    BY <1>0, <1>8 DEF Begin, At
  <1>9. ASSUME NEW r \in Requests, Arrive(r)
        PROVE  DiskOf(y)'
    <2>1. CASE \E x \in Things : SaveToDisk(r, x)
      BY <1>6, <2>1
    <2>2. CASE \E x \in Things : RefuseOther(r, x)
      BY <1>1, <2>2 DEF RefuseOther
    <2>3. CASE \E x \in Things : Fetch(r, x) \/ LockRow(r, x) \/ \E l \in Links : ShareRead(r, x, l)
      BY <1>1, <1>8, <2>3 DEF Fetch, LockRow, ShareRead
    <2>4. CASE \E l \in Links : OpenLink(r, l)
      BY <1>1, <1>8, <2>4 DEF OpenLink
    <2> QED BY <1>9, <2>1, <2>2, <2>3, <2>4
            DEF Arrive, UploadFile, UploadImage, ReadFile, ReadImage, DeleteFile, DeleteImage
  <1>10. CASE \/ UNCHANGED vars \/ \E l \in Links : Expire(l)
              \/ \E x \in Things, part \in {"key", "content"} : Damage(x, part)
    BY <1>1, <1>10 DEF vars, Expire, Damage
  <1> QED BY <1>1, <1>2, <1>3, <1>4, <1>5, <1>7, <1>9, <1>10 DEF Next, Proceed

-----------------------------------------------------------------------------
(* The log.  A request is added to those granted x with an entry, or leaves*)
(* them with an answer.                                                    *)

\* Those granted a thing can be counted.
LEMMA GrantingFinite ==
    ASSUME NEW x \in Things
    PROVE  IsFiniteSet(Granting(x)) /\ Cardinality(Granting(x)) \in Nat
  <1>1. Granting(x) \subseteq Requests
    BY DEF Granting
  <1> QED BY <1>1, VaultAssumption, FS_Subset, FS_CardinalityType

\* Nobody is granted more of y, and its row and numbers stay.
LEMMA LogSame ==
    ASSUME TypeOK, NEW y \in Things, LogOf(y),
           row'[y] = row[y], served'[y] = served[y], entries'[y] = entries[y],
           \A s \in Requests : At(s, "serve")' /\ req'[s].by = NoLink => req'[s] = req[s]
    PROVE  LogOf(y)'
  <1>1. Granting(y)' \subseteq Granting(y)
    BY DEF Granting, At
  <1>2. Cardinality(Granting(y)') <= Cardinality(Granting(y)) /\ Cardinality(Granting(y)') \in Nat
    BY <1>1, GrantingFinite, FS_Subset, FS_CardinalityType
  <1>3. served[y] \in Nat /\ entries[y] \in Nat /\ Cardinality(Granting(y)) \in Nat
    BY GrantingFinite DEF TypeOK
  <1>4. row'[y] = "live" =>
           served'[y] + Cardinality(Granting(y)') < entries'[y]
    BY <1>2, <1>3 DEF LogOf
  <1> QED BY <1>4 DEF LogOf

\* Every step keeps an entry for each answer and each grant.
LEMMA LogStep ==
    ASSUME TypeOK, RequestInv, LogInv, [Next]_vars
    PROVE  LogInv'
  <1> SUFFICES ASSUME NEW y \in Things PROVE LogOf(y)'
    BY DEF LogInv
  <1>0. /\ \A s \in Requests : RequestInvOf(s)
        /\ row \in [Things -> {"fresh", "live", "gone"}]
        /\ served \in [Things -> Nat] /\ entries \in [Things -> Nat]
        /\ req \in [Requests -> Request]
        /\ LogOf(y)
    BY DEF RequestInv, TypeOK, LogInv
  <1>1. CASE UNCHANGED <<row, served, entries>> /\ \A s \in Requests :
                At(s, "serve")' /\ req'[s].by = NoLink => req'[s] = req[s]
    BY <1>0, <1>1, LogSame
  <1>2. ASSUME NEW r \in Requests, CommitUpload(r)
        PROVE  LogOf(y)'
    <2>1. \A s \in Requests : req'[s] = IF s = r THEN Idle ELSE req[s]
      BY <1>2, Moved DEF CommitUpload
    <2>2. CASE y # req[r].thing
      BY <1>0, <1>2, <2>1, <2>2, LogSame DEF CommitUpload, At, Idle
    <2>3. CASE y = req[r].thing
      <3>1. row[y] = "fresh" /\ served[y] = 0
        BY <1>0, <1>2, <2>3 DEF CommitUpload, RequestInvOf, At, LogOf
      <3>2. Granting(y)' = {}
        BY <1>0, <2>1, <3>1 DEF Granting, RequestInvOf, At, Idle
      <3>3. Cardinality(Granting(y)') = 0
        BY <3>2, FS_EmptySet
      <3> QED BY <1>0, <1>2, <2>3, <3>1, <3>3 DEF CommitUpload, LogOf
    <2> QED BY <2>2, <2>3
  <1>3. ASSUME NEW r \in Requests, LogAccess(r)
        PROVE  LogOf(y)'
    <2>0. req[r].thing \in Things /\ req[r].by = NoLink /\ r \notin Granting(y)
      BY <1>0, <1>3 DEF LogAccess, RequestInvOf, At, Granting
    <2>1. CASE Done(r) /\ UNCHANGED entries
      <3>1. \A s \in Requests : req'[s] = IF s = r THEN Idle ELSE req[s]
        BY <2>1, Moved
      <3> QED BY <1>1, <1>3, <2>1, <3>1 DEF LogAccess, At, Idle
    <2>2. CASE GoTo(r, "serve") /\ entries' = [entries EXCEPT ![req[r].thing] = @ + 1]
      <3>1. \A s \in Requests : /\ req'[s].at = IF s = r THEN "serve" ELSE req[s].at
                                /\ req'[s].thing = req[s].thing /\ req'[s].by = req[s].by
        BY <2>2, Moved
      <3>2. CASE y # req[r].thing
        <4>1. Granting(y)' = Granting(y)
          BY <3>1, <3>2 DEF Granting, At
        <4>2. row'[y] = row[y] /\ served'[y] = served[y] /\ entries'[y] = entries[y]
          BY <1>0, <1>3, <2>2, <3>2 DEF LogAccess
        <4> QED BY <1>0, <4>1, <4>2 DEF LogOf
      <3>3. CASE y = req[r].thing
        <4>1. Granting(y)' = Granting(y) \cup {r}
          BY <2>0, <3>1, <3>3 DEF Granting, At
        <4>2. Cardinality(Granting(y)') = Cardinality(Granting(y)) + 1
          BY <2>0, <4>1, GrantingFinite, FS_AddElement
        <4>3. row'[y] = row[y] /\ served'[y] = served[y] /\ entries'[y] = entries[y] + 1
          BY <1>0, <1>3, <2>2, <3>3 DEF LogAccess
        <4>4. served[y] \in Nat /\ entries[y] \in Nat /\ Cardinality(Granting(y)) \in Nat
          BY <1>0, GrantingFinite
        <4> QED BY <1>0, <4>2, <4>3, <4>4 DEF LogOf
      <3> QED BY <3>2, <3>3
    <2> QED BY <1>3, <2>1, <2>2 DEF LogAccess
  <1>4. ASSUME NEW r \in Requests, Serve(r)
        PROVE  LogOf(y)'
    <2>1. \A s \in Requests : req'[s] = IF s = r THEN Idle ELSE req[s]
      BY <1>4, Moved DEF Serve
    <2>2. CASE req[r].by # NoLink \/ y # req[r].thing
      <3>1. row'[y] = row[y] /\ served'[y] = served[y] /\ entries'[y] = entries[y]
        BY <1>0, <1>4, <2>2 DEF Serve
      <3> QED BY <1>0, <2>1, <3>1, LogSame DEF At, Idle
    <2>3. CASE req[r].by = NoLink /\ y = req[r].thing
      <3>1. r \in Granting(y) /\ Granting(y)' = Granting(y) \ {r}
        BY <1>4, <2>1, <2>3 DEF Serve, Granting, At, Idle
      <3>2. Cardinality(Granting(y)') = Cardinality(Granting(y)) - 1
        BY <3>1, GrantingFinite, FS_RemoveElement
      <3>3. row'[y] = row[y] /\ served'[y] = served[y] + 1 /\ entries'[y] = entries[y]
        BY <1>0, <1>4, <2>3 DEF Serve
      <3>4. /\ served[y] \in Nat /\ entries[y] \in Nat /\ Cardinality(Granting(y)) \in Nat
            /\ row[y] # "fresh"
        BY <1>0, <1>4, <2>3, GrantingFinite DEF Serve, RequestInvOf, At
      <3> QED BY <1>0, <3>2, <3>3, <3>4 DEF LogOf
    <2> QED BY <2>2, <2>3
  <1>5. ASSUME NEW r \in Requests, Drop(r)
        PROVE  LogOf(y)'
    <2>1. \A s \in Requests : req'[s] = IF s = r THEN Idle ELSE req[s]
      BY <1>5, Moved DEF Drop
    <2>2. CASE y # req[r].thing
      <3>1. row'[y] = row[y] /\ served'[y] = served[y] /\ entries'[y] = entries[y]
        BY <1>0, <1>5, <2>2 DEF Drop
      <3> QED BY <1>0, <2>1, <3>1, LogSame DEF At, Idle
    <2>3. CASE y = req[r].thing
      BY <1>0, <1>5, <2>3 DEF Drop, LogOf
    <2> QED BY <2>2, <2>3
  <1>6. ASSUME NEW r \in Requests, Abort(r) \/ CreateLink(r)
                                  \/ DecryptTampered(r) \/ DecryptMissing(r)
        PROVE  LogOf(y)'
    <2>1. \A s \in Requests : req'[s] = IF s = r THEN Idle ELSE req[s]
      BY <1>6, Moved DEF Abort, CreateLink, DecryptTampered, DecryptMissing
    <2>2. UNCHANGED <<row, served, entries>>
      BY <1>6 DEF Abort, CreateLink, DecryptTampered, DecryptMissing
    <2> QED BY <1>1, <2>1, <2>2 DEF At, Idle
  <1>7. ASSUME NEW r \in Requests, DecryptGood(r) \/ Unlink(r)
        PROVE  LogOf(y)'
    <2>1. /\ \A s \in Requests : s # r => req'[s] = req[s]
          /\ req'[r].at \in {"log", "mark", "drop"}
      BY <1>0, <1>7 DEF DecryptGood, Unlink, GoTo, Request
    <2>2. UNCHANGED <<row, served, entries>>
      BY <1>7 DEF DecryptGood, Unlink
    <2> QED BY <1>1, <2>1, <2>2 DEF At
  <1>8. ASSUME NEW r \in Requests, MarkUsed(r)
        PROVE  LogOf(y)'
    <2>1. req[r].by # NoLink
      BY <1>0, <1>8, VaultAssumption DEF MarkUsed, RequestInvOf, At
    <2>2. \A s \in Requests : /\ s # r => req'[s] = req[s]
                              /\ req'[r].by = req[r].by \/ req'[r].at = "idle"
      BY <1>0, <1>8 DEF MarkUsed, GoTo, Done, Idle, Request
    <2>3. UNCHANGED <<row, served, entries>>
      BY <1>8 DEF MarkUsed
    <2> QED BY <1>1, <2>1, <2>2, <2>3 DEF At
  <1>9. ASSUME NEW r \in Requests, Arrive(r)
        PROVE  LogOf(y)'
    <2>1. \A x, l : \A at \in {"insert", "decrypt", "unlink", "link"} : Begin(r, x, l, at) =>
             \A s \in Requests : At(s, "serve")' => req'[s] = req[s]
      BY Moved DEF At
    <2>2. ASSUME NEW x \in Things, SaveToDisk(r, x) \/ Fetch(r, x) \/ LockRow(r, x)
          PROVE  LogOf(y)'
      BY <1>1, <2>1, <2>2 DEF SaveToDisk, Fetch, LockRow
    <2>3. ASSUME NEW x \in Things, RefuseOther(r, x)
          PROVE  LogOf(y)'
      BY <1>1, <2>3 DEF RefuseOther
    <2>4. ASSUME NEW x, NEW l, ShareRead(r, x, l) \/ OpenLink(r, l)
          PROVE  LogOf(y)'
      BY <1>1, <2>1, <2>4 DEF ShareRead, OpenLink
    <2> QED BY <1>9, <2>2, <2>3, <2>4
            DEF Arrive, UploadFile, UploadImage, ReadFile, ReadImage, DeleteFile, DeleteImage
  <1>10. CASE \/ UNCHANGED vars \/ \E l \in Links : Expire(l)
              \/ \E x \in Things, part \in {"key", "content"} : Damage(x, part)
    BY <1>1, <1>10 DEF vars, Expire, Damage
  <1> QED BY <1>2, <1>3, <1>4, <1>5, <1>6, <1>7, <1>8, <1>9, <1>10 DEF Next, Proceed

-----------------------------------------------------------------------------
(* The theorems.                                                           *)

\* VaultInv: the inductive invariant.
VaultInv == TypeOK /\ RequestInv /\ LinkInv /\ DiskInv /\ LogInv

\* The invariant holds at first.
LEMMA VaultInvInit == Init => VaultInv
  <1> SUFFICES ASSUME Init PROVE VaultInv
    OBVIOUS
  <1>1. TypeOK
    BY TypeInit
  <1>2. RequestInv /\ DiskInv /\ LinkInv
    BY DEF Init, RequestInv, RequestInvOf, DiskInv, DiskOf, LinkInv, Idle, At
  <1>3. LogInv
    BY DEF Init, LogInv, LogOf
  <1> QED BY <1>1, <1>2, <1>3 DEF VaultInv

\* Every step preserves it.
LEMMA VaultInvStep == VaultInv /\ [Next]_vars => VaultInv'
  BY TypeStep, RequestStep, LinkStep, DiskStep, LogStep DEF VaultInv

\* VaultCorrect: the requests, their locks and links, the disk and the log agree,
\* however the views' statements interleave and wherever one breaks off.
THEOREM VaultCorrect == Spec => []VaultInv
  BY VaultInvInit, VaultInvStep, PTL DEF Spec

\* TypeCorrect: the vault stays within its types.
THEOREM TypeCorrect == Spec => []TypeOK
  <1>1. VaultInv => TypeOK
    BY DEF VaultInv
  <1> QED BY <1>1, VaultCorrect, PTL

\* DiskMatchesHolds: the disk and the rows agree for any number of requests,
\* broken off anywhere, but for the thing a delete took off the disk last.
THEOREM DiskMatchesHolds == Spec => []DiskMatches
  <1>1. VaultInv => DiskMatches
    BY DiskFromInv DEF VaultInv
  <1> QED BY <1>1, VaultCorrect, PTL

\* ShownIsUsedHolds: a link that showed its file is used up, for any number of
\* viewers, links and deletes.
THEOREM ShownIsUsedHolds == Spec => []ShownIsUsed
  <1>1. VaultInv => ShownIsUsed
    BY DEF VaultInv, LinkInv, ShownIsUsed
  <1> QED BY <1>1, VaultCorrect, PTL

\* OwnerReadsAreLoggedHolds: each answer that gave the owner a listed file or image
\* has its entry in the log, and so has the upload.
THEOREM OwnerReadsAreLoggedHolds == Spec => []OwnerReadsAreLogged
  <1>1. VaultInv => OwnerReadsAreLogged
    <2> SUFFICES ASSUME VaultInv, NEW x \in Listed
                 PROVE  served[x] < AccessLog(x)
      BY DEF OwnerReadsAreLogged
    <2>1. x \in Things /\ row[x] = "live" /\ served[x] \in Nat /\ entries[x] \in Nat
      BY DEF Listed, ListedFiles, ListedImages, Things, VaultInv, TypeOK
    <2>2. served[x] < entries[x]
      BY <2>1, GrantingFinite DEF VaultInv, LogInv, LogOf
    <2>3. AccessLog(x) >= entries[x]
      BY <2>1 DEF AccessLog, FileLog, ImageLog, Listed, ListedFiles, ListedImages
    <2>4. AccessLog(x) \in Nat
      BY <2>1 DEF AccessLog, FileLog, ImageLog
    <2> QED BY <2>1, <2>2, <2>3, <2>4
  <1> QED BY <1>1, VaultCorrect, PTL

-----------------------------------------------------------------------------
(* The vault implements VaultStore.                                        *)

\* Each step is a step of the store, or leaves it alone.
LEMMA StoreStep ==
    ASSUME VaultInv, [Next]_vars
    PROVE  [Store!Next]_(Store!storeVars)
  <1> DEFINE granted == [x \in Things |-> Granted(x)]
  <1> SUFFICES \/ Store!Next
               \/ row' = row /\ entries' = entries /\ granted' = granted
    BY DEF Store!storeVars
  <1>0. /\ \A s \in Requests : RequestInvOf(s)
        /\ row \in [Things -> {"fresh", "live", "gone"}] /\ entries \in [Things -> Nat]
        /\ req \in [Requests -> Request]
    BY DEF RequestInv, TypeOK, VaultInv
  <1>1. ASSUME row' = row, entries' = entries,
               \A s \in Requests : At(s, "serve") \/ At(s, "serve")' => req'[s] = req[s]
        PROVE  row' = row /\ entries' = entries /\ granted' = granted
    <2>1. \A x \in Things : Granted(x)' = Granted(x)
      BY <1>1 DEF Granted, At
    <2> QED BY <1>1, <2>1
  <1>2. ASSUME NEW r \in Requests, CommitUpload(r)
        PROVE  Store!Next
    <2>1. \A s \in Requests : req'[s] = IF s = r THEN Idle ELSE req[s]
      BY <1>2, Moved DEF CommitUpload, VaultInv
    <2>2. \A x \in Things : Granted(x)' = Granted(x)
      BY <1>2, <2>1 DEF Granted, At, Idle, CommitUpload
    <2>3. req[r].thing \in Things /\ row[req[r].thing] = "fresh"
      BY <1>0, <1>2 DEF CommitUpload, RequestInvOf, At
    <2>4. Store!Store(req[r].thing)
      BY <1>2, <2>2, <2>3 DEF CommitUpload, Store!Store
    <2> QED BY <2>3, <2>4 DEF Store!Next
  <1>3. ASSUME NEW r \in Requests, LogAccess(r), GoTo(r, "serve"), row[req[r].thing] = "live",
               entries' = [entries EXCEPT ![req[r].thing] = @ + 1]
        PROVE  Store!Next
    <2>1. \A s \in Requests : /\ req'[s].at = IF s = r THEN "serve" ELSE req[s].at
                              /\ req'[s].thing = req[s].thing
      BY <1>3, Moved DEF VaultInv
    <2>2. req[r].thing \in Things
      BY <1>0, <1>3 DEF LogAccess, RequestInvOf, At
    <2>3. \A x \in Things : Granted(x)' = IF x = req[r].thing THEN Granted(x) \cup {r} ELSE Granted(x)
      BY <2>1 DEF Granted, At
    <2>4. granted' = [granted EXCEPT ![req[r].thing] = @ \cup {r}]
      BY <2>3
    <2>5. Store!Read(r, req[r].thing)
      BY <1>3, <2>4 DEF LogAccess, Store!Read
    <2> QED BY <2>2, <2>5 DEF Store!Next
  <1>4. ASSUME NEW r \in Requests, MarkUsed(r), GoTo(r, "serve"), link[req[r].by].state # "gone"
        PROVE  Store!Next
    <2>1. \A s \in Requests : /\ req'[s].at = IF s = r THEN "serve" ELSE req[s].at
                              /\ req'[s].thing = req[s].thing
      BY <1>4, Moved DEF VaultInv
    <2>2. /\ req[r].thing \in Things /\ req[r].by \in Links
          /\ link[req[r].by].of = req[r].thing /\ link[req[r].by].state # "fresh"
      BY <1>0, <1>4, VaultAssumption DEF MarkUsed, RequestInvOf, At
    <2>3. row[req[r].thing] = "live"
      BY <1>4, <2>2 DEF VaultInv, TypeOK, LinkInv, Link
    <2>4. \A x \in Things : Granted(x)' = IF x = req[r].thing THEN Granted(x) \cup {r} ELSE Granted(x)
      BY <2>1 DEF Granted, At
    <2>5. granted' = [granted EXCEPT ![req[r].thing] = @ \cup {r}]
      BY <2>4
    <2>6. Store!Share(r, req[r].thing)
      BY <1>4, <2>3, <2>5 DEF MarkUsed, Store!Share
    <2> QED BY <2>2, <2>6 DEF Store!Next
  <1>5. ASSUME NEW r \in Requests, Serve(r) \/ (Abort(r) /\ At(r, "serve"))
        PROVE  Store!Next
    <2>1. \A s \in Requests : req'[s] = IF s = r THEN Idle ELSE req[s]
      BY <1>5, Moved DEF Serve, Abort, VaultInv
    <2>2. req[r].thing \in Things /\ At(r, "serve")
      BY <1>0, <1>5 DEF Serve, RequestInvOf, At
    <2>3. \A x \in Things : Granted(x)' = IF x = req[r].thing THEN Granted(x) \ {r} ELSE Granted(x)
      BY <2>1, <2>2 DEF Granted, At, Idle
    <2>4. granted' = [granted EXCEPT ![req[r].thing] = @ \ {r}] /\ r \in Granted(req[r].thing)
      BY <2>2, <2>3 DEF Granted
    <2>5. Store!Finish(r, req[r].thing)
      BY <1>5, <2>2, <2>4 DEF Serve, Abort, Store!Finish
    <2> QED BY <2>2, <2>5 DEF Store!Next
  <1>6. ASSUME NEW r \in Requests, Drop(r)
        PROVE  Store!Next
    <2>1. \A s \in Requests : req'[s] = IF s = r THEN Idle ELSE req[s]
      BY <1>6, Moved DEF Drop, VaultInv
    <2>2. \A x \in Things : Granted(x)' = Granted(x)
      BY <1>6, <2>1 DEF Granted, At, Idle, Drop
    <2>3. req[r].thing \in Things /\ row[req[r].thing] = "live"
      BY <1>0, <1>6 DEF Drop, RequestInvOf, At
    <2>4. Store!Remove(req[r].thing)
      BY <1>6, <2>2, <2>3 DEF Drop, Store!Remove
    <2> QED BY <2>3, <2>4 DEF Store!Next
  <1>7. ASSUME NEW r \in Requests, Done(r), row' = row, entries' = entries, ~At(r, "serve")
        PROVE  row' = row /\ entries' = entries /\ granted' = granted
    <2>1. \A s \in Requests : req'[s] = IF s = r THEN Idle ELSE req[s]
      BY <1>7, Moved DEF VaultInv
    <2> QED BY <1>1, <1>7, <2>1 DEF At, Idle
  <1>8. ASSUME NEW r \in Requests, DecryptGood(r) \/ Unlink(r)
        PROVE  row' = row /\ entries' = entries /\ granted' = granted
    <2>1. /\ \A s \in Requests : s # r => req'[s] = req[s]
          /\ req'[r].at # "serve" /\ req[r].at # "serve"
      BY <1>0, <1>8 DEF DecryptGood, Unlink, GoTo, Request, At
    <2>2. row' = row /\ entries' = entries
      BY <1>8 DEF DecryptGood, Unlink
    <2> QED BY <1>1, <2>1, <2>2 DEF At
  <1>9. ASSUME NEW r \in Requests, NEW x, NEW l,
               NEW at \in {"insert", "decrypt", "unlink", "link"}, Begin(r, x, l, at),
               row' = row, entries' = entries
        PROVE  row' = row /\ entries' = entries /\ granted' = granted
    <2>1. \A s \in Requests : At(s, "serve") \/ At(s, "serve")' => req'[s] = req[s]
      BY <1>9, Moved DEF At, VaultInv
    <2> QED BY <1>1, <1>9, <2>1
  <1>10. ASSUME NEW r \in Requests, Arrive(r)
         PROVE  row' = row /\ entries' = entries /\ granted' = granted
    <2>1. ASSUME NEW x \in Things, SaveToDisk(r, x) \/ Fetch(r, x) \/ LockRow(r, x)
          PROVE  row' = row /\ entries' = entries /\ granted' = granted
      BY <1>9, <2>1 DEF SaveToDisk, Fetch, LockRow
    <2>2. ASSUME NEW x \in Things, RefuseOther(r, x)
          PROVE  row' = row /\ entries' = entries /\ granted' = granted
      BY <1>1, <2>2 DEF RefuseOther
    <2>3. ASSUME NEW x, NEW l, ShareRead(r, x, l) \/ OpenLink(r, l)
          PROVE  row' = row /\ entries' = entries /\ granted' = granted
      BY <1>9, <2>3 DEF ShareRead, OpenLink
    <2> QED BY <1>10, <2>1, <2>2, <2>3
            DEF Arrive, UploadFile, UploadImage, ReadFile, ReadImage, DeleteFile, DeleteImage
  <1>11. CASE \/ UNCHANGED vars \/ \E l \in Links : Expire(l)
              \/ \E x \in Things, part \in {"key", "content"} : Damage(x, part)
    BY <1>1, <1>11 DEF vars, Expire, Damage
  <1>12. ASSUME NEW r \in Requests, Proceed(r) \/ Abort(r)
         PROVE  Store!Next \/ (row' = row /\ entries' = entries /\ granted' = granted)
    <2>1. CASE LogAccess(r)
      BY <1>3, <1>7, <2>1 DEF LogAccess, At
    <2>2. CASE MarkUsed(r)
      BY <1>4, <1>7, <2>2 DEF MarkUsed, At
    <2>3. CASE Abort(r)
      BY <1>5, <1>7, <2>3 DEF Abort
    <2>4. CASE DecryptTampered(r) \/ DecryptMissing(r) \/ CreateLink(r)
      BY <1>7, <2>4 DEF DecryptTampered, DecryptMissing, CreateLink, At
    <2> QED BY <1>2, <1>5, <1>6, <1>8, <1>12, <2>1, <2>2, <2>3, <2>4 DEF Proceed
  <1> QED BY <1>10, <1>11, <1>12 DEF Next

\* Implements: the vault, with its disk, its locks and its broken requests, does
\* what VaultStore promises: content is granted only while its row is there,
\* and to the owner only with an entry in the log.
THEOREM Implements == Spec => StoreSpec
  <1>1. Init => Store!Init
    BY DEF Init, Store!Init, Granted, Idle, At
  <1>2. VaultInv /\ [Next]_vars => [Store!Next]_(Store!storeVars)
    BY StoreStep
  <1> QED BY <1>1, <1>2, VaultCorrect, PTL DEF Spec, StoreSpec, Store!Spec

=============================================================================
