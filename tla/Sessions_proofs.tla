--------------------------- MODULE Sessions_proofs ---------------------------
(***************************************************************************)
(* Proofs about Sessions, for any sessions, requests, keys and failures.   *)
(* The argument: an UPDATE by id cannot bring a row back, and a login      *)
(* makes its row once; so a deleted row stays away, and a request that     *)
(* begins after the deletion goes no further than GetSession. TokenInv     *)
(* follows the tokens of a session from Keycloak to its row, LogoutInv the *)
(* sid a row is written with, whoever writes it.                           *)
(***************************************************************************)
EXTENDS Sessions, TLAPS

Pc == Rest \cup {"get", "touch", "refresh", "revoke", "rotate get", "rotate",
                 "signing out", "answer"}
Req == [pc: Pc, logout: BOOLEAN, id: Ids \cup {"none"}, copy: Row \cup {NoRow},
        gen: Nat, late: BOOLEAN]

\* The types the argument needs.
Shape ==
  /\ row \in [Ids -> Row \cup {NoRow}]
  /\ login \in [Ids -> {"none", "done", "failed"} \cup Sids]
  /\ issued \in [Ids -> Nat]
  /\ req \in [Requests -> Req]
  /\ removed \subseteq Ids

\* A request under way has a session, and writes back a row that it read.
ReqOK(r) ==
  /\ req[r].pc \notin Rest => req[r].id \in Ids
  /\ req[r].pc \in {"touch", "rotate"} => req[r].copy \in Row

\* A row exists after its login only, and not after it was deleted.
RowOK(s) ==
  /\ Exists(s) => login[s] = "done"
  /\ s \in removed => ~Exists(s) /\ login[s] = "done"

\* A request that began after the deletion has still to look, or was denied.
LateOK(r) ==
  req[r].late => \/ req[r].pc = "get" /\ req[r].id \in removed
                 \/ req[r].pc = "denied"

SessionInv == /\ Shape
              /\ \A r \in Requests : ReqOK(r) /\ LateOK(r)
              /\ \A s \in Ids : RowOK(s)

-----------------------------------------------------------------------------
LEMMA NoRowIsNoRow == NoRow \notin Row
BY SessionAssumption DEF NoRow, Row

LEMMA SessionInvInit == SessionInit => SessionInv
BY DEF SessionInit, SessionInv, Shape, ReqOK, RowOK, LateOK, Exists, NoRequest,
       Req, Pc, Rest

\* A handler that goes on from "get" with a row, or from a later point.
LEMMA RequestStep ==
  ASSUME SessionInv, NEW r \in Requests, NEW next \in Req, Goto(r, next),
         removed \subseteq removed', next.late = req[r].late,
         next.pc \notin Rest => next.id \in Ids,
         next.pc \in {"touch", "rotate"} => next.copy \in Row,
         next.late => next.pc = "denied"
  PROVE  /\ req' \in [Requests -> Req]
         /\ \A q \in Requests : ReqOK(q)' /\ LateOK(q)'
BY DEF SessionInv, Shape, ReqOK, LateOK, Goto

\* Rows that are only changed while they exist, or deleted.
LEMMA RowStep ==
  ASSUME SessionInv, login' = login,
         NEW gone \in SUBSET Ids,
         removed' = removed \cup {s \in gone : Exists(s)},
         row' \in [Ids -> Row \cup {NoRow}],
         \A s \in Ids : Exists(s)' => Exists(s) /\ s \notin gone
  PROVE  /\ removed' \subseteq Ids /\ \A s \in Ids : RowOK(s)'
BY DEF SessionInv, Shape, RowOK, Exists

LEMMA OverIsRequest ==
  ASSUME SessionInv, NEW r \in Requests, NEW how \in Rest
  PROVE  /\ Over(r, how) \in Req /\ Over(r, how).pc = how
         /\ Over(r, how).late = req[r].late
BY DEF Over, NoRequest, Req, Pc, SessionInv, Shape, Rest

LEMMA WithoutCopyIsRequest ==
  ASSUME SessionInv, NEW r \in Requests, NEW pc \in Pc
  PROVE  /\ WithoutCopy(r, pc) \in Req /\ WithoutCopy(r, pc).pc = pc
         /\ WithoutCopy(r, pc).id = req[r].id
         /\ WithoutCopy(r, pc).late = req[r].late
<1>1. req[r] \in Req
  BY DEF SessionInv, Shape
<1> QED
  BY <1>1 DEF WithoutCopy, Req

LEMMA AfterGetMoves ==
  ASSUME SessionInv, NEW r \in Requests, NEW copy
  PROVE  /\ AfterGet(r, copy).pc \in {"signing out", "refresh", "answer"}
         /\ AfterGet(r, copy).id = req[r].id
<1>1. req[r] \in Req /\ "answer" \in Pc
  BY DEF SessionInv, Shape, Pc
<1>2. CASE AfterGet(r, copy) = WithoutCopy(r, "answer")
  <2>1. /\ WithoutCopy(r, "answer").pc = "answer"
        /\ WithoutCopy(r, "answer").id = req[r].id
    BY <1>1, WithoutCopyIsRequest
  <2> QED
    BY <1>2, <2>1
<1>3. CASE \E pc \in {"signing out", "refresh"} :
             AfterGet(r, copy) = [req[r] EXCEPT !.pc = pc, !.copy = copy]
  BY <1>1, <1>3 DEF Req
<1> QED
  BY <1>2, <1>3 DEF AfterGet

\* A step that writes no row: what holds of the rows goes on holding.
LEMMA RowsKept ==
  ASSUME SessionInv, UNCHANGED <<row, login, removed>>, issued' \in [Ids -> Nat],
         req' \in [Requests -> Req],
         \A q \in Requests : ReqOK(q)' /\ LateOK(q)'
  PROVE  SessionInv'
BY DEF SessionInv, Shape, RowOK, Exists

\* A step that writes rows and touches no request.
LEMMA RequestsKept ==
  ASSUME SessionInv, UNCHANGED req, removed \subseteq removed',
         issued' \in [Ids -> Nat], removed' \subseteq Ids,
         row' \in [Ids -> Row \cup {NoRow}],
         login' \in [Ids -> {"none", "done", "failed"} \cup Sids],
         \A s \in Ids : RowOK(s)'
  PROVE  SessionInv'
BY DEF SessionInv, Shape, ReqOK, LateOK

\* Delete, of any sessions.
LEMMA DeleteStep ==
  ASSUME SessionInv, login' = login, NEW gone \in SUBSET Ids, Delete(gone)
  PROVE  /\ row' \in [Ids -> Row \cup {NoRow}] /\ removed \subseteq removed'
         /\ removed' \subseteq Ids /\ \A s \in Ids : RowOK(s)'
<1>1. /\ row' \in [Ids -> Row \cup {NoRow}]
      /\ removed' = removed \cup {s \in gone : Exists(s)}
      /\ \A s \in Ids : Exists(s)' => Exists(s) /\ s \notin gone
  BY DEF Delete, SessionInv, Shape, Exists
<1>2. QED
  BY <1>1, RowStep

\* Update, of one session, by a row: it is no upsert.
LEMMA UpdateStep ==
  ASSUME SessionInv, UNCHANGED <<login, removed>>, NEW s \in Ids, NEW new \in Row,
         Update(s, new)
  PROVE  /\ row' \in [Ids -> Row \cup {NoRow}]
         /\ \A t \in Ids : RowOK(t)'
<1>1. /\ row' \in [Ids -> Row \cup {NoRow}]
      /\ \A t \in Ids : Exists(t)' => Exists(t)
  BY DEF Update, SessionInv, Shape, Exists
<1>2. QED
  BY <1>1 DEF SessionInv, RowOK

-----------------------------------------------------------------------------
(* Time, Keycloak, logins and the cleaner                                  *)

LEMMA GrowInv == ASSUME SessionInv, NEW s \in Ids, Grow(s) PROVE SessionInv'
<1>1. row[s] \in Row
  BY DEF Grow, Exists, SessionInv, Shape
<1>2. row' \in [Ids -> Row \cup {NoRow}] /\ \A t \in Ids : Exists(t)' => Exists(t)
  BY <1>1 DEF Grow, SessionInv, Shape, Row, Ages, Exists
<1>3. \A t \in Ids : RowOK(t)'
  BY <1>2 DEF Grow, SessionInv, RowOK, Exists
<1>4. QED
  BY <1>2, <1>3, RequestsKept DEF Grow, Keycloak, SessionInv, Shape

LEMMA ExchangeCodeInv ==
  ASSUME SessionInv, NEW s \in Ids, NEW k \in Sids, ExchangeCode(s, k)
  PROVE  SessionInv'
<1>1. login' \in [Ids -> {"none", "done", "failed"} \cup Sids]
      /\ issued' \in [Ids -> Nat]
  BY DEF ExchangeCode, SessionInv, Shape
<1>2. ASSUME NEW t \in Ids PROVE RowOK(t)'
  BY DEF ExchangeCode, SessionInv, Shape, RowOK, Exists
<1>3. QED
  BY <1>1, <1>2, RequestsKept DEF ExchangeCode, SessionInv, Shape

LEMMA CreateSessionInv ==
  ASSUME SessionInv, NEW s \in Ids, NEW k \in Sids, CreateSession(s, k)
  PROVE  SessionInv'
<1>1. login[s] # "done" /\ login[s] # "none"
  BY SessionAssumption DEF CreateSession
<1>2. ~Exists(s) /\ s \notin removed
  BY <1>1 DEF SessionInv, RowOK
<1>3. \A sid \in {k, "none"} : NewSession(k, sid) \in Row
  BY DEF NewSession, Row, Ages
<1>4. /\ login' \in [Ids -> {"none", "done", "failed"} \cup Sids]
      /\ row' \in [Ids -> Row \cup {NoRow}]
  BY <1>3 DEF CreateSession, Create, SessionInv, Shape
<1>5. ASSUME NEW t \in Ids PROVE RowOK(t)'
  BY <1>2 DEF CreateSession, Create, SessionInv, Shape, RowOK, Exists, History
<1>6. QED
  BY <1>4, <1>5, RequestsKept
     DEF CreateSession, Keycloak, History, SessionInv, Shape

LEMMA BackchannelInv ==
  ASSUME SessionInv, NEW k \in Sids, Backchannel(k) PROVE SessionInv'
<1>1. CASE Delete({s \in Ids : row[s].sid = k})
  <2>1. /\ row' \in [Ids -> Row \cup {NoRow}] /\ removed \subseteq removed'
        /\ removed' \subseteq Ids /\ \A s \in Ids : RowOK(s)'
    BY <1>1, DeleteStep DEF Backchannel
  <2>2. QED
    BY <2>1, RequestsKept DEF Backchannel, SessionInv, Shape
<1>2. CASE UNCHANGED <<row, removed>>
  BY <1>2 DEF Backchannel, SessionInv, Shape, ReqOK, LateOK, RowOK, Exists
<1>3. QED
  BY <1>1, <1>2 DEF Backchannel, RevokeByKeycloakSID, Refuse

LEMMA DeleteExpiredInv == ASSUME SessionInv, DeleteExpired PROVE SessionInv'
<1>1. CASE Delete(Expired)
  <2>1. /\ row' \in [Ids -> Row \cup {NoRow}] /\ removed \subseteq removed'
        /\ removed' \subseteq Ids /\ \A s \in Ids : RowOK(s)'
    BY <1>1, DeleteStep DEF DeleteExpired, Expired, Unchanged
  <2>2. QED
    BY <2>1, RequestsKept DEF DeleteExpired, Unchanged, Keycloak, SessionInv, Shape
<1>2. CASE UNCHANGED <<row, removed>>
  BY <1>2 DEF DeleteExpired, Unchanged, Keycloak, SessionInv, Shape, ReqOK,
              LateOK, RowOK, Exists
<1>3. QED
  BY <1>1, <1>2 DEF DeleteExpired

-----------------------------------------------------------------------------
(* Requests                                                                *)

LEMMA BeginInv ==
  ASSUME SessionInv, NEW r \in Requests, NEW s \in Ids, NEW logout \in BOOLEAN,
         Begin(r, s, logout)
  PROVE  SessionInv'
<1> DEFINE new == [NoRequest EXCEPT !.pc = "get", !.id = s, !.logout = logout,
                                    !.late = s \in removed]
<1>1. req' = [req EXCEPT ![r] = new] /\ login[s] = "done"
  BY DEF Begin
<1>2. new.pc = "get" /\ new.id = s /\ new.late = (s \in removed)
  BY DEF NoRequest
<1>3. new \in Req
  <2>1. \A late \in BOOLEAN :
          [NoRequest EXCEPT !.pc = "get", !.id = s, !.logout = logout,
                            !.late = late] \in Req
    BY DEF NoRequest, Req, Pc, Rest
  <2>2. (s \in removed) \in BOOLEAN
    OBVIOUS
  <2>3. QED
    BY <2>1, <2>2
<1>4. new.late => s \in removed
  BY <1>2
<1>5. UNCHANGED <<row, login, removed, issued>>
  BY DEF Begin, Keycloak
<1> HIDE DEF new
<1>6. req' \in [Requests -> Req]
  BY <1>1, <1>3 DEF SessionInv, Shape
<1>7. \A q \in Requests : ReqOK(q)' /\ LateOK(q)'
  BY <1>1, <1>2, <1>4, <1>5 DEF SessionInv, Shape, ReqOK, LateOK, Rest
<1>8. QED
  BY <1>5, <1>6, <1>7, RowsKept DEF SessionInv, Shape

\* What a request under way is known to be, whatever it does next.
LEMMA UnderWay ==
  ASSUME SessionInv, NEW r \in Requests, req[r].pc \notin Rest
  PROVE  /\ req[r] \in Req /\ req[r].id \in Ids
         /\ req[r].pc # "get" => ~req[r].late
         /\ req[r].pc = "get" /\ req[r].late => ~Exists(req[r].id)
BY DEF SessionInv, Shape, ReqOK, LateOK, RowOK, Rest

\* A request that is over changes nothing but itself.
LEMMA OverInv ==
  ASSUME SessionInv, NEW r \in Requests, NEW how \in Rest, Goto(r, Over(r, how)),
         how = "denied" \/ ~req[r].late,
         removed \subseteq removed'
  PROVE  /\ req' \in [Requests -> Req]
         /\ \A q \in Requests : ReqOK(q)' /\ LateOK(q)'
<1>1. /\ Over(r, how) \in Req /\ Over(r, how).pc = how
      /\ Over(r, how).late = req[r].late
  BY OverIsRequest
<1>2. QED
  BY <1>1, RequestStep DEF Rest

\* GetSession found a row: the request goes on as AfterGet says.
LEMMA AfterGetInv ==
  ASSUME SessionInv, NEW r \in Requests, req[r].pc \notin Rest, ~req[r].late,
         NEW copy \in Row, Goto(r, AfterGet(r, copy)), removed \subseteq removed'
  PROVE  /\ req' \in [Requests -> Req]
         /\ \A q \in Requests : ReqOK(q)' /\ LateOK(q)'
<1>1. req[r] \in Req /\ req[r].id \in Ids
  BY UnderWay
<1>2. /\ AfterGet(r, copy) \in Req
      /\ AfterGet(r, copy).late = req[r].late
      /\ AfterGet(r, copy).id = req[r].id
      /\ AfterGet(r, copy).pc \in {"signing out", "refresh", "answer"}
  <2>1. CASE AfterGet(r, copy) = WithoutCopy(r, "answer")
    <3>1. "answer" \in Pc
      BY DEF Pc
    <3> QED
      BY <2>1, <3>1, WithoutCopyIsRequest
  <2>2. CASE \E pc \in {"signing out", "refresh"} :
               AfterGet(r, copy) = [req[r] EXCEPT !.pc = pc, !.copy = copy]
    BY <1>1, <2>2 DEF Req, Pc
  <2> QED
    BY <2>1, <2>2 DEF AfterGet
<1>3. QED
  BY <1>1, <1>2, RequestStep

LEMMA GetInv == ASSUME SessionInv, NEW r \in Requests, Get(r) PROVE SessionInv'
<1> DEFINE s == req[r].id
<1>1. /\ req[r] \in Req /\ s \in Ids /\ req[r].pc = "get"
      /\ req[r].late => ~Exists(s)
  BY UnderWay DEF Get, Rest
<1>2. UNCHANGED <<row, login, removed, issued>>
  BY DEF Get, Unchanged, Keycloak
<1>3. /\ req' \in [Requests -> Req]
      /\ \A q \in Requests : ReqOK(q)' /\ LateOK(q)'
  <2>1. CASE Goto(r, Over(r, "denied"))
    BY <1>2, <2>1, OverInv DEF Rest
  <2>2. CASE /\ Exists(s)
             /\ Goto(r, [req[r] EXCEPT !.pc = "touch", !.copy = row[s]])
    <3>1. row[s] \in Row /\ ~req[r].late
      BY <1>1, <2>2 DEF Exists, SessionInv, Shape
    <3> DEFINE next == [req[r] EXCEPT !.pc = "touch", !.copy = row[s]]
    <3>2. /\ next \in Req /\ next.late = req[r].late /\ next.id = s
          /\ next.copy = row[s]
      BY <1>1, <3>1 DEF Req, Pc
    <3> HIDE DEF next
    <3>3. Goto(r, next)
      BY <2>2 DEF next
    <3>4. QED
      BY <1>1, <1>2, <3>1, <3>2, <3>3, RequestStep
  <2>3. CASE Exists(s) /\ Goto(r, AfterGet(r, row[s]))
    <3>1. row[s] \in Row /\ ~req[r].late
      BY <1>1, <2>3 DEF Exists, SessionInv, Shape
    <3>2. QED
      BY <1>1, <1>2, <2>3, <3>1, AfterGetInv DEF Rest
  <2>4. CASE /\ CallWorks
             /\ CASE ~Exists(s) \/ row[s].age = "expired" -> Goto(r, Over(r, "denied"))
                  [] row[s].age = "slidable" ->
                       Goto(r, [req[r] EXCEPT !.pc = "touch", !.copy = row[s]])
                  [] OTHER -> Goto(r, AfterGet(r, row[s]))
    <3> HIDE DEF s
    <3>1. CASE ~Exists(s) \/ row[s].age = "expired"
      <4>1. row[s].age # "slidable"
        BY <3>1 DEF Exists, NoRow
      <4>2. QED
        BY <2>1, <2>4, <3>1, <4>1
    <3>2. CASE Exists(s) /\ row[s].age = "slidable"
      BY <2>2, <2>4, <3>2
    <3>3. CASE Exists(s) /\ row[s].age \notin {"slidable", "expired"}
      BY <2>3, <2>4, <3>3
    <3>4. QED
      BY <3>1, <3>2, <3>3
  <2>5. QED
    BY <2>1, <2>4 DEF Get
<1>4. QED
  BY <1>2, <1>3, RowsKept DEF SessionInv, Shape

LEMMA TouchInv == ASSUME SessionInv, NEW r \in Requests, Touch(r) PROVE SessionInv'
<1> DEFINE s == req[r].id
           slid == Slid(req[r].copy)
<1>1. req[r] \in Req /\ s \in Ids /\ req[r].pc = "touch" /\ ~req[r].late
  BY UnderWay DEF Touch, Rest
<1>2. req[r].copy \in Row
  BY <1>1 DEF SessionInv, ReqOK
<1>3. slid \in Row
  BY <1>2 DEF Slid, Row, Ages
<1>4. UNCHANGED <<login, removed, issued>>
  BY DEF Touch, Unchanged, Keycloak
<1>5. /\ row' \in [Ids -> Row \cup {NoRow}]
      /\ \A t \in Ids : RowOK(t)'
  <2>1. CASE Update(s, slid)
    <3> HIDE DEF s, slid
    <3>1. QED
      BY <1>1, <1>3, <1>4, <2>1, UpdateStep
  <2>2. CASE UNCHANGED row
    BY <1>4, <2>2 DEF SessionInv, Shape, RowOK, Exists
  <2>3. QED
    BY <2>1, <2>2 DEF Touch
<1>6. /\ req' \in [Requests -> Req]
      /\ \A q \in Requests : ReqOK(q)' /\ LateOK(q)'
  <2>1. CASE Goto(r, Over(r, "denied"))
    BY <1>4, <2>1, OverInv DEF Rest
  <2>2. CASE Goto(r, AfterGet(r, slid))
    <3> HIDE DEF slid
    <3>1. QED
      BY <1>1, <1>3, <1>4, <2>2, AfterGetInv DEF Rest
  <2>3. QED
    BY <2>1, <2>2 DEF Touch
<1>7. QED
  BY <1>4, <1>5, <1>6 DEF SessionInv, Shape

\* A handler past GetSession moves to a later point, with the copy it has or
\* with a row.
LEMMA MoveInv ==
  ASSUME SessionInv, NEW r \in Requests, req[r].pc \notin Rest \cup {"get"},
         NEW next \in Req, Goto(r, next),
         next.late = req[r].late, next.id = req[r].id,
         next.pc \in {"touch", "rotate"} => next.copy \in Row,
         removed \subseteq removed'
  PROVE  /\ req' \in [Requests -> Req]
         /\ \A q \in Requests : ReqOK(q)' /\ LateOK(q)'
<1>1. ~req[r].late /\ req[r].id \in Ids
  BY UnderWay
<1>2. QED
  BY <1>1, RequestStep

LEMMA RefreshTokenInv ==
  ASSUME SessionInv, NEW r \in Requests, RefreshToken(r) PROVE SessionInv'
<1> DEFINE s == req[r].id
<1>1. req[r] \in Req /\ s \in Ids /\ req[r].pc = "refresh"
  BY UnderWay DEF RefreshToken, Rest
<1>2. UNCHANGED <<row, login, removed>>
  BY DEF RefreshToken, Unchanged
<1>3. issued' \in [Ids -> Nat] /\ issued[s] + 1 \in Nat
  <2>1. issued' = [issued EXCEPT ![s] = issued[s] + 1]
    BY DEF RefreshToken
  <2> QED
    BY <1>1, <2>1 DEF SessionInv, Shape
<1>4. \E next \in Req :
        /\ Goto(r, next) /\ next.late = req[r].late /\ next.id = s
        /\ next.pc \in {"rotate get", "revoke"}
  <2> DEFINE rotate == [WithoutCopy(r, "rotate get") EXCEPT !.gen = issued[s] + 1]
             revoke == WithoutCopy(r, "revoke")
  <2>1. /\ rotate \in Req /\ rotate.late = req[r].late /\ rotate.id = s
        /\ rotate.pc = "rotate get"
    <3>1. PICK got : got = WithoutCopy(r, "rotate get")
      OBVIOUS
    <3>2. /\ got \in Req /\ got.pc = "rotate get"
          /\ got.id = s /\ got.late = req[r].late
      BY <3>1, WithoutCopyIsRequest DEF Pc
    <3>3. rotate = [got EXCEPT !.gen = issued[s] + 1]
      BY <3>1
    <3> QED
      BY <1>3, <3>2, <3>3 DEF Req
  <2>2. /\ revoke \in Req /\ revoke.late = req[r].late /\ revoke.id = s
        /\ revoke.pc = "revoke"
    BY WithoutCopyIsRequest DEF Pc
  <2>3. Goto(r, rotate) \/ Goto(r, revoke)
    BY DEF RefreshToken
  <2> HIDE DEF rotate, revoke, s
  <2>4. QED
    BY <2>1, <2>2, <2>3
<1>5. QED
  BY <1>1, <1>2, <1>3, <1>4, MoveInv, RowsKept DEF Rest

LEMMA RefreshRefusedInv ==
  ASSUME SessionInv, NEW r \in Requests, RefreshRefused(r) PROVE SessionInv'
<1> DEFINE next == WithoutCopy(r, "revoke")
<1>1. req[r] \in Req /\ req[r].pc = "refresh"
  BY UnderWay DEF RefreshRefused, Rest
<1>2. UNCHANGED <<row, login, removed, issued>> /\ Goto(r, next)
  BY DEF RefreshRefused, Unchanged, Keycloak
<1>3. /\ next \in Req /\ next.pc = "revoke"
      /\ next.late = req[r].late /\ next.id = req[r].id
  BY WithoutCopyIsRequest DEF Pc
<1> HIDE DEF next
<1>4. QED
  BY <1>1, <1>2, <1>3, MoveInv, RowsKept DEF Rest, SessionInv, Shape

LEMMA RevokeInv == ASSUME SessionInv, NEW r \in Requests, Revoke(r) PROVE SessionInv'
<1>1. req[r].id \in Ids
  BY UnderWay DEF Revoke, Rest
<1>2. UNCHANGED <<login, issued>> /\ Goto(r, Over(r, "denied"))
  BY DEF Revoke, Unchanged, Keycloak
<1>3. /\ row' \in [Ids -> Row \cup {NoRow}] /\ removed \subseteq removed'
      /\ removed' \subseteq Ids /\ \A s \in Ids : RowOK(s)'
  <2>1. CASE Delete({req[r].id})
    BY <1>1, <1>2, <2>1, DeleteStep
  <2>2. CASE UNCHANGED <<row, removed>>
    BY <1>2, <2>2 DEF SessionInv, Shape, RowOK, Exists
  <2>3. QED
    BY <2>1, <2>2 DEF Revoke
<1>4. /\ req' \in [Requests -> Req]
      /\ \A q \in Requests : ReqOK(q)' /\ LateOK(q)'
  BY <1>2, <1>3, OverInv DEF Rest
<1>5. QED
  BY <1>2, <1>3, <1>4 DEF SessionInv, Shape

LEMMA RotateGetInv ==
  ASSUME SessionInv, NEW r \in Requests, RotateGet(r) PROVE SessionInv'
<1> DEFINE s == req[r].id
           answer == WithoutCopy(r, "answer")
           rotate == [req[r] EXCEPT !.pc = "rotate", !.copy = row[s]]
<1>1. req[r] \in Req /\ s \in Ids /\ req[r].pc = "rotate get"
  BY UnderWay DEF RotateGet, Rest
<1>2. UNCHANGED <<row, login, removed, issued>>
  BY DEF RotateGet, Unchanged, Keycloak
<1>3. /\ answer \in Req /\ answer.pc = "answer"
      /\ answer.late = req[r].late /\ answer.id = s
  BY WithoutCopyIsRequest DEF Pc
<1>4. \/ Goto(r, answer)
      \/ Exists(s) /\ Goto(r, rotate)
  BY DEF RotateGet, Goto
<1>5. CASE Goto(r, answer)
  <2> HIDE DEF answer, s
  <2>1. QED
    BY <1>1, <1>2, <1>3, <1>5, MoveInv, RowsKept DEF Rest, s, SessionInv, Shape
<1>6. CASE Exists(s) /\ Goto(r, rotate)
  <2>1. row[s] \in Row
    BY <1>1, <1>6 DEF Exists, SessionInv, Shape
  <2>2. /\ rotate \in Req /\ rotate.copy \in Row
        /\ rotate.late = req[r].late /\ rotate.id = req[r].id
    BY <1>1, <2>1 DEF Req, Pc
  <2> HIDE DEF rotate
  <2>3. QED
    BY <1>1, <1>2, <1>6, <2>2, MoveInv, RowsKept DEF Rest, SessionInv, Shape
<1>7. QED
  BY <1>4, <1>5, <1>6

LEMMA RotateInv == ASSUME SessionInv, NEW r \in Requests, Rotate(r) PROVE SessionInv'
<1> DEFINE s == req[r].id
           next == WithoutCopy(r, "answer")
<1>1. req[r] \in Req /\ s \in Ids /\ req[r].pc = "rotate"
  BY UnderWay DEF Rotate, Rest
<1>2. UNCHANGED <<login, removed, issued>> /\ Goto(r, next)
  BY DEF Rotate, Unchanged, Keycloak
<1>3. Rotated(r) \in Row
  <2>1. req[r].copy \in Row /\ req[r].gen \in Nat
    BY <1>1 DEF SessionInv, ReqOK, Req
  <2>2. QED
    BY <2>1 DEF Rotated, Row, Ages
<1>4. /\ row' \in [Ids -> Row \cup {NoRow}]
      /\ \A t \in Ids : RowOK(t)'
  <2>1. CASE Update(s, Rotated(r))
    <3> HIDE DEF s
    <3>1. QED
      BY <1>1, <1>2, <1>3, <2>1, UpdateStep
  <2>2. CASE UNCHANGED row
    BY <1>2, <2>2 DEF SessionInv, Shape, RowOK, Exists
  <2>3. QED
    BY <2>1, <2>2 DEF Rotate
<1>5. /\ next \in Req /\ next.pc = "answer"
      /\ next.late = req[r].late /\ next.id = req[r].id
  BY WithoutCopyIsRequest DEF Pc
<1>6. /\ req' \in [Requests -> Req]
      /\ \A q \in Requests : ReqOK(q)' /\ LateOK(q)'
  <2> HIDE DEF next, s
  <2>1. QED
    BY <1>1, <1>2, <1>5, MoveInv DEF Rest
<1>7. QED
  BY <1>2, <1>4, <1>6 DEF SessionInv, Shape

LEMMA RevokeTokenInv ==
  ASSUME SessionInv, NEW r \in Requests, RevokeToken(r) PROVE SessionInv'
<1> DEFINE next == WithoutCopy(r, "revoke")
<1>1. req[r] \in Req /\ req[r].pc = "signing out"
  BY UnderWay DEF RevokeToken, Rest
<1>2. UNCHANGED <<row, login, removed, issued>> /\ Goto(r, next)
  BY DEF RevokeToken, Unchanged
<1>3. /\ next \in Req /\ next.pc = "revoke"
      /\ next.late = req[r].late /\ next.id = req[r].id
  BY WithoutCopyIsRequest DEF Pc
<1> HIDE DEF next
<1>4. QED
  BY <1>1, <1>2, <1>3, MoveInv, RowsKept DEF Rest, SessionInv, Shape

LEMMA ServeInv == ASSUME SessionInv, NEW r \in Requests, Serve(r) PROVE SessionInv'
<1>1. /\ UNCHANGED <<row, login, removed, issued>>
      /\ Goto(r, Over(r, "served")) /\ ~req[r].late
  BY UnderWay DEF Serve, Unchanged, Keycloak, Rest
<1>2. QED
  BY <1>1, OverInv, RowsKept DEF Rest, SessionInv, Shape

LEMMA AbandonInv ==
  ASSUME SessionInv, NEW r \in Requests, Abandon(r) PROVE SessionInv'
<1>1. /\ UNCHANGED <<row, login, removed, issued>>
      /\ Goto(r, Over(r, "denied"))
  BY DEF Abandon, Unchanged, Keycloak
<1>2. QED
  BY <1>1, OverInv, RowsKept DEF Rest, SessionInv, Shape

-----------------------------------------------------------------------------
LEMMA SessionNextInv == SessionInv /\ [SessionNext]_bvars => SessionInv'
<1> SUFFICES ASSUME SessionInv, [SessionNext]_bvars PROVE SessionInv'
  OBVIOUS
<1>1. CASE UNCHANGED <<row, login, req, issued, removed>>
  BY <1>1 DEF SessionInv, Shape, ReqOK, LateOK, RowOK, Exists
<1>2. CASE RotateKey \/ UNCHANGED bvars
  BY <1>1, <1>2 DEF RotateKey, bvars
<1>3. CASE DeleteExpired
  BY <1>3, DeleteExpiredInv
<1>4. CASE \E s \in Ids : Grow(s) \/ GoStale(s)
  <2>1. ASSUME NEW s \in Ids, GoStale(s) PROVE SessionInv'
    BY <1>1, <2>1 DEF GoStale, Keycloak
  <2>2. QED
    BY <1>4, <2>1, GrowInv
<1>5. CASE \E k \in Sids : SsoEnds(k) \/ Backchannel(k)
  <2>1. ASSUME NEW k \in Sids, SsoEnds(k) PROVE SessionInv'
    BY <1>1, <2>1 DEF SsoEnds
  <2>2. QED
    BY <1>5, <2>1, BackchannelInv
<1>6. CASE \E s \in Ids, k \in Sids : ExchangeCode(s, k) \/ CreateSession(s, k)
  BY <1>6, ExchangeCodeInv, CreateSessionInv
<1>7. CASE \E r \in Requests, s \in Ids, logout \in BOOLEAN : Begin(r, s, logout)
  BY <1>7, BeginInv
<1>8. CASE \E r \in Requests : Handle(r) \/ Abandon(r)
  BY <1>8, GetInv, TouchInv, RefreshTokenInv, RefreshRefusedInv, RevokeInv,
     RotateGetInv, RotateInv, RevokeTokenInv, ServeInv, AbandonInv DEF Handle
<1>9. QED
  BY <1>2, <1>3, <1>4, <1>5, <1>6, <1>7, <1>8 DEF SessionNext

\* Logout, a refusal of Keycloak, its logout token and the cleaner end a
\* session for good: no request that begins afterwards is served, whatever the
\* requests under way write back (SessionStore.Update, RotateSessionTokens).
THEOREM EndedSessionsServeNobody == SessionSpec => []NoServiceAfterLogout
<1>1. SessionInv => NoServiceAfterLogout
  BY DEF SessionInv, LateOK, NoServiceAfterLogout
<1>2. QED
  BY <1>1, SessionInvInit, SessionNextInv, PTL DEF SessionSpec

\* A deleted row stays away: what a stale copy writes back makes none.
THEOREM DeletedRowsStayDeleted ==
  SessionSpec => []\A s \in removed : ~Exists(s)
<1>1. SessionInv => \A s \in removed : ~Exists(s)
  BY DEF SessionInv, Shape, RowOK
<1>2. QED
  BY <1>1, SessionInvInit, SessionNextInv, PTL DEF SessionSpec

LEMMA SessionInvHolds == SessionSpec => []SessionInv
BY SessionInvInit, SessionNextInv, PTL DEF SessionSpec

-----------------------------------------------------------------------------
(* Tokens: the row of a session nobody raced has the last generation,      *)
(* except while the one request that was given it is on the way to Rotate. *)

Rotating  == {"rotate get", "rotate"}
Busy(r, s) == req[r].pc \notin Rest /\ req[r].id = s
Latest(s) == Exists(s) /\ row[s].age # "expired" => row[s].gen = issued[s]

\* What a request carries to the row.
Carries(r, s) ==
  /\ req[r].pc = "touch" => req[r].copy.gen = issued[s]
  /\ req[r].pc \in Rotating => req[r].gen = issued[s]

TokensOK(s) ==
  failures = 0 /\ s \notin raced =>
    /\ \A q, r \in Requests : Busy(q, s) /\ Busy(r, s) => q = r
    /\ \A r \in Requests : Busy(r, s) => Carries(r, s)
    /\ Latest(s) \/ \E r \in Requests : Busy(r, s) /\ req[r].pc \in Rotating

\* A request has a session whose login is done; a login that is under way has
\* the first tokens.
TokenInv ==
  /\ failures \in Nat
  /\ \A r \in Requests : req[r].pc \notin Rest => login[req[r].id] = "done"
  /\ \A s \in Ids : login[s] \in Sids => issued[s] = 1
  /\ \A s \in Ids : TokensOK(s)

LEMMA TokenInvInit == SessionInit => TokenInv
BY SessionAssumption
   DEF SessionInit, TokenInv, TokensOK, Busy, Latest, Exists, NoRequest, Rest

\* A call that failed leaves nothing to show.
LEMMA Calls ==
  ASSUME TokenInv, CallWorks \/ CallFails
  PROVE  failures' \in Nat /\ (failures' = 0 => CallWorks /\ failures = 0)
BY DEF TokenInv, CallWorks, CallFails

\* What holds of a session while neither its row, its tokens nor its requests
\* change.
LEMMA TokensStay ==
  ASSUME TokenInv, NEW s \in Ids, TokensOK(s),
         failures' = 0 => failures = 0, raced \subseteq raced',
         row'[s] = row[s], issued'[s] = issued[s],
         \A r \in Requests : Busy(r, s)' <=> Busy(r, s),
         \A r \in Requests : Busy(r, s) => req'[r] = req[r]
  PROVE  TokensOK(s)'
<1>1. Latest(s) => Latest(s)'
  BY DEF Latest, Exists
<1>2. \A r \in Requests : Busy(r, s) /\ Carries(r, s) => Carries(r, s)'
  BY DEF Carries
<1> QED
  BY <1>1, <1>2 DEF TokensOK

\* A request moves on: the other sessions do not notice, and of its own it
\* must leave the latest tokens or carry them.
LEMMA TokensMove ==
  ASSUME SessionInv, TokenInv, NEW r \in Requests, req[r].pc \notin Rest, NEW next,
         NEW s0 \in Ids, req[r].id = s0,
         Goto(r, next), next.pc \notin Rest => next.id = s0,
         UNCHANGED <<login, raced>>,
         CallWorks \/ CallFails,
         \A s \in Ids \ {s0} : row'[s] = row[s] /\ issued'[s] = issued[s],
         \A s \in Ids : login[s] \in Sids => issued'[s] = issued[s],
         failures' = 0 /\ s0 \notin raced =>
           /\ Latest(s0)' \/ next.pc \in Rotating
           /\ next.pc = "touch" => next.copy.gen = issued'[s0]
           /\ next.pc \in Rotating => next.gen = issued'[s0]
  PROVE  TokenInv'
<1>1. /\ req' \in [Requests -> {next} \cup Req]
      /\ req'[r] = next /\ \A q \in Requests \ {r} : req'[q] = req[q]
      /\ login[s0] = "done" /\ Busy(r, s0)
  BY UnderWay DEF Goto, SessionInv, Shape, TokenInv, Busy
<1>2. failures' \in Nat /\ (failures' = 0 => failures = 0)
  BY Calls
<1>3. \A q \in Requests : req'[q].pc \notin Rest => login'[req'[q].id] = "done"
  BY <1>1 DEF TokenInv
<1>4. ASSUME NEW s \in Ids \ {s0} PROVE TokensOK(s)'
  <2>1. \A q \in Requests : Busy(q, s)' <=> Busy(q, s)
    BY <1>1 DEF Busy
  <2>2. \A q \in Requests : Busy(q, s) => req'[q] = req[q]
    BY <1>1 DEF Busy
  <2>3. TokensOK(s)
    BY DEF TokenInv
  <2> QED
    BY ONLY <1>2, <2>1, <2>2, <2>3, TokenInv, TokensStay, s \in Ids,
       s # s0, raced' = raced,
       \A t \in Ids \ {s0} : row'[t] = row[t] /\ issued'[t] = issued[t]
<1>5. TokensOK(s0)'
  <2> SUFFICES ASSUME failures' = 0, s0 \notin raced
               PROVE  /\ \A p, q \in Requests : Busy(p, s0)' /\ Busy(q, s0)' => p = q
                      /\ \A q \in Requests : Busy(q, s0)' => Carries(q, s0)'
                      /\ \/ Latest(s0)'
                         \/ \E q \in Requests : Busy(q, s0)' /\ req'[q].pc \in Rotating
    BY DEF TokensOK
  <2>1. \A q \in Requests : Busy(q, s0) => q = r
    BY <1>1, <1>2 DEF TokenInv, TokensOK
  <2>2. \A q \in Requests : Busy(q, s0)' => q = r
    BY <1>1, <2>1 DEF Busy
  <2>3. next.pc \in Rotating => Busy(r, s0)'
    BY <1>1 DEF Busy, Rotating, Rest
  <2>4. Carries(r, s0)'
    BY <1>1 DEF Carries
  <2> QED
    BY <1>1, <2>2, <2>3, <2>4
<1>6. \A s \in Ids : login'[s] \in Sids => issued'[s] = 1
  BY DEF TokenInv
<1> QED
  BY <1>2, <1>3, <1>4, <1>5, <1>6 DEF TokenInv

\* Steps that change rows, if they change anything of a session.
LEMMA TokensRest ==
  ASSUME TokenInv, UNCHANGED <<req, login, issued>>, raced \subseteq raced',
         CallWorks \/ CallFails,
         \A s \in Ids : Latest(s) => Latest(s)'
  PROVE  TokenInv'
<1>1. failures' \in Nat /\ (failures' = 0 => failures = 0)
  BY Calls
<1>2. ASSUME NEW s \in Ids PROVE TokensOK(s)'
  BY <1>1 DEF TokenInv, TokensOK, Busy, Carries
<1> QED
  BY <1>1, <1>2 DEF TokenInv

LEMMA DeleteKeepsLatest ==
  ASSUME NEW gone \in SUBSET Ids, Delete(gone), issued' = issued
  PROVE  \A s \in Ids : Latest(s) => Latest(s)'
BY DEF Delete, Latest, Exists

LEMMA GrowTokens ==
  ASSUME SessionInv, TokenInv, NEW s \in Ids, Grow(s) PROVE TokenInv'
<1>1. row[s] \in Row /\ issued' = issued
  BY DEF Grow, Exists, SessionInv, Shape, Keycloak
<1>2. /\ Exists(s) /\ row[s].age # "expired" /\ row'[s].gen = row[s].gen
      /\ \A t \in Ids \ {s} : row'[t] = row[t]
  BY <1>1 DEF Grow, SessionInv, Shape, Row
<1>3. \A t \in Ids : Latest(t) => Latest(t)'
  BY <1>1, <1>2 DEF Latest, Exists
<1> QED
  BY <1>3, TokensRest DEF Grow, Keycloak, History, CallWorks

\* Time, Keycloak, its logout tokens and the cleaner.
LEMMA SurroundingsTokens ==
  ASSUME SessionInv, TokenInv,
         \/ RotateKey \/ DeleteExpired
         \/ \E s \in Ids : GoStale(s)
         \/ \E k \in Sids : SsoEnds(k) \/ Backchannel(k)
  PROVE  TokenInv'
<1>1. /\ UNCHANGED <<req, login, issued>> /\ raced \subseteq raced'
      /\ CallWorks \/ CallFails
  BY DEF RotateKey, DeleteExpired, GoStale, SsoEnds, Backchannel, Refuse,
         RevokeByKeycloakSID, Unchanged, Keycloak, History, CallWorks
<1>2. \/ row' = row
      \/ \E gone \in SUBSET Ids : Delete(gone)
  <2>1. Expired \in SUBSET Ids /\ \A k : {s \in Ids : row[s].sid = k} \in SUBSET Ids
    BY DEF Expired
  <2> QED
    BY <2>1 DEF RotateKey, DeleteExpired, GoStale, SsoEnds, Backchannel, Refuse,
                RevokeByKeycloakSID
<1>3. \A s \in Ids : Latest(s) => Latest(s)'
  BY <1>1, <1>2, DeleteKeepsLatest DEF Latest, Exists
<1> QED
  BY <1>1, <1>3, TokensRest

\* A login: the first tokens, and then their row.
LEMMA ExchangeCodeTokens ==
  ASSUME SessionInv, TokenInv, NEW s \in Ids, NEW k \in Sids, ExchangeCode(s, k)
  PROVE  TokenInv'
<1>1. /\ login[s] = "none" /\ ~Exists(s) /\ \A r \in Requests : ~Busy(r, s)
      /\ UNCHANGED <<row, req, raced, failures>>
  BY DEF ExchangeCode, History, SessionInv, RowOK, TokenInv, Busy
<1>2. /\ \A t \in Ids \ {s} : login'[t] = login[t] /\ issued'[t] = issued[t]
      /\ issued'[s] = 1
  BY DEF ExchangeCode, SessionInv, Shape
<1>3. TokensOK(s)'
  BY <1>1 DEF TokensOK, Latest, Exists, Busy
<1>4. ASSUME NEW t \in Ids \ {s} PROVE TokensOK(t)'
  BY <1>1, <1>2, TokensStay DEF TokenInv, Busy
<1>5. \A r \in Requests : req'[r].pc \notin Rest => login'[req'[r].id] = "done"
  BY <1>1, <1>2 DEF TokenInv, SessionInv, ReqOK
<1> QED
  BY <1>1, <1>2, <1>3, <1>4, <1>5 DEF TokenInv

LEMMA CreateSessionTokens ==
  ASSUME SessionInv, TokenInv, NEW s \in Ids, NEW k \in Sids, CreateSession(s, k)
  PROVE  TokenInv'
<1>1. /\ login[s] = k /\ login[s] # "done" /\ issued[s] = 1
      /\ \A r \in Requests : ~Busy(r, s)
      /\ UNCHANGED <<req, issued, raced>>
  BY SessionAssumption DEF CreateSession, Keycloak, History, TokenInv, Busy
<1>2. failures' \in Nat /\ (failures' = 0 => CallWorks /\ failures = 0)
  BY Calls DEF CreateSession
<1>3. /\ \A t \in Ids \ {s} : login'[t] = login[t] /\ row'[t] = row[t]
      /\ login'[s] \in {"done", "failed"}
  BY DEF CreateSession, Create, SessionInv, Shape
<1>4. TokensOK(s)'
  <2>1. failures' = 0 => row'[s].gen = 1
    BY <1>2 DEF CreateSession, CallFails, Create, NewSession, SessionInv, Shape,
                TokenInv
  <2> QED
    BY <1>1, <2>1 DEF TokensOK, Latest, Busy
<1>5. ASSUME NEW t \in Ids \ {s} PROVE TokensOK(t)'
  BY <1>1, <1>2, <1>3, TokensStay DEF TokenInv, Busy
<1>6. \A r \in Requests : req'[r].pc \notin Rest => login'[req'[r].id] = "done"
  BY <1>1, <1>3 DEF TokenInv, SessionInv, ReqOK
<1> QED
  BY <1>1, <1>2, <1>3, <1>4, <1>5, <1>6, SessionAssumption DEF TokenInv

\* A request begins: a second one on the same session is a race.
LEMMA BeginTokens ==
  ASSUME SessionInv, TokenInv, NEW r \in Requests, NEW s \in Ids,
         NEW logout \in BOOLEAN, Begin(r, s, logout)
  PROVE  TokenInv'
<1>1. /\ req[r].pc \in Rest /\ login[s] = "done"
      /\ UNCHANGED <<row, login, issued, failures>>
      /\ raced \subseteq raced'
      /\ s \notin raced' => \A q \in Requests : ~Busy(q, s)
  BY DEF Begin, NextSlot, Keycloak, InFlight, Busy
<1>2. /\ \A q \in Requests \ {r} : req'[q] = req[q]
      /\ req'[r].id = s /\ req'[r].pc = "get"
  BY DEF Begin, NoRequest, SessionInv, Shape
<1>3. ASSUME NEW t \in Ids \ {s} PROVE TokensOK(t)'
  <2>1. /\ \A q \in Requests : Busy(q, t)' <=> Busy(q, t)
        /\ \A q \in Requests : Busy(q, t) => req'[q] = req[q]
    BY <1>1, <1>2 DEF Busy
  <2> QED
    BY <1>1, <2>1, TokensStay DEF TokenInv
<1>4. TokensOK(s)'
  <2> SUFFICES ASSUME failures' = 0, s \notin raced' PROVE TokensOK(s)'
    BY DEF TokensOK
  <2>1. \A q \in Requests : Busy(q, s)' => q = r
    BY <1>1, <1>2 DEF Busy
  <2>2. Latest(s)'
    BY <1>1 DEF TokenInv, TokensOK, Latest, Exists
  <2>3. Carries(r, s)'
    BY <1>2 DEF Carries, Rotating
  <2> QED
    BY <2>1, <2>2, <2>3 DEF TokensOK
<1>5. \A q \in Requests : req'[q].pc \notin Rest => login'[req'[q].id] = "done"
  BY <1>1, <1>2 DEF TokenInv
<1> QED
  BY <1>1, <1>3, <1>4, <1>5 DEF TokenInv

\* A request under way, for what it does next.
LEMMA TokensOfBusy ==
  ASSUME SessionInv, TokenInv, NEW r \in Requests, req[r].pc \notin Rest
  PROVE  /\ req[r] \in Req /\ req[r].id \in Ids /\ login[req[r].id] = "done"
         /\ "done" \notin Sids
         /\ failures = 0 /\ req[r].id \notin raced =>
              /\ Carries(r, req[r].id)
              /\ req[r].pc \notin Rotating => Latest(req[r].id)
<1>1. req[r] \in Req /\ req[r].id \in Ids /\ TokensOK(req[r].id)
  BY UnderWay DEF TokenInv
<1> QED
  BY <1>1, SessionAssumption DEF TokenInv, TokensOK, Busy

\* The steps of a request that leave the row of its session and the tokens.
LEMMA LookTokens ==
  ASSUME SessionInv, TokenInv, NEW r \in Requests, req[r].pc \notin Rest,
         NEW s \in Ids, req[r].id = s,
         NEW next, Goto(r, next), next.pc \notin Rest => next.id = s,
         UNCHANGED <<row, login, issued, raced>>, CallWorks \/ CallFails,
         CallWorks =>
           /\ req[r].pc \in Rotating => next.pc \in Rotating \/ Latest(s)
           /\ next.pc \in Rotating => req[r].pc \in Rotating /\ next.gen = req[r].gen
           /\ next.pc = "touch" => /\ req[r].pc \notin Rotating
                                   /\ Exists(s) /\ row[s].age # "expired"
                                   /\ next.copy = row[s]
  PROVE  TokenInv'
<1>1. /\ login[s] = "done" /\ "done" \notin Sids
      /\ failures = 0 /\ s \notin raced =>
           Carries(r, s) /\ (req[r].pc \notin Rotating => Latest(s))
  BY TokensOfBusy
<1>2. Latest(s) => Latest(s)'
  BY DEF Latest, Exists
<1>3. failures' = 0 => CallWorks /\ failures = 0
  BY Calls
<1>4. failures' = 0 /\ s \notin raced =>
           /\ Latest(s)' \/ next.pc \in Rotating
           /\ next.pc = "touch" => next.copy.gen = issued'[s]
           /\ next.pc \in Rotating => next.gen = issued'[s]
  BY <1>1, <1>2, <1>3 DEF Latest, Carries
<1> QED
  BY <1>4, TokensMove

\* A request that ends, from wherever it was.
LEMMA OverTokens ==
  ASSUME SessionInv, TokenInv, NEW r \in Requests, req[r].pc \notin Rest,
         NEW how \in Rest, Goto(r, Over(r, how)),
         UNCHANGED <<row, login, issued, raced>>,
         CallFails \/ (CallWorks /\ req[r].pc \notin Rotating)
  PROVE  TokenInv'
<1>1. Over(r, how).pc = how /\ req[r].id \in Ids
  BY UnderWay DEF Over, NoRequest
<1>2. how \notin Rotating /\ how # "touch"
  BY DEF Rest, Rotating
<1>3. CallWorks => ~CallFails
  BY DEF CallWorks, CallFails, TokenInv
<1> QED
  BY <1>1, <1>2, <1>3, LookTokens

LEMMA GetTokens ==
  ASSUME SessionInv, TokenInv, NEW r \in Requests, Get(r) PROVE TokenInv'
<1>1. /\ req[r].pc = "get" /\ req[r].pc \notin Rest \cup Rotating
      /\ req[r] \in Req
      /\ UNCHANGED <<row, login, issued, raced>>
      /\ CallWorks \/ CallFails
  BY UnderWay DEF Get, Rest, Rotating, Unchanged, Keycloak, History
<1>2. PICK s \in Ids : req[r].id = s
  BY <1>1, UnderWay
<1>3. CASE Goto(r, Over(r, "denied"))
  BY <1>1, <1>3, OverTokens DEF Rest
<1>4. CASE /\ Exists(s) /\ row[s].age = "slidable"
           /\ Goto(r, [req[r] EXCEPT !.pc = "touch", !.copy = row[s]])
  <2> DEFINE next == [req[r] EXCEPT !.pc = "touch", !.copy = row[s]]
  <2>1. next.pc = "touch" /\ next.id = s /\ next.copy = row[s]
    BY <1>1, <1>2 DEF Req
  <2>2. Goto(r, next)
    BY <1>4
  <2> HIDE DEF next
  <2> QED
    BY <1>1, <1>2, <1>4, <2>1, <2>2, LookTokens DEF Rotating
<1>5. CASE Goto(r, AfterGet(r, row[s]))
  <2> DEFINE next == AfterGet(r, row[s])
  <2>1. next.pc \in {"signing out", "refresh", "answer"} /\ next.id = s
    BY <1>2, AfterGetMoves
  <2>2. Goto(r, next)
    BY <1>5
  <2> HIDE DEF next
  <2> QED
    BY <1>1, <1>2, <2>1, <2>2, LookTokens DEF Rotating
<1>6. QED
  <2>1. \/ Goto(r, Over(r, "denied"))
        \/ /\ Exists(s) /\ row[s].age = "slidable"
           /\ Goto(r, [req[r] EXCEPT !.pc = "touch", !.copy = row[s]])
        \/ Goto(r, AfterGet(r, row[s]))
    <3>1. ~Exists(s) => row[s].age # "slidable"
      BY DEF Exists, NoRow
    <3> QED
      BY <1>2, <3>1 DEF Get
  <2> QED
    BY <2>1, <1>3, <1>4, <1>5

\* Update of the request's own session by a row that has gen.
LEMMA UpdateTokens ==
  ASSUME SessionInv, NEW s \in Ids, NEW new \in Row, Update(s, new), issued' = issued
  PROVE  /\ \A t \in Ids \ {s} : row'[t] = row[t]
         /\ new.gen = issued[s] => Latest(s)'
<1>1. row'[s] = IF Exists(s) THEN new ELSE NoRow
  BY DEF Update, SessionInv, Shape
<1> QED
  BY <1>1 DEF Update, Latest, Exists, SessionInv, Shape

LEMMA TouchTokens ==
  ASSUME SessionInv, TokenInv, NEW r \in Requests, Touch(r) PROVE TokenInv'
<1>1. /\ req[r].pc = "touch" /\ req[r].pc \notin Rest \cup Rotating
      /\ req[r] \in Req /\ req[r].copy \in Row
      /\ UNCHANGED <<login, issued, raced>>
      /\ CallWorks \/ CallFails
  BY UnderWay DEF Touch, Rest, Rotating, Unchanged, Keycloak, History,
                  SessionInv, ReqOK
<1>2. PICK s \in Ids : req[r].id = s
  BY <1>1, UnderWay
<1> DEFINE slid == Slid(req[r].copy)
<1>3. slid \in Row /\ slid.gen = req[r].copy.gen
  BY <1>1 DEF Slid, Row, Ages
<1>4. CASE CallFails /\ Goto(r, Over(r, "denied")) /\ UNCHANGED row
  BY <1>1, <1>4, OverTokens DEF Rest
<1>5. CASE /\ CallWorks /\ Update(s, slid)
           /\ Goto(r, IF Exists(s) THEN AfterGet(r, slid) ELSE Over(r, "denied"))
  <2> DEFINE next == IF Exists(s) THEN AfterGet(r, slid) ELSE Over(r, "denied")
  <2>1. /\ next.pc \in {"signing out", "refresh", "answer", "denied"}
        /\ next.pc # "denied" => next.id = s
    BY <1>2, AfterGetMoves DEF Over, NoRequest
  <2>2. Goto(r, next)
    BY <1>5
  <2> HIDE DEF next, slid
  <2>3. /\ \A t \in Ids \ {s} : row'[t] = row[t]
        /\ slid.gen = issued[s] => Latest(s)'
    BY <1>1, <1>3, <1>5, UpdateTokens
  <2>4. failures' = 0 /\ s \notin raced => Latest(s)'
    BY <1>1, <1>2, <1>3, <1>5, <2>3, TokensOfBusy DEF CallWorks, Carries
  <2> QED
    BY <1>1, <1>2, <2>1, <2>2, <2>3, <2>4, TokensMove DEF Rotating, Rest
<1> QED
  BY <1>2, <1>4, <1>5 DEF Touch

LEMMA RefreshTokenTokens ==
  ASSUME SessionInv, TokenInv, NEW r \in Requests, RefreshToken(r) PROVE TokenInv'
<1>1. /\ req[r].pc = "refresh" /\ req[r].pc \notin Rest
      /\ req[r] \in Req
      /\ UNCHANGED <<row, login, raced>>
      /\ CallWorks \/ CallFails
  BY UnderWay DEF RefreshToken, Rest, Unchanged, History
<1>2. PICK s \in Ids : req[r].id = s
  BY <1>1, UnderWay
<1>3. /\ issued'[s] = issued[s] + 1 /\ issued[s] \in Nat
      /\ \A t \in Ids \ {s} : issued'[t] = issued[t]
  BY <1>2 DEF RefreshToken, SessionInv, Shape
<1>4. login[s] \notin Sids
  BY <1>1, <1>2, TokensOfBusy
<1> DEFINE rotate == [WithoutCopy(r, "rotate get") EXCEPT !.gen = issued[s] + 1]
           revoke == WithoutCopy(r, "revoke")
<1>5. /\ rotate.pc = "rotate get" /\ rotate.id = s /\ rotate.gen = issued'[s]
      /\ revoke.pc = "revoke" /\ revoke.id = s
  <2>1. PICK got : got = WithoutCopy(r, "rotate get")
    OBVIOUS
  <2>2. got \in Req /\ got.pc = "rotate get" /\ got.id = s
    BY <1>2, <2>1, WithoutCopyIsRequest DEF Pc
  <2>3. rotate = [got EXCEPT !.gen = issued'[s]]
    BY <1>3, <2>1
  <2> QED
    BY <1>2, <2>2, <2>3, WithoutCopyIsRequest DEF Pc, Req
<1>6. \/ CallWorks /\ Goto(r, rotate)
      \/ CallFails /\ Goto(r, revoke)
  <2>1. \/ /\ CallWorks
           /\ Goto(r, [WithoutCopy(r, "rotate get") EXCEPT
                         !.gen = issued[req[r].id] + 1])
        \/ CallFails /\ Goto(r, revoke)
    BY DEF RefreshToken
  <2>2. rotate = [WithoutCopy(r, "rotate get") EXCEPT
                    !.gen = issued[req[r].id] + 1]
    BY <1>2
  <2> QED
    BY <2>1, <2>2
<1> HIDE DEF rotate, revoke
<1>7. CallFails => failures' # 0
  BY DEF CallFails, TokenInv
<1> QED
  BY <1>1, <1>2, <1>3, <1>4, <1>5, <1>6, <1>7, TokensMove DEF Rotating

\* RefreshRefused, RevokeToken: the request goes on to revoke the session.
LEMMA RevokingTokens ==
  ASSUME SessionInv, TokenInv, NEW r \in Requests, RefreshRefused(r) \/ RevokeToken(r)
  PROVE  TokenInv'
<1>1. /\ req[r].pc \in {"refresh", "signing out"} /\ req[r].pc \notin Rest \cup Rotating
      /\ req[r] \in Req /\ req[r].id \in Ids
      /\ UNCHANGED <<row, login, issued, raced>>
      /\ CallWorks \/ CallFails
  BY UnderWay DEF RefreshRefused, RevokeToken, Rest, Rotating, Unchanged, Keycloak,
                  History
<1> DEFINE next == WithoutCopy(r, "revoke")
<1>2. Goto(r, next) /\ next.pc = "revoke" /\ next.id = req[r].id
  BY WithoutCopyIsRequest DEF RefreshRefused, RevokeToken, Pc
<1> HIDE DEF next
<1> QED
  BY <1>1, <1>2, LookTokens DEF Rotating

LEMMA RevokeTokens ==
  ASSUME SessionInv, TokenInv, NEW r \in Requests, Revoke(r) PROVE TokenInv'
<1>1. /\ req[r].pc = "revoke" /\ req[r].pc \notin Rest \cup Rotating
      /\ UNCHANGED <<login, issued, raced>>
      /\ Goto(r, Over(r, "denied"))
  BY DEF Revoke, Rest, Rotating, Unchanged, Keycloak, History
<1>2. PICK s \in Ids : req[r].id = s
  BY <1>1, UnderWay
<1>3. CASE CallFails /\ UNCHANGED <<row, removed>>
  BY <1>1, <1>3, OverTokens DEF Rest
<1>4. CASE CallWorks /\ Delete({s})
  <2>1. Over(r, "denied").pc = "denied"
    BY DEF Over, NoRequest
  <2>2. Latest(s)' /\ \A t \in Ids \ {s} : row'[t] = row[t]
    BY <1>4 DEF Delete, Latest, Exists, SessionInv, Shape
  <2> QED
    BY <1>1, <1>2, <1>4, <2>1, <2>2, TokensMove DEF Rotating, Rest
<1> QED
  BY <1>2, <1>3, <1>4 DEF Revoke

LEMMA RotateGetTokens ==
  ASSUME SessionInv, TokenInv, NEW r \in Requests, RotateGet(r) PROVE TokenInv'
<1>1. /\ req[r].pc = "rotate get" /\ req[r].pc \notin Rest /\ req[r].pc \in Rotating
      /\ req[r] \in Req
      /\ UNCHANGED <<row, login, issued, raced>>
      /\ CallWorks \/ CallFails
  BY UnderWay DEF RotateGet, Rest, Rotating, Unchanged, Keycloak, History
<1>2. PICK s \in Ids : req[r].id = s
  BY <1>1, UnderWay
<1> DEFINE answer == WithoutCopy(r, "answer")
           rotate == [req[r] EXCEPT !.pc = "rotate", !.copy = row[s]]
<1>3. /\ answer.pc = "answer" /\ answer.id = s
      /\ rotate.pc = "rotate" /\ rotate.id = s /\ rotate.gen = req[r].gen
  <2>1. answer.pc = "answer" /\ answer.id = s
    BY <1>2, WithoutCopyIsRequest DEF Pc
  <2>2. rotate.pc = "rotate" /\ rotate.id = s /\ rotate.gen = req[r].gen
    BY <1>1, <1>2 DEF Req
  <2> QED
    BY <2>1, <2>2
<1>4. \/ CallWorks /\ (~Exists(s) \/ row[s].age = "expired") /\ Goto(r, answer)
      \/ CallFails /\ Goto(r, answer)
      \/ Goto(r, rotate)
  BY <1>2 DEF RotateGet
<1> HIDE DEF answer, rotate
<1>5. ~Exists(s) \/ row[s].age = "expired" => Latest(s)
  BY DEF Latest
<1>6. CallFails => ~CallWorks
  BY DEF CallFails, CallWorks, TokenInv
<1> QED
  BY <1>1, <1>2, <1>3, <1>4, <1>5, <1>6, LookTokens DEF Rotating

LEMMA RotateTokens ==
  ASSUME SessionInv, TokenInv, NEW r \in Requests, Rotate(r) PROVE TokenInv'
<1>1. /\ req[r].pc = "rotate" /\ req[r].pc \notin Rest /\ req[r].pc \in Rotating
      /\ req[r] \in Req /\ req[r].copy \in Row /\ req[r].gen \in Nat
      /\ UNCHANGED <<login, issued, raced>>
      /\ CallWorks \/ CallFails
  BY UnderWay DEF Rotate, Rest, Rotating, Unchanged, Keycloak, History,
                  SessionInv, ReqOK, Req
<1>2. PICK s \in Ids : req[r].id = s
  BY <1>1, UnderWay
<1>3. Rotated(r) \in Row /\ Rotated(r).gen = req[r].gen
  BY <1>1 DEF Rotated, Row, Ages
<1> DEFINE next == WithoutCopy(r, "answer")
<1>4. Goto(r, next) /\ next.pc = "answer" /\ next.id = s
  BY <1>2, WithoutCopyIsRequest DEF Rotate, Pc
<1> HIDE DEF next
<1>5. \/ CallFails /\ UNCHANGED row
      \/ CallWorks /\ Update(s, Rotated(r))
  BY <1>2 DEF Rotate
<1>6. \A t \in Ids \ {s} : row'[t] = row[t]
  BY <1>1, <1>3, <1>5, UpdateTokens
<1>7. failures' = 0 /\ s \notin raced => Latest(s)'
  <2> SUFFICES ASSUME failures' = 0, s \notin raced PROVE Latest(s)'
    OBVIOUS
  <2>1. CallWorks /\ Update(s, Rotated(r)) /\ failures = 0
    BY <1>5 DEF CallFails, CallWorks, TokenInv
  <2>2. req[r].gen = issued[s]
    BY <1>1, <1>2, <2>1, TokensOfBusy DEF Carries
  <2> QED
    BY <1>1, <1>3, <2>1, <2>2, UpdateTokens
<1> QED
  BY <1>1, <1>2, <1>4, <1>6, <1>7, TokensMove DEF Rotating

LEMMA EndTokens ==
  ASSUME SessionInv, TokenInv, NEW r \in Requests, Serve(r) \/ Abandon(r)
  PROVE  TokenInv'
<1>1. /\ req[r].pc \notin Rest /\ UNCHANGED <<row, login, issued, raced>>
      /\ CallFails \/ (CallWorks /\ req[r].pc \notin Rotating)
      /\ \E how \in Rest : Goto(r, Over(r, how))
  BY DEF Serve, Abandon, Rest, Rotating, Unchanged, Keycloak, History
<1> QED
  BY <1>1, OverTokens

LEMMA TokenNextInv == SessionInv /\ TokenInv /\ [SessionNext]_bvars => TokenInv'
<1> SUFFICES ASSUME SessionInv, TokenInv, [SessionNext]_bvars PROVE TokenInv'
  OBVIOUS
<1>1. CASE UNCHANGED bvars
  <2>1. \A s \in Ids : Latest(s) => Latest(s)'
    BY <1>1 DEF bvars, Latest, Exists
  <2> QED
    BY <1>1, <2>1, TokensRest DEF bvars, CallWorks
<1>2. CASE \E s \in Ids : Grow(s)
  BY <1>2, GrowTokens
<1>3. CASE \/ RotateKey \/ DeleteExpired
           \/ \E s \in Ids : GoStale(s)
           \/ \E k \in Sids : SsoEnds(k) \/ Backchannel(k)
  BY <1>3, SurroundingsTokens
<1>4. CASE \E s \in Ids, k \in Sids : ExchangeCode(s, k) \/ CreateSession(s, k)
  BY <1>4, ExchangeCodeTokens, CreateSessionTokens
<1>5. CASE \E r \in Requests, s \in Ids, logout \in BOOLEAN : Begin(r, s, logout)
  BY <1>5, BeginTokens
<1>6. CASE \E r \in Requests : Handle(r) \/ Abandon(r)
  BY <1>6, GetTokens, TouchTokens, RefreshTokenTokens, RevokingTokens, RevokeTokens,
     RotateGetTokens, RotateTokens, EndTokens DEF Handle
<1> QED
  BY <1>1, <1>2, <1>3, <1>4, <1>5, <1>6 DEF SessionNext

\* Touch and Rotate write whole rows from copies read before, and within one request
\* no refresh is lost: between requests, a session that never had two at once holds
\* the tokens Keycloak issued last (SessionService.GetSession, RotateSessionTokens).
\* Of sessions on which requests overlapped nothing is said: there one may write
\* back the tokens the other has just replaced.
THEOREM QuietSessionsHaveLatestTokens == SessionSpec => []QuietSessionHasLatestTokens
<1>1. TokenInv => QuietSessionHasLatestTokens
  BY DEF TokenInv, TokensOK, Latest, Busy, InFlight, QuietSessionHasLatestTokens
<1>2. SessionInit => TokenInv
  BY TokenInvInit
<1> QED
  BY <1>1, <1>2, SessionInvHolds, TokenNextInv, PTL DEF SessionSpec

-----------------------------------------------------------------------------
(* Logout tokens: Keycloak signs one when the user session ends, so a login *)
(* that is not crossed is either in its row by then, or never begins.       *)

\* The row that a request is going to write back.
Holds(r, s) == req[r].pc \in {"touch", "rotate"} /\ req[r].id = s
SameSid(r, s) == Holds(r, s) /\ Exists(s) => req[r].copy.sid = row[s].sid

\* A user session that ended, with no login under way that nobody counted.
Settled(k) == sso[k] = "ended" /\ \A s \in Ids \ crossed : login[s] # k

LogoutShape ==
  /\ key \in Nat /\ outbox \in [Sids -> Nat]
  /\ \A k \in Sids : outbox[k] <= key
  /\ sso \in [Sids -> {"alive", "ended"}]
  /\ told \in [Sids -> Answers]
  /\ failures \in Nat

LogoutInv ==
  /\ LogoutShape
  /\ \A k \in Sids : outbox[k] > 0 \/ told[k] = "revoked" => Settled(k)
  /\ \A r \in Requests, s \in Ids : SameSid(r, s)
  /\ LogoutTokenEndsSessions

LEMMA LogoutInvInit == SessionInit => LogoutInv
BY SessionAssumption
   DEF SessionInit, LogoutInv, LogoutShape, SameSid, Holds, NoRequest,
       LogoutTokenEndsSessions, Answers

\* Rows that keep the user session they are of, or go.
SidsKept == \A s \in Ids : Exists(s)' => Exists(s) /\ row'[s].sid = row[s].sid

LEMMA DeleteKeepsSids ==
  ASSUME NEW gone \in SUBSET Ids, Delete(gone) PROVE SidsKept
BY DEF Delete, SidsKept, Exists

LEMMA UpdateKeepsSids ==
  ASSUME SessionInv, NEW s \in Ids, NEW new, Update(s, new),
         Exists(s) => new.sid = row[s].sid
  PROVE  SidsKept
BY DEF Update, SidsKept, Exists, SessionInv, Shape

\* Steps that make no row, take no login to Keycloak and accept no token.
LEMMA LogoutStay ==
  ASSUME LogoutInv, SidsKept, UNCHANGED <<login, told, outbox, crossed>>,
         CallWorks \/ CallFails, key' \in Nat, key <= key',
         sso' \in [Sids -> {"alive", "ended"}],
         \A k \in Sids : sso[k] = "ended" => sso'[k] = "ended",
         \A r \in Requests, s \in Ids : SameSid(r, s)'
  PROVE  LogoutInv'
<1>1. LogoutShape' /\ (failures > 0 => failures' > 0)
  BY DEF LogoutInv, LogoutShape, CallWorks, CallFails
<1>2. ASSUME NEW k \in Sids, Settled(k) PROVE Settled(k)'
  BY <1>2 DEF Settled
<1>3. LogoutTokenEndsSessions'
  <2>1. ASSUME NEW k \in Sids, told[k] = "refused" PROVE failures' > 0
    BY <1>1, <2>1 DEF LogoutInv, LogoutTokenEndsSessions
  <2>2. ASSUME NEW k \in Sids, told[k] = "revoked", NEW s \in Ids \ crossed
        PROVE  row'[s].sid # k
    <3>1. CASE Exists(s)'
      BY <2>2, <3>1 DEF SidsKept, LogoutInv, LogoutTokenEndsSessions
    <3>2. CASE ~Exists(s)'
      BY <3>2, SessionAssumption DEF Exists, NoRow
    <3> QED
      BY <3>1, <3>2
  <2> QED
    BY <2>1, <2>2 DEF LogoutTokenEndsSessions
<1> QED
  BY <1>1, <1>2, <1>3 DEF LogoutInv

LEMMA SameSidStays ==
  ASSUME LogoutInv, SidsKept, UNCHANGED req
  PROVE  \A r \in Requests, s \in Ids : SameSid(r, s)'
BY DEF LogoutInv, SameSid, Holds, SidsKept

\* A request moves on; to Touch and to Rotate it takes the row it just read.
LEMMA LogoutMove ==
  ASSUME SessionInv, LogoutInv, SidsKept, NEW r \in Requests, NEW next, Goto(r, next),
         next.pc \in {"touch", "rotate"} =>
           next.id \in Ids /\ (Exists(next.id)' => next.copy.sid = row'[next.id].sid),
         UNCHANGED <<login, told, outbox, key, crossed>>, CallWorks \/ CallFails,
         sso' \in [Sids -> {"alive", "ended"}],
         \A k \in Sids : sso[k] = "ended" => sso'[k] = "ended"
  PROVE  LogoutInv'
<1>1. req'[r] = next /\ \A q \in Requests \ {r} : req'[q] = req[q]
  BY DEF Goto, SessionInv, Shape
<1>2. ASSUME NEW q \in Requests, NEW s \in Ids PROVE SameSid(q, s)'
  BY <1>1 DEF SameSid, Holds, SidsKept, LogoutInv
<1>3. key' \in Nat /\ key <= key'
  BY DEF LogoutInv, LogoutShape
<1> QED
  BY <1>2, <1>3, LogoutStay

\* Steps that are not about a logout token: a request that moves on without a
\* row in its hands.
LEMMA RowlessMove ==
  ASSUME SessionInv, LogoutInv, SidsKept, NEW r \in Requests, NEW next, Goto(r, next),
         next.pc \notin {"touch", "rotate"},
         UNCHANGED <<login, told, outbox, key, crossed, sso>>,
         CallWorks \/ CallFails
  PROVE  LogoutInv'
BY LogoutMove DEF LogoutInv, LogoutShape

LEMMA RowsStand ==
  ASSUME SessionInv, row' = row PROVE SidsKept
BY DEF SidsKept, Exists

LEMMA GrowLogout ==
  ASSUME SessionInv, LogoutInv, NEW s \in Ids, Grow(s) PROVE LogoutInv'
<1>1. SidsKept
  BY DEF Grow, SidsKept, Exists, SessionInv, Shape, Row
<1>2. UNCHANGED <<req, login, told, outbox, key, crossed, sso>> /\ CallWorks
  BY DEF Grow, Keycloak, History, CallWorks
<1> QED
  BY <1>1, <1>2, SameSidStays, LogoutStay DEF LogoutInv, LogoutShape

LEMMA SurroundingsLogout ==
  ASSUME SessionInv, LogoutInv,
         RotateKey \/ DeleteExpired \/ \E s \in Ids : GoStale(s)
  PROVE  LogoutInv'
<1>1. /\ UNCHANGED <<req, login, told, outbox, crossed, sso>>
      /\ key' = key \/ key' = key + 1
      /\ CallWorks \/ CallFails
  BY DEF RotateKey, DeleteExpired, GoStale, Unchanged, Keycloak, History, CallWorks
<1>2. SidsKept
  <2>1. CASE row' = row
    BY <2>1, RowsStand
  <2>2. CASE Delete(Expired)
    BY <2>2, DeleteKeepsSids DEF Expired
  <2> QED
    BY <2>1, <2>2 DEF RotateKey, DeleteExpired, GoStale
<1>3. key' \in Nat /\ key <= key'
  BY <1>1 DEF LogoutInv, LogoutShape
<1> QED
  BY <1>1, <1>2, <1>3, SameSidStays, LogoutStay DEF LogoutInv, LogoutShape

\* The user session ends: a login that has its code and no row yet is counted.
LEMMA SsoEndsLogout ==
  ASSUME SessionInv, LogoutInv, NEW k \in Sids, SsoEnds(k) PROVE LogoutInv'
<1>1. /\ UNCHANGED <<row, req, login, key, told, failures>>
      /\ crossed' = crossed \cup {s \in Ids : login[s] = k}
      /\ outbox' = [outbox EXCEPT ![k] = key] /\ sso' = [sso EXCEPT ![k] = "ended"]
  BY DEF SsoEnds
<1>2. LogoutShape'
  BY <1>1 DEF LogoutInv, LogoutShape
<1>3. ASSUME NEW l \in Sids, outbox'[l] > 0 \/ told[l] = "revoked" PROVE Settled(l)'
  BY <1>1, <1>3 DEF Settled, LogoutInv, LogoutShape
<1>4. /\ \A r \in Requests, s \in Ids : SameSid(r, s)'
      /\ LogoutTokenEndsSessions'
  BY <1>1 DEF LogoutInv, SameSid, Holds, Exists, LogoutTokenEndsSessions
<1> QED
  BY <1>1, <1>2, <1>3, <1>4 DEF LogoutInv

\* The logout token arrives: its key was published before it was signed, so it is
\* refused only when a call fails, and every row with its sid goes if it revokes.
LEMMA BackchannelLogout ==
  ASSUME SessionInv, LogoutInv, NEW k \in Sids, Backchannel(k) PROVE LogoutInv'
<1>1. /\ UNCHANGED <<req, login, key, sso, crossed>>
      /\ outbox[k] > 0 /\ outbox' = [outbox EXCEPT ![k] = 0]
  BY DEF Backchannel
<1>2. Settled(k) /\ PublicKeyFound(k)
  BY <1>1 DEF LogoutInv, LogoutShape, PublicKeyFound
<1>3. PICK answer \in {"refused", "ok", "revoked"} :
        /\ told' = [told EXCEPT ![k] = answer]
        /\ answer = "refused" => CallFails
        /\ answer = "revoked" => Delete({s \in Ids : row[s].sid = k})
        /\ answer # "revoked" => UNCHANGED row
        /\ CallWorks \/ CallFails
  BY <1>2 DEF Backchannel, Refuse, RevokeByKeycloakSID
<1>4. SidsKept
  BY <1>3, DeleteKeepsSids, RowsStand
<1>5. failures' \in Nat /\ (failures > 0 \/ CallFails => failures' > 0)
  BY <1>3 DEF LogoutInv, LogoutShape, CallWorks, CallFails
<1>6. LogoutShape'
  BY <1>1, <1>3, <1>5 DEF LogoutInv, LogoutShape, Answers
<1>7. ASSUME NEW l \in Sids, outbox'[l] > 0 \/ told'[l] = "revoked"
      PROVE  Settled(l)'
  <2>1. Settled(l)
    BY <1>1, <1>2, <1>3, <1>7 DEF LogoutInv, LogoutShape
  <2> QED
    BY <1>1, <2>1 DEF Settled
<1>8. ASSUME NEW l \in Sids, told'[l] = "refused" PROVE failures' > 0
  <2>1. CASE l = k
    BY <1>3, <1>5, <1>8, <2>1 DEF LogoutInv, LogoutShape
  <2>2. CASE told[l] = "refused"
    BY <1>5, <2>2 DEF LogoutInv, LogoutTokenEndsSessions
  <2> QED
    BY <1>3, <1>8, <2>1, <2>2 DEF LogoutInv, LogoutShape
<1>9. ASSUME NEW l \in Sids, told'[l] = "revoked", NEW s \in Ids \ crossed
      PROVE  row'[s].sid # l
  <2>1. CASE l = k
    <3>1. Delete({t \in Ids : row[t].sid = k})
      BY <1>3, <1>9, <2>1 DEF LogoutInv, LogoutShape
    <3> QED
      BY <2>1, <3>1, SessionAssumption DEF Delete, NoRow
  <2>2. CASE l # k
    <3>1. row[s].sid # l
      BY <1>3, <1>9, <2>2 DEF LogoutInv, LogoutShape, LogoutTokenEndsSessions
    <3>2. row'[s] = row[s] \/ row'[s] = NoRow
      BY <1>3 DEF Delete
    <3> QED
      BY <3>1, <3>2, SessionAssumption DEF NoRow
  <2> QED
    BY <2>1, <2>2
<1>10. LogoutTokenEndsSessions'
  BY <1>1, <1>8, <1>9 DEF LogoutTokenEndsSessions
<1> QED
  BY <1>1, <1>4, <1>6, <1>7, <1>10, SameSidStays DEF LogoutInv

LEMMA ExchangeCodeLogout ==
  ASSUME SessionInv, LogoutInv, NEW s \in Ids, NEW k \in Sids, ExchangeCode(s, k)
  PROVE  LogoutInv'
<1>1. /\ UNCHANGED <<row, req, sso, key, outbox, told, crossed, failures>>
      /\ login' = [login EXCEPT ![s] = k] /\ sso[k] = "alive"
  BY DEF ExchangeCode, History
<1>2. ASSUME NEW l \in Sids, Settled(l) PROVE Settled(l)'
  BY <1>1, <1>2 DEF Settled, SessionInv, Shape
<1> QED
  BY <1>1, <1>2
     DEF LogoutInv, LogoutShape, SameSid, Holds, Exists, LogoutTokenEndsSessions

\* The row of a login is made: its user session ended only if it was counted.
LEMMA CreateSessionLogout ==
  ASSUME SessionInv, TokenInv, LogoutInv, NEW s \in Ids, NEW k \in Sids,
         CreateSession(s, k)
  PROVE  LogoutInv'
<1>1. /\ UNCHANGED <<req, sso, key, outbox, told, crossed>>
      /\ login[s] = k /\ login[s] # "done"
      /\ CallWorks \/ CallFails
  BY SessionAssumption DEF CreateSession, History, Keycloak
<1>2. /\ \A t \in Ids \ {s} : row'[t] = row[t] /\ login'[t] = login[t]
      /\ login'[s] \notin Sids
      /\ row'[s] = row[s] \/ row'[s].sid \in {k, "none"}
  BY SessionAssumption DEF CreateSession, Create, NewSession, SessionInv, Shape
<1>3. ASSUME NEW l \in Sids, Settled(l) PROVE Settled(l)'
  BY <1>1, <1>2, <1>3 DEF Settled
<1>4. ASSUME NEW r \in Requests, NEW t \in Ids PROVE SameSid(r, t)'
  <2>1. ~Holds(r, s)
    BY <1>1 DEF TokenInv, Holds, Rest
  <2> QED
    BY <1>1, <1>2, <2>1 DEF LogoutInv, SameSid, Holds, Exists
<1>5. s \notin crossed => told[k] # "revoked"
  BY <1>1 DEF LogoutInv, Settled
<1>6. failures' \in Nat /\ (failures > 0 => failures' > 0)
  BY <1>1 DEF LogoutInv, LogoutShape, CallWorks, CallFails
<1>7. LogoutTokenEndsSessions'
  BY <1>1, <1>2, <1>5, <1>6, SessionAssumption DEF LogoutInv, LogoutTokenEndsSessions
<1> QED
  BY <1>1, <1>3, <1>4, <1>6, <1>7 DEF LogoutInv, LogoutShape

LEMMA BeginLogout ==
  ASSUME SessionInv, LogoutInv, NEW r \in Requests, NEW s \in Ids,
         NEW logout \in BOOLEAN, Begin(r, s, logout)
  PROVE  LogoutInv'
<1> DEFINE new == [NoRequest EXCEPT !.pc = "get", !.id = s, !.logout = logout,
                                    !.late = s \in removed]
<1>1. /\ Goto(r, new) /\ CallWorks
      /\ UNCHANGED <<row, login, told, sso, outbox, key, crossed>>
  BY DEF Begin, Goto, Keycloak, CallWorks
<1>2. new.pc = "get"
  BY DEF NoRequest
<1> HIDE DEF new
<1> QED
  BY <1>1, <1>2, RowsStand, LogoutMove DEF LogoutInv, LogoutShape

LEMMA AfterGetLooks ==
  ASSUME SessionInv, NEW r \in Requests, req[r].pc \notin Rest, NEW copy
  PROVE  AfterGet(r, copy).pc \notin {"touch", "rotate"}
BY AfterGetMoves

LEMMA OverHolds ==
  ASSUME NEW r \in Requests, NEW how \in Rest
  PROVE  Over(r, how).pc \notin {"touch", "rotate"}
BY DEF Over, NoRequest, Rest

LEMMA GetLogout ==
  ASSUME SessionInv, LogoutInv, NEW r \in Requests, Get(r) PROVE LogoutInv'
<1>1. /\ req[r] \in Req /\ req[r].pc = "get" /\ req[r].pc \notin Rest
      /\ UNCHANGED <<row, login, told, sso, outbox, key, crossed>>
      /\ CallWorks \/ CallFails
  BY UnderWay DEF Get, Rest, Unchanged, Keycloak, History
<1>2. PICK s \in Ids : req[r].id = s
  BY <1>1, UnderWay
<1> DEFINE touch == [req[r] EXCEPT !.pc = "touch", !.copy = row[s]]
<1>3. \/ Goto(r, Over(r, "denied"))
      \/ Goto(r, touch)
      \/ Goto(r, AfterGet(r, row[s]))
  BY <1>2 DEF Get
<1>4. touch.id = s /\ touch.copy = row[s]
  BY <1>1, <1>2 DEF Req
<1> HIDE DEF touch
<1>5. SidsKept
  BY <1>1, RowsStand
<1>6. CASE Goto(r, touch)
  BY <1>1, <1>4, <1>5, <1>6, LogoutMove DEF LogoutInv, LogoutShape
<1>7. CASE Goto(r, Over(r, "denied"))
  <2>1. Over(r, "denied").pc \notin {"touch", "rotate"}
    BY OverHolds DEF Rest
  <2> QED
    BY <1>1, <1>5, <1>7, <2>1, RowlessMove
<1>8. CASE Goto(r, AfterGet(r, row[s]))
  BY <1>1, <1>5, <1>8, AfterGetLooks, RowlessMove
<1> QED
  BY <1>3, <1>6, <1>7, <1>8

\* Touch and Rotate write back the sid of the row they read.
LEMMA TouchLogout ==
  ASSUME SessionInv, LogoutInv, NEW r \in Requests, Touch(r) PROVE LogoutInv'
<1>1. /\ req[r].pc = "touch" /\ req[r].pc \notin Rest
      /\ req[r].copy \in Row
      /\ UNCHANGED <<login, told, sso, outbox, key, crossed>>
      /\ CallWorks \/ CallFails
  BY DEF Touch, Rest, Unchanged, Keycloak, History, SessionInv, ReqOK
<1>2. PICK s \in Ids : req[r].id = s
  BY <1>1, UnderWay
<1>3. Slid(req[r].copy).sid = req[r].copy.sid
  BY <1>1 DEF Slid, Row
<1>4. Exists(s) => req[r].copy.sid = row[s].sid
  BY <1>1, <1>2 DEF LogoutInv, SameSid, Holds
<1>5. SidsKept
  <2>1. Update(s, Slid(req[r].copy)) \/ row' = row
    BY <1>2 DEF Touch
  <2> QED
    BY <1>3, <1>4, <2>1, UpdateKeepsSids, RowsStand
<1>6. PICK next : Goto(r, next) /\ next.pc \notin {"touch", "rotate"}
  <2>1. \/ Goto(r, AfterGet(r, Slid(req[r].copy)))
        \/ Goto(r, Over(r, "denied"))
    BY DEF Touch
  <2> QED
    BY <1>1, <2>1, AfterGetLooks, OverHolds DEF Rest
<1> QED
  BY <1>1, <1>5, <1>6, RowlessMove

LEMMA RotateGetLogout ==
  ASSUME SessionInv, LogoutInv, NEW r \in Requests, RotateGet(r) PROVE LogoutInv'
<1>1. /\ req[r] \in Req /\ req[r].pc = "rotate get"
      /\ UNCHANGED <<row, login, told, sso, outbox, key, crossed>>
      /\ CallWorks \/ CallFails
  BY UnderWay DEF RotateGet, Rest, Unchanged, Keycloak, History
<1>2. PICK s \in Ids : req[r].id = s
  BY <1>1, UnderWay DEF Rest
<1> DEFINE rotate == [req[r] EXCEPT !.pc = "rotate", !.copy = row[s]]
           answer == WithoutCopy(r, "answer")
<1>3. Goto(r, answer) \/ Goto(r, rotate)
  BY <1>2 DEF RotateGet
<1>4. /\ rotate.id = s /\ rotate.copy = row[s]
      /\ answer.pc = "answer"
  <2>1. rotate.id = s /\ rotate.copy = row[s]
    BY <1>1, <1>2 DEF Req
  <2> QED
    BY <2>1, WithoutCopyIsRequest DEF Pc
<1> HIDE DEF rotate, answer
<1>5. SidsKept
  BY <1>1, RowsStand
<1>6. CASE Goto(r, rotate)
  BY <1>1, <1>4, <1>5, <1>6, LogoutMove DEF LogoutInv, LogoutShape
<1>7. CASE Goto(r, answer)
  BY <1>1, <1>4, <1>5, <1>7, RowlessMove
<1> QED
  BY <1>3, <1>6, <1>7

LEMMA RotateLogout ==
  ASSUME SessionInv, LogoutInv, NEW r \in Requests, Rotate(r) PROVE LogoutInv'
<1>1. /\ req[r] \in Req /\ req[r].pc = "rotate" /\ req[r].copy \in Row
      /\ UNCHANGED <<login, told, sso, outbox, key, crossed>>
      /\ CallWorks \/ CallFails
  BY UnderWay DEF Rotate, Rest, Unchanged, Keycloak, History, SessionInv, ReqOK
<1>2. PICK s \in Ids : req[r].id = s
  BY <1>1, UnderWay DEF Rest
<1>3. Rotated(r).sid = req[r].copy.sid
  BY <1>1 DEF Rotated, Row
<1>4. Exists(s) => req[r].copy.sid = row[s].sid
  BY <1>1, <1>2 DEF LogoutInv, SameSid, Holds
<1>5. SidsKept
  <2>1. Update(s, Rotated(r)) \/ row' = row
    BY <1>2 DEF Rotate
  <2> QED
    BY <1>3, <1>4, <2>1, UpdateKeepsSids, RowsStand
<1>6. PICK next : Goto(r, next) /\ next.pc = "answer"
  BY WithoutCopyIsRequest DEF Rotate, Pc
<1> QED
  BY <1>1, <1>5, <1>6, RowlessMove

\* Logout ends the user session at Keycloak, and sends no logout token.
LEMMA RevokeTokenLogout ==
  ASSUME SessionInv, LogoutInv, NEW r \in Requests, RevokeToken(r) PROVE LogoutInv'
<1>1. /\ req[r] \in Req /\ UNCHANGED <<row, login, told, outbox, key, crossed>>
      /\ \/ sso' = [sso EXCEPT ![req[r].copy.user] = "ended"]
         \/ sso' = sso
      /\ CallWorks \/ CallFails
  <2>1. req[r] \in Req
    BY UnderWay DEF RevokeToken, Rest
  <2> QED
    BY <2>1 DEF RevokeToken, Unchanged, History, Keycloak
<1>2. PICK next : Goto(r, next) /\ next.pc = "revoke"
  <2>1. WithoutCopy(r, "revoke").pc = "revoke"
    BY WithoutCopyIsRequest DEF Pc
  <2> QED
    BY <2>1 DEF RevokeToken
<1>3. /\ sso' \in [Sids -> {"alive", "ended"}]
      /\ \A k \in Sids : sso[k] = "ended" => sso'[k] = "ended"
  BY <1>1 DEF LogoutInv, LogoutShape
<1> QED
  BY <1>1, <1>2, <1>3, RowsStand, LogoutMove

\* The other steps of a request; what Revoke deletes is gone.
LEMMA OtherMovesLogout ==
  ASSUME SessionInv, LogoutInv, NEW r \in Requests,
         \/ RefreshToken(r) \/ RefreshRefused(r) \/ Revoke(r) \/ Serve(r)
         \/ Abandon(r)
  PROVE  LogoutInv'
<1>1. /\ req[r] \in Req /\ req[r].id \in Ids
      /\ UNCHANGED <<login, told, sso, outbox, key, crossed>>
      /\ CallWorks \/ CallFails
  BY UnderWay DEF RefreshToken, RefreshRefused, Revoke, Serve, Abandon, Rest,
                  Unchanged, Keycloak, History
<1>2. SidsKept
  <2>1. row' = row \/ Delete({req[r].id})
    BY DEF RefreshToken, RefreshRefused, Revoke, Serve, Abandon
  <2> QED
    BY <1>1, <2>1, DeleteKeepsSids, RowsStand
<1>3. PICK next : Goto(r, next) /\ next.pc \notin {"touch", "rotate"}
  <2>1. CASE Revoke(r) \/ Serve(r) \/ Abandon(r)
    BY <2>1, OverHolds DEF Revoke, Serve, Abandon, Rest
  <2>2. CASE RefreshRefused(r)
    <3>1. Goto(r, WithoutCopy(r, "revoke"))
      BY <2>2 DEF RefreshRefused
    <3>2. WithoutCopy(r, "revoke").pc = "revoke"
      BY WithoutCopyIsRequest DEF Pc
    <3> QED
      BY <3>1, <3>2
  <2>3. CASE RefreshToken(r)
    <3> DEFINE rotate == [WithoutCopy(r, "rotate get") EXCEPT
                            !.gen = issued[req[r].id] + 1]
               revoke == WithoutCopy(r, "revoke")
    <3>1. Goto(r, rotate) \/ Goto(r, revoke)
      BY <2>3 DEF RefreshToken
    <3>2. rotate.pc = "rotate get" /\ revoke.pc = "revoke"
      <4>1. PICK got : got = WithoutCopy(r, "rotate get")
        OBVIOUS
      <4>2. got \in Req /\ got.pc = "rotate get"
        BY <4>1, WithoutCopyIsRequest DEF Pc
      <4>3. rotate = [got EXCEPT !.gen = issued[req[r].id] + 1]
        BY <4>1
      <4> QED
        BY <4>2, <4>3, WithoutCopyIsRequest DEF Pc, Req
    <3> HIDE DEF rotate, revoke
    <3> QED
      BY <3>1, <3>2
  <2> QED
    BY <2>1, <2>2, <2>3
<1> QED
  BY <1>1, <1>2, <1>3, RowlessMove

LEMMA LogoutNextInv ==
  SessionInv /\ TokenInv /\ LogoutInv /\ [SessionNext]_bvars => LogoutInv'
<1> SUFFICES ASSUME SessionInv, TokenInv, LogoutInv, [SessionNext]_bvars
             PROVE  LogoutInv'
  OBVIOUS
<1>1. CASE UNCHANGED bvars
  BY <1>1, RowsStand, SameSidStays, LogoutStay
     DEF bvars, LogoutInv, LogoutShape, CallWorks
<1>2. CASE RotateKey \/ DeleteExpired \/ \E s \in Ids : Grow(s) \/ GoStale(s)
  BY <1>2, GrowLogout, SurroundingsLogout
<1>3. CASE \E k \in Sids : SsoEnds(k) \/ Backchannel(k)
  BY <1>3, SsoEndsLogout, BackchannelLogout
<1>4. CASE \E s \in Ids, k \in Sids : ExchangeCode(s, k) \/ CreateSession(s, k)
  BY <1>4, ExchangeCodeLogout, CreateSessionLogout
<1>5. CASE \E r \in Requests, s \in Ids, logout \in BOOLEAN : Begin(r, s, logout)
  BY <1>5, BeginLogout
<1>6. CASE \E r \in Requests : Handle(r) \/ Abandon(r)
  BY <1>6, GetLogout, TouchLogout, RotateGetLogout, RotateLogout, RevokeTokenLogout,
     OtherMovesLogout DEF Handle
<1> QED
  BY <1>1, <1>2, <1>3, <1>4, <1>5, <1>6 DEF SessionNext

\* BackchannelLogout refuses no logout token of Keycloak unless a call failed, the
\* first one signed with a new key included; and once RevokeByKeycloakSID was done
\* for it, no session carries its sid, whatever requests under way still write,
\* but for those whose login was under way when the user session ended. A token
\* that is answered 200 without a revocation promises nothing.
THEOREM LogoutTokensEndSessions == SessionSpec => []LogoutTokenEndsSessions
<1>1. LogoutInv => LogoutTokenEndsSessions
  BY DEF LogoutInv
<1>2. SessionInit => TokenInv /\ LogoutInv
  BY TokenInvInit, LogoutInvInit
<1> QED
  BY <1>1, <1>2, SessionInvHolds, TokenNextInv, LogoutNextInv, PTL DEF SessionSpec

=============================================================================
