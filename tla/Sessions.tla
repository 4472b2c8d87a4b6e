------------------------------ MODULE Sessions ------------------------------
(***************************************************************************)
(* The BFF's sessions: a row per session (SessionStore), created by the    *)
(* login callback, read, slid and rotated by SessionMiddleware on every    *)
(* request, deleted by Logout, by Keycloak's back-channel logout and by    *)
(* the cleaner. Requests of one browser run side by side: each action is   *)
(* one call of a handler to the store or to Keycloak.                      *)
(*                                                                         *)
(* Tokens are abstracted to generations: a login issues generation 1 and   *)
(* each refresh the next; staleUpTo is the last generation whose access    *)
(* token is within a minute of its end. Age abstracts updated_at and       *)
(* expires_at to what GetSession compares: "fresh", "slidable" (older than *)
(* SlidingThreshold) and "expired". Keycloak is external.                  *)
(***************************************************************************)
EXTENDS Naturals

CONSTANTS
  Ids,             \* session ids (uuid), one per login
  Sids,            \* Keycloak's user sessions
  Requests,        \* bound: slots for requests in flight at once
  OneTimeRefresh,  \* Keycloak revokes a refresh token once used
  MaxGen,          \* bound: refreshes of a session's tokens
  MaxKey,          \* bound: rotations of Keycloak's signing key
  MaxCallFaults    \* bound: calls that fail, messages and requests lost

ASSUME SessionAssumption ==
  /\ Sids \cap {"none", "done", "failed"} = {}
  /\ Requests \subseteq Nat /\ OneTimeRefresh \in BOOLEAN
  /\ MaxGen \in Nat /\ MaxKey \in Nat /\ MaxCallFaults \in Nat

VARIABLES
  row,        \* bff_sessions: the row of each id, NoRow when there is none
  login,      \* each id's Callback: "none", "done", "failed", or the sid of a
              \* code that is exchanged and a row that is still to be made
  req,        \* per request: [pc, logout, id, copy, gen, late]
  sso,        \* Keycloak: per sid, "alive" or "ended"
  issued,     \* Keycloak: the last generation of each id's tokens
  staleUpTo,  \* time: the last generation of each id that is expiring
  key,        \* Keycloak's signing key; older ones stay published
  jwks,       \* KeycloakClient.keys: cached up to this key
  outbox,     \* Keycloak: per sid, the key its logout token is signed with
  told,       \* history: per sid, what became of its logout token
  removed,    \* history: ids whose row was deleted
  raced,      \* history: ids two requests overlapped on
  crossed,    \* history: ids whose user session ended during the login
  failures    \* history: how many calls failed

bvars == <<row, login, req, sso, issued, staleUpTo, key, jwks, outbox, told,
           removed, raced, crossed, failures>>

\* user is the user session the tokens are of, sid the column KeycloakSID: empty
\* when the tokens of the login had no such claim.
NoRow == [user |-> "none", sid |-> "none", gen |-> 0, age |-> "expired"]
Ages  == {"fresh", "slidable", "expired"}
Row   == [user : Sids, sid : Sids \cup {"none"}, gen : Nat, age : Ages]
Rest  == {"idle", "served", "denied"}

\* A logout token is refused (400, or it never arrived), answered 200 though no
\* session was revoked, or answered 200 once RevokeByKeycloakSID was done.
Answers == {"none", "refused", "ok", "revoked"}

NoRequest == [pc |-> "idle", logout |-> FALSE, id |-> "none", copy |-> NoRow,
              gen |-> 0, late |-> FALSE]

SessionInit ==
  /\ row = [s \in Ids |-> NoRow]
  /\ login = [s \in Ids |-> "none"]
  /\ req = [r \in Requests |-> NoRequest]
  /\ sso = [k \in Sids |-> "alive"]
  /\ issued = [s \in Ids |-> 0] /\ staleUpTo = [s \in Ids |-> 0]
  /\ key = 1 /\ outbox = [k \in Sids |-> 0]
  /\ jwks \in {0, 1}      \* empty, or fetched for an earlier logout token
  /\ told = [k \in Sids |-> "none"]
  /\ removed = {} /\ raced = {} /\ crossed = {} /\ failures = 0

Keycloak == <<sso, issued, key, outbox>>
History  == <<told, raced, crossed>>

CallFails == failures < MaxCallFaults /\ failures' = failures + 1
CallWorks == UNCHANGED failures

-----------------------------------------------------------------------------
(* SessionStore: each operation is one statement, or runs under a mutex    *)

Exists(s) == row[s] # NoRow

\* UPDATE ... WHERE id = $1: no row, no update.
\* Mutant: an upsert.
Upsert(s, new) == row' = [row EXCEPT ![s] = new]
Update(s, new) == row' = [row EXCEPT ![s] = IF Exists(s) THEN new ELSE NoRow]

Create(s, new) == row' = [row EXCEPT ![s] = new]

Delete(gone) == /\ row' = [s \in Ids |-> IF s \in gone THEN NoRow ELSE row[s]]
                /\ removed' = removed \cup {s \in gone : Exists(s)}

-----------------------------------------------------------------------------
(* Time, and Keycloak on its own                                           *)

\* A row not written for a while may be slid, then expires.
Grow(s) ==
  /\ Exists(s) /\ row[s].age # "expired"
  /\ row' = [row EXCEPT ![s].age = IF @ = "fresh" THEN "slidable"
                                   ELSE "expired"]
  /\ UNCHANGED <<login, req, Keycloak, staleUpTo, jwks, History, removed,
                 failures>>

\* (The bound: the last generation outlives the run, unless its sid ended.)
GoStale(s) ==
  /\ Exists(s) /\ staleUpTo[s] < issued[s]
  /\ issued[s] < MaxGen \/ sso[row[s].user] = "ended"
  /\ staleUpTo' = [staleUpTo EXCEPT ![s] = issued[s]]
  /\ UNCHANGED <<row, login, req, Keycloak, jwks, History, removed, failures>>

RotateKey ==
  /\ key < MaxKey /\ key' = key + 1
  /\ UNCHANGED <<row, login, req, sso, issued, staleUpTo, jwks, outbox, History,
                 removed, failures>>

\* The user session ends at Keycloak, which sends its clients a logout token.
SsoEnds(k) ==
  /\ sso[k] = "alive"
  /\ sso' = [sso EXCEPT ![k] = "ended"]
  /\ outbox' = [outbox EXCEPT ![k] = key]
  /\ crossed' = crossed \cup {s \in Ids : login[s] = k}
  /\ UNCHANGED <<row, login, req, issued, staleUpTo, key, jwks, told, removed,
                 raced, failures>>

-----------------------------------------------------------------------------
(* AuthHandler.Callback                                                    *)

\* state and PKCE verifier match, ExchangeCode returns the first tokens.
ExchangeCode(s, k) ==
  /\ login[s] = "none" /\ sso[k] = "alive"
  /\ login' = [login EXCEPT ![s] = k]
  /\ issued' = [issued EXCEPT ![s] = 1]
  /\ UNCHANGED <<row, req, sso, staleUpTo, key, jwks, outbox, History, removed,
                 failures>>

\* The row of a login: the tokens of ExchangeCode, the sid claim of the ID token
\* (or the access token), if there is one, and its whole life to live.
NewSession(k, sid) == [user |-> k, sid |-> sid, gen |-> 1, age |-> "fresh"]

CreateSession(s, k) ==
  /\ login[s] = k
  /\ \/ /\ CallWorks
        /\ \E sid \in {k, "none"} : Create(s, NewSession(k, sid))
        /\ login' = [login EXCEPT ![s] = "done"]
     \/ /\ CallFails
        /\ login' = [login EXCEPT ![s] = "failed"]
        /\ UNCHANGED row
  /\ UNCHANGED <<req, Keycloak, staleUpTo, jwks, History, removed>>

-----------------------------------------------------------------------------
(* A request with the session's cookie: SessionMiddleware, or Logout       *)

\* The slots are filled in order: they are no state of the program.
NextSlot(r) == /\ req[r].pc \in Rest
               /\ \A q \in Requests : q < r => req[q].pc \notin Rest

InFlight(s) == {r \in Requests : req[r].pc \notin Rest /\ req[r].id = s}

Begin(r, s, logout) ==
  /\ NextSlot(r) /\ login[s] = "done"
  /\ req' = [req EXCEPT ![r] = [NoRequest EXCEPT !.pc = "get", !.id = s,
                                  !.logout = logout, !.late = s \in removed]]
  /\ raced' = IF InFlight(s) = {} THEN raced ELSE raced \cup {s}
  /\ UNCHANGED <<row, login, Keycloak, staleUpTo, jwks, told, removed, crossed,
                 failures>>

\* A request is over: what it read is forgotten.
Over(r, how) == [NoRequest EXCEPT !.pc = how, !.late = req[r].late]
\* A request goes on, and writes back no copy of its row any more.
WithoutCopy(r, pc) == [req[r] EXCEPT !.pc = pc, !.copy = NoRow, !.gen = 0]
Goto(r, next) == req' = [req EXCEPT ![r] = next]

Unchanged == UNCHANGED <<login, staleUpTo, jwks, History>>

\* After GetSession: the access token is looked at; Logout turns to Keycloak.
AfterGet(r, copy) ==
  IF req[r].logout
  THEN [req[r] EXCEPT !.pc = "signing out", !.copy = copy]
  ELSE IF copy.gen <= staleUpTo[req[r].id]
       THEN [req[r] EXCEPT !.pc = "refresh", !.copy = copy]
       ELSE WithoutCopy(r, "answer")

\* GetSession: missing or expired is an error, an old one is slid first.
Get(r) ==
  LET s == req[r].id IN
  /\ req[r].pc = "get"
  /\ \/ /\ CallWorks
        /\ CASE ~Exists(s) \/ row[s].age = "expired" -> Goto(r, Over(r, "denied"))
             [] row[s].age = "slidable" ->
                  Goto(r, [req[r] EXCEPT !.pc = "touch", !.copy = row[s]])
             [] OTHER -> Goto(r, AfterGet(r, row[s]))
     \/ CallFails /\ Goto(r, Over(r, "denied"))
  /\ Unchanged /\ UNCHANGED <<row, removed, Keycloak>>

\* Touch and Update: the whole row is written, from the copy read before.
Slid(copy) == [copy EXCEPT !.age = "fresh"]

Touch(r) ==
  LET s    == req[r].id
      slid == Slid(req[r].copy)
  IN
  /\ req[r].pc = "touch"
  /\ \/ /\ CallWorks
        /\ Update(s, slid)
        /\ Goto(r, IF Exists(s) THEN AfterGet(r, slid) ELSE Over(r, "denied"))
     \/ CallFails /\ Goto(r, Over(r, "denied")) /\ UNCHANGED row
  /\ Unchanged /\ UNCHANGED <<removed, Keycloak>>

\* RefreshToken at Keycloak. A refusal, or no answer, invalidates the session.
Refreshable(r) == /\ sso[req[r].copy.user] = "alive"
                  /\ OneTimeRefresh => req[r].copy.gen = issued[req[r].id]

RefreshToken(r) ==
  LET s == req[r].id IN
  /\ req[r].pc = "refresh" /\ Refreshable(r)
  /\ issued' = [issued EXCEPT ![s] = @ + 1]
  /\ \/ /\ CallWorks
        /\ Goto(r, [WithoutCopy(r, "rotate get") EXCEPT !.gen = issued[s] + 1])
     \/ CallFails /\ Goto(r, WithoutCopy(r, "revoke"))
  /\ Unchanged /\ UNCHANGED <<row, removed, sso, key, outbox>>

\* Mutant: the request goes on with the token it has.
RefreshRefusedIgnored(r) ==
  /\ req[r].pc = "refresh"
  /\ \/ ~Refreshable(r) /\ CallWorks
     \/ CallFails
  /\ Goto(r, WithoutCopy(r, "answer"))
  /\ Unchanged /\ UNCHANGED <<row, removed, Keycloak>>
RefreshRefused(r) ==
  /\ req[r].pc = "refresh"
  /\ \/ ~Refreshable(r) /\ CallWorks
     \/ CallFails
  /\ Goto(r, WithoutCopy(r, "revoke"))
  /\ Unchanged /\ UNCHANGED <<row, removed, Keycloak>>

\* RevokeSession; its error is ignored. The request is denied all the same.
Revoke(r) ==
  /\ req[r].pc = "revoke"
  /\ Goto(r, Over(r, "denied"))
  /\ \/ CallWorks /\ Delete({req[r].id})
     \/ CallFails /\ UNCHANGED <<row, removed>>
  /\ Unchanged /\ UNCHANGED Keycloak

\* RotateSessionTokens reads the row again; without it, or on an error, the
\* request goes on with the tokens it had.
RotateGet(r) ==
  LET s == req[r].id IN
  /\ req[r].pc = "rotate get"
  /\ \/ /\ CallWorks
        /\ Goto(r, IF ~Exists(s) \/ row[s].age = "expired"
                   THEN WithoutCopy(r, "answer")
                   ELSE [req[r] EXCEPT !.pc = "rotate", !.copy = row[s]])
     \/ CallFails /\ Goto(r, WithoutCopy(r, "answer"))
  /\ Unchanged /\ UNCHANGED <<row, removed, Keycloak>>

\* Mutant: the access token is replaced, the refresh token is not.
RotatedHalf(r) == [req[r].copy EXCEPT !.age = "fresh"]
Rotated(r)     == [req[r].copy EXCEPT !.age = "fresh", !.gen = req[r].gen]

Rotate(r) ==
  /\ req[r].pc = "rotate"
  /\ \/ CallWorks /\ Update(req[r].id, Rotated(r))
     \/ CallFails /\ UNCHANGED row
  /\ Goto(r, WithoutCopy(r, "answer"))
  /\ Unchanged /\ UNCHANGED <<removed, Keycloak>>

\* Logout: RevokeToken ends the sid at Keycloak; its error is ignored.
RevokeToken(r) ==
  /\ req[r].pc = "signing out"
  /\ \/ CallWorks /\ sso' = [sso EXCEPT ![req[r].copy.user] = "ended"]
     \/ CallFails /\ UNCHANGED sso
  /\ Goto(r, WithoutCopy(r, "revoke"))
  /\ Unchanged /\ UNCHANGED <<row, removed, issued, key, outbox>>

\* The middleware calls the next handler with the session.
Serve(r) ==
  /\ req[r].pc = "answer"
  /\ Goto(r, Over(r, "served"))
  /\ Unchanged /\ CallWorks /\ UNCHANGED <<row, removed, Keycloak>>

\* The browser gives up, which cancels the calls of its request's context.
Abandon(r) ==
  /\ req[r].pc \notin Rest /\ CallFails
  /\ Goto(r, Over(r, "denied"))
  /\ Unchanged /\ UNCHANGED <<row, removed, Keycloak>>

-----------------------------------------------------------------------------
(* AuthHandler.BackchannelLogout                                           *)

\* getPublicKey: a kid the cache lacks is looked for in a fresh JWKS, which
\* lists every key up to the current one.
\* Mutant: a cache that is not old is not fetched again.
PublicKeyCachedOnly(k) == jwks = 0 \/ outbox[k] <= jwks
PublicKeyFound(k)      == outbox[k] <= key

\* VerifyLogoutToken: what Keycloak signed says what it must; only the key may
\* have to be fetched.
VerifyLogoutToken(k) == jwks' = IF outbox[k] <= jwks THEN jwks ELSE key

Refuse(k) == /\ told' = [told EXCEPT ![k] = "refused"]
             /\ UNCHANGED <<row, removed>>

\* A token without the sid claim revokes nothing, and an error of
\* RevokeByKeycloakSID is only logged: the answer is 200 in either case.
RevokeByKeycloakSID(k) ==
  \/ /\ CallWorks
     /\ Delete({s \in Ids : row[s].sid = k})
     /\ told' = [told EXCEPT ![k] = "revoked"]
  \/ /\ CallWorks \/ CallFails
     /\ told' = [told EXCEPT ![k] = "ok"]
     /\ UNCHANGED <<row, removed>>

\* The failure here is the message's, or that of fetching the key.
Backchannel(k) ==
  /\ outbox[k] > 0
  /\ outbox' = [outbox EXCEPT ![k] = 0]
  /\ \/ CallFails /\ Refuse(k) /\ UNCHANGED jwks
     \/ /\ VerifyLogoutToken(k)
        /\ IF PublicKeyFound(k) THEN RevokeByKeycloakSID(k)
                                ELSE CallWorks /\ Refuse(k)
  /\ UNCHANGED <<login, req, sso, issued, staleUpTo, key, raced, crossed>>

\* SessionCleaner.CleanOnce.
Expired == {s \in Ids : Exists(s) /\ row[s].age = "expired"}

DeleteExpired ==
  /\ Expired # {}
  /\ \/ CallWorks /\ Delete(Expired)
     \/ CallFails /\ UNCHANGED <<row, removed>>
  /\ Unchanged /\ UNCHANGED <<req, Keycloak>>

-----------------------------------------------------------------------------
Handle(r) == \/ Get(r) \/ Touch(r) \/ RefreshToken(r) \/ RefreshRefused(r)
             \/ Revoke(r) \/ RotateGet(r) \/ Rotate(r) \/ RevokeToken(r)
             \/ Serve(r)

SessionNext ==
  \/ RotateKey \/ DeleteExpired
  \/ \E s \in Ids : Grow(s) \/ GoStale(s)
  \/ \E k \in Sids : SsoEnds(k) \/ Backchannel(k)
  \/ \E s \in Ids, k \in Sids : ExchangeCode(s, k) \/ CreateSession(s, k)
  \/ \E r \in Requests, s \in Ids, logout \in BOOLEAN : Begin(r, s, logout)
  \/ \E r \in Requests : Handle(r) \/ Abandon(r)

\* Time passes, the cleaner's ticker fires and a request that was begun is
\* handled. Nobody has to log in, come back or log out.
SessionFairness ==
  /\ \A s \in Ids : WF_bvars(Grow(s)) /\ WF_bvars(GoStale(s))
  /\ \A r \in Requests : WF_bvars(Handle(r))
  /\ WF_bvars(DeleteExpired)

SessionSpec == SessionInit /\ [][SessionNext]_bvars /\ SessionFairness

-----------------------------------------------------------------------------
(* Properties                                                              *)

\* Every field has its type; a row has only been given tokens Keycloak issued,
\* and one that was deleted is not written again.
SessionTypeOK ==
  /\ \A s \in Ids :
       /\ row[s] \in Row \cup {NoRow} /\ row[s].gen <= issued[s]
       /\ Exists(s) => login[s] = "done" /\ s \notin removed
       /\ login[s] \in {"none", "done", "failed"} \cup Sids
       /\ staleUpTo[s] <= issued[s]
  /\ \A r \in Requests :
       /\ req[r].pc \in Rest \cup {"get", "touch", "refresh", "revoke",
                          "rotate get", "rotate", "signing out", "answer"}
       /\ req[r].pc \notin Rest => req[r].id \in Ids /\ login[req[r].id] = "done"
       /\ req[r].copy \in Row \cup {NoRow}
  /\ told \in [Sids -> Answers]
  /\ removed \subseteq Ids /\ raced \subseteq Ids /\ crossed \subseteq Ids
  /\ jwks \in 0 .. key /\ failures \in 0 .. MaxCallFaults

\* A session whose row was deleted (by a logout, a refusal of Keycloak, its logout
\* token, the cleaner) serves no request that begins later, whatever the requests
\* that were under way at the time still write. (A logout whose RevokeSession fails
\* is answered all the same; that session is not ended.)
NoServiceAfterLogout ==
  \A r \in Requests : req[r].pc \in {"answer", "served"} => ~req[r].late

\* Between requests, a session that never had two at once holds the tokens Keycloak
\* issued last, so that the next refresh is accepted even when they are good for
\* one use: within one request, Touch and Rotate, each of which writes the whole
\* row from a copy, lose none. (Two requests that overlap may lose them: one's
\* Touch writes back the tokens it read before the other's Rotate.)
QuietSessionHasLatestTokens ==
  \A s \in Ids \ raced :
    Exists(s) /\ row[s].age # "expired" /\ failures = 0 /\ InFlight(s) = {}
      => row[s].gen = issued[s]

\* No logout token of Keycloak is refused unless a call failed, the first one
\* signed with a new key included; and once RevokeByKeycloakSID was done for one,
\* no session carries its sid, whatever requests under way still write, but for
\* those whose login was under way when the user session ended. (A token answered
\* 200 without a revocation, and sessions that carry no sid, are left to
\* EndedSessionsGo.)
LogoutTokenEndsSessions ==
  \A k \in Sids :
    /\ told[k] = "refused" => failures > 0
    /\ told[k] = "revoked" => \A s \in Ids \ crossed : row[s].sid # k

\* A session whose user session ended at Keycloak ends here, though the logout
\* token may be lost, come too early, name no sid or be answered without a
\* revocation: its tokens go stale, Keycloak refuses the refresh, or nobody comes
\* and it expires.
EndedSessionsGo ==
  \A s \in Ids, k \in Sids :
    (sso[k] = "ended" /\ row[s].user = k) ~> ~Exists(s)
=============================================================================
