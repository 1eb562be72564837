------------------------------ MODULE Sessions ------------------------------
(***************************************************************************)
(* The auth service of the Go API (internal/auth): accounts, the sessions  *)
(* table of rotating refresh tokens, and the requests that are inside a    *)
(* handler.  Every statement or transaction sent to PostgreSQL is one      *)
(* step, so a handler that reads a session and changes it later leaves a   *)
(* gap in which the other requests run.                                    *)
(*                                                                         *)
(* A session row is identified with its refresh token (sessions.token_hash *)
(* is UNIQUE and derived from the token).  Time is abstracted to the       *)
(* instants that matter: a refresh token or an access token expires.       *)
(***************************************************************************)
EXTENDS FiniteSets

CONSTANTS
    Users,      \* accounts that may sign up
    Tokens,     \* the bound on sessions: every refresh token ever drawn
    Requests,   \* requests that may be inside the service at the same time
    None        \* no token: a blank or unknown one, or a refused request

ASSUME NoneAssumption == None \notin Users \cup Tokens

VARIABLES
    accounts,   \* users with a users row and a personal publisher
    row,        \* sessions: "absent", "active" or "revoked" (revoked_at)
    holder,     \* sessions.user_id
    expired,    \* refresh tokens whose expires_at has passed
    access,     \* the access token signed with each session
    req,        \* what each request has read and where it stands
    parent,     \* history: the token a rotation exchanged for this one
    acked       \* history: tokens whose logout was answered with success

sessionVars == <<row, holder, access, parent>>
vars == <<accounts, row, holder, expired, access, req, parent, acked>>

Idle == [pc |-> "idle", token |-> None, user |-> None, answer |-> None]

\* A request answered with a token pair, or (None) without one.
Answered(answer) ==
    [pc |-> "answered", token |-> None, user |-> None, answer |-> answer]

Request == [pc     : {"idle", "rotate", "revoke", "answered"},
            token  : Tokens \cup {None},
            user   : Users \cup {None},
            answer : Tokens \cup {None}]

Init ==
    /\ accounts = {}
    /\ row      = [t \in Tokens |-> "absent"]
    /\ holder   = [t \in Tokens |-> None]
    /\ expired  = {}
    /\ access   = [t \in Tokens |-> "none"]
    /\ req      = [r \in Requests |-> Idle]
    /\ parent   = [t \in Tokens |-> None]
    /\ acked    = {}

Issued == {t \in Tokens : row[t] # "absent"}

\* What a client may present: a token it was given at some time, or garbage.
Presentable == Issued \cup {None}

\* ByTokenHash finds the row, not revoked and not expired.
Usable(t) == t \in Tokens /\ row[t] = "active" /\ t \notin expired

Reply(r, answer) == req' = [req EXCEPT ![r] = Answered(answer)]

(***************************************************************************)
(* Signup and Login: one write each.                                       *)
(***************************************************************************)

\* Mutant: the insert is an upsert on token_hash.
UpsertSession(n, u) ==
    /\ row'    = [row EXCEPT ![n] = "active"]
    /\ holder' = [holder EXCEPT ![n] = u]
    /\ access' = [access EXCEPT ![n] = "valid"]
    /\ UNCHANGED parent

\* SessionsRepository.Create, then issue: a session row that is not the
\* child of another one, and the access token signed for it.
OpenSession(n, u) ==
    /\ row[n] = "absent"
    /\ row'    = [row EXCEPT ![n] = "active"]
    /\ holder' = [holder EXCEPT ![n] = u]
    /\ access' = [access EXCEPT ![n] = "valid"]
    /\ UNCHANGED parent

\* Mutant: the session is opened in a second transaction, which may fail.
SignupInTwo(r, u) ==
    /\ req[r].pc = "idle"
    /\ u \notin accounts
    /\ accounts' = accounts \cup {u}
    /\ \/ \E n \in Tokens : OpenSession(n, u) /\ Reply(r, n)
       \/ UNCHANGED sessionVars /\ Reply(r, None)
    /\ UNCHANGED <<expired, acked>>

\* One transaction: user, personal publisher and session, or none of them.
Signup(r, u) ==
    /\ req[r].pc = "idle"
    /\ u \notin accounts
    /\ accounts' = accounts \cup {u}
    /\ \E n \in Tokens : OpenSession(n, u) /\ Reply(r, n)
    /\ UNCHANGED <<expired, acked>>

Login(r, u) ==
    /\ req[r].pc = "idle"
    /\ u \in accounts
    /\ \E n \in Tokens : OpenSession(n, u) /\ Reply(r, n)
    /\ UNCHANGED <<accounts, expired, acked>>

\* A taken username, unknown account, wrong password or failed statement.
Refuse(r) ==
    /\ req[r].pc = "idle"
    /\ Reply(r, None)
    /\ UNCHANGED <<accounts, sessionVars, expired, acked>>

(***************************************************************************)
(* Refresh: the session is read outside the transaction that rotates it.   *)
(***************************************************************************)
\* Mutant: the query does not ask for revoked_at IS NULL.
ReadRevoked(r, t) ==
    /\ req[r].pc = "idle"
    /\ IF t \in Issued \ expired
       THEN req' = [req EXCEPT ![r] = [pc |-> "rotate", token |-> t,
                                       user |-> holder[t], answer |-> None]]
       ELSE Reply(r, None)
    /\ UNCHANGED <<accounts, sessionVars, expired, acked>>

RefreshRead(r, t) ==
    /\ req[r].pc = "idle"
    /\ IF Usable(t)
       THEN req' = [req EXCEPT ![r] = [pc |-> "rotate", token |-> t,
                                       user |-> holder[t], answer |-> None]]
       ELSE Reply(r, None)
    /\ UNCHANGED <<accounts, sessionVars, expired, acked>>

\* Mutant: Revoke and Create are not one transaction, and Create may fail.
RotateInTwo(r) ==
    /\ req[r].pc = "rotate"
    /\ LET t == req[r].token IN
       \/ /\ row' = [row EXCEPT ![t] = "revoked"]
          /\ Reply(r, None)
          /\ UNCHANGED <<holder, access, parent>>
       \/ \E n \in Tokens :
             /\ row[n] = "absent"
             /\ row'    = [row EXCEPT ![t] = "revoked", ![n] = "active"]
             /\ holder' = [holder EXCEPT ![n] = req[r].user]
             /\ access' = [access EXCEPT ![n] = "valid"]
             /\ parent' = [parent EXCEPT ![n] = t]
             /\ Reply(r, n)
    /\ UNCHANGED <<accounts, expired, acked>>

\* Revoke does not look at the number of rows it updated, so a session
\* revoked since RefreshRead is rotated all the same.
RefreshCommit(r) ==
    /\ req[r].pc = "rotate"
    /\ LET t == req[r].token IN
       \E n \in Tokens :
          /\ row[n] = "absent"
          /\ row'    = [row EXCEPT ![t] = "revoked", ![n] = "active"]
          /\ holder' = [holder EXCEPT ![n] = req[r].user]
          /\ access' = [access EXCEPT ![n] = "valid"]
          /\ parent' = [parent EXCEPT ![n] = t]
          /\ Reply(r, n)
    /\ UNCHANGED <<accounts, expired, acked>>

\* A failed statement or commit, or the request timeout: all rolled back.
RefreshAbort(r) ==
    /\ req[r].pc = "rotate"
    /\ Reply(r, None)
    /\ UNCHANGED <<accounts, sessionVars, expired, acked>>

(***************************************************************************)
(* Logout: a read and an update, without a transaction.                    *)
(***************************************************************************)

\* Mutant: the logout does not look the token up.
LogoutAnything(r, t) ==
    /\ req[r].pc = "idle"
    /\ req' = [req EXCEPT ![r] = [pc |-> "revoke", token |-> t,
                                 user |-> None, answer |-> None]]
    /\ UNCHANGED <<accounts, sessionVars, expired, acked>>

\* An unusable token is answered at once, with success.
LogoutRead(r, t) ==
    /\ req[r].pc = "idle"
    /\ IF Usable(t)
       THEN /\ req' = [req EXCEPT ![r] = [pc |-> "revoke", token |-> t,
                                          user |-> None, answer |-> None]]
            /\ UNCHANGED acked
       ELSE /\ Reply(r, None)
            /\ acked' = acked \cup ({t} \ {None})
    /\ UNCHANGED <<accounts, sessionVars, expired>>

LogoutRevoke(r) ==
    /\ req[r].pc = "revoke"
    /\ row'   = [row EXCEPT ![req[r].token] = "revoked"]
    /\ acked' = acked \cup {req[r].token}
    /\ Reply(r, None)
    /\ UNCHANGED <<accounts, holder, access, parent, expired>>

\* Mutant: the error of Revoke is dropped and the logout acknowledged.
AcknowledgeFailure(r) ==
    /\ req[r].pc = "revoke"
    /\ acked' = acked \cup {req[r].token}
    /\ Reply(r, None)
    /\ UNCHANGED <<accounts, sessionVars, expired>>

LogoutFail(r) ==
    /\ req[r].pc = "revoke"
    /\ Reply(r, None)
    /\ UNCHANGED <<accounts, sessionVars, expired, acked>>

(***************************************************************************)
(* Authenticate reads the access token alone: a revoked session keeps its  *)
(* access token valid until that token expires.                            *)
(***************************************************************************)
Authenticates(t) == t \in Tokens /\ access[t] = "valid"

Receive(r) ==
    /\ req[r].pc = "answered"
    /\ req' = [req EXCEPT ![r] = Idle]
    /\ UNCHANGED <<accounts, sessionVars, expired, acked>>

ExpireRefresh(t) ==
    /\ t \in Issued \ expired
    /\ expired' = expired \cup {t}
    /\ UNCHANGED <<accounts, sessionVars, req, acked>>

ExpireAccess(t) ==
    /\ access[t] = "valid"
    /\ access' = [access EXCEPT ![t] = "expired"]
    /\ UNCHANGED <<accounts, row, holder, parent, expired, req, acked>>

Begin(r) ==
    \/ \E u \in Users : Signup(r, u) \/ Login(r, u)
    \/ Refuse(r)
    \/ \E t \in Presentable : RefreshRead(r, t) \/ LogoutRead(r, t)

Finish(r) ==
    \/ RefreshCommit(r)
    \/ RefreshAbort(r)
    \/ LogoutRevoke(r)
    \/ LogoutFail(r)

Next ==
    \/ \E r \in Requests : Begin(r) \/ Finish(r) \/ Receive(r)
    \/ \E t \in Tokens : ExpireRefresh(t) \/ ExpireAccess(t)

Spec == Init /\ [][Next]_vars

-----------------------------------------------------------------------------

\* The rows of the tables and the requests have their types.
TypeOK ==
    /\ accounts \subseteq Users
    /\ row \in [Tokens -> {"absent", "active", "revoked"}]
    /\ holder \in [Tokens -> Users \cup {None}]
    /\ expired \subseteq Tokens
    /\ access \in [Tokens -> {"none", "valid", "expired"}]
    /\ req \in [Requests -> Request]
    /\ parent \in [Tokens -> Tokens \cup {None}]
    /\ acked \subseteq Tokens

\* Refresh revokes and creates in one transaction.  A token that was exchanged
\* is dead, however many requests were exchanging it; and a dead token was
\* exchanged for another one, or its logout was acknowledged: a rotation that
\* fails half-way signs nobody out.
RotationIsWhole ==
    /\ \A n \in Tokens : parent[n] # None => row[parent[n]] = "revoked"
    /\ \A t \in Tokens : row[t] = "revoked" =>
          t \in acked \/ \E n \in Tokens : parent[n] = t

\* Rotation never moves a session to another account: the holder that Refresh
\* read before its transaction is the holder of the token it exchanges.
RotationKeepsHolder ==
    \A n \in Tokens : parent[n] # None => holder[n] = holder[parent[n]]

\* Signup leaves neither half behind: an account was given a session, and a
\* session belongs to an account.  Whoever can authenticate does so with a token
\* of a session that was committed.
SignupIsWhole ==
    /\ \A u \in accounts : \E t \in Issued : holder[t] = u
    /\ \A t \in Issued : holder[t] \in accounts
    /\ \A t \in Tokens : access[t] # "none" => t \in Issued

\* Logout answers success only for a token that is not usable any more, and
\* nothing that is still in flight makes the token usable again.
LogoutIsFinal == \A t \in acked : ~ Usable(t)

\* A request is about to exchange, or to revoke, a token only for an account
\* that token belongs to, and only once the session exists.
ReadIsCurrent ==
    \A r \in Requests :
        /\ req[r].pc = "rotate" =>
              /\ req[r].token \in Issued
              /\ req[r].user = holder[req[r].token]
        /\ req[r].pc = "revoke" => req[r].token \in Issued

RowsOnlyAge ==
    \A t \in Tokens :
        /\ row[t] = "revoked" => row'[t] = "revoked"
        /\ row[t] # "absent" => row'[t] # "absent"

\* Nothing brings a revoked session back, and no session row disappears.
RevokedForever == [][RowsOnlyAge]_vars

\* "Rotation keeps a stolen token usable only once": no token was exchanged
\* for two others (the comment above Service.Refresh).
UsableOnce ==
    \A m, n \in Tokens : m # n /\ parent[m] # None => parent[m] # parent[n]

RotatesUnacked ==
    \A n \in Tokens : parent'[n] # parent[n] => parent'[n] \notin acked

\* After the logout of a token was acknowledged, no rotation of that token
\* still opens a session.  True of requests one after the other only.
NoRotationAfterLogout == [][RotatesUnacked]_vars

=============================================================================
