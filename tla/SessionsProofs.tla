--------------------------- MODULE SessionsProofs ---------------------------
(***************************************************************************)
(* Proofs about Sessions, for every set of accounts, tokens and requests,  *)
(* and that the service implements the ledger of claims.                   *)
(***************************************************************************)
EXTENDS SessionRefinement, TLAPS

\* A token that was not drawn yet has no history.
FreshIsBlank ==
    \A t \in Tokens : row[t] = "absent" => parent[t] = None /\ t \notin acked

\* The inductive invariant.  RotationKeepsHolder needs ReadIsCurrent (what a
\* request read before its transaction still holds); the others need to know
\* that a new session takes a token nothing refers to.
Inv ==
    /\ TypeOK
    /\ FreshIsBlank
    /\ ReadIsCurrent
    /\ SignupIsWhole
    /\ RotationIsWhole
    /\ RotationKeepsHolder
    /\ LogoutIsFinal

-----------------------------------------------------------------------------

LEMMA TypeInit == Init => TypeOK
  BY DEF Init, TypeOK, Idle, Request

\* Only LogoutRevoke needs to know what it revokes.
LEMMA TypeStep == TypeOK /\ ReadIsCurrent /\ [Next]_vars => TypeOK'
  <1> SUFFICES ASSUME TypeOK, ReadIsCurrent, [Next]_vars
               PROVE  TypeOK'
    OBVIOUS
  <1> USE DEF TypeOK, Request, Answered, Reply, sessionVars
  <1>1. CASE UNCHANGED vars
    BY <1>1 DEF vars
  <1>2. ASSUME NEW r \in Requests, Begin(r)
        PROVE  TypeOK'
    <2>1. ASSUME NEW u \in Users, Signup(r, u)
          PROVE  TypeOK'
      BY <2>1 DEF Signup, OpenSession
    <2>2. ASSUME NEW u \in Users, Login(r, u)
          PROVE  TypeOK'
      BY <2>2 DEF Login, OpenSession
    <2>3. CASE Refuse(r)
      BY <2>3 DEF Refuse
    <2>4. ASSUME NEW t \in Presentable, RefreshRead(r, t)
          PROVE  TypeOK'
      BY <2>4 DEF RefreshRead, Usable, Presentable, Issued
    <2>5. ASSUME NEW t \in Presentable, LogoutRead(r, t)
          PROVE  TypeOK'
      BY <2>5 DEF LogoutRead, Usable, Presentable, Issued
    <2> QED
      BY <1>2, <2>1, <2>2, <2>3, <2>4, <2>5 DEF Begin
  <1>3. ASSUME NEW r \in Requests, Finish(r)
        PROVE  TypeOK'
    <2>1. CASE RefreshCommit(r)
      BY <2>1 DEF RefreshCommit
    <2>2. CASE RefreshAbort(r)
      BY <2>2 DEF RefreshAbort
    <2>3. CASE LogoutRevoke(r)
      BY <2>3 DEF LogoutRevoke, ReadIsCurrent, Issued
    <2>4. CASE LogoutFail(r)
      BY <2>4 DEF LogoutFail
    <2> QED
      BY <1>3, <2>1, <2>2, <2>3, <2>4 DEF Finish
  <1>4. ASSUME NEW r \in Requests, Receive(r)
        PROVE  TypeOK'
    BY <1>4 DEF Receive, Idle
  <1>5. ASSUME NEW t \in Tokens, ExpireRefresh(t)
        PROVE  TypeOK'
    BY <1>5 DEF ExpireRefresh
  <1>6. ASSUME NEW t \in Tokens, ExpireAccess(t)
        PROVE  TypeOK'
    BY <1>6 DEF ExpireAccess
  <1> QED
    BY <1>1, <1>2, <1>3, <1>4, <1>5, <1>6 DEF Next

-----------------------------------------------------------------------------

LEMMA InvInit == Init => Inv
  BY TypeInit DEF Init, Inv, TypeOK, FreshIsBlank, ReadIsCurrent, SignupIsWhole,
     RotationIsWhole, RotationKeepsHolder, LogoutIsFinal, Idle, Issued

\* The parts of the invariant that only speak of the tables and of acked.
Stored ==
    /\ FreshIsBlank
    /\ SignupIsWhole
    /\ RotationIsWhole
    /\ RotationKeepsHolder
    /\ LogoutIsFinal

\* A request that only gives up, or whose answer is received.
LEMMA QuietStep ==
  ASSUME Inv, NEW r \in Requests,
         Reply(r, None) \/ req' = [req EXCEPT ![r] = Idle],
         UNCHANGED <<accounts, row, holder, access, parent, expired, acked>>
  PROVE  Stored' /\ ReadIsCurrent'
  <1>1. Stored'
    BY DEF Inv, Stored, FreshIsBlank, SignupIsWhole, RotationIsWhole,
           RotationKeepsHolder, LogoutIsFinal, Usable, Issued
  <1>2. ReadIsCurrent'
    BY DEF Inv, TypeOK, ReadIsCurrent, Issued, Reply, Answered, Idle
  <1> QED
    BY <1>1, <1>2

\* A new session, of an account that may be new as well, keeps every account
\* with a session and every session with an account.
LEMMA NewSession ==
  ASSUME Inv, NEW n \in Tokens, NEW u,
         row[n] = "absent", row'[n] # "absent", holder'[n] = u,
         \A t \in Tokens \ {n} :
            (row'[t] = "absent" <=> row[t] = "absent") /\ holder'[t] = holder[t],
         access' = [access EXCEPT ![n] = "valid"],
         accounts' = accounts \cup {u}
  PROVE  SignupIsWhole'
  <1> USE DEF Inv, SignupIsWhole
  <1>1. Issued' = Issued \cup {n} /\ n \notin Issued
    BY DEF Issued
  <1>2. \A t \in Issued : holder'[t] = holder[t]
    BY <1>1 DEF Issued
  <1>3. ASSUME NEW v \in accounts'
        PROVE  \E t \in Issued' : holder'[t] = v
    <2>1. CASE v = u
      BY <2>1, <1>1
    <2>2. CASE v \in accounts
      <3>1. PICK t \in Issued : holder[t] = v
        BY <2>2
      <3> QED
        BY <3>1, <1>1, <1>2
    <2> QED
      BY <1>3, <2>1, <2>2
  <1>4. \A t \in Issued' : holder'[t] \in accounts'
    BY <1>1, <1>2
  <1>5. \A t \in Tokens : access'[t] # "none" => t \in Issued'
    BY <1>1 DEF TypeOK
  <1> QED
    BY <1>3, <1>4, <1>5

\* A session that is not the child of another one takes an unused token.
LEMMA OpenStep ==
  ASSUME Inv, NEW r \in Requests, NEW u, NEW n \in Tokens,
         OpenSession(n, u), Reply(r, n),
         accounts' = accounts \cup {u}, UNCHANGED <<expired, acked>>
  PROVE  Stored' /\ ReadIsCurrent'
  <1> USE DEF Inv, TypeOK, OpenSession
  <1>1. FreshIsBlank' /\ SignupIsWhole'
    <2>1. FreshIsBlank'
      BY DEF FreshIsBlank
    <2>2. SignupIsWhole'
      BY NewSession
    <2> QED
      BY <2>1, <2>2
  <1>2. RotationIsWhole'
    BY NoneAssumption DEF RotationIsWhole
  <1>3. RotationKeepsHolder'
    BY NoneAssumption DEF RotationKeepsHolder, RotationIsWhole, FreshIsBlank
  <1>4. LogoutIsFinal'
    BY DEF LogoutIsFinal, Usable, FreshIsBlank
  <1>5. ReadIsCurrent'
    BY DEF ReadIsCurrent, Issued, Reply, Answered
  <1> QED
    BY <1>1, <1>2, <1>3, <1>4, <1>5 DEF Stored

LEMMA RefreshReadStep ==
  ASSUME Inv, NEW r \in Requests, NEW t, RefreshRead(r, t)
  PROVE  Stored' /\ ReadIsCurrent'
  <1>1. CASE Usable(t)
    <2>1. Stored'
      BY <1>1 DEF RefreshRead, sessionVars, Inv, Stored, FreshIsBlank,
         SignupIsWhole, RotationIsWhole, RotationKeepsHolder, LogoutIsFinal,
         Usable, Issued
    <2>2. ReadIsCurrent'
      BY <1>1 DEF RefreshRead, sessionVars, Inv, TypeOK, ReadIsCurrent, Issued,
         Usable
    <2> QED
      BY <2>1, <2>2
  <1>2. CASE ~ Usable(t)
    BY <1>2, QuietStep DEF RefreshRead, sessionVars
  <1> QED
    BY <1>1, <1>2

\* The exchange: the token it was given is revoked, whatever it was before,
\* and the new one belongs to the holder that was read.
LEMMA RefreshCommitStep ==
  ASSUME Inv, NEW r \in Requests, RefreshCommit(r)
  PROVE  Stored' /\ ReadIsCurrent'
  <1> DEFINE t == req[r].token
  <1>1. PICK n \in Tokens :
          /\ row[n] = "absent"
          /\ row'    = [row EXCEPT ![t] = "revoked", ![n] = "active"]
          /\ holder' = [holder EXCEPT ![n] = req[r].user]
          /\ access' = [access EXCEPT ![n] = "valid"]
          /\ parent' = [parent EXCEPT ![n] = t]
          /\ Reply(r, n)
    BY DEF RefreshCommit
  <1>2. /\ t \in Tokens /\ row[t] # "absent" /\ t # n
        /\ req[r].user = holder[t] /\ holder[t] \in accounts
    BY <1>1 DEF RefreshCommit, Inv, ReadIsCurrent, Issued, SignupIsWhole
  <1>3. UNCHANGED <<accounts, expired, acked>>
    BY DEF RefreshCommit
  <1> HIDE DEF t
  <1> USE <1>1, <1>2, <1>3 DEF Inv, TypeOK
  <1>4. FreshIsBlank' /\ SignupIsWhole'
    <2>1. FreshIsBlank'
      BY DEF FreshIsBlank
    <2>2. \A s \in Tokens \ {n} :
             (row'[s] = "absent" <=> row[s] = "absent") /\ holder'[s] = holder[s]
      OBVIOUS
    <2>3. accounts' = accounts \cup {req[r].user} /\ row'[n] # "absent"
          /\ holder'[n] = req[r].user
      OBVIOUS
    <2> QED
      BY <2>1, <2>2, <2>3, NewSession
  <1>5. RotationIsWhole'
    <2>1. \A m \in Tokens : parent'[m] # None => row'[parent'[m]] = "revoked"
      BY NoneAssumption DEF RotationIsWhole
    <2>2. ASSUME NEW s \in Tokens, row'[s] = "revoked"
          PROVE  s \in acked' \/ \E m \in Tokens : parent'[m] = s
      <3>1. CASE s = t
        BY <3>1
      <3>2. CASE s # t /\ s \notin acked
        <4>1. row[s] = "revoked"
          BY <2>2, <3>2
        <4>2. PICK m \in Tokens : parent[m] = s
          BY <3>2, <4>1 DEF RotationIsWhole
        <4>3. m # n
          BY <4>2, NoneAssumption DEF FreshIsBlank
        <4> QED
          BY <4>2, <4>3
      <3> QED
        BY <3>1, <3>2
    <2> QED
      BY <2>1, <2>2 DEF RotationIsWhole
  <1>6. RotationKeepsHolder'
    BY NoneAssumption DEF RotationKeepsHolder, RotationIsWhole
  <1>7. LogoutIsFinal'
    BY DEF LogoutIsFinal, Usable, FreshIsBlank
  <1>8. ReadIsCurrent'
    BY DEF ReadIsCurrent, Issued, Reply, Answered
  <1> QED
    BY <1>4, <1>5, <1>6, <1>7, <1>8 DEF Stored

LEMMA LogoutReadStep ==
  ASSUME Inv, NEW r \in Requests, NEW t \in Presentable, LogoutRead(r, t)
  PROVE  Stored' /\ ReadIsCurrent'
  <1>1. UNCHANGED <<accounts, row, holder, access, parent, expired>>
    BY DEF LogoutRead, sessionVars
  <1>2. t # None => t \in Tokens /\ row[t] # "absent"
    BY DEF Presentable, Issued
  <1>3. /\ SignupIsWhole' /\ RotationIsWhole' /\ RotationKeepsHolder'
    <2>1. acked \subseteq acked'
      BY DEF LogoutRead
    <2> QED
      BY <1>1, <2>1 DEF Inv, SignupIsWhole, RotationIsWhole, RotationKeepsHolder, Issued
  <1>4. acked' = acked \/ (~ Usable(t) /\ acked' = acked \cup ({t} \ {None}))
    BY DEF LogoutRead
  <1>5. FreshIsBlank'
    BY <1>1, <1>2, <1>4 DEF Inv, FreshIsBlank
  <1>6. LogoutIsFinal'
    BY <1>1, <1>4 DEF Inv, LogoutIsFinal, Usable
  <1>7. ReadIsCurrent'
    BY <1>1, <1>2 DEF LogoutRead, Inv, TypeOK, ReadIsCurrent, Issued, Usable,
       Reply, Answered
  <1> QED
    BY <1>3, <1>5, <1>6, <1>7 DEF Stored

LEMMA LogoutRevokeStep ==
  ASSUME Inv, NEW r \in Requests, LogoutRevoke(r)
  PROVE  Stored' /\ ReadIsCurrent'
  <1> DEFINE t == req[r].token
  <1>1. t \in Tokens /\ row[t] # "absent"
    BY DEF LogoutRevoke, Inv, ReadIsCurrent, Issued
  <1>2. /\ row' = [row EXCEPT ![t] = "revoked"]
        /\ acked' = acked \cup {t}
        /\ UNCHANGED <<accounts, holder, access, parent, expired>>
    BY DEF LogoutRevoke
  <1> USE <1>1, <1>2 DEF Inv, TypeOK
  <1>3. ReadIsCurrent'
    BY DEF LogoutRevoke, ReadIsCurrent, Issued, Reply, Answered
  <1> HIDE DEF t
  <1>4. FreshIsBlank' /\ SignupIsWhole'
    <2>1. Issued' = Issued
      BY DEF Issued
    <2> QED
      BY <2>1 DEF FreshIsBlank, SignupIsWhole
  <1>5. RotationIsWhole'
    BY NoneAssumption DEF RotationIsWhole
  <1>6. RotationKeepsHolder'
    BY DEF RotationKeepsHolder
  <1>7. LogoutIsFinal'
    BY DEF LogoutIsFinal, Usable
  <1> QED
    BY <1>3, <1>4, <1>5, <1>6, <1>7 DEF Stored

\* Time passes: tokens become less usable, never more.
LEMMA ExpiryStep ==
  ASSUME Inv, NEW t \in Tokens, ExpireRefresh(t) \/ ExpireAccess(t)
  PROVE  Stored' /\ ReadIsCurrent'
  <1>1. UNCHANGED <<accounts, row, holder, parent, req, acked>>
    BY DEF ExpireRefresh, ExpireAccess, sessionVars
  <1>2. FreshIsBlank' /\ RotationIsWhole' /\ RotationKeepsHolder'
    BY <1>1 DEF Inv, FreshIsBlank, RotationIsWhole, RotationKeepsHolder
  <1>3. SignupIsWhole'
    BY <1>1 DEF Inv, TypeOK, SignupIsWhole, ExpireRefresh, ExpireAccess,
       sessionVars, Issued
  <1>4. LogoutIsFinal'
    BY <1>1 DEF Inv, LogoutIsFinal, Usable, ExpireRefresh, ExpireAccess
  <1>5. ReadIsCurrent'
    BY <1>1 DEF Inv, ReadIsCurrent, Issued
  <1> QED
    BY <1>2, <1>3, <1>4, <1>5 DEF Stored

LEMMA InvStep == Inv /\ [Next]_vars => Inv'
  <1> SUFFICES ASSUME Inv, [Next]_vars
               PROVE  Inv'
    OBVIOUS
  <1>1. TypeOK'
    BY TypeStep DEF Inv
  <1>2. Stored' /\ ReadIsCurrent'
    <2>1. CASE UNCHANGED vars
      BY <2>1 DEF vars, Inv, Stored, FreshIsBlank, ReadIsCurrent, SignupIsWhole,
         RotationIsWhole, RotationKeepsHolder, LogoutIsFinal, Issued, Usable
    <2>2. ASSUME NEW r \in Requests, Begin(r)
          PROVE  Stored' /\ ReadIsCurrent'
      <3>1. ASSUME NEW u \in Users, Signup(r, u)
            PROVE  Stored' /\ ReadIsCurrent'
        BY <3>1, OpenStep DEF Signup
      <3>2. ASSUME NEW u \in Users, Login(r, u)
            PROVE  Stored' /\ ReadIsCurrent'
        BY <3>2, OpenStep DEF Login
      <3>3. CASE Refuse(r)
        BY <3>3, QuietStep DEF Refuse, sessionVars
      <3> QED
        BY <2>2, <3>1, <3>2, <3>3, RefreshReadStep, LogoutReadStep DEF Begin
    <2>3. ASSUME NEW r \in Requests, Finish(r)
          PROVE  Stored' /\ ReadIsCurrent'
      <3>1. CASE RefreshAbort(r)
        BY <3>1, QuietStep DEF RefreshAbort, sessionVars
      <3>2. CASE LogoutFail(r)
        BY <3>2, QuietStep DEF LogoutFail, sessionVars
      <3> QED
        BY <2>3, <3>1, <3>2, RefreshCommitStep, LogoutRevokeStep DEF Finish
    <2>4. ASSUME NEW r \in Requests, Receive(r)
          PROVE  Stored' /\ ReadIsCurrent'
      BY <2>4, QuietStep DEF Receive, sessionVars
    <2> QED
      BY <2>1, <2>2, <2>3, <2>4, ExpiryStep DEF Next
  <1> QED
    BY <1>1, <1>2 DEF Inv, Stored

\* The inductive invariant holds of every behaviour of the service.
THEOREM Invariance == Spec => []Inv
  BY InvInit, InvStep, PTL DEF Spec

\* The tables and the requests stay typed under any interleaving.
THEOREM SessionsTyped == Spec => []TypeOK
  BY Invariance, PTL DEF Inv

\* A token that any number of requests exchanged is revoked, and a revoked one
\* was exchanged or logged out (Service.Refresh, one transaction).
THEOREM RotationsAreWhole == Spec => []RotationIsWhole
  BY Invariance, PTL DEF Inv

\* A chain of rotations stays with the account that signed in.
THEOREM RotationsKeepHolder == Spec => []RotationKeepsHolder
  BY Invariance, PTL DEF Inv

\* Accounts have been given sessions and sessions belong to accounts, access
\* tokens to committed sessions (Service.Signup, one transaction).
THEOREM SignupsAreWhole == Spec => []SignupIsWhole
  BY Invariance, PTL DEF Inv

\* A token whose logout was acknowledged never becomes usable again.
THEOREM LogoutsAreFinal == Spec => []LogoutIsFinal
  BY Invariance, PTL DEF Inv

LEMMA RowsAge == Inv /\ [Next]_vars => [RowsOnlyAge]_vars
  <1> SUFFICES ASSUME Inv, [Next]_vars
               PROVE  RowsOnlyAge
    OBVIOUS
  <1> USE DEF Inv, TypeOK, RowsOnlyAge
  <1>1. CASE UNCHANGED row
    BY <1>1
  <1>2. ASSUME NEW n \in Tokens, NEW u, OpenSession(n, u)
        PROVE  RowsOnlyAge
    BY <1>2 DEF OpenSession
  <1>3. ASSUME NEW r \in Requests, RefreshCommit(r)
        PROVE  RowsOnlyAge
    BY <1>3 DEF RefreshCommit, ReadIsCurrent, Issued
  <1>4. ASSUME NEW r \in Requests, LogoutRevoke(r)
        PROVE  RowsOnlyAge
    BY <1>4 DEF LogoutRevoke
  <1>5. \/ UNCHANGED row
        \/ \E n \in Tokens, u \in Users : OpenSession(n, u)
        \/ \E r \in Requests : RefreshCommit(r) \/ LogoutRevoke(r)
    BY DEF Next, Begin, Finish, Signup, Login, Refuse, RefreshRead, RefreshAbort,
       LogoutRead, LogoutFail, Receive, ExpireRefresh, ExpireAccess, vars,
       sessionVars
  <1> QED
    BY <1>1, <1>2, <1>3, <1>4, <1>5

\* No interleaving of requests brings a revoked session back.
THEOREM RevocationIsForever == Spec => RevokedForever
  BY Invariance, RowsAge, PTL DEF Spec, RevokedForever

-----------------------------------------------------------------------------
(***************************************************************************)
(* The service implements the ledger of claims for any number of           *)
(* overlapping requests.  Handled one at a time, requests get the stronger *)
(* promise that the comments of the service make: a token is exchanged at  *)
(* most once, and never after its logout.                                  *)
(***************************************************************************)

LEMMA LedgerInit == Init => Ledger!Init
  BY DEF Init, Ledger!Init, Status, Claims, Idle

\* How a change of the sessions table looks in the ledger.
LEMMA StatusUpdate ==
  ASSUME TypeOK, TypeOK'
  PROVE  /\ UNCHANGED row => UNCHANGED Status
         /\ \A n \in Tokens : row' = [row EXCEPT ![n] = "active"]
               => Status' = [Status EXCEPT ![n] = "open"]
         /\ \A t \in Tokens : row' = [row EXCEPT ![t] = "revoked"]
               => Status' = [Status EXCEPT ![t] = "closed"]
         /\ \A t, n \in Tokens :
               row' = [row EXCEPT ![t] = "revoked", ![n] = "active"]
               => Status' = [Status EXCEPT ![t] = "closed", ![n] = "open"]
  <1> USE DEF TypeOK, Status
  <1>1. UNCHANGED row => UNCHANGED Status
    OBVIOUS
  <1>2. ASSUME NEW n \in Tokens, row' = [row EXCEPT ![n] = "active"]
        PROVE  Status' = [Status EXCEPT ![n] = "open"]
    BY <1>2
  <1>3. ASSUME NEW t \in Tokens, row' = [row EXCEPT ![t] = "revoked"]
        PROVE  Status' = [Status EXCEPT ![t] = "closed"]
    BY <1>3
  <1>4. ASSUME NEW t \in Tokens, NEW n \in Tokens,
               row' = [row EXCEPT ![t] = "revoked", ![n] = "active"]
        PROVE  Status' = [Status EXCEPT ![t] = "closed", ![n] = "open"]
    BY <1>4
  <1> HIDE DEF Status
  <1> QED
    BY <1>1, <1>2, <1>3, <1>4

\* How a step of one request looks among the claims.
LEMMA ClaimsUpdate ==
  ASSUME TypeOK, TypeOK', NEW r \in Requests,
         \A s \in Requests \ {r} : req'[s] = req[s]
  PROVE  /\ req'[r].pc \notin {"rotate", "revoke"}
               => Claims' = [Claims EXCEPT ![r] = None]
         /\ req'[r].pc \in {"rotate", "revoke"}
               => Claims' = [Claims EXCEPT ![r] = req'[r].token]
         /\ req[r].pc \notin {"rotate", "revoke"} => Claims[r] = None
  <1>1. /\ Claims = [s \in Requests |-> IF req[s].pc \in {"rotate", "revoke"}
                                       THEN req[s].token ELSE None]
        /\ Claims' = [s \in Requests |-> IF req'[s].pc \in {"rotate", "revoke"}
                                        THEN req'[s].token ELSE None]
    BY DEF Claims
  <1>2. CASE req'[r].pc \in {"rotate", "revoke"}
    BY <1>1, <1>2
  <1>3. CASE req'[r].pc \notin {"rotate", "revoke"}
    BY <1>1, <1>3
  <1> QED
    BY <1>2, <1>3

\* A request without a claim that gets none, or one that gives its claim up.
LEMMA QuietRequest ==
  ASSUME TypeOK, TypeOK', NEW r \in Requests,
         \A s \in Requests \ {r} : req'[s] = req[s],
         req'[r].pc \notin {"rotate", "revoke"}, UNCHANGED <<row, holder, parent>>
  PROVE  UNCHANGED Ledger!ledger \/ Ledger!Withdraw(r)
  <1>1. UNCHANGED Status
    BY DEF Status
  <1>2. Claims' = [Claims EXCEPT ![r] = None]
    BY ClaimsUpdate
  <1>3. Claims[r] = None => UNCHANGED Claims
    BY <1>2 DEF Claims
  <1> QED
    BY <1>1, <1>2, <1>3 DEF Ledger!ledger, Ledger!Withdraw, Ledger!Spend

LEMMA LedgerOpen ==
  ASSUME TypeOK, TypeOK', NEW r \in Requests, NEW n \in Tokens, NEW u \in Users,
         OpenSession(n, u), Reply(r, n), req[r].pc = "idle"
  PROVE  Ledger!Open(n, u)
  <1>1. req'[r].pc = "answered" /\ \A s \in Requests \ {r} : req'[s] = req[s]
    BY DEF Reply, Answered, TypeOK
  <1>2. Claims' = [Claims EXCEPT ![r] = None] /\ Claims[r] = None
    BY <1>1, ClaimsUpdate
  <1>3. UNCHANGED Claims
    BY <1>2 DEF Claims
  <1>4. /\ Status[n] = "unused"
        /\ Status' = [Status EXCEPT ![n] = "open"]
    BY StatusUpdate DEF OpenSession, Status
  <1>5. holder' = [holder EXCEPT ![n] = u] /\ UNCHANGED parent
    BY DEF OpenSession
  <1>6. QED
    BY <1>3, <1>4, <1>5 DEF Ledger!Open

LEMMA LedgerClaim ==
  ASSUME TypeOK, TypeOK', NEW r \in Requests, NEW t \in Presentable, Usable(t),
         RefreshRead(r, t) \/ LogoutRead(r, t)
  PROVE  Ledger!Claim(r, t) /\ t \in Tokens
  <1>1. /\ req'[r].pc \in {"rotate", "revoke"} /\ req'[r].token = t
        /\ req[r].pc = "idle"
        /\ \A s \in Requests \ {r} : req'[s] = req[s]
    BY DEF RefreshRead, LogoutRead, TypeOK
  <1>2. Claims' = [Claims EXCEPT ![r] = t] /\ Claims[r] = None
    BY <1>1, ClaimsUpdate
  <1>3. t \in Tokens /\ Status[t] = "open"
    BY DEF Usable, Status
  <1>4. UNCHANGED <<row, holder, parent>>
    BY DEF RefreshRead, LogoutRead, sessionVars
  <1>5. UNCHANGED <<Status, holder, parent>>
    BY <1>4 DEF Status
  <1> QED
    BY <1>2, <1>3, <1>5 DEF Ledger!Claim

LEMMA LedgerExchange ==
  ASSUME Inv, TypeOK', NEW r \in Requests, RefreshCommit(r)
  PROVE  \E n \in Tokens : Ledger!Exchange(r, n)
  <1> DEFINE t == req[r].token
  <1>1. /\ t \in Tokens
        /\ req[r].user = holder[t]
        /\ Claims[r] = t
    BY DEF RefreshCommit, Inv, ReadIsCurrent, Issued, Claims
  <1>2. PICK n \in Tokens :
          /\ row[n] = "absent"
          /\ row'    = [row EXCEPT ![t] = "revoked", ![n] = "active"]
          /\ holder' = [holder EXCEPT ![n] = req[r].user]
          /\ parent' = [parent EXCEPT ![n] = t]
          /\ req'    = [req EXCEPT ![r] = Answered(n)]
    BY DEF RefreshCommit, Reply
  <1>3. Claims' = [Claims EXCEPT ![r] = None]
    <2>1. req'[r].pc = "answered" /\ \A s \in Requests \ {r} : req'[s] = req[s]
      BY <1>2 DEF Answered, Inv, TypeOK
    <2> QED
      BY <2>1, ClaimsUpdate DEF Inv
  <1>4. /\ Status[n] = "unused"
        /\ Status' = [Status EXCEPT ![t] = "closed", ![n] = "open"]
    BY <1>1, <1>2, StatusUpdate DEF Inv, Status
  <1> HIDE DEF t
  <1>5. Ledger!Exchange(r, n)
    BY <1>1, <1>2, <1>3, <1>4, NoneAssumption
    DEF Ledger!Exchange, Ledger!Spend
  <1> QED
    BY <1>5

LEMMA LedgerClose ==
  ASSUME Inv, TypeOK', NEW r \in Requests, LogoutRevoke(r)
  PROVE  Ledger!Close(r)
  <1>1. req[r].token \in Tokens /\ Claims[r] = req[r].token
    BY DEF LogoutRevoke, Inv, ReadIsCurrent, Issued, Claims
  <1>2. Claims' = [Claims EXCEPT ![r] = None]
    <2>1. req'[r].pc = "answered" /\ \A s \in Requests \ {r} : req'[s] = req[s]
      BY DEF LogoutRevoke, Reply, Answered, Inv, TypeOK
    <2> QED
      BY <2>1, ClaimsUpdate DEF Inv
  <1>3. Status' = [Status EXCEPT ![req[r].token] = "closed"]
    BY <1>1, StatusUpdate DEF LogoutRevoke, Inv
  <1> QED
    BY <1>1, <1>2, <1>3, NoneAssumption
    DEF LogoutRevoke, Ledger!Close, Ledger!Spend

LEMMA LedgerStep ==
  ASSUME Inv, Inv', [Next]_vars
  PROVE  [Ledger!Next]_(Ledger!ledger)
  <1> USE DEF Inv
  <1>1. CASE UNCHANGED <<row, holder, parent, req>>
    BY <1>1 DEF Ledger!ledger, Status, Claims
  <1>2. ASSUME NEW r \in Requests, NEW u \in Users, Signup(r, u) \/ Login(r, u)
        PROVE  \E n \in Tokens : Ledger!Open(n, u)
    <2>1. req[r].pc = "idle"
      BY <1>2 DEF Signup, Login
    <2>2. PICK n \in Tokens : OpenSession(n, u) /\ Reply(r, n)
      BY <1>2 DEF Signup, Login
    <2> QED
      BY <2>1, <2>2, LedgerOpen
  <1>3. ASSUME NEW r \in Requests, NEW t \in Presentable,
               RefreshRead(r, t) \/ LogoutRead(r, t)
        PROVE  [Ledger!Next]_(Ledger!ledger)
    <2>1. CASE Usable(t)
      BY <1>3, <2>1, LedgerClaim DEF Ledger!Next
    <2>2. CASE ~ Usable(t)
      <3>1. /\ req'[r].pc = "answered"
            /\ \A s \in Requests \ {r} : req'[s] = req[s]
            /\ UNCHANGED <<row, holder, parent>>
        BY <1>3, <2>2 DEF RefreshRead, LogoutRead, Reply, Answered, sessionVars,
           TypeOK
      <3> QED
        BY <3>1, QuietRequest DEF Ledger!Next
    <2> QED
      BY <2>1, <2>2
  <1>4. ASSUME NEW r \in Requests,
               Refuse(r) \/ RefreshAbort(r) \/ LogoutFail(r) \/ Receive(r)
        PROVE  [Ledger!Next]_(Ledger!ledger)
    <2>1. /\ req'[r].pc \in {"answered", "idle"}
          /\ \A s \in Requests \ {r} : req'[s] = req[s]
          /\ UNCHANGED <<row, holder, parent>>
      BY <1>4 DEF Refuse, RefreshAbort, LogoutFail, Receive, Reply, Answered,
         Idle, sessionVars, TypeOK
    <2> QED
      BY <2>1, QuietRequest DEF Ledger!Next
  <1>5. \/ UNCHANGED <<row, holder, parent, req>>
        \/ \E r \in Requests, u \in Users : Signup(r, u) \/ Login(r, u)
        \/ \E r \in Requests, t \in Presentable :
              RefreshRead(r, t) \/ LogoutRead(r, t)
        \/ \E r \in Requests :
              \/ Refuse(r) \/ RefreshAbort(r) \/ LogoutFail(r) \/ Receive(r)
              \/ RefreshCommit(r) \/ LogoutRevoke(r)
    BY DEF Next, Begin, Finish, ExpireRefresh, ExpireAccess, vars, sessionVars
  <1> QED
    BY <1>1, <1>2, <1>3, <1>4, <1>5, LedgerExchange, LedgerClose DEF Ledger!Next

\* However many requests overlap, the auth service implements the ledger of
\* rotating tokens: it acts on a token only for a request that read it active,
\* and opens at most one session for each such read.
THEOREM ServiceImplementsLedger == Spec => ImplementsLedger
  <1>1. Inv /\ [Next]_vars => Inv'
    BY InvStep
  <1>2. Inv /\ Inv' /\ [Next]_vars => [Ledger!Next]_(Ledger!ledger)
    BY LedgerStep
  <1> QED
    BY InvInit, LedgerInit, <1>1, <1>2, PTL
    DEF Spec, ImplementsLedger, Ledger!Spec

-----------------------------------------------------------------------------

OneAtATime == \A r, s \in Requests : r = s

\* While the only request is between its read and its write, nobody else has
\* revoked the token, nor acknowledged its logout.
SerialInv ==
    /\ Inv
    /\ UsableOnce
    /\ StillOpen
    /\ \A r \in Requests : req[r].pc \in {"rotate", "revoke"}
                              => req[r].token \notin acked

LEMMA SerialInit == Init => SerialInv
  BY InvInit DEF SerialInv, Init, StillOpen, UsableOnce, Idle

LEMMA OnceStep ==
  SerialInv /\ [Next]_vars => UsableOnce'
  <1> SUFFICES ASSUME SerialInv, [Next]_vars
               PROVE  UsableOnce'
    OBVIOUS
  <1> USE DEF SerialInv, Inv, TypeOK, UsableOnce
  <1>1. CASE UNCHANGED parent
    BY <1>1
  <1>2. ASSUME NEW r \in Requests, RefreshCommit(r)
        PROVE  UsableOnce'
    <2> DEFINE t == req[r].token
    <2>1. t \in Tokens /\ row[t] = "active"
      BY <1>2 DEF RefreshCommit, StillOpen, ReadIsCurrent, Issued
    <2>2. \A m \in Tokens : parent[m] # t
      BY <2>1, NoneAssumption DEF RotationIsWhole
    <2>3. PICK n \in Tokens : parent' = [parent EXCEPT ![n] = t]
      BY <1>2 DEF RefreshCommit
    <2> HIDE DEF t
    <2> QED
      BY <2>2, <2>3
  <1>3. UNCHANGED parent \/ \E r \in Requests : RefreshCommit(r)
    BY DEF Next, Begin, Finish, Signup, Login, OpenSession, Refuse, RefreshRead,
       RefreshAbort, LogoutRead, LogoutRevoke, LogoutFail, Receive,
       ExpireRefresh, ExpireAccess, vars, sessionVars
  <1> QED
    BY <1>1, <1>2, <1>3

LEMMA SerialStep ==
  ASSUME OneAtATime
  PROVE  SerialInv /\ [Next]_vars => SerialInv'
  <1> SUFFICES ASSUME SerialInv, [Next]_vars
               PROVE  SerialInv'
    OBVIOUS
  <1>1. Inv' /\ UsableOnce'
    BY InvStep, OnceStep DEF SerialInv
  <1> DEFINE Fresh == \A r \in Requests : req[r].pc \in {"rotate", "revoke"}
                          => req[r].token \notin acked
  <1> SUFFICES StillOpen' /\ Fresh'
    BY <1>1 DEF SerialInv
  <1> USE DEF SerialInv, StillOpen, Inv, TypeOK, OneAtATime
  <1>2. CASE UNCHANGED <<row, req, acked>>
    BY <1>2
  <1>3. ASSUME NEW r \in Requests, req'[r].pc \notin {"rotate", "revoke"}
        PROVE  StillOpen' /\ Fresh'
    BY <1>3
  <1>4. ASSUME NEW r \in Requests, NEW t \in Presentable,
               RefreshRead(r, t) \/ LogoutRead(r, t),
               Usable(t)
        PROVE  StillOpen' /\ Fresh'
    BY <1>4 DEF RefreshRead, LogoutRead, sessionVars, Usable, LogoutIsFinal
  <1>5. \/ UNCHANGED <<row, req, acked>>
        \/ \E r \in Requests : req'[r].pc \notin {"rotate", "revoke"}
        \/ \E r \in Requests, t \in Presentable :
              (RefreshRead(r, t) \/ LogoutRead(r, t)) /\ Usable(t)
    <2>1. CASE UNCHANGED vars
      BY <2>1 DEF vars
    <2>2. ASSUME NEW r \in Requests, Begin(r) \/ Finish(r) \/ Receive(r)
          PROVE  \/ req'[r].pc \notin {"rotate", "revoke"}
                 \/ \E t \in Presentable :
                       (RefreshRead(r, t) \/ LogoutRead(r, t)) /\ Usable(t)
      BY <2>2 DEF Begin, Finish, Receive, Signup, Login, Refuse, RefreshRead,
         LogoutRead, RefreshCommit, RefreshAbort, LogoutRevoke, LogoutFail,
         Reply, Answered, Idle
    <2>3. ASSUME NEW t \in Tokens, ExpireRefresh(t) \/ ExpireAccess(t)
          PROVE  UNCHANGED <<row, req, acked>>
      BY <2>3 DEF ExpireRefresh, ExpireAccess, sessionVars
    <2> QED
      BY <2>1, <2>2, <2>3 DEF Next
  <1> QED
    BY <1>2, <1>3, <1>4, <1>5

\* One request after the other, a token is exchanged at most once: what the
\* comment of Service.Refresh says, and what overlapping requests refute.
THEOREM SerialTokensAreUsedOnce ==
  ASSUME OneAtATime
  PROVE  Spec => []UsableOnce
  <1>1. SerialInv /\ [Next]_vars => SerialInv'
    BY SerialStep
  <1>2. SerialInv => UsableOnce
    BY DEF SerialInv
  <1> QED
    BY SerialInit, <1>1, <1>2, PTL DEF Spec

LEMMA UnackedStep == SerialInv /\ [Next]_vars => [RotatesUnacked]_vars
  <1> SUFFICES ASSUME SerialInv, [Next]_vars
               PROVE  RotatesUnacked
    OBVIOUS
  <1> USE DEF SerialInv, Inv, TypeOK, RotatesUnacked
  <1>1. CASE UNCHANGED parent
    BY <1>1
  <1>2. ASSUME NEW r \in Requests, RefreshCommit(r)
        PROVE  RotatesUnacked
    BY <1>2 DEF RefreshCommit, ReadIsCurrent, Issued
  <1>3. UNCHANGED parent \/ \E r \in Requests : RefreshCommit(r)
    BY DEF Next, Begin, Finish, Signup, Login, OpenSession, Refuse, RefreshRead,
       RefreshAbort, LogoutRead, LogoutRevoke, LogoutFail, Receive,
       ExpireRefresh, ExpireAccess, vars, sessionVars
  <1> QED
    BY <1>1, <1>2, <1>3

\* One request after the other, an acknowledged logout ends the chain of
\* rotations of its token.
THEOREM SerialLogoutEndsRotation ==
  ASSUME OneAtATime
  PROVE  Spec => NoRotationAfterLogout
  <1>1. SerialInv /\ [Next]_vars => SerialInv'
    BY SerialStep
  <1> QED
    BY SerialInit, <1>1, UnackedStep, PTL DEF Spec, NoRotationAfterLogout

=============================================================================
