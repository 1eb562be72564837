-------------------------- MODULE WebSessionProofs --------------------------
(***************************************************************************)
(* The web application is a client of the auth service: whatever the       *)
(* cookies, the losses and the order of the answers, it only makes the     *)
(* service take steps of Sessions, so what is proved of Sessions holds     *)
(* behind the web application too.  Then what becomes of the rotated pairs *)
(* and of the browser's cookie, and how a request comes to its end.        *)
(***************************************************************************)
EXTENDS WebSession, SessionsProofs, Naturals

\* Every token on its way, in either direction, was issued before: the BFF
\* and the browser never make one up.
CookiesWereIssued ==
    /\ jar.access \in Presentable
    /\ jar.refresh \in Presentable
    /\ \A w \in Requests :
          /\ web[w].access \in Presentable
          /\ web[w].refresh \in Presentable
          /\ web[w].set \in Presentable \cup {Keep}
          /\ req[w].answer \in Presentable

WebInv == Inv /\ WebTypeOK /\ CookiesWereIssued

-----------------------------------------------------------------------------

LEMMA WebInitInv == WebInit => WebInv
  BY InvInit DEF WebInit, WebInv, Inv, WebTypeOK, CookiesWereIssued, WebIdle,
     Cookie, WebRequest, Presentable, Init, Idle

\* Each step of the web application is a step of the service, or none.
LEMMA ServiceStep ==
  ASSUME CookiesWereIssued, [WebNext]_allVars
  PROVE  [Next]_vars
  <1>1. CASE UNCHANGED allVars
    BY <1>1 DEF allVars
  <1>2. ASSUME NEW w \in Requests, NEW kind \in Kinds, Start(w, kind)
        PROVE  UNCHANGED vars
    BY <1>2 DEF Start
  <1>3. ASSUME NEW w \in Requests, Progress(w)
        PROVE  Next \/ UNCHANGED vars
    <2>1. CASE Send(w) \/ Retry(w) \/ Deliver(w) \/ LoseReply(w)
      BY <2>1 DEF Send, Retry, Deliver, LoseReply
    <2>2. CASE CallRefresh(w)
      BY <2>2 DEF CallRefresh, CookiesWereIssued, Next, Begin
    <2>3. CASE CallLogin(w)
      BY <2>3 DEF CallLogin, Next, Begin
    <2>4. CASE CallLogout(w)
      BY <2>4 DEF CallLogout, CookiesWereIssued, Next, Begin
    <2>5. CASE Serve(w)
      BY <2>5 DEF Serve, Next
    <2>6. CASE TakeAnswer(w) \/ LoseAnswer(w)
      BY <2>6 DEF TakeAnswer, LoseAnswer, Next
    <2> QED
      BY <1>3, <2>1, <2>2, <2>3, <2>4, <2>5, <2>6 DEF Progress
  <1>4. CASE DropAccessCookie \/ DropRefreshCookie
    BY <1>4 DEF DropAccessCookie, DropRefreshCookie
  <1>5. CASE Expire
    BY <1>5 DEF Expire, Next
  <1> QED
    BY <1>1, <1>2, <1>3, <1>4, <1>5 DEF WebNext

\* Issued tokens stay issued.
LEMMA PresentableGrows ==
  ASSUME Inv, [Next]_vars
  PROVE  Presentable \subseteq Presentable'
  <1>1. CASE UNCHANGED vars
    BY <1>1 DEF vars, Presentable, Issued
  <1>2. CASE Next
    <2>1. RowsOnlyAge \/ UNCHANGED row
      BY RowsAge DEF vars
    <2> QED
      BY <2>1 DEF RowsOnlyAge, Presentable, Issued
  <1> QED
    BY <1>1, <1>2

\* The service answers with the token of a session it has just committed.
LEMMA AnswersAreIssued ==
  ASSUME Inv, [Next]_vars, \A r \in Requests : req[r].answer \in Presentable
  PROVE  \A r \in Requests : req'[r].answer \in Presentable'
  <1> USE PresentableGrows DEF Inv, TypeOK
  <1>1. ASSUME NEW n \in Presentable', NEW r \in Requests, Reply(r, n)
        PROVE  \A s \in Requests : req'[s].answer \in Presentable'
    BY <1>1 DEF Reply, Answered
  <1>2. None \in Presentable /\ None \in Presentable'
    BY DEF Presentable
  <1>3. CASE UNCHANGED req
    BY <1>3
  <1>4. ASSUME NEW r \in Requests, Begin(r)
        PROVE  \A s \in Requests : req'[s].answer \in Presentable'
    <2>1. ASSUME NEW u \in Users, Signup(r, u) \/ Login(r, u)
          PROVE  \E n \in Presentable' : Reply(r, n)
      BY <2>1 DEF Signup, Login, OpenSession, Presentable, Issued
    <2>2. CASE Refuse(r)
      BY <1>1, <1>2, <2>2 DEF Refuse
    <2>3. ASSUME NEW t \in Presentable, RefreshRead(r, t) \/ LogoutRead(r, t)
          PROVE  \A s \in Requests : req'[s].answer \in Presentable'
      BY <1>1, <1>2, <2>3 DEF RefreshRead, LogoutRead
    <2> QED
      BY <1>1, <1>4, <2>1, <2>2, <2>3 DEF Begin
  <1>5. ASSUME NEW r \in Requests, Finish(r)
        PROVE  \A s \in Requests : req'[s].answer \in Presentable'
    <2>1. ASSUME RefreshCommit(r)
          PROVE  \E n \in Presentable' : Reply(r, n)
      <3>1. PICK n \in Tokens :
              /\ row' = [row EXCEPT ![req[r].token] = "revoked", ![n] = "active"]
              /\ Reply(r, n)
        BY <2>1 DEF RefreshCommit
      <3>2. n \in Presentable'
        BY <3>1 DEF Presentable, Issued
      <3> QED
        BY <3>1, <3>2
    <2>2. CASE RefreshAbort(r) \/ LogoutRevoke(r) \/ LogoutFail(r)
      BY <1>1, <1>2, <2>2 DEF RefreshAbort, LogoutRevoke, LogoutFail
    <2> QED
      BY <1>1, <1>5, <2>1, <2>2 DEF Finish
  <1>6. ASSUME NEW r \in Requests, Receive(r)
        PROVE  \A s \in Requests : req'[s].answer \in Presentable'
    BY <1>2, <1>6 DEF Receive, Idle
  <1>7. ASSUME NEW t \in Tokens, ExpireRefresh(t) \/ ExpireAccess(t)
        PROVE  UNCHANGED req
    BY <1>7 DEF ExpireRefresh, ExpireAccess
  <1> QED
    BY <1>3, <1>4, <1>5, <1>6, <1>7 DEF Next, vars

-----------------------------------------------------------------------------

\* A request of the BFF that only carries tokens of P.
CarriesOnly(P) ==
    [pc      : {"idle", "send", "call", "wait", "retry", "reply"},
     kind    : {"proxy", "page", "login", "logout"},
     access  : P,
     refresh : P,
     set     : P \cup {Keep}]

LEMMA CarriedTokens ==
  ASSUME WebTypeOK, CookiesWereIssued
  PROVE  /\ jar \in [access : Presentable, refresh : Presentable]
         /\ web \in [Requests -> CarriesOnly(Presentable)]
  BY DEF WebTypeOK, CookiesWereIssued, CarriesOnly, WebRequest

\* No step of the browser or of the BFF adds a token from elsewhere: P stands
\* for the presentable tokens after the step.
LEMMA CarryStep ==
  ASSUME NEW P, None \in P,
         jar \in [access : P, refresh : P],
         web \in [Requests -> CarriesOnly(P)],
         \A r \in Requests : req[r].answer \in P,
         [WebNext]_allVars
  PROVE  /\ jar' \in [access : P, refresh : P]
         /\ web' \in [Requests -> CarriesOnly(P)]
  <1> DEFINE Goal == /\ jar' \in [access : P, refresh : P]
                     /\ web' \in [Requests -> CarriesOnly(P)]
  <1> USE DEF CarriesOnly
  <1>1. CASE UNCHANGED allVars
    BY <1>1 DEF allVars, webVars
  <1>2. ASSUME NEW w \in Requests, NEW kind \in Kinds, Start(w, kind)
        PROVE  Goal
    BY <1>2, KindsAssumption DEF Start, Keep
  <1>3. ASSUME NEW w \in Requests, NEW pair \in P, Answer(w, pair), UNCHANGED jar
        PROVE  Goal
    <2>1. web[w].kind \in {"proxy", "page", "login", "logout"}
      OBVIOUS
    <2>2. CASE web[w].kind \in {"proxy", "page"}
      <3>1. CASE pair = None
        <4>1. Respond(w, Keep)
          BY <1>3, <2>2, <3>1 DEF Answer, Rotated
        <4> QED
          BY <1>3, <4>1 DEF Respond
      <3>2. CASE pair # None
        <4>1. PICK x \in P \cup {Keep} :
                web' = [web EXCEPT ![w].pc = "retry", ![w].set = x]
          BY <1>3, <2>2, <3>2 DEF Answer, Rotated
        <4> DEFINE y == [web[w] EXCEPT !.pc = "retry", !.set = x]
        <4>2. web[w] \in CarriesOnly(P) /\ y \in CarriesOnly(P)
          OBVIOUS
        <4>3. web' = [web EXCEPT ![w] = y]
          BY <4>1, <4>2
        <4> QED
          BY <1>3, <4>2, <4>3
      <3> QED
        BY <3>1, <3>2
    <2>3. CASE web[w].kind = "login"
      BY <1>3, <2>3 DEF Answer, Respond, Keep
    <2>4. CASE web[w].kind = "logout"
      BY <1>3, <2>4 DEF Answer, Respond, Keep
    <2> QED
      BY <2>1, <2>2, <2>3, <2>4
  <1>4. ASSUME NEW w \in Requests, Progress(w)
        PROVE  Goal
    <2>1. CASE Send(w)
      BY <2>1 DEF Send, Move, Respond, Keep
    <2>2. CASE CallRefresh(w) \/ CallLogin(w)
      BY <2>2 DEF CallRefresh, CallLogin, Await
    <2>3. CASE CallLogout(w)
      BY <2>3 DEF CallLogout, Await, Respond, Keep
    <2>4. CASE Serve(w)
      BY <2>4 DEF Serve, webVars
    <2>5. CASE TakeAnswer(w)
      BY <1>3, <2>5 DEF TakeAnswer
    <2>6. CASE LoseAnswer(w)
      BY <1>3, <2>6 DEF LoseAnswer
    <2>7. CASE Retry(w)
      <3> DEFINE y == [web[w] EXCEPT !.pc = "reply", !.access = None]
      <3>1. web[w] \in CarriesOnly(P) /\ y \in CarriesOnly(P)
        OBVIOUS
      <3>2. web' = [web EXCEPT ![w] = y] /\ UNCHANGED jar
        BY <2>7 DEF Retry, Move
      <3> HIDE DEF CarriesOnly, y
      <3> QED
        BY <3>1, <3>2
    <2>8. CASE Deliver(w)
      BY <2>8 DEF Deliver, WebIdle
    <2>9. CASE LoseReply(w)
      BY <2>9 DEF LoseReply, WebIdle
    <2> QED
      BY <1>4, <2>1, <2>2, <2>3, <2>4, <2>5, <2>6, <2>7, <2>8, <2>9 DEF Progress
  <1>5. CASE DropAccessCookie
    BY <1>5 DEF DropAccessCookie
  <1>6. CASE DropRefreshCookie
    BY <1>6 DEF DropRefreshCookie
  <1>7. CASE Expire
    BY <1>7 DEF Expire, webVars
  <1> QED
    BY <1>1, <1>2, <1>4, <1>5, <1>6, <1>7 DEF WebNext

LEMMA WebStep == WebInv /\ [WebNext]_allVars => WebInv'
  <1> SUFFICES ASSUME WebInv, [WebNext]_allVars
               PROVE  WebInv'
    OBVIOUS
  <1>1. [Next]_vars
    BY ServiceStep DEF WebInv
  <1>2. Inv'
    BY <1>1, InvStep DEF WebInv
  <1>3. /\ Presentable \subseteq Presentable'
        /\ None \in Presentable'
        /\ \A r \in Requests : req'[r].answer \in Presentable'
    BY <1>1, PresentableGrows, AnswersAreIssued
    DEF WebInv, CookiesWereIssued, Presentable
  <1>4. /\ jar \in [access : Presentable', refresh : Presentable']
        /\ web \in [Requests -> CarriesOnly(Presentable')]
        /\ \A r \in Requests : req[r].answer \in Presentable'
    BY <1>3, CarriedTokens DEF WebInv, Inv, CookiesWereIssued, CarriesOnly
  <1>5. /\ jar' \in [access : Presentable', refresh : Presentable']
        /\ web' \in [Requests -> CarriesOnly(Presentable')]
    BY <1>3, <1>4, CarryStep
  <1>6. TypeOK'
    BY <1>2 DEF Inv
  <1>7. WebTypeOK' /\ CookiesWereIssued'
    <2>1. Presentable' \subseteq Cookie
      BY DEF Presentable, Issued, Cookie
    <2> QED
      BY <1>3, <1>5, <1>6, <2>1 DEF WebTypeOK, CookiesWereIssued, CarriesOnly,
         WebRequest
  <1> QED
    BY <1>2, <1>7 DEF WebInv

\* The browser, the BFF and the requests stay typed, and never present a
\* token that was not issued.
THEOREM WebTyped == WebSpec => []WebTypeOK
  <1>1. WebInv => WebTypeOK
    BY DEF WebInv
  <1> QED
    BY WebInitInv, WebStep, <1>1, PTL DEF WebSpec

\* The web application implements the service: with it in front, the service
\* still behaves as Sessions says.
THEOREM WebUsesTheService == WebSpec => Spec
  <1>1. WebInv /\ [WebNext]_allVars => [Next]_vars
    BY ServiceStep DEF WebInv
  <1>2. WebInit => Init
    BY DEF WebInit
  <1> QED
    BY WebInitInv, WebStep, <1>1, <1>2, PTL DEF WebSpec, Spec

\* Behind the web application too, an acknowledged logout is final.
THEOREM WebLogoutsAreFinal == WebSpec => []LogoutIsFinal
  BY WebUsesTheService, LogoutsAreFinal, PTL

-----------------------------------------------------------------------------
(***************************************************************************)
(* The pairs on their way to the browser.                                  *)
(***************************************************************************)

\* Where a request stands in the BFF says what its call to the API is about.
InStep(w) ==
    /\ req[w].pc # "idle" <=> web[w].pc = "wait"
    /\ req[w].pc = "rotate" => web[w].kind \in {"proxy", "page"}
    /\ req[w].pc = "revoke" => web[w].kind = "logout"
    /\ req[w].token # None => req[w].pc \in {"rotate", "revoke"}
    /\ req[w].answer # None => req[w].pc = "answered" /\ web[w].kind # "logout"
    /\ web[w].set # Keep => web[w].pc \in {"retry", "reply"}
    /\ web[w].refresh # None => web[w].pc \in {"send", "call"}

CallsInStep == WebInv /\ \A w \in Requests : InStep(w)

LEMMA CallsStartInStep == WebInit => CallsInStep
  BY WebInitInv DEF WebInit, Init, CallsInStep, InStep, WebIdle, Idle

\* What a step does to the request it is about; the others stand still.
LEMMA OneRequest ==
  ASSUME CallsInStep, [WebNext]_allVars, NEW v \in Requests
  PROVE  \/ web'[v] = web[v] /\ req'[v] = req[v]
         \/ Progress(v)
         \/ \E kind \in Kinds : Start(v, kind)
  <1> USE DEF CallsInStep, WebInv, WebTypeOK, TypeOK
  <1> DEFINE Still == web'[v] = web[v] /\ req'[v] = req[v]
  <1>1. ASSUME NEW w \in Requests, w # v, Progress(w) PROVE Still
    <2>1. web'[v] = web[v]
      <3>1. ASSUME NEW pair, Answer(w, pair) PROVE web'[v] = web[v]
        BY <1>1, <3>1 DEF Answer, Rotated, Respond, WebRequest
      <3> QED
        BY <1>1, <3>1 DEF Progress, Send, CallRefresh, CallLogin, CallLogout, Serve,
           TakeAnswer, LoseAnswer, Retry, Deliver, LoseReply, Respond, Move, Await,
           webVars
    <2>2. req'[v] = req[v]
      BY <1>1 DEF Progress, Send, CallRefresh, CallLogin, CallLogout, Serve,
         TakeAnswer, LoseAnswer, Retry, Deliver, LoseReply, Signup, Login, Refuse,
         RefreshRead, LogoutRead, Finish, RefreshCommit, RefreshAbort,
         LogoutRevoke, LogoutFail, Receive, Reply, vars
    <2> QED
      BY <2>1, <2>2
  <1>2. ASSUME NEW w \in Requests, w # v, NEW kind \in Kinds, Start(w, kind) PROVE Still
    BY <1>2 DEF Start, vars
  <1>3. CASE DropAccessCookie \/ DropRefreshCookie \/ Expire \/ UNCHANGED allVars
    BY <1>3 DEF DropAccessCookie, DropRefreshCookie, Expire, ExpireRefresh,
       ExpireAccess, allVars, webVars, vars
  <1> QED
    BY <1>1, <1>2, <1>3 DEF WebNext

LEMMA InStepStep == CallsInStep /\ [WebNext]_allVars => CallsInStep'
  <1> SUFFICES ASSUME CallsInStep, [WebNext]_allVars, NEW w \in Requests
               PROVE  InStep(w)'
    BY WebStep DEF CallsInStep
  <1> USE DEF CallsInStep, WebInv, WebTypeOK, TypeOK, WebRequest, Request
  <1>0. InStep(w)
    OBVIOUS
  <1>1. CASE web'[w] = web[w] /\ req'[w] = req[w]
    BY <1>0, <1>1 DEF InStep
  <1>2. ASSUME NEW kind \in Kinds, Start(w, kind) PROVE InStep(w)'
    BY <1>0, <1>2 DEF InStep, Start, vars
  <1>3. CASE Send(w)
    BY <1>0, <1>3 DEF InStep, Send, Respond, Move, vars
  <1>4. CASE CallRefresh(w)
    BY <1>0, <1>4 DEF InStep, CallRefresh, RefreshRead, Await, Reply, Answered
  <1>5. CASE CallLogin(w)
    BY <1>0, <1>5 DEF InStep, CallLogin, Signup, Login, Refuse, Await, Reply, Answered
  <1>6. CASE CallLogout(w)
    BY <1>0, <1>6 DEF InStep, CallLogout, LogoutRead, Await, Reply, Answered,
       Respond, vars
  <1>7. CASE Serve(w)
    BY <1>0, <1>7 DEF InStep, Serve, Finish, RefreshCommit, RefreshAbort,
       LogoutRevoke, LogoutFail, Reply, Answered, webVars
  <1>8. ASSUME NEW pair, Answer(w, pair), Receive(w) PROVE InStep(w)'
    <2>1. req'[w] = Idle /\ web[w].refresh = None
      BY <1>0, <1>8 DEF InStep, Receive
    <2>2. ASSUME NEW set, Respond(w, set) PROVE InStep(w)'
      BY <2>1, <2>2 DEF InStep, Respond, Idle
    <2>3. CASE web[w].kind \in {"proxy", "page"} /\ pair # None
      <3>1. PICK x : web' = [web EXCEPT ![w].pc = "retry", ![w].set = x]
        BY <1>8, <2>3 DEF Answer, Rotated
      <3> QED
        BY <2>1, <3>1 DEF InStep, Idle
    <2>4. CASE web[w].kind \in {"proxy", "page"} /\ pair = None
      BY <1>8, <2>2, <2>4 DEF Answer, Rotated
    <2>5. CASE web[w].kind = "login"
      BY <1>8, <2>2, <2>5 DEF Answer
    <2>6. CASE web[w].kind = "logout"
      BY <1>8, <2>2, <2>6 DEF Answer
    <2> QED
      BY <2>3, <2>4, <2>5, <2>6
  <1>9. CASE Retry(w) \/ Deliver(w) \/ LoseReply(w)
    BY <1>0, <1>9 DEF InStep, Retry, Deliver, LoseReply, Move, WebIdle, vars
  <1> QED
    BY <1>1, <1>2, <1>3, <1>4, <1>5, <1>6, <1>7, <1>8, <1>9, OneRequest
    DEF Progress, TakeAnswer, LoseAnswer

\* Request w holds the pair of token n for the browser: the API has answered
\* with it, or the answer of the BFF will set it.
Brings(w, n) == web[w].set = n \/ req[w].answer = n

\* Token n is in the browser, or was presented to the API.
Presented(n) ==
    \/ jar.refresh = n
    \/ \E v \in Requests : web[v].refresh = n \/ req[v].token = n

\* A pair on its way is good, and nobody else has it: no cookie, no other
\* request.  PairInFlightIsOpen needs the second half, because whoever had
\* presented the token could revoke it.
PairsArePrivate ==
    \A w \in Requests, n \in Tokens : Brings(w, n) =>
        /\ row[n] = "active"
        /\ ~ Presented(n)
        /\ \A v \in Requests : Brings(v, n) => v = w

\* A step after which nobody brings a pair it did not bring, nothing is
\* presented that is still brought, and the rows of those pairs are untouched.
LEMMA NoNewPair ==
  ASSUME PairsArePrivate,
         \A w \in Requests, n \in Tokens : Brings(w, n)' =>
             /\ Brings(w, n)
             /\ row'[n] = row[n]
             /\ Presented(n)' => Presented(n)
  PROVE  PairsArePrivate'
  BY DEF PairsArePrivate

\* A token that was not drawn yet is nowhere.
LEMMA FreshIsNowhere ==
  ASSUME CallsInStep, NEW n \in Tokens, row[n] = "absent"
  PROVE  ~ Presented(n) /\ \A w \in Requests : ~ Brings(w, n)
  <1>1. n \notin Presentable
    BY NoneAssumption DEF Presentable, Issued
  <1>2. ASSUME NEW v \in Requests PROVE req[v].token # n
    BY <1>2, NoneAssumption DEF CallsInStep, InStep, WebInv, Inv, ReadIsCurrent, Issued
  <1>3. Keep # n
    BY KeepAssumption DEF Cookie
  <1> QED
    BY <1>1, <1>2, <1>3 DEF CallsInStep, WebInv, CookiesWereIssued, Presented, Brings

\* The API opens a session for request w: its token is the only new one.
LEMMA OneNewPair ==
  ASSUME CallsInStep, PairsArePrivate, NEW w \in Requests, NEW m \in Tokens,
         row[m] = "absent", row'[m] = "active", ~ Presented(m)',
         \A v \in Requests : ~ Brings(v, m)' \/ v = w,
         \A v \in Requests, n \in Tokens \ {m} : Brings(v, n)' =>
             /\ Brings(v, n)
             /\ row'[n] = row[n]
             /\ Presented(n)' => Presented(n)
  PROVE  PairsArePrivate'
  BY DEF PairsArePrivate

\* The steps of the BFF and of the browser that do not reach the API.
LEMMA QuietWebStep ==
  ASSUME CallsInStep, PairsArePrivate, NEW w \in Requests, UNCHANGED vars,
         \/ \E kind \in Kinds : Start(w, kind)
         \/ Send(w) \/ CallLogout(w) \/ Retry(w) \/ Deliver(w) \/ LoseReply(w)
  PROVE  PairsArePrivate'
  <1> USE DEF CallsInStep, WebInv, WebTypeOK, WebRequest, Cookie
  <1> SUFFICES ASSUME NEW v \in Requests, NEW n \in Tokens, Brings(v, n)'
               PROVE  Brings(v, n) /\ (Presented(n)' => Presented(n))
    BY NoNewPair DEF vars
  <1>1. n # None /\ n # Keep /\ UNCHANGED req
    BY NoneAssumption, KeepAssumption DEF vars
  <1>2. ASSUME NEW kind \in Kinds, Start(w, kind)
        PROVE  Brings(v, n) /\ (Presented(n)' => Presented(n))
    BY <1>1, <1>2 DEF Start, Brings, Presented
  <1>3. CASE Send(w) \/ CallLogout(w) \/ Retry(w) \/ LoseReply(w)
    BY <1>1, <1>3 DEF Send, CallLogout, Retry, LoseReply, Respond, Move, Await, WebIdle,
       Brings, Presented, LogoutRead, InStep
  <1>4. CASE Deliver(w)
    <2>1. Brings(v, n) /\ (v = w => req[v].answer = n)
      BY <1>1, <1>4 DEF Deliver, WebIdle, Brings
    <2>2. web[w].set # n
      <3>1. req[w].answer = None
        BY <1>4 DEF Deliver, InStep
      <3>2. v # w
        BY <1>1, <2>1, <3>1
      <3> QED
        BY <2>1, <3>2 DEF Brings, PairsArePrivate
    <2>3. Presented(n)' => Presented(n)
      BY <1>1, <1>4, <2>2 DEF Deliver, WebIdle, Presented
    <2> QED
      BY <2>1, <2>3
  <1> QED
    BY <1>2, <1>3, <1>4

\* An answer of the API is passed on, dropped, or turned into a deletion.
LEMMA AnswerEffect ==
  ASSUME WebTypeOK, NEW w \in Requests, NEW pair, Answer(w, pair)
  PROVE  /\ web'[w].pc \in {"retry", "reply"}
         /\ web'[w].refresh \in {None, web[w].refresh}
         /\ web'[w].set \in {Keep, None, pair}
         /\ \A v \in Requests \ {w} : web'[v] = web[v]
  <1> USE DEF WebTypeOK, WebRequest
  <1>1. ASSUME NEW set \in {Keep, None, pair}, Respond(w, set)
        PROVE  /\ web'[w].pc = "reply"
               /\ web'[w].refresh = None /\ web'[w].set = set
               /\ \A v \in Requests \ {w} : web'[v] = web[v]
    BY <1>1 DEF Respond
  <1>2. CASE web[w].kind \in {"proxy", "page"} /\ pair # None
    <2>1. PICK set \in {Keep, pair} : web' = [web EXCEPT ![w].pc = "retry", ![w].set = set]
      BY <1>2 DEF Answer, Rotated
    <2> QED
      BY <2>1
  <1>3. CASE web[w].kind \in {"proxy", "page"} /\ pair = None
    BY <1>1, <1>3 DEF Answer, Rotated
  <1>4. CASE web[w].kind = "login"
    BY <1>1, <1>4 DEF Answer
  <1>5. CASE web[w].kind = "logout"
    BY <1>1, <1>5 DEF Answer
  <1> QED
    BY <1>2, <1>3, <1>4, <1>5

\* The calls that open no session, and the answers on their way.
LEMMA QuietApiStep ==
  ASSUME CallsInStep, PairsArePrivate, NEW w \in Requests, UNCHANGED <<jar, row>>,
         \/ CallRefresh(w)
         \/ Refuse(w) /\ Await(w)
         \/ CallLogout(w) /\ ~ UNCHANGED vars
         \/ (RefreshAbort(w) \/ LogoutFail(w)) /\ UNCHANGED web
         \/ TakeAnswer(w) \/ LoseAnswer(w)
  PROVE  PairsArePrivate'
  <1> USE DEF CallsInStep, WebInv, WebTypeOK, WebRequest, Cookie, TypeOK, Request
  <1> SUFFICES ASSUME NEW v \in Requests, NEW n \in Tokens, Brings(v, n)'
               PROVE  Brings(v, n) /\ (Presented(n)' => Presented(n))
    BY NoNewPair
  <1>1. n # None /\ n # Keep
    BY NoneAssumption, KeepAssumption
  <1>2. CASE CallRefresh(w)
    BY <1>1, <1>2 DEF CallRefresh, RefreshRead, Await, Reply, Answered, Brings, Presented
  <1>3. CASE Refuse(w) /\ Await(w)
    BY <1>1, <1>3 DEF Refuse, Await, Reply, Answered, Brings, Presented
  <1>4. CASE CallLogout(w) /\ ~ UNCHANGED vars
    <2>1. LogoutRead(w, web[w].refresh) /\ Await(w)
      BY <1>4 DEF CallLogout
    <2>2. /\ req'[w].token \in {None, web[w].refresh} /\ req'[w].answer = None
          /\ \A x \in Requests \ {w} : req'[x] = req[x]
      BY <2>1 DEF LogoutRead, Reply, Answered
    <2>3. /\ web'[w].set = web[w].set /\ web'[w].refresh = None
          /\ \A x \in Requests \ {w} : web'[x] = web[x]
      BY <2>1 DEF Await
    <2> QED
      BY <1>1, <2>2, <2>3 DEF Brings, Presented
  <1>5. CASE (RefreshAbort(w) \/ LogoutFail(w)) /\ UNCHANGED web
    <2>1. req' = [req EXCEPT ![w] = Answered(None)]
      BY <1>5 DEF RefreshAbort, LogoutFail, Reply
    <2> QED
      BY <1>1, <1>5, <2>1 DEF Answered, Brings, Presented
  <1>6. ASSUME NEW pair \in {req[w].answer, None}, Receive(w), Answer(w, pair)
        PROVE  Brings(v, n) /\ (Presented(n)' => Presented(n))
    <2>1. req' = [req EXCEPT ![w] = Idle]
      BY <1>6 DEF Receive
    <2> QED
      BY <1>1, <1>6, <2>1, AnswerEffect DEF Idle, Brings, Presented
  <1> QED
    BY <1>2, <1>3, <1>4, <1>5, <1>6 DEF TakeAnswer, LoseAnswer

\* A request is answered with the token of the session opened for it.
LEMMA OpeningStep ==
  ASSUME CallsInStep, PairsArePrivate, NEW w \in Requests, UNCHANGED jar,
         \/ \E u \in Users : (Signup(w, u) \/ Login(w, u)) /\ Await(w)
         \/ RefreshCommit(w) /\ UNCHANGED web
  PROVE  PairsArePrivate'
  <1> USE DEF CallsInStep, WebInv, WebTypeOK, WebRequest, Cookie, TypeOK, Request
  <1>1. PICK m \in Tokens : /\ row[m] = "absent" /\ Reply(w, m)
                            /\ row'[m] = "active"
                            /\ \A n \in Tokens \ {m} : row'[n] = row[n] \/ n = req[w].token
    BY DEF Signup, Login, OpenSession, RefreshCommit
  <1>2. ~ Presented(m) /\ \A v \in Requests : ~ Brings(v, m)
    BY <1>1, FreshIsNowhere
  <1>3. \A n \in Tokens : Presented(n)' => Presented(n)
    BY <1>1, NoneAssumption DEF Await, Reply, Answered, Presented
  <1>4. \A v \in Requests, n \in Tokens :
           Brings(v, n)' => Brings(v, n) \/ (v = w /\ n = m)
    BY <1>1 DEF Await, Reply, Answered, Brings
  <1>5. \A v \in Requests, n \in Tokens \ {m} : Brings(v, n)' => row'[n] = row[n]
    BY <1>1, <1>4 DEF PairsArePrivate, Presented
  <1> QED
    BY <1>1, <1>2, <1>3, <1>4, <1>5, OneNewPair

\* A logout revokes a token that was presented.
LEMMA LogoutSparesPairs ==
  ASSUME CallsInStep, PairsArePrivate, NEW w \in Requests, LogoutRevoke(w),
         UNCHANGED <<jar, web>>
  PROVE  PairsArePrivate'
  <1> USE DEF CallsInStep, WebInv, WebTypeOK, WebRequest, Cookie, TypeOK, Request
  <1> SUFFICES ASSUME NEW v \in Requests, NEW n \in Tokens, Brings(v, n)'
               PROVE  /\ Brings(v, n) /\ row'[n] = row[n]
                      /\ Presented(n)' => Presented(n)
    BY NoNewPair
  <1>1. n # None
    BY NoneAssumption
  <1>2. req' = [req EXCEPT ![w] = Answered(None)]
    BY DEF LogoutRevoke, Reply
  <1>3. Brings(v, n) /\ (Presented(n)' => Presented(n))
    BY <1>1, <1>2 DEF Answered, Brings, Presented
  <1>4. row'[n] = row[n]
    BY <1>3 DEF LogoutRevoke, PairsArePrivate, Presented
  <1> QED
    BY <1>3, <1>4

LEMMA PrivateStep ==
    CallsInStep /\ PairsArePrivate /\ [WebNext]_allVars => PairsArePrivate'
  <1> SUFFICES ASSUME CallsInStep, PairsArePrivate, [WebNext]_allVars
               PROVE  PairsArePrivate'
    OBVIOUS
  <1>1. ASSUME NEW w \in Requests, NEW kind \in Kinds, Start(w, kind)
        PROVE  PairsArePrivate'
    <2>1. UNCHANGED vars
      BY <1>1 DEF Start
    <2> QED
      BY <1>1, <2>1, QuietWebStep
  <1>2. ASSUME NEW w \in Requests, Progress(w) PROVE PairsArePrivate'
    <2>1. CASE Send(w) \/ Retry(w) \/ Deliver(w) \/ LoseReply(w)
      <3>1. UNCHANGED vars
        BY <2>1 DEF Send, Retry, Deliver, LoseReply
      <3> QED
        BY <2>1, <3>1, QuietWebStep
    <2>2. CASE CallRefresh(w)
      <3>1. UNCHANGED <<jar, row>>
        BY <2>2 DEF CallRefresh, RefreshRead, sessionVars
      <3> QED
        BY <2>2, <3>1, QuietApiStep
    <2>3. CASE CallLogin(w)
      <3>1. UNCHANGED jar /\ Await(w)
        BY <2>3 DEF CallLogin
      <3>2. CASE Refuse(w)
        <4>1. UNCHANGED row
          BY <3>2 DEF Refuse, sessionVars
        <4> QED
          BY <3>1, <3>2, <4>1, QuietApiStep
      <3>3. CASE \E u \in Users : Signup(w, u) \/ Login(w, u)
        BY <3>1, <3>3, OpeningStep
      <3> QED
        BY <2>3, <3>2, <3>3 DEF CallLogin
    <2>4. CASE CallLogout(w)
      <3>1. CASE UNCHANGED vars
        BY <2>4, <3>1, QuietWebStep
      <3>2. CASE ~ UNCHANGED vars
        <4>1. UNCHANGED <<jar, row>>
          BY <2>4, <3>2 DEF CallLogout, LogoutRead, sessionVars
        <4> QED
          BY <2>4, <3>2, <4>1, QuietApiStep
      <3> QED
        BY <3>1, <3>2
    <2>5. CASE Serve(w)
      <3>1. UNCHANGED <<jar, web>>
        BY <2>5 DEF Serve, webVars
      <3>2. CASE RefreshCommit(w)
        BY <3>1, <3>2, OpeningStep
      <3>3. CASE RefreshAbort(w) \/ LogoutFail(w)
        <4>1. UNCHANGED row
          BY <3>3 DEF RefreshAbort, LogoutFail, sessionVars
        <4> QED
          BY <3>1, <3>3, <4>1, QuietApiStep
      <3>4. CASE LogoutRevoke(w)
        BY <3>1, <3>4, LogoutSparesPairs
      <3> QED
        BY <2>5, <3>2, <3>3, <3>4 DEF Serve, Finish
    <2>6. CASE TakeAnswer(w) \/ LoseAnswer(w)
      <3>1. UNCHANGED <<jar, row>>
        BY <2>6 DEF TakeAnswer, LoseAnswer, Receive, sessionVars
      <3> QED
        BY <2>6, <3>1, QuietApiStep
    <2> QED
      BY <1>2, <2>1, <2>2, <2>3, <2>4, <2>5, <2>6 DEF Progress
  <1>3. CASE DropAccessCookie \/ DropRefreshCookie \/ Expire \/ UNCHANGED allVars
    <2>1. UNCHANGED <<row, req, web>> /\ jar'.refresh \in {jar.refresh, None}
      BY <1>3 DEF CallsInStep, WebInv, WebTypeOK, DropAccessCookie, DropRefreshCookie,
         Expire, ExpireRefresh, ExpireAccess, sessionVars, allVars, webVars, vars
    <2> QED
      BY <2>1, NoneAssumption, NoNewPair DEF Brings, Presented
  <1> QED
    BY <1>1, <1>2, <1>3 DEF WebNext

\* A rotated pair on its way to the browser is good when it arrives, whatever
\* renders, logouts and other tabs do meanwhile and whatever gets lost
\* (apiFetch, persistTokens, Service.Refresh).
THEOREM PairsInFlightAreOpen == WebSpec => []PairInFlightIsOpen
  <1>1. WebInit => CallsInStep /\ PairsArePrivate
    <2>1. ASSUME WebInit PROVE PairsArePrivate
      BY <2>1, NoneAssumption, KeepAssumption
      DEF WebInit, Init, WebIdle, Idle, PairsArePrivate, Brings, Cookie
    <2> QED
      BY <2>1, CallsStartInStep
  <1>2. CallsInStep /\ PairsArePrivate /\ [WebNext]_allVars
          => CallsInStep' /\ PairsArePrivate'
    BY InStepStep, PrivateStep
  <1>3. PairsArePrivate => PairInFlightIsOpen
    BY DEF PairsArePrivate, PairInFlightIsOpen, Brings
  <1> QED
    BY <1>1, <1>2, <1>3, PTL DEF WebSpec

-----------------------------------------------------------------------------
(***************************************************************************)
(* The cookie of a browser whose requests are Route Handlers.              *)
(***************************************************************************)

\* No render, no lost answer: web_render shows the one, losing an answer the
\* other, to leave the browser with a dead cookie.
RouteHandlersOnly == ~ Lossy /\ "page" \notin Kinds

NoPages == \A w \in Requests : web[w].kind # "page"

RepairInv == CallsInStep /\ PairsArePrivate /\ NoPages /\ JarIsRepaired

LEMMA NoPagesStep ==
  ASSUME RouteHandlersOnly, CallsInStep, NoPages, [WebNext]_allVars
  PROVE  NoPages'
  <1> USE DEF CallsInStep, WebInv, WebTypeOK, WebRequest, NoPages
  <1> SUFFICES ASSUME NEW w \in Requests PROVE web'[w].kind # "page"
    OBVIOUS
  <1>1. ASSUME NEW kind \in Kinds, Start(w, kind) PROVE web'[w].kind # "page"
    BY <1>1 DEF Start, RouteHandlersOnly
  <1>2. ASSUME NEW pair, Answer(w, pair) PROVE web'[w].kind # "page"
    <2>1. ASSUME NEW set, Respond(w, set) PROVE web'[w].kind # "page"
      BY <2>1 DEF Respond
    <2>2. CASE web[w].kind = "proxy" /\ pair # None
      BY <1>2, <2>2 DEF Answer, Rotated
    <2>3. CASE web[w].kind = "proxy" /\ pair = None
      BY <1>2, <2>1, <2>3 DEF Answer, Rotated
    <2>4. CASE web[w].kind = "login"
      BY <1>2, <2>1, <2>4 DEF Answer
    <2>5. CASE web[w].kind = "logout"
      BY <1>2, <2>1, <2>5 DEF Answer
    <2> QED
      BY <2>2, <2>3, <2>4, <2>5
  <1>3. CASE Progress(w)
    BY <1>2, <1>3 DEF Progress, Send, CallRefresh, CallLogin, CallLogout, Serve, TakeAnswer,
       LoseAnswer, Retry, Deliver, LoseReply, Respond, Move, Await, WebIdle, webVars
  <1> QED
    BY <1>1, <1>3, OneRequest

\* A request that brings the replacement goes on doing so until it delivers it.
LEMMA KeepsReplacing ==
  ASSUME RouteHandlersOnly, CallsInStep, NoPages, [WebNext]_allVars,
         NEW v \in Requests, Replaces(v)
  PROVE  Replaces(v)' \/ (Deliver(v) /\ web[v].set # Keep)
  <1> USE DEF CallsInStep, WebInv, WebTypeOK, WebRequest, NoPages
  <1>1. CASE web'[v] = web[v] /\ req'[v] = req[v]
    BY <1>1 DEF Replaces
  <1>2. web[v].pc \in {"wait", "retry", "reply"}
    BY DEF Replaces, InStep
  <1>3. CASE Serve(v)
    <2>1. web[v].pc = "wait" /\ web'[v] = web[v] /\ req[v].pc \in {"rotate", "revoke"}
      BY <1>3 DEF Serve, webVars, Finish, RefreshCommit, RefreshAbort, LogoutRevoke, LogoutFail
    <2>2. web[v].kind = "logout"
      BY <2>1 DEF Replaces, InStep
    <2> QED
      BY <2>1, <2>2 DEF Replaces
  <1>4. CASE TakeAnswer(v)
    <2>1. web[v].pc = "wait" /\ Answer(v, req[v].answer) /\ web[v].set = Keep
      BY <1>4 DEF TakeAnswer, InStep
    <2>2. ASSUME NEW set \in Cookie, Respond(v, set) PROVE Replaces(v)'
      BY <2>2, KeepAssumption DEF Respond, Replaces
    <2>3. CASE web[v].kind = "logout"
      BY <2>1, <2>2, <2>3 DEF Answer, Cookie
    <2>4. CASE web[v].kind # "logout"
      <3>1. req[v].answer \in Tokens
        BY <2>1, <2>4 DEF Replaces, Inv, TypeOK, Request
      <3>2. CASE web[v].kind = "login"
        BY <2>1, <2>2, <3>1, <3>2, NoneAssumption DEF Answer, Cookie
      <3>3. CASE web[v].kind = "proxy"
        <4>1. web' = [web EXCEPT ![v].pc = "retry", ![v].set = req[v].answer]
          BY <2>1, <3>1, <3>3, NoneAssumption DEF Answer, Rotated
        <4> QED
          BY <3>1, <4>1, KeepAssumption DEF Replaces, Cookie
      <3> QED
        BY <2>4, <3>2, <3>3
    <2> QED
      BY <2>3, <2>4
  <1>5. CASE Retry(v)
    BY <1>5 DEF Retry, Move, Replaces
  <1>6. CASE Deliver(v)
    BY <1>6 DEF Deliver, Replaces
  <1> QED
    BY <1>1, <1>2, <1>3, <1>4, <1>5, <1>6, OneRequest
    DEF Start, Progress, Send, CallRefresh, CallLogin, CallLogout, LoseAnswer, LoseReply,
        RouteHandlersOnly

\* Whoever revokes a token will bring its replacement, or its deletion.
LEMMA RevokerReplaces ==
  ASSUME CallsInStep, [WebNext]_allVars, NEW t \in Tokens,
         row[t] # "revoked", row'[t] = "revoked"
  PROVE  \E w \in Requests : Replaces(w)'
  <1> USE DEF CallsInStep, WebInv, WebTypeOK, WebRequest, TypeOK, Request
  <1>1. PICK w \in Requests : Serve(w) /\ (RefreshCommit(w) \/ LogoutRevoke(w))
    <2>1. ASSUME NEW n \in Tokens, NEW u, OpenSession(n, u) PROVE FALSE
      BY <2>1 DEF OpenSession
    <2>2. ~ UNCHANGED row
      OBVIOUS
    <2>3. PICK w \in Requests : Progress(w)
      BY <2>2 DEF WebNext, Start, DropAccessCookie, DropRefreshCookie, Expire, ExpireRefresh,
         ExpireAccess, sessionVars, vars, allVars
    <2>4. Serve(w) /\ ~ RefreshAbort(w) /\ ~ LogoutFail(w)
      BY <2>1, <2>2, <2>3 DEF Progress, Send, CallRefresh, RefreshRead, CallLogin, Signup, Login,
         Refuse, CallLogout, LogoutRead, TakeAnswer, LoseAnswer, Receive, Retry, Deliver,
         LoseReply, RefreshAbort, LogoutFail, sessionVars, vars
    <2> QED
      BY <2>4 DEF Serve, Finish
  <1>2. web[w].pc = "wait" /\ web'[w] = web[w]
    BY <1>1 DEF Serve, webVars
  <1>3. CASE RefreshCommit(w)
    <2>1. PICK n \in Tokens : Reply(w, n)
      BY <1>3 DEF RefreshCommit
    <2> QED
      BY <1>2, <2>1, NoneAssumption DEF Reply, Answered, Replaces
  <1>4. CASE LogoutRevoke(w)
    BY <1>2, <1>4 DEF LogoutRevoke, InStep, Replaces
  <1> QED
    BY <1>1, <1>3, <1>4

LEMMA RepairStep ==
  ASSUME RouteHandlersOnly, RepairInv, [WebNext]_allVars
  PROVE  RepairInv'
  <1> USE DEF RepairInv
  <1>1. CallsInStep' /\ PairsArePrivate' /\ NoPages'
    BY InStepStep, PrivateStep, NoPagesStep
  <1>2. JarIsRepaired'
    <2> SUFFICES ASSUME jar'.refresh # None, row'[jar'.refresh] = "revoked"
                 PROVE  \E w \in Requests : Replaces(w)'
      BY DEF JarIsRepaired
    <2> USE DEF CallsInStep, WebInv, WebTypeOK, WebRequest, Cookie
    <2>1. CASE \E w \in Requests : Deliver(w) /\ web[w].set # Keep
      <3>1. PICK w \in Requests : Deliver(w) /\ web[w].set # Keep
        BY <2>1
      <3>2. jar'.refresh = web[w].set /\ UNCHANGED row
        BY <3>1 DEF Deliver, vars
      <3>3. web[w].set \in Tokens
        BY <3>1, <3>2
      <3> QED
        BY <3>2, <3>3 DEF PairsArePrivate, Brings
    <2>2. CASE ~ \E w \in Requests : Deliver(w) /\ web[w].set # Keep
      <3>1. jar'.refresh = jar.refresh
        BY <2>2 DEF WebNext, Progress, Start, Send, CallRefresh, CallLogin, CallLogout, Serve,
           TakeAnswer, LoseAnswer, Retry, Deliver, LoseReply, DropAccessCookie,
           DropRefreshCookie, Expire, allVars, webVars
      <3>2. CASE row[jar.refresh] = "revoked"
        <4>1. PICK v \in Requests : Replaces(v)
          BY <3>1, <3>2 DEF JarIsRepaired
        <4> QED
          BY <2>2, <4>1, KeepsReplacing
      <3>3. CASE row[jar.refresh] # "revoked"
        BY <3>1, <3>3, RevokerReplaces
      <3> QED
        BY <3>2, <3>3
    <2> QED
      BY <2>1, <2>2
  <1> QED
    BY <1>1, <1>2

\* With Route Handlers only and no lost answer, any number of tabs may rotate at
\* the same time and be answered in any order: as long as the browser's refresh
\* cookie is dead, its replacement or its deletion is on the way.
THEOREM JarsAreRepaired ==
  ASSUME RouteHandlersOnly
  PROVE  WebSpec => []JarIsRepaired
  <1>1. WebInit => RepairInv
    <2>1. ASSUME WebInit PROVE PairsArePrivate /\ NoPages /\ JarIsRepaired
      BY <2>1, NoneAssumption, KeepAssumption
      DEF WebInit, Init, WebIdle, Idle, PairsArePrivate, Brings, Cookie, NoPages, JarIsRepaired
    <2> QED
      BY <2>1, CallsStartInStep DEF RepairInv
  <1>2. RepairInv /\ [WebNext]_allVars => RepairInv'
    BY RepairStep
  <1>3. RepairInv => JarIsRepaired
    BY DEF RepairInv
  <1> QED
    BY <1>1, <1>2, <1>3, PTL DEF WebSpec

-----------------------------------------------------------------------------
(***************************************************************************)
(* How a request comes to its end.                                         *)
(***************************************************************************)

\* The steps that a request has left at most: both attempts of its call, the
\* rotation in between, the answer.
Left(w) ==
    CASE web[w].pc = "idle"  -> 0
      [] web[w].pc = "reply" -> 1
      [] web[w].pc = "retry" -> 2
      [] web[w].pc = "wait"  -> IF req[w].pc = "answered" THEN 3 ELSE 4
      [] web[w].pc = "call"  -> 5
      [] web[w].pc = "send"  -> 6

Advances(w) ==
    \/ web'[w] = web[w] /\ req'[w] = req[w]
    \/ Left(w)' < Left(w)

AllAdvance == \A w \in Requests : web[w].pc # "idle" => Advances(w)

\* The next step of a request, whatever else it does.
LEMMA ProgressAdvances ==
  ASSUME CallsInStep, NEW w \in Requests, Progress(w)
  PROVE  Left(w)' < Left(w)
  <1> USE DEF CallsInStep, WebInv, WebTypeOK, WebRequest, TypeOK, Request, Left
  <1>1. CASE Send(w)
    BY <1>1 DEF Send, Respond, Move
  <1>2. CASE CallRefresh(w)
    BY <1>2 DEF CallRefresh, Await
  <1>3. CASE CallLogin(w)
    BY <1>3 DEF CallLogin, Await
  <1>4. CASE CallLogout(w)
    BY <1>4 DEF CallLogout, Await, Respond
  <1>5. CASE Serve(w)
    BY <1>5 DEF Serve, Finish, RefreshCommit, RefreshAbort, LogoutRevoke, LogoutFail,
       Reply, Answered, webVars
  <1>6. ASSUME NEW pair, web[w].pc = "wait", Answer(w, pair)
        PROVE  Left(w)' < Left(w)
    <2>1. web'[w].pc \in {"retry", "reply"}
      BY <1>6, AnswerEffect
    <2> QED
      BY <1>6, <2>1
  <1>7. CASE TakeAnswer(w) \/ LoseAnswer(w)
    BY <1>6, <1>7 DEF TakeAnswer, LoseAnswer
  <1>8. CASE Retry(w)
    BY <1>8 DEF Retry, Move
  <1>9. CASE Deliver(w) \/ LoseReply(w)
    BY <1>9 DEF Deliver, LoseReply, WebIdle
  <1> QED
    BY <1>1, <1>2, <1>3, <1>4, <1>5, <1>7, <1>8, <1>9 DEF Progress

LEMMA CallsStayInStep == WebSpec => []CallsInStep
  BY CallsStartInStep, InStepStep, PTL DEF WebSpec

\* A started request stands still or comes nearer to its end, by one of six
\* steps: a 401 after the rotation is not rotated again, a lost answer is not
\* asked for again (apiFetch, handleAuthRequest).  This is what
\* EveryRequestIsAnswered says without the fairness, for any number of requests.
THEOREM RequestsAdvance == WebSpec => [][AllAdvance]_allVars
  <1>1. CallsInStep /\ [WebNext]_allVars => [AllAdvance]_allVars
    <2> SUFFICES ASSUME CallsInStep, [WebNext]_allVars, NEW w \in Requests,
                        web[w].pc # "idle"
                 PROVE  Advances(w)
      BY DEF AllAdvance
    <2>1. \A kind \in Kinds : ~ Start(w, kind)
      BY DEF Start
    <2> QED
      BY <2>1, OneRequest, ProgressAdvances DEF Advances
  <1> QED
    BY CallsStayInStep, <1>1, PTL DEF WebSpec

\* The BFF waits for the API exactly as long as the API has a call of its own:
\* no request waits for an answer that nobody is working on.
THEOREM CallsAreAwaited ==
    WebSpec => [](\A w \in Requests : web[w].pc = "wait" <=> req[w].pc # "idle")
  <1>1. CallsInStep => \A w \in Requests : web[w].pc = "wait" <=> req[w].pc # "idle"
    BY DEF CallsInStep, InStep
  <1> QED
    BY CallsStayInStep, <1>1, PTL

=============================================================================
