----------------------------- MODULE WebSession -----------------------------
(***************************************************************************)
(* The web application in front of the auth service: one browser with its  *)
(* cookie jar, and the Next.js server (the BFF) that reads the cookies of  *)
(* each request, calls the API, exchanges the refresh token after a 401    *)
(* and answers with the rotated cookies (web/src/lib).  The API side of    *)
(* request w is the request w of Sessions.                                 *)
(*                                                                         *)
(* A request is a "proxy" call (a Route Handler, which may write cookies), *)
(* a "page" (the render of a Server Component, which may not), a "login"   *)
(* or a "logout".  Answers reach the browser in any order; with Lossy they *)
(* may also get lost.                                                      *)
(***************************************************************************)
EXTENDS Sessions

CONSTANTS
    Kinds,      \* the kinds of requests the browser makes
    Lossy       \* whether answers may be lost on their way

ASSUME KindsAssumption == Kinds \subseteq {"proxy", "page", "login", "logout"}
ASSUME LossyAssumption == Lossy \in BOOLEAN

VARIABLES
    jar,        \* the session cookies of the browser
    web         \* the requests inside the BFF

webVars == <<jar, web>>
allVars == <<vars, webVars>>

\* An answer without Set-Cookie headers; None deletes both cookies.
Keep == "keep"

WebIdle == [pc |-> "idle", kind |-> "proxy", access |-> None,
            refresh |-> None, set |-> Keep]

Cookie == Tokens \cup {None}

ASSUME KeepAssumption == Keep \notin Cookie

WebRequest == [pc      : {"idle", "send", "call", "wait", "retry", "reply"},
               kind    : {"proxy", "page", "login", "logout"},
               access  : Cookie,
               refresh : Cookie,
               set     : Cookie \cup {Keep}]

WebInit ==
    /\ Init
    /\ jar = [access |-> None, refresh |-> None]
    /\ web = [w \in Requests |-> WebIdle]

\* isSignedIn: either cookie is enough.
SignedIn == jar.access # None \/ jar.refresh # None

\* A cookie that is not looked at again is forgotten.
Move(w, pc) == web' = [web EXCEPT ![w].pc = pc, ![w].access = None]
Respond(w, set) ==
    web' = [web EXCEPT ![w] = [pc |-> "reply", kind |-> web[w].kind,
                               access |-> None, refresh |-> None,
                               set |-> set]]
Await(w) == web' = [web EXCEPT ![w].pc = "wait", ![w].refresh = None]

\* The request carries the cookies the jar holds as it leaves the browser.
\* A page asks for the account only when there is a cookie to ask with.
Start(w, kind) ==
    /\ web[w].pc = "idle"
    /\ kind = "page" => SignedIn
    /\ web' = [web EXCEPT ![w] =
                 [pc |-> IF kind \in {"proxy", "page"} THEN "send" ELSE "call",
                  kind |-> kind,
                  access |-> IF kind = "login" \/ kind = "logout"
                             THEN None ELSE jar.access,
                  refresh |-> IF kind = "login" THEN None ELSE jar.refresh,
                  set |-> Keep]]
    /\ UNCHANGED <<vars, jar>>

\* apiFetch, first attempt.  A token that does not authenticate gets a 401
\* only from the endpoints that require one, and only when the API is reached;
\* only a 401 with a refresh cookie goes further.
Send(w) ==
    /\ web[w].pc = "send"
    /\ \/ Respond(w, Keep)
       \/ /\ ~ Authenticates(web[w].access)
          /\ web[w].refresh # None
          /\ Move(w, "call")
    /\ UNCHANGED <<vars, jar>>

\* rotateSession posts the refresh token before it asks whether this phase
\* may write cookies.
CallRefresh(w) ==
    /\ web[w].pc = "call"
    /\ web[w].kind \in {"proxy", "page"}
    /\ RefreshRead(w, web[w].refresh)
    /\ Await(w)
    /\ UNCHANGED jar

CallLogin(w) ==
    /\ web[w].pc = "call"
    /\ web[w].kind = "login"
    /\ (\E u \in Users : Signup(w, u) \/ Login(w, u)) \/ Refuse(w)
    /\ Await(w)
    /\ UNCHANGED jar

\* handleLogoutRequest: no refresh cookie, nothing to revoke.
CallLogout(w) ==
    /\ web[w].pc = "call"
    /\ web[w].kind = "logout"
    /\ IF web[w].refresh # None
       THEN LogoutRead(w, web[w].refresh) /\ Await(w)
       ELSE Respond(w, None) /\ UNCHANGED vars
    /\ UNCHANGED jar

\* The API works on the call it was sent.
Serve(w) == web[w].pc = "wait" /\ Finish(w) /\ UNCHANGED webVars

\* Mutant: the pair is used for the second attempt and never stored.
RotatedNotStored(w, pair) ==
    IF pair = None
    THEN Respond(w, Keep)
    ELSE web' = [web EXCEPT ![w].pc = "retry"]

\* Mutant: the second attempt is awaited but never made.
RotatedNotRetried(w, pair) ==
    IF pair = None
    THEN Respond(w, Keep)
    ELSE web' = [web EXCEPT ![w].set = IF web[w].kind = "proxy"
                                       THEN pair ELSE Keep]

\* The answer to rotateSession: without a pair the first 401 stands; with one
\* the call is made again, and a Route Handler also stores the pair.
Rotated(w, pair) ==
    IF pair = None
    THEN Respond(w, Keep)
    ELSE web' = [web EXCEPT ![w].pc = "retry",
                            ![w].set = IF web[w].kind = "proxy"
                                       THEN pair ELSE Keep]

Answer(w, pair) ==
    CASE web[w].kind \in {"proxy", "page"} -> Rotated(w, pair)
      [] web[w].kind = "login"  -> Respond(w, IF pair = None THEN Keep ELSE pair)
      [] web[w].kind = "logout" -> Respond(w, None)

TakeAnswer(w) ==
    /\ web[w].pc = "wait"
    /\ Receive(w)
    /\ Answer(w, req[w].answer)
    /\ UNCHANGED jar

\* The API answered but the connection broke: fetch throws.
LoseAnswer(w) ==
    /\ Lossy
    /\ web[w].pc = "wait"
    /\ Receive(w)
    /\ Answer(w, None)
    /\ UNCHANGED jar

\* Mutant: a second 401 rotates once more, with the pair just obtained.
RetryAndRotate(w) ==
    /\ web[w].pc = "retry"
    /\ web' = [web EXCEPT ![w].pc = "call", ![w].refresh = web[w].set]
    /\ UNCHANGED <<vars, jar>>

\* The second attempt is final, whatever its status.
Retry(w) ==
    /\ web[w].pc = "retry"
    /\ Move(w, "reply")
    /\ UNCHANGED <<vars, jar>>

\* Mutant: every answer writes the cookies.
DeliverAlways(w) ==
    /\ web[w].pc = "reply"
    /\ jar' = [access |-> web[w].set, refresh |-> web[w].set]
    /\ web' = [web EXCEPT ![w] = WebIdle]
    /\ UNCHANGED vars

\* The browser applies the Set-Cookie headers of the answer.
Deliver(w) ==
    /\ web[w].pc = "reply"
    /\ jar' = IF web[w].set = Keep THEN jar
              ELSE [access |-> web[w].set, refresh |-> web[w].set]
    /\ web' = [web EXCEPT ![w] = WebIdle]
    /\ UNCHANGED vars

LoseReply(w) ==
    /\ Lossy
    /\ web[w].pc = "reply"
    /\ web' = [web EXCEPT ![w] = WebIdle]
    /\ UNCHANGED <<vars, jar>>

\* A cookie lives as long as its token (maxAgeFrom).
DropAccessCookie ==
    /\ jar.access # None
    /\ access[jar.access] = "expired"
    /\ jar' = [jar EXCEPT !.access = None]
    /\ UNCHANGED <<vars, web>>

DropRefreshCookie ==
    /\ jar.refresh \in expired
    /\ jar' = [jar EXCEPT !.refresh = None]
    /\ UNCHANGED <<vars, web>>

Expire ==
    /\ \E t \in Tokens : ExpireRefresh(t) \/ ExpireAccess(t)
    /\ UNCHANGED webVars

\* What happens to a request once it is started.
Progress(w) ==
    \/ Send(w)
    \/ CallRefresh(w)
    \/ CallLogin(w)
    \/ CallLogout(w)
    \/ Serve(w)
    \/ TakeAnswer(w)
    \/ LoseAnswer(w)
    \/ Retry(w)
    \/ Deliver(w)
    \/ LoseReply(w)

WebNext ==
    \/ \E w \in Requests, kind \in Kinds : Start(w, kind)
    \/ \E w \in Requests : Progress(w)
    \/ DropAccessCookie
    \/ DropRefreshCookie
    \/ Expire

\* The API bounds every request by a timeout and so does the BFF, so a
\* started request does not stay where it is for ever.
Fairness == \A w \in Requests : WF_allVars(Progress(w))

WebSpec == WebInit /\ [][WebNext]_allVars
FairWebSpec == WebSpec /\ Fairness

-----------------------------------------------------------------------------

\* The cookies, the requests of the BFF and the state of the API are typed.
WebTypeOK ==
    /\ TypeOK
    /\ jar \in [access : Cookie, refresh : Cookie]
    /\ web \in [Requests -> WebRequest]

\* Request w carries, or is about to get, new cookies for the browser.
Replaces(w) ==
    \/ web[w].set # Keep
    \/ web[w].pc = "wait" /\ req[w].answer # None
    \/ web[w].kind = "logout" /\ web[w].pc = "wait"

\* The browser is never left with a refresh token the API has revoked: while
\* its cookie is dead, a request in flight brings the replacement (or the
\* deletion), whatever the order in which tabs rotate and answers arrive.
JarIsRepaired ==
    jar.refresh # None /\ row[jar.refresh] = "revoked"
       => \E w \in Requests : Replaces(w)

\* A rotated pair on its way to the browser is good when it arrives: nobody
\* else can have presented it before.
PairInFlightIsOpen ==
    \A w \in Requests : web[w].set \in Tokens => row[web[w].set] = "active"

\* "The render leaves the session untouched" (SessionKeeper): no step of a
\* page revokes a session.
RenderKeepsSession ==
    [][\A w \in Requests :
          web[w].kind = "page" /\ web'[w].kind = "page"
          /\ req[w].pc = "rotate" /\ req'[w].pc # "rotate"
             => row' = row]_allVars

\* Every request is answered: a 401 after a rotation is not rotated again.
EveryRequestIsAnswered ==
    \A w \in Requests : web[w].pc # "idle" ~> web[w].pc = "idle"

=============================================================================
