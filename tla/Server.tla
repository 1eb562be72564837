------------------------------- MODULE Server --------------------------------
(***************************************************************************)
(* The life of the API process (cmd/api, internal/app): it connects,       *)
(* serves, and is told to stop, while requests pass the rate limiter of    *)
(* the auth routes, borrow a connection of the pool for each statement or  *)
(* transaction, and panic.  The process may be killed and started again;   *)
(* the limiter's counter lives in Redis and survives it.                   *)
(*                                                                         *)
(* One client address is modelled, hence one counter.  Redis, PostgreSQL   *)
(* and object storage fail whenever they are asked.                        *)
(***************************************************************************)
EXTENDS Naturals, FiniteSets

CONSTANTS
    Requests,   \* requests that may be inside the server at the same time
    Limit,      \* authRateLimit
    Window,     \* authRateWindow, in ticks of the clock
    Conns       \* cfg.MaxConns

ASSUME ServerAssumption ==
    Limit \in Nat /\ Window \in Nat \ {0} /\ Conns \in Nat \ {0}

VARIABLES
    proc,       \* where the main goroutine is
    signal,     \* SIGTERM or an interrupt has reached the process
    listener,   \* ListenAndServe: "no", "starting", "open", "failed", "closed"
    limiter,    \* the process has a Redis client
    pool,       \* "none", "open" or "closed"
    exit,       \* what run returned: "none" yet, "ok", "error"; or "killed"
    cut,        \* history: the last exit dropped a request that was in flight
    req,        \* where each request is
    held,       \* the requests that hold a connection
    count,      \* the counter of the window, Limit + 1 standing for any excess
    ttl,        \* ticks until the key expires, 0 without a key
    granted,    \* history: requests the counter let through in this window
    passed      \* history: counted requests of this window that went through

main == <<proc, signal, listener, limiter, pool, exit, cut>>
work == <<req, held>>
key  == <<count, ttl, granted, passed>>
vars == <<main, work, key>>

InFlight == {r \in Requests : req[r] # "idle"}

Init ==
    /\ proc = "down" /\ exit = "none"
    /\ signal = FALSE /\ limiter = FALSE /\ cut = FALSE
    /\ listener = "no" /\ pool = "none"
    /\ req = [r \in Requests |-> "idle"] /\ held = {}
    /\ count = 0 /\ ttl = 0 /\ granted = 0 /\ passed = 0

(***************************************************************************)
(* Start.                                                                  *)
(***************************************************************************)
Start ==
    /\ proc = "down"
    /\ proc' = "connecting" /\ pool' = "open"
    /\ exit' = "none" /\ cut' = FALSE
    /\ UNCHANGED <<signal, listener, limiter, work, key>>

\* The process is gone, and what it held with it.
Down(code) ==
    /\ proc' = "down" /\ exit' = code
    /\ signal' = FALSE /\ limiter' = FALSE
    /\ listener' = "no" /\ pool' = "none"
    /\ cut' = (InFlight # {})
    /\ req' = [r \in Requests |-> "idle"] /\ held' = {}
    /\ UNCHANGED key

\* database.Connect: a ping succeeds before the deadline and the signal.
Connect ==
    /\ proc = "connecting" /\ ~ signal
    /\ proc' = "caching"
    /\ UNCHANGED <<signal, listener, limiter, pool, exit, cut, work, key>>

ConnectGivesUp == proc = "connecting" /\ Down("error")

\* cache.Connect: without Redis, or after the signal, there is no limiter.
ConnectCache ==
    /\ proc = "caching"
    /\ proc' = "wiring"
    /\ limiter' \in IF signal THEN {FALSE} ELSE BOOLEAN
    /\ UNCHANGED <<signal, listener, pool, exit, cut, work, key>>

StorageFails == proc = "wiring" /\ Down("error")

Serve ==
    /\ proc = "wiring"
    /\ proc' = "serving" /\ listener' = "starting"
    /\ UNCHANGED <<signal, limiter, pool, exit, cut, work, key>>

(***************************************************************************)
(* The listener's goroutine, and the select that waits for it to fail or   *)
(* for the signal.                                                         *)
(***************************************************************************)
Listen ==
    /\ proc = "serving" /\ listener = "starting"
    /\ listener' = "open"
    /\ UNCHANGED <<proc, signal, limiter, pool, exit, cut, work, key>>

ListenFails ==
    /\ proc = "serving" /\ listener \in {"starting", "open"}
    /\ listener' = "failed"
    /\ UNCHANGED <<proc, signal, limiter, pool, exit, cut, work, key>>

Signal ==
    /\ proc # "down"
    /\ signal' = TRUE
    /\ UNCHANGED <<proc, listener, limiter, pool, exit, cut, work, key>>

Return(code) ==
    /\ proc' = "closing" /\ exit' = code
    /\ UNCHANGED <<signal, listener, limiter, pool, cut, work, key>>

SelectError == proc = "serving" /\ listener = "failed" /\ Return("error")

\* Mutant: the pool is closed before the server is asked to shut down.
CloseThenShutdown ==
    /\ proc = "serving" /\ signal
    /\ proc' = "draining" /\ listener' = "closed" /\ pool' = "closed"
    /\ UNCHANGED <<signal, limiter, exit, cut, work, key>>

\* Shutdown closes the listener at once, also one that has not opened yet.
SelectSignal ==
    /\ proc = "serving" /\ signal
    /\ proc' = "draining" /\ listener' = "closed"
    /\ UNCHANGED <<signal, limiter, pool, exit, cut, work, key>>

(***************************************************************************)
(* Stop.                                                                   *)
(***************************************************************************)

\* Mutant: the server is closed instead of shut down.
CloseServer == proc = "draining" /\ Return("ok")

Drained == proc = "draining" /\ InFlight = {} /\ Return("ok")

\* Fifteen seconds have passed, half of what a request may take.
DrainTimeout == proc = "draining" /\ Return("error")

\* App.Close, deferred: pool.Close refuses new acquires, then waits.
ClosePool ==
    /\ proc = "closing" /\ pool = "open"
    /\ pool' = "closed"
    /\ UNCHANGED <<proc, signal, listener, limiter, exit, cut, work, key>>

Exit == proc = "closing" /\ pool = "closed" /\ held = {} /\ Down(exit)

\* SIGKILL, or out of memory.
Kill == proc # "down" /\ Down("killed")

(***************************************************************************)
(* A request.                                                              *)
(***************************************************************************)
Move(r, to) == req' = [req EXCEPT ![r] = to]

\* A request of another route, or one that finds no limiter, is not counted.
Accept(r) ==
    /\ proc = "serving" /\ listener = "open"
    /\ req[r] = "idle"
    /\ \E to \in {"run"} \cup (IF limiter THEN {"limit"} ELSE {}) : Move(r, to)
    /\ UNCHANGED <<main, held, key>>

AtMost(bound, n) == IF n < bound THEN n ELSE bound

\* Mutant: EXPIRE without NX, the window starts again with each request.
RenewWindow ==
    /\ count' = AtMost(Limit + 1, count + 1)
    /\ ttl'   = Window

\* INCR and EXPIRE NX in one MULTI: a counter never lacks its expiry.
Increment ==
    /\ count' = AtMost(Limit + 1, count + 1)
    /\ ttl'   = IF ttl = 0 THEN Window ELSE ttl

\* Mutant: the counter is compared as it was before the request.
AllowOneMore(r) ==
    /\ req[r] = "limit"
    /\ count <= Limit
    /\ Increment
    /\ Move(r, "run")
    /\ granted' = granted + 1
    /\ passed'  = AtMost(Limit, passed + 1)
    /\ UNCHANGED <<main, held>>

Allow(r) ==
    /\ req[r] = "limit"
    /\ count + 1 <= Limit
    /\ Increment
    /\ Move(r, "run")
    /\ granted' = granted + 1
    /\ passed'  = AtMost(Limit, passed + 1)
    /\ UNCHANGED <<main, held>>

Deny(r) ==
    /\ req[r] = "limit"
    /\ count + 1 > Limit
    /\ Increment
    /\ Move(r, "refused")
    /\ UNCHANGED <<main, held, granted, passed>>

\* Mutant: an error of Redis is answered like an exhausted window.
FailClosed(r) ==
    /\ req[r] = "limit"
    /\ Move(r, "refused")
    /\ UNCHANGED <<main, held, key>>

\* Redis is down, slow, or its client closed: the limiter fails open.
FailOpen(r) ==
    /\ req[r] = "limit"
    /\ Move(r, "run")
    /\ UNCHANGED <<main, held, key>>

\* The same, but the transaction had been executed.
FailOpenCounted(r) ==
    /\ req[r] = "limit"
    /\ Increment
    /\ Move(r, "run")
    /\ passed' = AtMost(Limit, passed + 1)
    /\ UNCHANGED <<main, held, granted>>

\* A statement or a transaction; each needs one connection.
Acquire(r) ==
    /\ req[r] = "run" /\ pool = "open"
    /\ Cardinality(held) < Conns
    /\ Move(r, "query") /\ held' = held \cup {r}
    /\ UNCHANGED <<main, key>>

\* Committed, rolled back after an error, or cancelled by the timeout.
Release(r) ==
    /\ req[r] = "query"
    /\ Move(r, "run") /\ held' = held \ {r}
    /\ UNCHANGED <<main, key>>

\* Mutant: WithTx does not recover, the transaction stays open.
PanicKeepsConnection(r) ==
    /\ req[r] = "query"
    /\ Move(r, "idle")
    /\ UNCHANGED <<main, held, key>>

\* WithTx rolls back and panics again, Recoverer answers.
Panic(r) ==
    /\ req[r] = "query"
    /\ Move(r, "idle") /\ held' = held \ {r}
    /\ UNCHANGED <<main, key>>

\* Also the error of a request that waited for a connection in vain.
Answer(r) ==
    /\ req[r] \in {"run", "refused"}
    /\ Move(r, "idle")
    /\ UNCHANGED <<main, held, key>>

-----------------------------------------------------------------------------

\* The counter of the window ages and disappears.
Tick ==
    /\ ttl > 0
    /\ ttl' = ttl - 1
    /\ IF ttl = 1
       THEN count' = 0 /\ granted' = 0 /\ passed' = 0
       ELSE UNCHANGED <<count, granted, passed>>
    /\ UNCHANGED <<main, work>>

Main ==
    \/ Connect \/ ConnectGivesUp \/ ConnectCache \/ StorageFails \/ Serve
    \/ SelectError \/ SelectSignal \/ Drained \/ DrainTimeout
    \/ ClosePool \/ Exit

Handle(r) ==
    \/ Allow(r) \/ Deny(r) \/ FailOpen(r) \/ FailOpenCounted(r)
    \/ Acquire(r) \/ Release(r) \/ Panic(r) \/ Answer(r)

Next ==
    \/ Start \/ Main \/ Listen \/ ListenFails \/ Signal \/ Kill
    \/ \E r \in Requests : Accept(r) \/ Handle(r)
    \/ Tick

\* The main goroutine runs, no request stays in a step for ever (each is under
\* the timeout of the router, which cancels what it waits for), time passes.
Fairness ==
    /\ WF_vars(Main)
    /\ \A r \in Requests : WF_vars(Handle(r))
    /\ WF_vars(Tick)

Spec == Init /\ [][Next]_vars

FairSpec == Spec /\ Fairness

-----------------------------------------------------------------------------

\* The process, its requests and the counter have their types.
ServerTypeOK ==
    /\ proc \in {"down", "connecting", "caching", "wiring", "serving",
                 "draining", "closing"}
    /\ listener \in {"no", "starting", "open", "failed", "closed"}
    /\ pool \in {"none", "open", "closed"}
    /\ exit \in {"none", "ok", "error", "killed"}
    /\ {signal, limiter, cut} \subseteq BOOLEAN
    /\ req \in [Requests -> {"idle", "limit", "refused", "run", "query"}]
    /\ held = {r \in Requests : req[r] = "query"}
    /\ count \in 0 .. Limit + 1 /\ ttl \in 0 .. Window
    /\ granted \in Nat /\ passed \in 0 .. Limit

\* Across overlapping requests, restarts and errors of Redis, the counter lets
\* no more than the limit through in one window ("Limiter allows limit
\* requests per window for each client").
AdmittedWithinLimit == granted <= Limit

RefusesEarned ==
    \A r \in Requests : req[r] = "limit" /\ req'[r] = "refused" => passed = Limit

\* A request is refused only after as many as the limit went through in the
\* same window: requests that were refused, and failures of Redis, lock nobody
\* out ("a cache outage must never take authentication down").
RefusalIsEarned == [][RefusesEarned]_vars

\* "Graceful shutdown": when run reports success, every request that had been
\* accepted was answered.
CleanExitServedAll == proc = "down" /\ exit = "ok" => ~ cut

\* A request finds the pool closed only when the shutdown was not graceful:
\* the infrastructure is released after the server, in that order.
PoolOpenWhileServing == InFlight # {} /\ pool # "open" => exit = "error"

\* A signal ends the process: whatever it is doing, nothing that a request
\* left behind keeps App.Close waiting for a connection.
SignalEndsProcess == signal ~> proc = "down"

\* A client that used up its window is not locked out for ever, even when it
\* keeps trying and the process is killed between its requests.
FullWindowEnds == count > Limit ~> count <= Limit

=============================================================================
