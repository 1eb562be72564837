---------------------------- MODULE ServerProofs -----------------------------
(***************************************************************************)
(* The limiter and the order of the shutdown, for any number of requests,  *)
(* any limit, window and size of the pool, and whatever is killed and      *)
(* restarted.                                                              *)
(***************************************************************************)
EXTENDS Server, TLAPS

\* What the counter has let through, and that it never stays for ever.
Counted ==
    /\ passed = AtMost(Limit, count)
    /\ granted <= passed
    /\ count > 0 => ttl > 0

\* Requests are in flight only between Serve and Exit, and a clean return has
\* none; the pool is open until run has returned.
Ordered ==
    /\ proc = "down" => InFlight = {} /\ (exit = "ok" => cut = FALSE)
    /\ proc # "down" => cut = FALSE
    /\ proc \in {"connecting", "caching", "wiring"} => InFlight = {}
    /\ proc \notin {"down", "closing"} => pool = "open" /\ exit = "none"
    /\ proc = "closing" => \/ exit = "error"
                           \/ exit = "ok" /\ InFlight = {}

ServerInv == ServerTypeOK /\ Counted /\ Ordered

LEMMA ServerInit == Init => ServerInv
  <1> SUFFICES ASSUME Init
               PROVE  ServerInv
    OBVIOUS
  <1>1. ServerTypeOK
    <2>1. held = {r \in Requests : req[r] = "query"}
      BY DEF Init
    <2>2. /\ count \in 0 .. Limit + 1 /\ ttl \in 0 .. Window
          /\ granted \in Nat /\ passed \in 0 .. Limit
      BY ServerAssumption DEF Init
    <2>3. /\ {signal, limiter, cut} \subseteq BOOLEAN
          /\ req \in [Requests -> {"idle", "limit", "refused", "run", "query"}]
      BY DEF Init
    <2> QED
      BY <2>1, <2>2, <2>3 DEF Init, ServerTypeOK
  <1>2. Counted /\ Ordered
    BY ServerAssumption DEF Init, Counted, Ordered, InFlight, AtMost
  <1> QED
    BY <1>1, <1>2 DEF ServerInv

-----------------------------------------------------------------------------

LEMMA TypeStep == ServerTypeOK /\ [Next]_vars => ServerTypeOK'
  <1> SUFFICES ASSUME ServerTypeOK, [Next]_vars
               PROVE  ServerTypeOK'
    OBVIOUS
  <1> USE ServerAssumption DEF ServerTypeOK
  <1>1. CASE Main \/ Start \/ Kill
    <2>1. ASSUME NEW code \in {"ok", "error", "killed"}, Down(code)
          PROVE  ServerTypeOK'
      BY <2>1 DEF Down, key
    <2>2. CASE Connect \/ ConnectCache \/ Serve \/ Start
      BY <2>2 DEF Connect, ConnectCache, Serve, Start, work, key
    <2>3. CASE SelectError \/ Drained \/ DrainTimeout
      BY <2>3 DEF SelectError, Drained, DrainTimeout, Return, work, key
    <2>4. CASE SelectSignal \/ ClosePool
      BY <2>4 DEF SelectSignal, ClosePool, work, key
    <2>5. CASE ConnectGivesUp \/ StorageFails \/ Kill
      BY <2>1, <2>5 DEF ConnectGivesUp, StorageFails, Kill
    <2>6. CASE Exit
      <3>1. exit \in {"none", "ok", "error", "killed"}
        OBVIOUS
      <3> QED
        BY <2>6, <3>1 DEF Exit, Down, key
    <2> QED
      BY <1>1, <2>2, <2>3, <2>4, <2>5, <2>6 DEF Main
  <1>2. CASE Listen \/ ListenFails \/ Signal
    BY <1>2 DEF Listen, ListenFails, Signal, work, key
  <1>3. ASSUME NEW r \in Requests, Accept(r) \/ Handle(r)
        PROVE  ServerTypeOK'
    <2>1. CASE Accept(r)
      BY <2>1 DEF Accept, Move, main, key
    <2>2. CASE Allow(r) \/ Deny(r) \/ FailOpenCounted(r)
      BY <2>2 DEF Allow, Deny, FailOpenCounted, Increment, AtMost, Move, main
    <2>3. CASE FailOpen(r) \/ Answer(r)
      BY <2>3 DEF FailOpen, Answer, Move, main, key
    <2>4. CASE Acquire(r) \/ Release(r) \/ Panic(r)
      BY <2>4 DEF Acquire, Release, Panic, Move, main, key
    <2> QED
      BY <1>3, <2>1, <2>2, <2>3, <2>4 DEF Handle
  <1>4. CASE Tick
    BY <1>4 DEF Tick, main, work
  <1>5. CASE UNCHANGED vars
    BY <1>5 DEF vars, main, work, key
  <1> QED
    BY <1>1, <1>2, <1>3, <1>4, <1>5 DEF Next

\* The steps that touch the counter.
LEMMA CounterSteps ==
  ASSUME [Next]_vars
  PROVE  \/ UNCHANGED key
         \/ \E r \in Requests : Allow(r) \/ Deny(r) \/ FailOpenCounted(r)
         \/ Tick
  BY DEF Next, Main, Handle, Start, Kill, Down, Connect, ConnectGivesUp,
     ConnectCache, StorageFails, Serve, Listen, ListenFails, Signal, Return,
     SelectError, SelectSignal, Drained, DrainTimeout, ClosePool, Exit, Accept,
     FailOpen, Acquire, Release, Panic, Answer, vars

LEMMA CountStep == ServerTypeOK /\ Counted /\ [Next]_vars => Counted'
  <1> SUFFICES ASSUME ServerTypeOK, Counted, [Next]_vars
               PROVE  Counted'
    OBVIOUS
  <1> USE ServerAssumption DEF ServerTypeOK, Counted, AtMost
  <1>1. CASE UNCHANGED key
    BY <1>1 DEF key
  <1>2. ASSUME NEW r \in Requests, Allow(r) \/ Deny(r) \/ FailOpenCounted(r)
        PROVE  Counted'
    BY <1>2 DEF Allow, Deny, FailOpenCounted, Increment
  <1>3. CASE Tick
    BY <1>3 DEF Tick
  <1> QED
    BY <1>1, <1>2, <1>3, CounterSteps

LEMMA OrderStep == ServerTypeOK /\ Ordered /\ [Next]_vars => Ordered'
  <1> SUFFICES ASSUME ServerTypeOK, Ordered, [Next]_vars
               PROVE  Ordered'
    OBVIOUS
  <1> USE DEF ServerTypeOK, Ordered, InFlight
  <1>1. ASSUME NEW code, Down(code), code = "ok" => InFlight = {}
        PROVE  Ordered'
    BY <1>1 DEF Down
  <1>2. CASE ConnectGivesUp \/ StorageFails \/ Kill \/ Exit
    BY <1>1, <1>2 DEF ConnectGivesUp, StorageFails, Kill, Exit
  <1>3. CASE Start \/ Connect \/ ConnectCache \/ Serve
    BY <1>3 DEF Start, Connect, ConnectCache, Serve, work
  <1>4. CASE Listen \/ ListenFails \/ Signal \/ SelectSignal \/ ClosePool
    BY <1>4 DEF Listen, ListenFails, Signal, SelectSignal, ClosePool, work
  <1>5. CASE SelectError \/ Drained \/ DrainTimeout
    BY <1>5 DEF SelectError, Drained, DrainTimeout, Return, work
  <1>6. ASSUME NEW r \in Requests, Accept(r) \/ Handle(r)
        PROVE  Ordered'
    <2>1. UNCHANGED main
      BY <1>6 DEF Accept, Handle, Allow, Deny, FailOpen, FailOpenCounted, Acquire,
         Release, Panic, Answer
    <2>2. CASE proc = "serving"
      BY <2>1, <2>2 DEF main
    <2>3. CASE Handle(r)
      <3>1. req[r] # "idle" /\ \A s \in Requests \ {r} : req'[s] = req[s]
        BY <2>3 DEF Handle, Allow, Deny, FailOpen, FailOpenCounted, Acquire,
           Release, Panic, Answer, Move
      <3> QED
        BY <2>1, <3>1 DEF main
    <2> QED
      BY <1>6, <2>2, <2>3 DEF Accept
  <1>7. CASE Tick \/ UNCHANGED vars
    BY <1>7 DEF Tick, vars, main, work
  <1> QED
    BY <1>2, <1>3, <1>4, <1>5, <1>6, <1>7 DEF Next, Main

LEMMA ServerStep == ServerInv /\ [Next]_vars => ServerInv'
  BY TypeStep, CountStep, OrderStep DEF ServerInv

LEMMA ServerInvariance == Spec => []ServerInv
  BY ServerInit, ServerStep, PTL DEF Spec

-----------------------------------------------------------------------------

\* Type correctness of the server.
THEOREM ServerTyped == Spec => []ServerTypeOK
  BY ServerInvariance, PTL DEF ServerInv

\* No overlap of requests, error of Redis or restart makes the counter let
\* more than the limit through in one window.
THEOREM LimitIsKept == Spec => []AdmittedWithinLimit
  <1>1. ServerInv => AdmittedWithinLimit
    BY ServerAssumption
    DEF ServerInv, ServerTypeOK, Counted, AdmittedWithinLimit, AtMost
  <1> QED
    BY ServerInvariance, <1>1, PTL

\* A counter always has an expiry under way (INCR and EXPIRE in one
\* transaction, ratelimit.go).
THEOREM CountersExpire == Spec => [](count > 0 => ttl > 0)
  <1>1. ServerInv => (count > 0 => ttl > 0)
    BY DEF ServerInv, Counted
  <1> QED
    BY ServerInvariance, <1>1, PTL

RunsOut == ttl > 0 => /\ ttl' \in {ttl, ttl - 1}
                      /\ ttl' = 0 => count' = 0

\* No request, admitted or refused, gives a window more time, and the counter is
\* gone with its window (EXPIRE NX in ratelimit.go): a client that keeps trying is
\* let in again after Window ticks.  With CountersExpire this is what
\* FullWindowEnds says without the fairness.
THEOREM WindowsRunOut == Spec => [][RunsOut]_vars
  <1>1. ServerInv /\ [Next]_vars => [RunsOut]_vars
    <2> SUFFICES ASSUME ServerInv, Next, ttl > 0
                 PROVE  ttl' \in {ttl, ttl - 1} /\ (ttl' = 0 => count' = 0)
      BY DEF RunsOut
    <2> USE ServerAssumption DEF ServerInv, ServerTypeOK
    <2>1. CASE UNCHANGED key
      BY <2>1 DEF key
    <2>2. ASSUME NEW r \in Requests, Allow(r) \/ Deny(r) \/ FailOpenCounted(r)
          PROVE  ttl' = ttl
      BY <2>2 DEF Allow, Deny, FailOpenCounted, Increment
    <2>3. CASE Tick
      BY <2>3 DEF Tick
    <2> QED
      BY <2>1, <2>2, <2>3, CounterSteps
  <1> QED
    BY ServerInvariance, <1>1, PTL DEF Spec

\* Nobody is refused before the limit went through.
THEOREM RefusalsAreEarned == Spec => RefusalIsEarned
  <1>1. ServerInv /\ [Next]_vars => [RefusesEarned]_vars
    <2> SUFFICES ASSUME ServerInv, [Next]_vars, NEW r \in Requests,
                        req[r] = "limit", req'[r] = "refused"
                 PROVE  passed = Limit
      BY DEF RefusesEarned
    <2> USE DEF ServerInv, ServerTypeOK
    <2>1. Deny(r)
      <3>1. ASSUME NEW s \in Requests, Accept(s) \/ Handle(s)
            PROVE  Deny(r)
        BY <3>1 DEF Accept, Handle, Allow, Deny, FailOpen, FailOpenCounted,
           Acquire, Release, Panic, Answer, Move
      <3>2. ~ UNCHANGED req
        OBVIOUS
      <3>3. UNCHANGED req \/ (req' = [s \in Requests |-> "idle"])
            \/ \E s \in Requests : Accept(s) \/ Handle(s)
        BY DEF Next, Main, Start, Kill, Down, Connect, ConnectGivesUp,
           ConnectCache, StorageFails, Serve, Listen, ListenFails, Signal, Return,
           SelectError, SelectSignal, Drained, DrainTimeout, ClosePool, Exit, Tick,
           vars, work
      <3> QED
        BY <3>1, <3>2, <3>3
    <2> QED
      BY <2>1, ServerAssumption DEF Deny, Counted, AtMost
  <1> QED
    BY ServerInvariance, <1>1, PTL DEF Spec, RefusalIsEarned

\* A shutdown that reports success has answered every request.
THEOREM CleanExitsServeAll == Spec => []CleanExitServedAll
  <1>1. ServerInv => CleanExitServedAll
    BY DEF ServerInv, Ordered, CleanExitServedAll
  <1> QED
    BY ServerInvariance, <1>1, PTL

\* The pool outlives the requests of every graceful shutdown.
THEOREM PoolOutlivesRequests == Spec => []PoolOpenWhileServing
  <1>1. ServerInv => PoolOpenWhileServing
    BY DEF ServerInv, ServerTypeOK, Ordered, PoolOpenWhileServing
  <1> QED
    BY ServerInvariance, <1>1, PTL

-----------------------------------------------------------------------------

\* How far the main goroutine is from its end.
Way ==
    CASE proc = "down"       -> 0
      [] proc = "closing"    -> IF pool = "closed" THEN 1 ELSE 2
      [] proc = "draining"   -> 3
      [] proc = "serving"    -> 4
      [] proc = "wiring"     -> 5
      [] proc = "caching"    -> 6
      [] proc = "connecting" -> 7

Approaches ==
    /\ UNCHANGED <<proc, pool>> \/ Way' < Way
    /\ pool = "closed" => held' \subseteq held

GoesDown == signal => proc' = "down" \/ (signal' /\ Approaches)

\* The signal is gone with the process.
NoSignalWhenDown == proc = "down" => ~ signal

LEMMA SignalStep ==
  ASSUME Next
  PROVE  /\ NoSignalWhenDown => NoSignalWhenDown'
         /\ signal => proc' = "down" \/ signal'
  <1> USE DEF NoSignalWhenDown
  <1>1. CASE ConnectGivesUp \/ StorageFails \/ Kill \/ Exit
    <2>1. proc' = "down" /\ ~ signal'
      BY <1>1, Zenon DEF ConnectGivesUp, StorageFails, Kill, Exit, Down
    <2> QED
      BY <2>1
  <1>2. CASE Signal
    <2>1. proc # "down" /\ proc' = proc /\ signal'
      BY <1>2, Zenon DEF Signal
    <2> QED
      BY <2>1
  <1>3. CASE Start
    <2>1. proc' = "connecting" /\ signal' = signal
      BY <1>3 DEF Start
    <2> QED
      BY <2>1
  <1>4. CASE \/ Connect \/ ConnectCache \/ Serve \/ Listen \/ ListenFails
             \/ SelectError \/ SelectSignal \/ Drained \/ DrainTimeout \/ ClosePool
    <2>1. proc' # "down" /\ signal' = signal
      BY <1>4, Zenon DEF Connect, ConnectCache, Serve, Listen, ListenFails, SelectError,
         SelectSignal, Drained, DrainTimeout, Return, ClosePool
    <2> QED
      BY <2>1
  <1>5. CASE Tick \/ \E r \in Requests : Accept(r) \/ Handle(r)
    <2>1. UNCHANGED main
      BY <1>5 DEF Tick, Accept, Handle, Allow, Deny, FailOpen, FailOpenCounted, Acquire,
         Release, Panic, Answer
    <2>2. proc' = proc /\ signal' = signal
      BY <2>1, Zenon DEF main
    <2> QED
      BY <2>2
  <1> QED
    BY <1>1, <1>2, <1>3, <1>4, <1>5, Zenon DEF Next, Main

LEMMA ApproachStep ==
  ASSUME Next, proc # "down"
  PROVE  proc' = "down" \/ Approaches
  <1> USE DEF Approaches
  <1>1. CASE ConnectGivesUp \/ StorageFails \/ Kill \/ Exit
    BY <1>1 DEF ConnectGivesUp, StorageFails, Kill, Exit, Down
  <1>2. CASE Connect \/ ConnectCache \/ Serve \/ SelectSignal
    <2>1. UNCHANGED <<pool, held>>
      BY <1>2 DEF Connect, ConnectCache, Serve, SelectSignal, work
    <2>2. <<proc, proc'>> \in {<<"connecting", "caching">>, <<"caching", "wiring">>,
                              <<"wiring", "serving">>, <<"serving", "draining">>}
      BY <1>2 DEF Connect, ConnectCache, Serve, SelectSignal
    <2> QED
      BY <2>1, <2>2 DEF Way
  <1>6. CASE ClosePool
    BY <1>6 DEF ClosePool, Way
  <1>3. CASE SelectError \/ Drained \/ DrainTimeout
    BY <1>3 DEF SelectError, Drained, DrainTimeout, Return, Way, work
  <1>4. CASE Listen \/ ListenFails \/ Signal \/ Tick
    BY <1>4 DEF Listen, ListenFails, Signal, Tick, main, work
  <1>5. ASSUME NEW r \in Requests, Accept(r) \/ Handle(r)
        PROVE  Approaches
    BY <1>5 DEF Accept, Handle, Allow, Deny, FailOpen, FailOpenCounted, Acquire, Release,
       Panic, Answer, main
  <1> QED
    BY <1>1, <1>2, <1>3, <1>4, <1>5, <1>6 DEF Next, Main, Start

\* A signal is not forgotten before the process has ended: from then on run only
\* comes nearer to its return, and once App.Close has closed the pool nobody
\* borrows a connection that it waits for (main.go, pool.Close).  This is what
\* SignalEndsProcess says without the fairness, for any number of requests.
THEOREM ShutdownsAdvance == Spec => [][GoesDown]_vars
  <1>1. Init => NoSignalWhenDown
    BY DEF Init, NoSignalWhenDown
  <1>2. NoSignalWhenDown /\ [Next]_vars => NoSignalWhenDown'
    <2>1. CASE UNCHANGED vars
      <3>1. proc' = proc /\ signal' = signal
        BY <2>1, Zenon DEF vars, main
      <3> QED
        BY <3>1 DEF NoSignalWhenDown
    <2> QED
      BY <2>1, SignalStep
  <1>3. NoSignalWhenDown /\ [Next]_vars => [GoesDown]_vars
    <2> SUFFICES ASSUME NoSignalWhenDown, Next, signal
                 PROVE  proc' = "down" \/ (signal' /\ Approaches)
      BY DEF GoesDown
    <2> QED
      BY SignalStep, ApproachStep, Zenon DEF NoSignalWhenDown
  <1> QED
    BY <1>1, <1>2, <1>3, PTL DEF Spec

=============================================================================
