\* Three requests and two connections; two requests a window, which lasts two
\* ticks.
SPECIFICATION FairSpec
CONSTANTS
    Requests = {r1, r2, r3}
    Limit = 2
    Window = 2
    Conns = 2
INVARIANTS
    ServerTypeOK
    AdmittedWithinLimit
    CleanExitServedAll
    PoolOpenWhileServing
PROPERTIES
    RefusalIsEarned
    SignalEndsProcess
    FullWindowEnds
