\* A browser with two tabs whose requests are Route Handlers, no loss.
SPECIFICATION WebSpec
CONSTANTS
    Users = {u1}
    Tokens = {t1, t2, t3, t4}
    Requests = {w1, w2}
    None = None
    Kinds = {"proxy", "login", "logout"}
    Lossy = FALSE
SYMMETRY Symmetry
INVARIANTS
    WebTypeOK
    JarIsRepaired
    PairInFlightIsOpen
CONSTRAINT OneLogin
