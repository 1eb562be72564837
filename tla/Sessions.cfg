\* Two overlapping requests, two accounts, three sessions.
SPECIFICATION Spec
CONSTANTS
    Users = {u1, u2}
    Tokens = {t1, t2, t3}
    Requests = {r1, r2}
    None = None
SYMMETRY Symmetry
INVARIANTS
    TypeOK
    RotationIsWhole
    RotationKeepsHolder
    SignupIsWhole
    LogoutIsFinal
PROPERTIES
    RevokedForever
    ImplementsLedger
