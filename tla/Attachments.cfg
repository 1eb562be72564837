\* Two accounts, two files, one post, two updates of it in flight.
SPECIFICATION Spec
CONSTANTS
    Users = {u1, u2}
    Files = {f1, f2}
    Entries = {p1}
    Calls = {r1, r2}
    None = None
SYMMETRY AllSymmetry
INVARIANTS
    TypeOK
    AttachedIsUploaded
PROPERTIES
    UpdateIsWhole
    BodyEditsReachLivePosts
CHECK_DEADLOCK FALSE
