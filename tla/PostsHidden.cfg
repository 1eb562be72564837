\* A reply under a deleted reply.
SPECIFICATION Spec
CONSTANTS
    Users = {u1}
    Legacy = {}
    Projects = {p1}
    Slugs = {s1}
    TeamRequests = {t1}
    PostRequests = {r1}
    MaxPosts = 3
    None = None
INVARIANT LiveDescendantsAreShown
CHECK_DEADLOCK FALSE
