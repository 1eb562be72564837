\* One account (without a publisher), one project, three posts, two post requests and one team
\* operation in flight: threads of depth two and their cascades.
SPECIFICATION Spec
CONSTANTS
    Users = {u1}
    Legacy = {u1}
    Projects = {p1}
    Slugs = {s1}
    TeamRequests = {t1}
    PostRequests = {r1, r2}
    MaxPosts = 3
    None = None
SYMMETRY RequestSymmetry
INVARIANTS
    ReferencesResolve
    ThreadsAreTrees
    ReplyCountIsExact
    ThreadIsShownWhole
    HiddenOnlyBelowDeleted
CHECK_DEADLOCK FALSE
