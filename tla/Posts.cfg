\* Two accounts (one without a publisher), one project, one post, two post
\* requests and two team operations, all of which overlap: an edit or a deletion
\* meets another of the same post, and changes of the team between its check and
\* its write.
SPECIFICATION Spec
CONSTANTS
    Users = {u1, u2}
    Legacy = {u2}
    Projects = {p1}
    Slugs = {s1}
    TeamRequests = {t1, t2}
    PostRequests = {r1, r2}
    MaxPosts = 1
    None = None
SYMMETRY RequestSymmetry
INVARIANTS
    TypeOK
    OwnerLeadsTeam
    ProjectIsWhole
    PublisherWasEntitled
PROPERTY ChangedByItsManagers
CHECK_DEADLOCK FALSE
