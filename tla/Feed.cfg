\* A thread and two drafts of one composer, which may both be on their way;
\* two instants; one reader whose pages hold one post or two.
SPECIFICATION Spec
CONSTANTS
    Posts = {1, 2, 3}
    Thread = 2
    Composers = {c1}
    Readers = {v1}
    DefaultLimit = 1
    MaxLimit = 2
    MaxTime = 1
    None = None
INVARIANTS
    FeedTypeOK
    WalkDescends
    NothingSkipped
    PageIsCapped
    DraftIsPublishedOnce
    ClearedIsPublished
PROPERTY ReadsAsList
CHECK_DEADLOCK FALSE
