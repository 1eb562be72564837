------------------------------ MODULE Threads -------------------------------
(***************************************************************************)
(* The discussion tree of a post (internal/threads): the rows of           *)
(* ThreadPosts in their order, the tree that Build makes of them in one    *)
(* pass, and the numbers that Stats reports.                               *)
(***************************************************************************)
EXTENDS Posts, SequencesExt

\* The depth column of the recursive query.
DepthBelow(q) ==
    LET depth[s \in ThreadPosts(q)] == IF s = q THEN 0 ELSE depth[post[s].parent] + 1
    IN  depth

\* Mutant: the rows arrive newest first.
NewestFirst(q) == SetToSortSeq(ThreadPosts(q), >)

\* ORDER BY depth, created_at: rows of one depth are ordered by their ids here.
\* The place of a row is one after those of the rows before it.
ThreadEntries(q) ==
    LET rows      == ThreadPosts(q)
        depth     == DepthBelow(q)
        before(s) == {t \in rows : \/ depth[t] < depth[s]
                                   \/ depth[t] = depth[s] /\ t < s}
    IN  [i \in 1..Cardinality(rows) |-> CHOOSE s \in rows : Cardinality(before(s)) = i - 1]

\* Build: every entry gets a node, then one pass hangs each node but the root
\* under its parent, or under the root when the parent is missing, and sets its
\* depth to one more than what the parent's is by then.  (The comment of Build
\* says that the input may arrive in any order.  Only its shape does not depend on
\* the order: the depths are right when parents come first.)
Build(q, entries) ==
    LET nodes   == {q} \cup ToSet(entries)
        above   == [s \in nodes |-> IF post[s].parent \in nodes
                                    THEN post[s].parent ELSE q]
        place(depth, s) == IF s = q THEN depth ELSE [depth EXCEPT ![s] = depth[above[s]] + 1]
    IN  [root     |-> q,
         depth    |-> FoldLeft(place, [s \in nodes |-> 0], entries),
         children |-> [n \in nodes |->
                          {s \in ToSet(entries) \ {q} : above[s] = n}]]

\* Stats: the number of nodes below and at the root, and the longest way down.
Stats(tree) ==
    LET below[n \in DOMAIN tree.children] ==
            [count |-> 1 + MapThenSumSet(LAMBDA c : below[c].count, tree.children[n]),
             depth |-> Max({0} \cup {below[c].depth + 1 : c \in tree.children[n]})]
    IN  below[tree.root]

\* The entry of the root is taken out before Build, which would skip it as well.
Thread(q) == Build(q, ThreadEntries(q))

-----------------------------------------------------------------------------

\* The tree that is shown for any live post, a root or a reply, holds what
\* ThreadPosts found at its true depth, the number of posts it answers on the
\* way up to the top of the tree, and its totals are those of the tree, although
\* Build reads depths that it is still filling in.  (Asked between requests: a request
\* in flight can always fail and leave the same rows, so no thread is missed.)
ThreadIsShownWhole ==
    (\A r \in PostRequests : job[r] = JobIdle) =>
    LET shown == [q \in Posts |-> IF Live(q) THEN ThreadPosts(q) ELSE {}] IN
    \A q \in Posts : Live(q) =>
        LET tree     == Thread(q)
            above(s) == {t \in shown[q] \ {s} : s \in shown[t]}
            depths   == {Cardinality(above(s)) : s \in shown[q]}
        IN  /\ \A s \in shown[q] : tree.depth[s] = Cardinality(above(s))
            /\ Stats(tree) = [count |-> Cardinality(shown[q]), depth |-> Max(depths)]

\* A post and all that it answers, directly or not.
Answered(s) ==
    {t \in Posts : \A D \in SUBSET Posts :
        s \in D /\ (\A c \in D : post[c].parent \in Posts => post[c].parent \in D) => t \in D}

\* What the thread of a live root leaves out: a live reply that carries it as
\* its root is missing exactly when one of the posts that the reply answers was
\* deleted, at any depth.
HiddenOnlyBelowDeleted ==
    \A q, s \in Posts : Live(q) /\ Live(s) /\ post[s].root = q =>
        (s \in ThreadPosts(q) <=> \A t \in Answered(s) : Live(t))

=============================================================================
