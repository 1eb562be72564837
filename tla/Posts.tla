------------------------------- MODULE Posts --------------------------------
(***************************************************************************)
(* Posts and threads (internal/posts): posts, replies, edits, soft         *)
(* deletion and the cascade of a deleted project.  The service loads and   *)
(* authorises in statements of their own and writes in a later transaction *)
(* (WithTx), which is one step: its foreign keys and conditions decide     *)
(* whether it commits.  Attachments have a module of their own.            *)
(***************************************************************************)
EXTENDS Teams, Naturals

CONSTANTS
    MaxPosts,       \* the bound on posts: every id ever drawn
    PostRequests    \* post operations that may be in flight together

ASSUME PostsAssumption == MaxPosts \in Nat /\ None \notin 1..MaxPosts

VARIABLES
    post,           \* the posts table
    job             \* the post operations in flight

vars == <<teamVars, post, job>>

\* Ids in the order in which the rows are inserted.
Posts == 1..MaxPosts
Ref == Posts \cup {None}

\* A purged row was removed by a cascade; its fields are kept as history.
\* Of the body it only matters whether it was edited since the creation.
Row == [state     : {"absent", "live", "deleted", "purged"},
        author    : Users \cup {None},
        publisher : Identities \cup {None},
        parent    : Ref,
        root      : Ref,
        replies   : Nat,
        edited    : BOOLEAN]

Absent == [state |-> "absent", author |-> None, publisher |-> None,
           parent |-> None, root |-> None, replies |-> 0, edited |-> FALSE]

JobIdle == [pc |-> "idle", op |-> "none", caller |-> None, post |-> None,
            root |-> None, publisher |-> None]

Job == [pc        : {"idle", "resolve", "write"},
        op        : {"none", "create", "reply", "update", "delete"},
        caller    : Users \cup {None},
        post      : Ref,
        root      : Ref,
        publisher : Identities \cup {None}]

Init ==
    /\ TeamsInit
    /\ post = [q \in Posts |-> Absent]
    /\ job  = [r \in PostRequests |-> JobIdle]

Live(q) == post[q].state = "live"
Stored(q) == post[q].state \in {"live", "deleted"}

\* Mutant: the root of a reply is its parent.
ParentAsRoot(q) == q

\* The thread a reply to q belongs to.
RootFor(q) == IF post[q].root # None THEN post[q].root ELSE q

\* requireManage: the author, or whoever manages the publishing project.
MayManage(u, q) ==
    \/ post[q].author = u
    \/ /\ post[q].publisher \in Projects
       /\ CanManagePostsFor(post[q].publisher, u)

JobDone(r) == job' = [job EXCEPT ![r] = JobIdle]

(***************************************************************************)
(* Create and Reply.                                                       *)
(***************************************************************************)
StartCreate(r, u) ==
    /\ job[r].pc = "idle"
    /\ job' = [job EXCEPT ![r] = [JobIdle EXCEPT !.pc = "resolve",
                                     !.op = "create", !.caller = u]]
    /\ UNCHANGED <<teamVars, post>>

\* ByID finds the parent alive and the reply takes the root from it.
StartReply(r, u, q) ==
    /\ job[r].pc = "idle"
    /\ Live(q)
    /\ job' = [job EXCEPT ![r] = [JobIdle EXCEPT !.pc = "resolve",
                                     !.op = "reply", !.caller = u,
                                     !.post = q, !.root = RootFor(q)]]
    /\ UNCHANGED <<teamVars, post>>

\* resolvePublisher without a reference: the personal publisher of the
\* caller, inserted when it is missing (a statement of its own).
ResolveSelf(r) ==
    /\ job[r].pc = "resolve"
    /\ EnsureForUser(job[r].caller)
    /\ job' = [job EXCEPT ![r].pc = "write", ![r].publisher = job[r].caller]
    /\ UNCHANGED post

\* Mutant: authorize is not called.
ResolveAnyProject(r, p) ==
    /\ job[r].pc = "resolve"
    /\ p \in pubs
    /\ job' = [job EXCEPT ![r].pc = "write", ![r].publisher = p]
    /\ UNCHANGED <<teamVars, post>>

\* resolvePublisher with a handle or an id, then authorize.
ResolveProject(r, p) ==
    /\ job[r].pc = "resolve"
    /\ p \in pubs
    /\ CanPostAs(p, job[r].caller)
    /\ job' = [job EXCEPT ![r].pc = "write", ![r].publisher = p]
    /\ UNCHANGED <<teamVars, post>>

\* Ids are drawn in order.
NextId(n) == post[n].state = "absent" /\ \A m \in Posts : m < n => post[m].state # "absent"

NewRow(r) ==
    [state |-> "live", author |-> job[r].caller, publisher |-> job[r].publisher,
     parent |-> job[r].post, root |-> job[r].root, replies |-> 0, edited |-> FALSE]

\* persist: the foreign key on the publisher is the only check left.
CommitCreate(r) ==
    /\ job[r].pc = "write" /\ job[r].op = "create"
    /\ job[r].publisher \in pubs
    /\ \E n \in Posts : NextId(n) /\ post' = [post EXCEPT ![n] = NewRow(r)]
    /\ JobDone(r)
    /\ UNCHANGED teamVars

\* Mutant: the counter of the thread goes up, not that of the parent.
CountAtRoot(r) ==
    /\ job[r].pc = "write" /\ job[r].op = "reply"
    /\ job[r].publisher \in pubs
    /\ Stored(job[r].post) /\ Stored(job[r].root)
    /\ \E n \in Posts :
          /\ NextId(n)
          /\ post' = [post EXCEPT ![n] = NewRow(r),
                                  ![job[r].root].replies = @ + 1]
    /\ JobDone(r)
    /\ UNCHANGED teamVars

\* The foreign keys need the rows of the parent, the root and the publisher,
\* alive or not; the counter of the parent goes up in the same transaction.
CommitReply(r) ==
    /\ job[r].pc = "write" /\ job[r].op = "reply"
    /\ job[r].publisher \in pubs
    /\ Stored(job[r].post) /\ Stored(job[r].root)
    /\ \E n \in Posts :
          /\ NextId(n)
          /\ post' = [post EXCEPT ![n] = NewRow(r),
                                  ![job[r].post].replies = @ + 1]
    /\ JobDone(r)
    /\ UNCHANGED teamVars

(***************************************************************************)
(* Update and Delete: ByID, requireManage, then the write.  Who manages a  *)
(* post changes only when it is purged, so the two reads are one step.     *)
(***************************************************************************)
StartManage(r, op, u, q) ==
    /\ job[r].pc = "idle"
    /\ Live(q) /\ MayManage(u, q)
    /\ job' = [job EXCEPT ![r] = [JobIdle EXCEPT !.pc = "write", !.op = op,
                                     !.caller = u, !.post = q]]
    /\ UNCHANGED <<teamVars, post>>

\* Mutant: UpdateBody does not ask for deleted_at IS NULL.
UpdateDeleted(r) ==
    /\ job[r].pc = "write" /\ job[r].op = "update"
    /\ post' = IF Stored(job[r].post)
               THEN [post EXCEPT ![job[r].post].edited = TRUE]
               ELSE post
    /\ JobDone(r)
    /\ UNCHANGED teamVars

\* UpdateBody skips a post deleted since, and the transaction answers 404.
CommitUpdate(r) ==
    /\ job[r].pc = "write" /\ job[r].op = "update"
    /\ post' = IF Live(job[r].post)
               THEN [post EXCEPT ![job[r].post].edited = TRUE]
               ELSE post
    /\ JobDone(r)
    /\ UNCHANGED teamVars

\* Mutant: a deletion takes the reply back from the deleted post's counter.
DeleteAndDecrement(r) ==
    /\ job[r].pc = "write" /\ job[r].op = "delete"
    /\ post' = IF Live(job[r].post)
               THEN [post EXCEPT ![job[r].post].state = "deleted",
                                 ![job[r].post].replies = @ - 1]
               ELSE post
    /\ JobDone(r)
    /\ UNCHANGED teamVars

CommitDelete(r) ==
    /\ job[r].pc = "write" /\ job[r].op = "delete"
    /\ post' = IF Live(job[r].post)
               THEN [post EXCEPT ![job[r].post].state = "deleted"]
               ELSE post
    /\ JobDone(r)
    /\ UNCHANGED teamVars

\* A refusal, a violated foreign key, a failed statement, the timeout: the
\* transaction is rolled back.
JobFail(r) ==
    /\ job[r].pc # "idle"
    /\ JobDone(r)
    /\ UNCHANGED <<teamVars, post>>

(***************************************************************************)
(* The cascade of a project: its publisher's posts, and every post whose   *)
(* parent or root goes, whoever published it.                              *)
(***************************************************************************)
Cascades(D) ==
    \A q \in Posts : Stored(q) /\ (post[q].parent \in D \/ post[q].root \in D)
                        => q \in D

PostsOf(p) == {q \in Posts : Stored(q) /\ post[q].publisher = p}

\* Mutant: replies have no foreign key to the posts above them.
DoomedAlone(p) == PostsOf(p)

Doomed(p) ==
    {q \in Posts :
        /\ Stored(q)
        /\ \A D \in SUBSET Posts : PostsOf(p) \subseteq D /\ Cascades(D) => q \in D}

PurgeProject(r) ==
    /\ DeleteProject(r)
    /\ LET doomed == Doomed(team[r].project) IN
       post' = [q \in Posts |-> IF q \in doomed
                                THEN [post[q] EXCEPT !.state = "purged"]
                                ELSE post[q]]
    /\ UNCHANGED job

Begin(r) ==
    \E u \in Users :
       \/ StartCreate(r, u)
       \/ \E q \in Posts : \/ StartReply(r, u, q)
                           \/ StartManage(r, "update", u, q)
                           \/ StartManage(r, "delete", u, q)

Resolve(r) == ResolveSelf(r) \/ \E p \in Projects : ResolveProject(r, p)

Commit(r) ==
    CommitCreate(r) \/ CommitReply(r) \/ CommitUpdate(r) \/ CommitDelete(r)

Next ==
    \/ TeamStep /\ UNCHANGED <<post, job>>
    \/ \E r \in TeamRequests : PurgeProject(r)
    \/ \E r \in PostRequests : Begin(r) \/ Resolve(r) \/ Commit(r) \/ JobFail(r)

Spec == Init /\ [][Next]_vars

-----------------------------------------------------------------------------

\* The tables and the operations in flight are typed.
TypeOK ==
    /\ TeamsTypeOK
    /\ post \in [Posts -> Row]
    /\ job \in [PostRequests -> Job]

\* What a stored post refers to is stored: its publisher, its parent and its
\* root, whatever was deleted while the request was on its way.
ReferencesResolve ==
    \A q \in Posts : Stored(q) =>
        /\ post[q].publisher \in pubs
        /\ post[q].parent # None => Stored(post[q].parent)
        /\ post[q].root # None => Stored(post[q].root)

\* Replies form trees, and every reply carries the top of its tree as root_id:
\* the root that was read before the transaction is the root of the parent.
ThreadsAreTrees ==
    \A q \in Posts : Stored(q) =>
        /\ (post[q].parent = None) <=> (post[q].root = None)
        /\ post[q].parent # None =>
              /\ post[q].parent < q
              /\ post[q].root = RootFor(post[q].parent)
              /\ post[post[q].root].root = None

\* reply_count is the number of replies ever committed under a post: no
\* increment is lost, and deleting a reply does not take it back.
ReplyCountIsExact ==
    \A q \in Posts : Stored(q) =>
        post[q].replies = Cardinality({s \in Posts : post[s].parent = q})

\* Nobody publishes as someone else, nor as a project whose team they never
\* were on.  (They may have left it since authorize.)
PublisherWasEntitled ==
    \A q \in Posts : Stored(q) =>
        \/ post[q].publisher = post[q].author
        \/ /\ post[q].publisher \in Projects
           /\ post[q].author \in joined[post[q].publisher]

\* The request r ends by doing op to q, for one who may still manage q.
Fulfils(r, op, q) ==
    /\ job[r].pc = "write" /\ job[r].op = op /\ job[r].post = q
    /\ job'[r] = JobIdle
    /\ MayManage(job[r].caller, q)

\* A post is edited, or deleted, by a request of its author or of the owner of
\* the publishing project, still so at the instant of the write, and only while
\* it is live: an edit that raced with the deletion of the post writes nothing.
ChangedByItsManagers ==
    [][\A q \in Posts : post[q].state # "absent" =>
          /\ post'[q].edited # post[q].edited =>
                Live(q) /\ \E r \in PostRequests : Fulfils(r, "update", q)
          /\ post'[q].state = "deleted" /\ post[q].state # "deleted" =>
                Live(q) /\ \E r \in PostRequests : Fulfils(r, "delete", q)]_vars

-----------------------------------------------------------------------------
(***************************************************************************)
(* What the comments say and the code does not do.                         *)
(***************************************************************************)

\* Mutant: the recursion follows deleted children as well.
HoldsChildren(D) ==
    \A c \in Posts : Stored(c) /\ post[c].parent \in D => c \in D

\* The posts ThreadPosts reaches from a live root: the recursion follows live
\* children only.
HoldsLiveChildren(D) ==
    \A c \in Posts : Live(c) /\ post[c].parent \in D => c \in D

ThreadPosts(q) ==
    {s \in Posts :
        \A D \in SUBSET Posts : q \in D /\ HoldsLiveChildren(D) => s \in D}

\* "ThreadPosts returns the root post and every live descendant": all the live
\* posts of a thread are shown when its root is.
LiveDescendantsAreShown ==
    \A q, s \in Posts :
        Live(q) /\ Live(s) /\ post[s].root = q => s \in ThreadPosts(q)

=============================================================================
