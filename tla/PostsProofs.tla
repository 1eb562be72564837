----------------------------- MODULE PostsProofs ----------------------------
(***************************************************************************)
(* Proofs about Posts, for any accounts, projects, team operations, post   *)
(* requests and number of posts.                                           *)
(***************************************************************************)
EXTENDS Posts, TeamsProofs, FiniteSetTheorems

Drawn(q) == post[q].state # "absent"

Replies(q) == {s \in Posts : post[s].parent = q}

\* Ids are drawn in order, a row that was not drawn is blank, and no row that
\* ever existed answers it.
IdsInOrder ==
    /\ \A m, n \in Posts : m < n /\ Drawn(n) => Drawn(m)
    /\ \A q \in Posts : ~Drawn(q) => post[q] = Absent
    /\ \A q \in Posts : post[q].parent # None => Drawn(post[q].parent)

\* The counter of every row, purged or not drawn included.
CountsAreExact == \A q \in Posts : post[q].replies = Cardinality(Replies(q))

\* Who manages a post: its author or the owner of the publishing project.
Manages(u, q) ==
    post[q].author = u \/ (post[q].publisher \in Projects /\ owner[post[q].publisher] = u)

\* What a reply has read of its parent is still so.
ReplyIsSound(j) ==
    /\ j.post \in Posts /\ Drawn(j.post)
    /\ j.root \in Posts /\ Drawn(j.root)
    /\ j.root = RootFor(j.post)
    /\ post[j.root].root = None

\* Whom an operation publishes as was checked, and who was on a team was.
PublisherIsSound(j) ==
    \/ j.publisher = j.caller
    \/ j.publisher \in Projects /\ j.caller \in joined[j.publisher]

\* An update or a deletion is about a post that its caller manages as long as
\* it is live.
ManageIsSound(j) ==
    /\ j.pc = "write" /\ j.post \in Posts /\ Drawn(j.post)
    /\ Live(j.post) => Manages(j.caller, j.post)

JobIsSound(r) ==
    job[r].pc # "idle" =>
        /\ job[r].caller \in Users
        /\ job[r].op \in {"create", "reply", "update", "delete"}
        /\ job[r].op = "create" => job[r].post = None /\ job[r].root = None
        /\ job[r].op = "reply" => ReplyIsSound(job[r])
        /\ job[r].op \in {"create", "reply"} /\ job[r].pc = "write" => PublisherIsSound(job[r])
        /\ job[r].op \in {"update", "delete"} => ManageIsSound(job[r])

JobsAreSound == \A r \in PostRequests : JobIsSound(r)

\* What the stored rows promise each other.
RowsInv ==
    /\ ReferencesResolve
    /\ ThreadsAreTrees
    /\ PublisherWasEntitled
    /\ IdsInOrder

\* The inductive invariant.
PostsInv == TeamsInv /\ TypeOK /\ RowsInv /\ CountsAreExact /\ JobsAreSound

-----------------------------------------------------------------------------
(***************************************************************************)
(* The tables as a step of the service leaves them.                        *)
(***************************************************************************)

\* A row that was drawn keeps its place in the thread, and no row comes back to life.
RowKept(q) ==
    /\ Drawn(q)'
    /\ post'[q].author = post[q].author
    /\ post'[q].publisher = post[q].publisher
    /\ post'[q].parent = post[q].parent
    /\ post'[q].root = post[q].root
    /\ post'[q].state = "live" => post[q].state = "live"

\* The project that publishes a live post keeps its owner.
OwnerKept(q) ==
    Live(q)' /\ post[q].publisher \in Projects =>
        owner'[post[q].publisher] = owner[post[q].publisher]

RowsKept == \A q \in Posts : Drawn(q) => RowKept(q) /\ OwnerKept(q)

JoinedKept == \A p \in Projects : joined[p] \subseteq joined'[p]

\* Lemma: managing a project's posts is owning the project.
LEMMA ManagersOwn ==
    ASSUME TeamsInv, NEW u \in Users, NEW q \in Posts
    PROVE  MayManage(u, q) <=> Manages(u, q)
<1>1. ASSUME NEW p \in Projects PROVE CanManagePostsFor(p, u) <=> owner[p] = u
  BY IdentityAssumption, <1>1 DEF TeamsInv, TeamsTypeOK, OwnerLeadsTeam, NoAdmins,
     CanManagePostsFor, Exists
<1> QED
  BY <1>1 DEF MayManage, Manages

\* Lemma: what a request has read survives a step that keeps the rows, their
\* owners and the history of the teams.
LEMMA JobKept ==
    ASSUME PostsInv, RowsKept, JoinedKept, NEW r \in PostRequests, job'[r] = job[r]
    PROVE  JobIsSound(r)'
<1> DEFINE j == job[r]
<1>1. SUFFICES ASSUME j.pc # "idle" PROVE JobIsSound(r)'
  BY DEF JobIsSound
<1>2. JobIsSound(r)
  BY DEF PostsInv, JobsAreSound
<1>3. post \in [Posts -> Row] /\ job \in [PostRequests -> Job]
  BY DEF PostsInv, TypeOK
<1>4. ASSUME j.op = "reply" PROVE ReplyIsSound(job[r])'
  <2>1. ReplyIsSound(j)
    BY <1>1, <1>2, <1>4 DEF JobIsSound
  <2>2. RowKept(j.post) /\ RowKept(j.root)
    BY <2>1 DEF ReplyIsSound, RowsKept
  <2> QED
    BY <2>1, <2>2 DEF ReplyIsSound, RowKept, RootFor, Drawn
<1>5. ASSUME j.op \in {"create", "reply"}, j.pc = "write" PROVE PublisherIsSound(job[r])'
  <2>1. PublisherIsSound(j)
    BY <1>1, <1>2, <1>5 DEF JobIsSound
  <2> QED
    BY <2>1 DEF PublisherIsSound, JoinedKept
<1>6. ASSUME j.op \in {"update", "delete"} PROVE ManageIsSound(job[r])'
  <2>1. ManageIsSound(j)
    BY <1>1, <1>2, <1>6 DEF JobIsSound
  <2>2. RowKept(j.post) /\ OwnerKept(j.post)
    BY <2>1 DEF ManageIsSound, RowsKept
  <2> QED
    BY <2>1, <2>2 DEF ManageIsSound, RowKept, OwnerKept, Live, Drawn, Manages
<1> QED
  BY <1>1, <1>2, <1>4, <1>5, <1>6 DEF JobIsSound

\* Lemma: the rows stay sound when only the teams change and nothing a post
\* refers to goes away.
LEMMA SameRowsInv ==
    ASSUME PostsInv, TeamsInv', UNCHANGED post, pubs \subseteq pubs', JoinedKept,
           \A p \in Projects : Exists(p) => owner'[p] = owner[p]
    PROVE  RowsInv' /\ CountsAreExact' /\ RowsKept
<1> USE DEF PostsInv, RowsInv
<1>1. ReferencesResolve' /\ ThreadsAreTrees' /\ IdsInOrder' /\ CountsAreExact'
  BY DEF ReferencesResolve, ThreadsAreTrees, IdsInOrder, CountsAreExact, Stored, RootFor,
     Drawn, Replies
<1>2. PublisherWasEntitled'
  BY DEF PublisherWasEntitled, Stored, JoinedKept
<1>3. ASSUME NEW q \in Posts, Drawn(q) PROVE RowKept(q)
  BY <1>3 DEF RowKept, Drawn
<1>4. ASSUME NEW q \in Posts, Drawn(q) PROVE OwnerKept(q)
  BY DEF OwnerKept, Live, ReferencesResolve, Stored, TeamsInv, ProjectIsWhole
<1> QED
  BY <1>1, <1>2, <1>3, <1>4 DEF RowsKept

\* Lemma: a step of the teams, other than a deletion, takes nothing away that a
\* post or a request relies on.
LEMMA TeamStepKeeps ==
    ASSUME TeamsInv, TeamStep
    PROVE  /\ pubs \subseteq pubs' /\ JoinedKept
           /\ \A p \in Projects : Exists(p) => owner'[p] = owner[p]
<1> USE DEF TeamsInv, TeamsTypeOK, JoinedKept, Exists
<1>1. CASE \E u \in Users, p \in Projects, s \in Slugs : CreateProject(u, p, s)
  BY <1>1 DEF CreateProject
<1>2. CASE UNCHANGED <<owner, pubs, joined>>
  BY <1>2
<1>3. CASE \E r \in TeamRequests : AddMember(r)
  BY <1>3 DEF AddMember
<1> QED
  BY <1>1, <1>2, <1>3 DEF TeamStep, TeamCheck, TeamLoad, RemoveMember, TeamFail

\* Lemma: steps of the teams that posts have no part in.
LEMMA TeamPartInv ==
    ASSUME PostsInv, TeamStep, UNCHANGED <<post, job>>
    PROVE  PostsInv'
<1>1. TeamsInv'
  BY TeamsNextInv DEF PostsInv, TeamsNext
<1>2. RowsInv' /\ CountsAreExact' /\ RowsKept /\ JoinedKept
  BY <1>1, SameRowsInv, TeamStepKeeps DEF PostsInv
<1>3. JobsAreSound'
  BY <1>2, JobKept DEF JobsAreSound
<1>4. TypeOK'
  BY <1>1 DEF PostsInv, TypeOK, TeamsInv
<1> QED
  BY <1>1, <1>2, <1>3, <1>4 DEF PostsInv

\* Lemma: steps that change one request and at most create a personal publisher.
LEMMA OneJobInv ==
    ASSUME PostsInv, NEW r \in PostRequests, NEW c \in Job,
           UNCHANGED teamVars \/ (\E u \in Users : EnsureForUser(u)),
           UNCHANGED post, job' = [job EXCEPT ![r] = c], JobIsSound(r)'
    PROVE  PostsInv'
<1>1. TeamsInv'
  BY TeamsNextInv DEF PostsInv, TeamsNext
<1>2. UNCHANGED <<owner, joined>> /\ pubs \subseteq pubs'
  BY DEF teamVars, EnsureForUser
<1>3. JoinedKept
  BY <1>2 DEF JoinedKept
<1>4. RowsInv' /\ CountsAreExact' /\ RowsKept
  BY <1>1, <1>2, <1>3, SameRowsInv
<1>5. ASSUME NEW s \in PostRequests PROVE JobIsSound(s)'
  <2>1. CASE s = r
    BY <2>1
  <2>2. CASE s # r
    BY <1>3, <1>4, <2>2, JobKept DEF PostsInv, TypeOK
  <2> QED
    BY <2>1, <2>2
<1>6. TypeOK'
  BY <1>1 DEF PostsInv, TypeOK, TeamsInv
<1> QED
  BY <1>1, <1>4, <1>5, <1>6 DEF PostsInv, JobsAreSound

\* Lemma: a request that is over has nothing to keep.
LEMMA JobDoneIsSound ==
    ASSUME PostsInv, NEW r \in PostRequests, JobDone(r)
    PROVE  JobIdle \in Job /\ job' = [job EXCEPT ![r] = JobIdle] /\ JobIsSound(r)'
BY DEF PostsInv, TypeOK, JobDone, JobIdle, Job, JobIsSound, Ref

\* Lemma: JobFail.
LEMMA JobFailInv ==
    ASSUME PostsInv, NEW r \in PostRequests, JobFail(r)
    PROVE  PostsInv'
BY JobDoneIsSound, OneJobInv DEF JobFail

\* Lemma: a request that begins only reads the tables.
LEMMA BeginReads ==
    ASSUME NEW r \in PostRequests, Begin(r)
    PROVE  UNCHANGED <<teamVars, post>>
<1>1. \A u \in Users : StartCreate(r, u) => UNCHANGED <<teamVars, post>>
  BY DEF StartCreate
<1>2. \A u \in Users, q \in Posts : StartReply(r, u, q) => UNCHANGED <<teamVars, post>>
  BY DEF StartReply
<1>3. \A op \in {"update", "delete"}, u \in Users, q \in Posts :
         StartManage(r, op, u, q) => UNCHANGED <<teamVars, post>>
  BY DEF StartManage
<1> HIDE DEF teamVars
<1> QED
  BY <1>1, <1>2, <1>3 DEF Begin

\* Lemma: StartCreate, StartReply and StartManage.
LEMMA BeginInv ==
    ASSUME PostsInv, NEW r \in PostRequests, Begin(r)
    PROVE  PostsInv'
<1> USE DEF PostsInv, TypeOK
<1>1. ASSUME NEW u \in Users, StartCreate(r, u) PROVE PostsInv'
  <2> DEFINE c == [JobIdle EXCEPT !.pc = "resolve", !.op = "create", !.caller = u]
  <2>1. c \in Job /\ job' = [job EXCEPT ![r] = c] /\ UNCHANGED <<teamVars, post>>
    BY <1>1 DEF StartCreate, JobIdle, Job, Ref
  <2>2. JobIsSound(r)'
    BY <2>1 DEF JobIsSound, JobIdle
  <2> QED
    BY <2>1, <2>2, OneJobInv
<1>2. ASSUME NEW u \in Users, NEW q \in Posts, StartReply(r, u, q) PROVE PostsInv'
  <2> DEFINE c == [JobIdle EXCEPT !.pc = "resolve", !.op = "reply", !.caller = u,
                                  !.post = q, !.root = RootFor(q)]
  <2>1. RootFor(q) \in Posts /\ Drawn(RootFor(q)) /\ post[RootFor(q)].root = None
    <3>1. Stored(q)
      BY <1>2 DEF StartReply, Live, Stored
    <3>2. post[q].root \in Posts \cup {None}
      BY DEF Row, Ref
    <3> QED
      BY <3>1, <3>2 DEF RowsInv, ThreadsAreTrees, ReferencesResolve, RootFor, Stored, Drawn
  <2>2. c \in Job /\ job' = [job EXCEPT ![r] = c] /\ UNCHANGED <<teamVars, post>>
    BY <1>2, <2>1 DEF StartReply, JobIdle, Job, Ref
  <2>3. /\ c.pc = "resolve" /\ c.op = "reply" /\ c.caller = u
        /\ c.post = q /\ c.root = RootFor(q)
    BY DEF JobIdle
  <2> HIDE DEF c
  <2>4. ReplyIsSound(job[r])'
    BY <1>2, <2>1, <2>2, <2>3 DEF StartReply, ReplyIsSound, Drawn, Live, RootFor
  <2>5. JobIsSound(r)'
    BY <2>2, <2>3, <2>4 DEF JobIsSound
  <2> QED
    BY <2>2, <2>5, OneJobInv
<1>3. ASSUME NEW u \in Users, NEW q \in Posts, NEW op \in {"update", "delete"},
             StartManage(r, op, u, q)
      PROVE  PostsInv'
  <2> DEFINE c == [JobIdle EXCEPT !.pc = "write", !.op = op, !.caller = u, !.post = q]
  <2>1. c \in Job /\ job' = [job EXCEPT ![r] = c] /\ UNCHANGED <<teamVars, post>>
    BY <1>3 DEF StartManage, JobIdle, Job, Ref
  <2>2. c.pc = "write" /\ c.op = op /\ c.caller = u /\ c.post = q
    BY DEF JobIdle
  <2> HIDE DEF c
  <2>3. Drawn(q) /\ Manages(u, q)
    BY <1>3, ManagersOwn DEF StartManage, Live, Drawn
  <2>4. ManageIsSound(job[r])'
    BY <2>1, <2>2, <2>3 DEF ManageIsSound, Drawn, Manages, Live, teamVars
  <2>5. JobIsSound(r)'
    BY <2>1, <2>2, <2>4 DEF JobIsSound
  <2> QED
    BY <2>1, <2>5, OneJobInv
<1> QED
  BY <1>1, <1>2, <1>3 DEF Begin

\* Lemma: ResolveSelf and ResolveProject.
LEMMA ResolveInv ==
    ASSUME PostsInv, NEW r \in PostRequests, Resolve(r)
    PROVE  PostsInv'
<1> USE DEF PostsInv, TypeOK
<1> DEFINE j == job[r]
<1>1. j \in Job /\ JobIsSound(r)
  BY DEF JobsAreSound
<1>2. ASSUME NEW i \in Identities, j.pc = "resolve",
             job' = [job EXCEPT ![r].pc = "write", ![r].publisher = i],
             UNCHANGED post, JoinedKept,
             UNCHANGED teamVars \/ (\E u \in Users : EnsureForUser(u)),
             i = j.caller \/ (i \in Projects /\ j.caller \in joined[i])
      PROVE  PostsInv'
  <2> DEFINE c == [j EXCEPT !.pc = "write", !.publisher = i]
  <2>1. c \in Job /\ job' = [job EXCEPT ![r] = c]
    BY <1>1, <1>2 DEF Job
  <2>2. /\ c.pc = "write" /\ c.op = j.op /\ c.caller = j.caller
        /\ c.post = j.post /\ c.root = j.root /\ c.publisher = i
    BY <1>1 DEF Job
  <2> HIDE DEF c
  <2>3. j.op \in {"create", "reply"}
    BY <1>1, <1>2 DEF JobIsSound, ManageIsSound
  <2>4. PublisherIsSound(job[r])'
    BY <1>2, <2>1, <2>2 DEF PublisherIsSound, JoinedKept
  <2>5. j.op = "reply" => ReplyIsSound(job[r])'
    BY <1>1, <1>2, <2>1, <2>2 DEF JobIsSound, ReplyIsSound, Drawn, RootFor
  <2>6. JobIsSound(r)'
    BY <1>1, <1>2, <2>1, <2>2, <2>3, <2>4, <2>5 DEF JobIsSound
  <2> QED
    BY <1>2, <2>1, <2>6, OneJobInv
<1>3. CASE ResolveSelf(r)
  <2>1. j.caller \in Users
    BY <1>1, <1>3 DEF JobIsSound, ResolveSelf
  <2>2. JoinedKept
    BY <1>3 DEF ResolveSelf, EnsureForUser, JoinedKept
  <2> QED
    BY <1>2, <1>3, <2>1, <2>2 DEF ResolveSelf, Identities
<1>4. ASSUME NEW p \in Projects, ResolveProject(r, p) PROVE PostsInv'
  <2>1. j.caller \in Users
    BY <1>1, <1>4 DEF JobIsSound, ResolveProject
  <2>2. j.caller \in joined[p]
    BY <1>4, <2>1 DEF ResolveProject, TeamsInv, TeamHasJoined
  <2>3. JoinedKept
    BY <1>4 DEF ResolveProject, JoinedKept, teamVars
  <2> QED
    BY <1>2, <1>4, <2>2, <2>3 DEF ResolveProject, Identities
<1> QED
  BY <1>3, <1>4 DEF Resolve

-----------------------------------------------------------------------------
(***************************************************************************)
(* The writes.                                                             *)
(***************************************************************************)

\* Lemma: a request that writes rows of posts that keep their places, and ends.
LEMMA WriteInv ==
    ASSUME PostsInv, NEW r \in PostRequests, JobDone(r), UNCHANGED teamVars,
           post' \in [Posts -> Row], RowsInv', CountsAreExact', RowsKept
    PROVE  PostsInv'
<1>1. TeamsInv'
  BY TeamsNextInv DEF PostsInv
<1>2. JoinedKept
  BY DEF JoinedKept, teamVars
<1>3. ASSUME NEW s \in PostRequests PROVE JobIsSound(s)'
  <2>1. CASE s = r
    BY <2>1, JobDoneIsSound
  <2>2. CASE s # r
    BY <1>2, <2>2, JobDoneIsSound, JobKept DEF PostsInv, TypeOK
  <2> QED
    BY <2>1, <2>2
<1>4. TypeOK'
  BY <1>1, JobDoneIsSound DEF PostsInv, TypeOK, TeamsInv
<1> QED
  BY <1>1, <1>3, <1>4 DEF PostsInv, JobsAreSound

\* Lemma: CommitUpdate and CommitDelete.
LEMMA ManageInv ==
    ASSUME PostsInv, NEW r \in PostRequests, CommitUpdate(r) \/ CommitDelete(r)
    PROVE  PostsInv'
<1> DEFINE q == job[r].post
<1>1. job[r].pc = "write" /\ JobDone(r) /\ UNCHANGED teamVars
  BY DEF CommitUpdate, CommitDelete
<1>2. q \in Posts
  BY <1>1 DEF PostsInv, JobsAreSound, JobIsSound, ManageIsSound, CommitUpdate, CommitDelete
<1>3. /\ post' \in [Posts -> Row]
      /\ \A s \in Posts :
            /\ Drawn(s)' <=> Drawn(s)
            /\ Stored(s)' <=> Stored(s)
            /\ post'[s].author = post[s].author /\ post'[s].publisher = post[s].publisher
            /\ post'[s].parent = post[s].parent /\ post'[s].root = post[s].root
            /\ post'[s].replies = post[s].replies
            /\ ~Drawn(s) => post'[s] = post[s]
            /\ Live(s)' => Live(s)
  <2>1. post \in [Posts -> Row]
    BY DEF PostsInv, TypeOK
  <2>2. CASE post' = post
    BY <2>1, <2>2 DEF Drawn, Stored, Live
  <2>3. CASE Live(q) /\ post' = [post EXCEPT ![q].edited = TRUE]
    BY <1>2, <2>1, <2>3 DEF Row, Drawn, Stored, Live
  <2>4. CASE Live(q) /\ post' = [post EXCEPT ![q].state = "deleted"]
    BY <1>2, <2>1, <2>4 DEF Row, Drawn, Stored, Live
  <2> QED
    BY <2>2, <2>3, <2>4 DEF CommitUpdate, CommitDelete
<1>4. UNCHANGED <<pubs, owner, joined>>
  BY <1>1 DEF teamVars
<1>5. ReferencesResolve' /\ PublisherWasEntitled'
  BY <1>3, <1>4 DEF PostsInv, RowsInv, TypeOK, Row, Ref, ReferencesResolve, PublisherWasEntitled
<1>6. ThreadsAreTrees'
  <2>1. \A s \in Posts : RootFor(s)' = RootFor(s)
    BY <1>3 DEF RootFor
  <2> QED
    BY <1>3, <2>1 DEF PostsInv, RowsInv, TypeOK, Row, Ref, ThreadsAreTrees, ReferencesResolve,
       Stored
<1>7. IdsInOrder'
  BY <1>3 DEF PostsInv, RowsInv, TypeOK, Row, Ref, IdsInOrder
<1>8. CountsAreExact'
  <2>1. \A s \in Posts : Replies(s)' = Replies(s)
    BY <1>3 DEF Replies
  <2> QED
    BY <1>3, <2>1 DEF PostsInv, CountsAreExact
<1>9. RowsKept
  BY <1>3, <1>4 DEF RowsKept, RowKept, OwnerKept, Live
<1> QED
  BY <1>1, <1>3, <1>5, <1>6, <1>7, <1>8, <1>9, WriteInv DEF RowsInv

\* Lemma: the row of a new post or reply, in a place that was not drawn, whatever
\* else the transaction counts.
LEMMA NewRowInv ==
    ASSUME PostsInv, NEW r \in PostRequests, job[r].pc = "write",
           job[r].op \in {"create", "reply"}, job[r].publisher \in pubs,
           job[r].op = "reply" => Stored(job[r].post) /\ Stored(job[r].root),
           NEW n \in Posts, NextId(n), post'[n] = NewRow(r),
           \A s \in Posts \ {n} :
              /\ post'[s].state = post[s].state /\ post'[s].author = post[s].author
              /\ post'[s].publisher = post[s].publisher
              /\ post'[s].parent = post[s].parent /\ post'[s].root = post[s].root
              /\ ~Drawn(s) => post'[s] = post[s],
           UNCHANGED teamVars
    PROVE  RowsInv' /\ RowsKept
<1> DEFINE j == job[r]
<1> USE PostsAssumption
<1>1. /\ \A s \in Posts : Drawn(s) => s # n
      /\ \A s \in Posts : Stored(s) => s # n
      /\ UNCHANGED <<pubs, owner, joined>>
  BY DEF NextId, Drawn, Stored, teamVars
<1>2. /\ post'[n].state = "live" /\ post'[n].author = j.caller
      /\ post'[n].publisher = j.publisher
      /\ post'[n].parent = j.post /\ post'[n].root = j.root
  BY DEF NewRow
<1>3. \A s \in Posts \ {n} : (Stored(s)' <=> Stored(s)) /\ (Drawn(s)' <=> Drawn(s))
  BY DEF Stored, Drawn
<1>4. JobIsSound(r) /\ j \in Job
  BY DEF PostsInv, JobsAreSound, TypeOK
<1>5. \/ j.post = None /\ j.root = None
      \/ ReplyIsSound(j) /\ Stored(j.post) /\ Stored(j.root)
  BY <1>4 DEF JobIsSound
<1>6. \A s \in Posts : Drawn(s) => s < n
  BY DEF PostsInv, RowsInv, IdsInOrder, NextId, Drawn, Posts
<1>7. ReferencesResolve'
  <2> SUFFICES ASSUME NEW q \in Posts, Stored(q)' PROVE ReferencesResolve!(q)!2'
    BY DEF ReferencesResolve
  <2>1. CASE q = n
    BY <1>1, <1>2, <1>3, <1>5, <2>1 DEF ReplyIsSound
  <2>2. CASE q # n
    BY <1>1, <1>3, <2>2 DEF PostsInv, TypeOK, Row, Ref, RowsInv, ReferencesResolve
  <2> QED
    BY <2>1, <2>2
<1>8. ThreadsAreTrees'
  <2> SUFFICES ASSUME NEW q \in Posts, Stored(q)' PROVE ThreadsAreTrees!(q)!2'
    BY DEF ThreadsAreTrees
  <2>1. \A s \in Posts : Stored(s) => RootFor(s)' = RootFor(s)
    BY <1>1 DEF RootFor
  <2>2. CASE q = n
    <3>1. CASE j.post = None /\ j.root = None
      BY <1>2, <2>2, <3>1
    <3>2. CASE ReplyIsSound(j) /\ Stored(j.post) /\ Stored(j.root)
      <4>1. j.post \in Posts /\ j.root \in Posts /\ j.root = RootFor(j.post) /\ post[j.root].root = None
        BY <3>2 DEF ReplyIsSound
      <4>2. j.post < n /\ j.post # n /\ j.root # n
        BY <1>1, <1>6, <3>2, <4>1 DEF Stored, Drawn
      <4>3. post'[j.post].root = post[j.post].root /\ post'[j.root].root = None
        BY <4>1, <4>2
      <4>4. j.post # None /\ j.root # None
        BY <4>1 DEF Posts
      <4> QED
        BY <1>2, <2>2, <4>1, <4>2, <4>3, <4>4 DEF RootFor
    <3> QED
      BY <1>5, <3>1, <3>2
  <2>3. CASE q # n
    BY <1>1, <1>3, <2>1, <2>3 DEF PostsInv, TypeOK, Row, Ref, RowsInv, ThreadsAreTrees,
       ReferencesResolve
  <2> QED
    BY <2>2, <2>3
<1>9. PublisherWasEntitled'
  <2> SUFFICES ASSUME NEW q \in Posts, Stored(q)' PROVE PublisherWasEntitled!(q)!2'
    BY DEF PublisherWasEntitled
  <2>1. CASE q = n
    BY <1>1, <1>2, <1>4, <2>1 DEF JobIsSound, PublisherIsSound
  <2>2. CASE q # n
    BY <1>1, <1>3, <2>2 DEF PostsInv, RowsInv, PublisherWasEntitled
  <2> QED
    BY <2>1, <2>2
<1>10. IdsInOrder'
  <2>1. Drawn(n)' /\ ~Drawn(n)
    BY <1>2 DEF Drawn, NextId
  <2>2. \A m, k \in Posts : m < k /\ Drawn(k)' => Drawn(m)'
    BY <1>3, <2>1 DEF PostsInv, RowsInv, IdsInOrder, NextId, Drawn
  <2>3. \A q \in Posts : ~Drawn(q)' => post'[q] = Absent
    BY <1>3, <2>1 DEF PostsInv, RowsInv, IdsInOrder
  <2>4. \A q \in Posts : post'[q].parent # None => Drawn(post[q].parent)'
    BY <1>2, <1>3, <1>5, <2>1 DEF PostsInv, TypeOK, Row, Ref, RowsInv, IdsInOrder, ReplyIsSound
  <2> QED
    BY <2>2, <2>3, <2>4 DEF IdsInOrder
<1>11. RowsKept
  BY <1>1, <1>3 DEF RowsKept, RowKept, OwnerKept, Live, Drawn
<1> QED
  BY <1>7, <1>8, <1>9, <1>10, <1>11 DEF RowsInv

\* Lemma: the replies of a post are finitely many, and one more counts one more.
LEMMA RepliesCount ==
    ASSUME NEW q
    PROVE  /\ IsFiniteSet(Replies(q)) /\ Cardinality(Replies(q)) \in Nat
           /\ \A n : n \notin Replies(q) =>
                 Cardinality(Replies(q) \cup {n}) = Cardinality(Replies(q)) + 1
<1>1. IsFiniteSet(Posts)
  BY PostsAssumption, FS_Interval DEF Posts
<1>2. IsFiniteSet(Replies(q))
  BY <1>1, FS_Subset DEF Replies
<1> QED
  BY <1>2, FS_CardinalityType, FS_AddElement

\* Lemma: a place that was not drawn has no replies, and a new row there adds
\* itself to the replies of its parent, if it has one.
LEMMA NewReplies ==
    ASSUME PostsInv, NEW n \in Posts, NextId(n), NEW m \in Ref, m # n,
           post'[n].parent = m, \A s \in Posts \ {n} : post'[s].parent = post[s].parent
    PROVE  /\ m # None => n \notin Replies(m) /\ Replies(m)' = Replies(m) \cup {n}
           /\ \A q \in Posts \ {m} : Replies(q)' = Replies(q)
           /\ Cardinality(Replies(n)) = 0
<1> USE PostsAssumption DEF Posts
<1>1. post[n].parent = None /\ ~Drawn(n)
  BY DEF PostsInv, RowsInv, IdsInOrder, NextId, Drawn, Absent
<1>2. n \notin Replies(m) \/ m = None
  BY <1>1 DEF Replies
<1>3. m # None => Replies(m)' = Replies(m) \cup {n}
  BY <1>1 DEF Replies
<1>4. \A q \in Posts \ {m} : Replies(q)' = Replies(q)
  BY <1>1 DEF Replies
<1>5. Replies(n) = {}
  BY <1>1 DEF PostsInv, RowsInv, IdsInOrder, Replies
<1> QED
  BY <1>2, <1>3, <1>4, <1>5, FS_EmptySet

\* Lemma: CommitCreate.
LEMMA CommitCreateInv ==
    ASSUME PostsInv, NEW r \in PostRequests, CommitCreate(r)
    PROVE  PostsInv'
<1> DEFINE j == job[r]
<1>1. PICK n \in Posts : NextId(n) /\ post' = [post EXCEPT ![n] = NewRow(r)]
  BY DEF CommitCreate
<1>2. /\ j.pc = "write" /\ j.op = "create" /\ j.publisher \in pubs
      /\ JobDone(r) /\ UNCHANGED teamVars
  BY DEF CommitCreate
<1>3. post \in [Posts -> Row] /\ j \in Job
  BY DEF PostsInv, TypeOK
<1>4. j.caller \in Users /\ j.post = None /\ j.root = None
  BY <1>2 DEF PostsInv, JobsAreSound, JobIsSound
<1>5. NewRow(r) \in Row /\ post'[n] = NewRow(r) /\ \A s \in Posts \ {n} : post'[s] = post[s]
  BY <1>1, <1>3, <1>4 DEF NewRow, Row, Job
<1>6. RowsInv' /\ RowsKept
  BY <1>1, <1>2, <1>5, NewRowInv
<1>7. CountsAreExact'
  <2>1. post'[n].parent = None /\ post'[n].replies = 0
    BY <1>4, <1>5 DEF NewRow
  <2>2. None \in Ref /\ None \notin Posts
    BY PostsAssumption DEF Ref, Posts
  <2>3. \A s \in Posts \ {n} : post'[s].parent = post[s].parent
    BY <1>5
  <2>4. /\ \A q \in Posts \ {None} : Replies(q)' = Replies(q)
        /\ Cardinality(Replies(n)) = 0
    BY <1>1, <2>1, <2>2, <2>3, NewReplies
  <2> QED
    BY <1>5, <2>1, <2>2, <2>4 DEF PostsInv, CountsAreExact
<1>8. post' \in [Posts -> Row]
  BY <1>1, <1>3, <1>5
<1> QED
  BY <1>2, <1>6, <1>7, <1>8, WriteInv

\* Lemma: CommitReply.
LEMMA CommitReplyInv ==
    ASSUME PostsInv, NEW r \in PostRequests, CommitReply(r)
    PROVE  PostsInv'
<1> DEFINE j == job[r]
<1>0. PICK m \in Posts : m = j.post
  BY DEF CommitReply, PostsInv, JobsAreSound, JobIsSound, ReplyIsSound
<1>1. PICK n \in Posts :
         NextId(n) /\ post' = [post EXCEPT ![n] = NewRow(r), ![m].replies = @ + 1]
  BY <1>0 DEF CommitReply
<1>2. /\ j.pc = "write" /\ j.op = "reply" /\ j.publisher \in pubs
      /\ Stored(m) /\ Stored(j.root) /\ JobDone(r) /\ UNCHANGED teamVars
  BY <1>0 DEF CommitReply
<1>3. post \in [Posts -> Row] /\ j \in Job
  BY DEF PostsInv, TypeOK
<1>4. j.caller \in Users /\ j.root \in Posts /\ m # n
  BY <1>1, <1>2 DEF PostsInv, JobsAreSound, JobIsSound, ReplyIsSound, Stored, NextId
<1>5. NewRow(r) \in Row /\ post'[n] = NewRow(r)
  BY <1>0, <1>1, <1>3, <1>4 DEF NewRow, Row, Job, Ref
<1>6. /\ \A s \in Posts \ {n, m} : post'[s] = post[s]
      /\ post'[m] = [post[m] EXCEPT !.replies = post[m].replies + 1]
  BY <1>1, <1>3, <1>4
<1>7. post[m] \in Row /\ post'[m] \in Row /\ Drawn(m)
  BY <1>2, <1>3, <1>4, <1>6 DEF Row, Stored, Drawn
<1>8. /\ post'[m].state = post[m].state /\ post'[m].author = post[m].author
      /\ post'[m].publisher = post[m].publisher /\ post'[m].parent = post[m].parent
      /\ post'[m].root = post[m].root /\ post'[m].replies = post[m].replies + 1
  BY <1>6, <1>7 DEF Row
<1>9. RowsInv' /\ RowsKept
  <2>1. \A s \in Posts \ {n} :
           /\ post'[s].state = post[s].state /\ post'[s].author = post[s].author
           /\ post'[s].publisher = post[s].publisher
           /\ post'[s].parent = post[s].parent /\ post'[s].root = post[s].root
           /\ ~Drawn(s) => post'[s] = post[s]
    BY <1>6, <1>7, <1>8
  <2>2. Stored(job[r].post) /\ Stored(job[r].root)
    BY <1>0, <1>2
  <2> HIDE DEF j
  <2> QED
    BY <1>1, <1>2, <1>5, <2>1, <2>2, NewRowInv DEF j
<1>10. CountsAreExact'
  <2>1. post'[n].parent = m /\ post'[n].replies = 0
    BY <1>0, <1>5 DEF NewRow
  <2>2. /\ n \notin Replies(m) /\ Replies(m)' = Replies(m) \cup {n}
        /\ \A q \in Posts \ {m} : Replies(q)' = Replies(q)
        /\ Cardinality(Replies(n)) = 0
    <3>1. m \in Ref /\ m # None
      BY <1>4, PostsAssumption DEF Ref, Posts
    <3>2. \A s \in Posts \ {n} : post'[s].parent = post[s].parent
      BY <1>6, <1>8
    <3> QED
      BY <1>1, <1>4, <2>1, <3>1, <3>2, NewReplies
  <2>3. Cardinality(Replies(m)') = post'[m].replies
    <3>1. Cardinality(Replies(m) \cup {n}) = Cardinality(Replies(m)) + 1
      BY <2>2, RepliesCount
    <3>2. post[m].replies = Cardinality(Replies(m))
      BY <1>4 DEF PostsInv, CountsAreExact
    <3> QED
      BY <1>8, <2>2, <3>1, <3>2
  <2> QED
    <3> SUFFICES ASSUME NEW q \in Posts PROVE post'[q].replies = Cardinality(Replies(q)')
      BY DEF CountsAreExact
    <3>1. CASE q = m
      BY <2>3, <3>1
    <3>2. CASE q = n
      BY <1>4, <2>1, <2>2, <3>2
    <3>3. CASE q \notin {n, m}
      BY <1>6, <2>2, <3>3 DEF PostsInv, CountsAreExact
    <3> QED
      BY <3>1, <3>2, <3>3
<1>11. post' \in [Posts -> Row]
  BY <1>1, <1>3, <1>4, <1>5, <1>7
<1> QED
  BY <1>2, <1>9, <1>10, <1>11, WriteInv

\* Lemma: what a cascade removes holds the posts of the project and everything
\* that answers them, directly or not.
LEMMA DoomedIsClosed ==
    ASSUME NEW p \in Projects
    PROVE  PostsOf(p) \subseteq Doomed(p) /\ Cascades(Doomed(p))
<1>1. PostsOf(p) \subseteq Doomed(p)
  BY DEF PostsOf, Doomed
<1>2. ASSUME NEW q \in Posts, Stored(q),
             post[q].parent \in Doomed(p) \/ post[q].root \in Doomed(p)
      PROVE  q \in Doomed(p)
  <2> SUFFICES ASSUME NEW D \in SUBSET Posts, PostsOf(p) \subseteq D, Cascades(D)
               PROVE  q \in D
    BY <1>2 DEF Doomed
  <2>1. post[q].parent \in D \/ post[q].root \in D
    BY <1>2 DEF Doomed
  <2> QED
    BY <1>2, <2>1 DEF Cascades
<1> QED
  BY <1>1, <1>2 DEF Cascades

\* Lemma: PurgeProject.
LEMMA PurgeInv ==
    ASSUME PostsInv, NEW r \in TeamRequests, PurgeProject(r)
    PROVE  PostsInv'
<1>0. PICK p \in Projects : p = team[r].project
  BY DEF PostsInv, TeamsInv, ChecksHold, CheckHolds, PurgeProject, DeleteProject
<1>1. DeleteProject(r) /\ UNCHANGED <<job, joined>>
  BY DEF PurgeProject, DeleteProject
<1>2. TeamsInv'
  BY <1>1, TeamsNextInv DEF PostsInv, TeamsNext
<1>3. /\ pubs' = pubs \ {p}
      /\ \A k \in Projects \ {p} : owner'[k] = owner[k]
  BY <1>0, <1>1 DEF DeleteProject, PostsInv, TeamsInv, TeamsTypeOK
<1> DEFINE D == Doomed(p)
<1>4. post' = [q \in Posts |-> IF q \in D THEN [post[q] EXCEPT !.state = "purged"] ELSE post[q]]
  BY <1>0 DEF PurgeProject
<1>5. /\ post' \in [Posts -> Row]
      /\ \A q \in Posts :
            /\ Drawn(q)' <=> Drawn(q)
            /\ Stored(q)' <=> Stored(q) /\ q \notin D
            /\ post'[q].author = post[q].author /\ post'[q].publisher = post[q].publisher
            /\ post'[q].parent = post[q].parent /\ post'[q].root = post[q].root
            /\ post'[q].replies = post[q].replies
            /\ ~Drawn(q) => post'[q] = post[q]
            /\ Live(q)' => Live(q) /\ q \notin D
  <2>1. post \in [Posts -> Row]
    BY DEF PostsInv, TypeOK
  <2>2. \A q \in D : Drawn(q)
    BY DEF Doomed, Stored, Drawn
  <2> HIDE DEF D
  <2>3. ASSUME NEW q \in Posts PROVE post'[q] \in Row
    BY <1>4, <2>1 DEF Row
  <2> QED
    BY <1>4, <2>1, <2>2, <2>3 DEF Row, Drawn, Stored, Live
<1>6. PostsOf(p) \subseteq D /\ Cascades(D)
  BY DoomedIsClosed
<1> HIDE DEF D
<1>7. ReferencesResolve'
  <2> SUFFICES ASSUME NEW q \in Posts, Stored(q)' PROVE ReferencesResolve!(q)!2'
    BY DEF ReferencesResolve
  <2>1. Stored(q) /\ q \notin PostsOf(p) /\ post[q].parent \notin D /\ post[q].root \notin D
    BY <1>5, <1>6 DEF Cascades
  <2>2. post[q].publisher \in pubs'
    BY <1>3, <2>1 DEF PostsInv, RowsInv, ReferencesResolve, PostsOf
  <2>3. ASSUME NEW s \in Posts, Stored(s), s \notin D PROVE Stored(s)'
    BY <1>5, <2>3
  <2> QED
    BY <1>5, <2>1, <2>2, <2>3 DEF PostsInv, TypeOK, Row, Ref, RowsInv, ReferencesResolve
<1>8. ThreadsAreTrees'
  <2>1. \A s \in Posts : RootFor(s)' = RootFor(s)
    BY <1>5 DEF RootFor
  <2> QED
    BY <1>5, <2>1 DEF PostsInv, RowsInv, TypeOK, Row, Ref, ThreadsAreTrees, ReferencesResolve,
       Stored
<1>9. PublisherWasEntitled'
  BY <1>1, <1>5 DEF PostsInv, RowsInv, PublisherWasEntitled
<1>10. IdsInOrder'
  BY <1>5 DEF PostsInv, RowsInv, TypeOK, Row, Ref, IdsInOrder
<1>11. CountsAreExact'
  <2>1. \A s \in Posts : Replies(s)' = Replies(s)
    BY <1>5 DEF Replies
  <2> QED
    BY <1>5, <2>1 DEF PostsInv, CountsAreExact
<1>12. RowsKept
  <2>1. ASSUME NEW q \in Posts, Drawn(q) PROVE RowKept(q)
    BY <1>5, <2>1 DEF RowKept, Live
  <2>2. ASSUME NEW q \in Posts, Drawn(q) PROVE OwnerKept(q)
    <3>1. Live(q)' => post[q].publisher # p
      BY <1>5, <1>6 DEF PostsOf, Live, Stored
    <3> QED
      BY <1>3, <3>1 DEF OwnerKept
  <2> QED
    BY <2>1, <2>2 DEF RowsKept
<1>13. JobsAreSound'
  BY <1>1, <1>12, JobKept DEF JobsAreSound, JoinedKept
<1>14. TypeOK'
  BY <1>1, <1>2, <1>5 DEF PostsInv, TypeOK, TeamsInv
<1> QED
  BY <1>2, <1>7, <1>8, <1>9, <1>10, <1>11, <1>13, <1>14 DEF PostsInv, RowsInv

-----------------------------------------------------------------------------

\* Lemma: the initial state satisfies the invariant.
LEMMA PostsInitInv == Init => PostsInv
<1> SUFFICES ASSUME Init PROVE PostsInv
  OBVIOUS
<1> USE PostsAssumption DEF Init
<1>1. TeamsInv
  BY TeamsInitInv
<1>2. TypeOK
  BY <1>1 DEF TeamsInv, TypeOK, Row, Absent, Job, JobIdle, Ref
<1>3. RowsInv
  BY DEF RowsInv, ReferencesResolve, ThreadsAreTrees, PublisherWasEntitled, IdsInOrder, Stored,
     Drawn, Absent
<1>4. CountsAreExact
  <2>1. \A q \in Posts : Replies(q) = {}
    BY DEF Replies, Absent, Posts
  <2> QED
    BY <2>1, FS_EmptySet DEF CountsAreExact, Absent
<1>5. JobsAreSound
  BY DEF JobsAreSound, JobIsSound, JobIdle
<1> QED
  BY <1>1, <1>2, <1>3, <1>4, <1>5 DEF PostsInv

\* Lemma: every step keeps the invariant.
LEMMA PostsNextInv == PostsInv /\ [Next]_vars => PostsInv'
<1> SUFFICES ASSUME PostsInv, [Next]_vars PROVE PostsInv'
  OBVIOUS
<1>1. CASE TeamStep /\ UNCHANGED <<post, job>>
  BY <1>1, TeamPartInv
<1>2. ASSUME NEW r \in TeamRequests, PurgeProject(r) PROVE PostsInv'
  BY <1>2, PurgeInv
<1>3. ASSUME NEW r \in PostRequests, Begin(r) \/ Resolve(r) \/ Commit(r) \/ JobFail(r)
      PROVE  PostsInv'
  BY <1>3, BeginInv, ResolveInv, CommitCreateInv, CommitReplyInv, ManageInv, JobFailInv
     DEF Commit
<1>4. CASE UNCHANGED vars
  <2>1. TeamsInv'
    BY <1>4, TeamsNextInv DEF PostsInv, vars
  <2>2. RowsInv' /\ CountsAreExact' /\ RowsKept /\ JoinedKept
    BY <1>4, <2>1, SameRowsInv DEF vars, teamVars, JoinedKept
  <2>3. JobsAreSound'
    BY <1>4, <2>2, JobKept DEF JobsAreSound, vars
  <2>4. TypeOK'
    BY <1>4, <2>1 DEF PostsInv, TypeOK, TeamsInv, vars
  <2> QED
    BY <2>1, <2>2, <2>3, <2>4 DEF PostsInv
<1> QED
  BY <1>1, <1>2, <1>3, <1>4 DEF Next

\* Theorem: the posts service keeps the invariant.
THEOREM PostsInvariance == Spec => []PostsInv
BY PostsInitInv, PostsNextInv, PTL DEF Spec

\* Theorem: tables and operations in flight stay typed, for any number of posts
\* and requests (Repository.Create, Service.Create, Service.Reply).
THEOREM PostsTyped == Spec => []TypeOK
<1>1. PostsInv => TypeOK
  BY DEF PostsInv
<1> QED
  BY <1>1, PostsInvariance, PTL

\* Theorem: whatever is deleted while a request is on its way (Service.Reply, the
\* cascades of Repository.Delete), a stored post refers to stored rows.
THEOREM ReferencesAlwaysResolve == Spec => []ReferencesResolve
<1>1. PostsInv => ReferencesResolve
  BY DEF PostsInv, RowsInv
<1> QED
  BY <1>1, PostsInvariance, PTL

\* Theorem: replies form trees of any depth, and each carries the top of its
\* tree as root_id (Service.Reply).
THEOREM ThreadsStayTrees == Spec => []ThreadsAreTrees
<1>1. PostsInv => ThreadsAreTrees
  BY DEF PostsInv, RowsInv
<1> QED
  BY <1>1, PostsInvariance, PTL

\* Theorem: no overlap of replies, deletions and cascades makes a reply_count
\* wrong (Service.Reply, Repository.SoftDelete).
THEOREM ReplyCountsAreExact == Spec => []ReplyCountIsExact
<1>1. PostsInv => ReplyCountIsExact
  BY DEF PostsInv, CountsAreExact, ReplyCountIsExact, Replies
<1> QED
  BY <1>1, PostsInvariance, PTL

\* Theorem: nobody publishes as a project whose team they never were on
\* (Service.authorize, before the transaction of persist).
THEOREM PublishersWereEntitled == Spec => []PublisherWasEntitled
<1>1. PostsInv => PublisherWasEntitled
  BY DEF PostsInv, RowsInv
<1> QED
  BY <1>1, PostsInvariance, PTL

\* Theorem: an edit or a deletion is its author's or the owner's of the project,
\* still so at the instant of the write, and reaches a live post
\* (Service.requireManage, Repository.UpdateBody, Repository.SoftDelete).
THEOREM OnlyManagersChangePosts == Spec => ChangedByItsManagers
<1> DEFINE Edited(q)  == post'[q].edited # post[q].edited
           Removed(q) == post'[q].state = "deleted" /\ post[q].state # "deleted"
           Managed(q) ==
             /\ Edited(q) =>
                   Live(q) /\ \E r \in PostRequests : Fulfils(r, "update", q)
             /\ Removed(q) =>
                   Live(q) /\ \E r \in PostRequests : Fulfils(r, "delete", q)
<1>1. ASSUME PostsInv, [Next]_vars, NEW q \in Posts, Drawn(q)
      PROVE  Managed(q)
  <2> USE <1>1
  <2>1. post \in [Posts -> Row] /\ job \in [PostRequests -> Job]
    BY DEF PostsInv, TypeOK
  <2>2. ASSUME NEW r \in PostRequests, CommitUpdate(r) \/ CommitDelete(r),
               Live(job[r].post)
        PROVE  job'[r] = JobIdle /\ MayManage(job[r].caller, job[r].post)
    <3>1. job[r].pc = "write" /\ job[r].op \in {"update", "delete"} /\ JobDone(r)
      BY <2>2 DEF CommitUpdate, CommitDelete
    <3>2. job[r].post \in Posts
      BY <3>1 DEF PostsInv, JobsAreSound, JobIsSound, ManageIsSound
    <3>3. job[r].caller \in Users /\ Manages(job[r].caller, job[r].post)
      BY <2>2, <3>1 DEF PostsInv, JobsAreSound, JobIsSound, ManageIsSound
    <3>4. MayManage(job[r].caller, job[r].post)
      BY <2>2, <3>2, <3>3, ManagersOwn DEF PostsInv
    <3> QED
      BY <2>1, <3>1, <3>4 DEF JobDone
  <2>3. CASE UNCHANGED post
    BY <2>3
  <2>4. ASSUME NEW r \in PostRequests, CommitCreate(r) \/ CommitReply(r)
        PROVE  ~Edited(q) /\ ~Removed(q)
    <3>1. PICK n \in Posts :
             /\ NextId(n)
             /\ \/ post' = [post EXCEPT ![n] = NewRow(r)]
                \/ post' = [post EXCEPT ![n] = NewRow(r), ![job[r].post].replies = @ + 1]
      BY <2>4 DEF CommitCreate, CommitReply
    <3>2. q # n
      BY <3>1 DEF NextId, Drawn
    <3>3. post'[q].edited = post[q].edited /\ post'[q].state = post[q].state
      BY <2>1, <3>1, <3>2 DEF Row
    <3> QED
      BY <3>3
  <2>5. ASSUME NEW r \in TeamRequests, PurgeProject(r)
        PROVE  ~Edited(q) /\ ~Removed(q)
    BY <2>1, <2>5 DEF PurgeProject, Row
  <2>6. ASSUME NEW r \in PostRequests, Begin(r) \/ Resolve(r) \/ JobFail(r)
        PROVE  UNCHANGED post
    BY <2>6, BeginReads DEF Resolve, ResolveSelf, ResolveProject, JobFail
  <2>7. ASSUME NEW r \in PostRequests, CommitUpdate(r)
        PROVE  Managed(q)
    <3>1. CASE Live(job[r].post)
      <4>1. post' = [post EXCEPT ![job[r].post].edited = TRUE]
        BY <2>7, <3>1 DEF CommitUpdate
      <4>2. ~Removed(q) /\ (Edited(q) => q = job[r].post)
        BY <2>1, <4>1 DEF Row
      <4>3. Fulfils(r, "update", job[r].post)
        BY <2>2, <2>7, <3>1 DEF Fulfils, CommitUpdate
      <4> QED
        BY <3>1, <4>2, <4>3
    <3>2. CASE ~Live(job[r].post)
      BY <2>3, <2>7, <3>2 DEF CommitUpdate
    <3> QED
      BY <3>1, <3>2
  <2>8. ASSUME NEW r \in PostRequests, CommitDelete(r)
        PROVE  Managed(q)
    <3>1. CASE Live(job[r].post)
      <4>1. post' = [post EXCEPT ![job[r].post].state = "deleted"]
        BY <2>8, <3>1 DEF CommitDelete
      <4>2. ~Edited(q) /\ (Removed(q) => q = job[r].post)
        BY <2>1, <4>1 DEF Row
      <4>3. Fulfils(r, "delete", job[r].post)
        BY <2>2, <2>8, <3>1 DEF Fulfils, CommitDelete
      <4> QED
        BY <3>1, <4>2, <4>3
    <3>2. CASE ~Live(job[r].post)
      BY <2>3, <2>8, <3>2 DEF CommitDelete
    <3> QED
      BY <3>1, <3>2
  <2>9. CASE \E r \in PostRequests : Begin(r) \/ Resolve(r) \/ Commit(r) \/ JobFail(r)
    BY <2>3, <2>4, <2>6, <2>7, <2>8, <2>9 DEF Commit
  <2>10. CASE UNCHANGED post \/ \E r \in TeamRequests : PurgeProject(r)
    BY <2>3, <2>5, <2>10
  <2> HIDE DEF Managed
  <2> QED
    BY <2>9, <2>10 DEF Next, vars
<1> DEFINE ChangeIsManaged ==
        \A q \in Posts : post[q].state # "absent" =>
          /\ post'[q].edited # post[q].edited =>
                Live(q) /\ \E r \in PostRequests : Fulfils(r, "update", q)
          /\ post'[q].state = "deleted" /\ post[q].state # "deleted" =>
                Live(q) /\ \E r \in PostRequests : Fulfils(r, "delete", q)
<1>2. PostsInv /\ [Next]_vars => [ChangeIsManaged]_vars
  BY <1>1 DEF Drawn
<1> QED
  BY <1>2, PostsInvariance, PTL DEF Spec, ChangedByItsManagers

\* Theorem: to the teams, the posts service is one more source of their own
\* steps (EnsureForUser, Repository.Delete): everything proved of TeamsSpec holds
\* behind it.
THEOREM PostsUseTheTeams == Spec => TeamsSpec
<1>1. PostsInv /\ [Next]_vars => [TeamsNext]_teamVars
  <2> SUFFICES ASSUME PostsInv, Next PROVE [TeamsNext]_teamVars
    BY DEF vars, teamVars
  <2>1. ASSUME NEW r \in PostRequests, ResolveSelf(r) PROVE TeamsNext
    <3>1. job[r].caller \in Users
      BY <2>1 DEF PostsInv, JobsAreSound, JobIsSound, ResolveSelf
    <3> QED
      BY <2>1, <3>1 DEF ResolveSelf, TeamsNext
  <2>2. ASSUME NEW r \in TeamRequests, PurgeProject(r) PROVE TeamsNext
    BY <2>2 DEF PurgeProject, TeamsNext
  <2>3. ASSUME NEW r \in PostRequests, Begin(r) \/ Commit(r) \/ JobFail(r)
        PROVE  UNCHANGED teamVars
    <3>1. CASE Commit(r)
      BY <3>1 DEF Commit, CommitCreate, CommitReply, CommitUpdate, CommitDelete
    <3> QED
      BY <2>3, <3>1, BeginReads DEF JobFail
  <2>4. ASSUME NEW r \in PostRequests, NEW p \in Projects, ResolveProject(r, p)
        PROVE  UNCHANGED teamVars
    BY <2>4 DEF ResolveProject
  <2>5. TeamStep => TeamsNext
    BY DEF TeamsNext
  <2> QED
    BY <2>1, <2>2, <2>3, <2>4, <2>5 DEF Next, Resolve
<1>2. Init => TeamsInit
  BY DEF Init
<1> QED
  BY <1>1, <1>2, PostsInvariance, PTL DEF Spec, TeamsSpec

=============================================================================
