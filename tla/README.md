# start-and-found: a verification of its API and of the web application's sessions

This directory models the parts of start-and-found whose correctness depends on the
order in which things happen: the rotating sessions of the Go API, the web
application that rotates them for the browser, the teams of the projects, the posts and
threads they publish, the files attached to them, the lists that show them page by page,
and the API process itself with its rate limiter, its pool of connections and its
shutdown. TLC checks small instances of the models; TLAPS proves the central results for
every value of the constants. Paths below are relative to the root of the repository.

## 1. Inventory

The API (`api/`) is one Go process over PostgreSQL, object storage and Redis. What it knows
about users, posts and clients is in those three; in memory it keeps only its listener, the requests in
flight and the pool of connections. Every statement or transaction it sends to PostgreSQL is
an atomic step, and requests interleave between them. The web application (`web/`) is a
Next.js server in front of it. It keeps no state either; the session lives in two cookies.

| Component | State it keeps | Operations | What is hard | What makes it correct |
|---|---|---|---|---|
| Auth service (`api/internal/auth`) | `users`, `publishers`, `sessions` | Signup, Login, Refresh, Logout, Authenticate | Refresh and Logout read the session in one statement and change it in another | a token is exchanged once; a rotation keeps its account; a logout is final |
| Web session (`web/src/lib`) | the browser's two cookies; requests in flight | proxy, render, login, logout, token rotation after a 401 | tabs share the cookies, answers arrive in any order or not at all, renders cannot write cookies | the browser holds the token that is alive; every request is answered |
| Projects and teams (`api/internal/projects`) | `projects`, `project_members` | Create, Update, Delete, AddMember, RemoveMember, Role, CanPostAs, CanManagePostsFor | check and write are separate statements, a deletion cascades | the owner leads the team; nothing survives a project |
| Publishers (`api/internal/publishers`) | `publishers` | EnsureForUser, EnsureForProject, ByID, ByHandle, ListForUser | created lazily for old accounts; deleted with the project | every author can publish, and only as an identity it is entitled to |
| Posts (`api/internal/posts`) | `posts`, `post_media` | Create, Reply, Update, Delete, SyncMedia, lists | parent, root and permission are read before the transaction that uses them | threads are trees, counters exact, references resolve |
| Threads (`api/internal/threads`) | none | ThreadPosts, Build, Stats | deleted posts in the middle of a thread | every live post of a thread is shown once |
| Media (`api/internal/media`) | `media`, the bucket | Presign, the client's PUT, Complete | the object and its row change apart from each other | only an uploaded file of the author is attached |
| Users (`api/internal/users`) | `users` | profile, activity, account update | the identities of a profile are read before the posts | a list skips nothing that stayed in it |
| Rate limiter (`platform/ratelimit`, `platform/cache`) | one counter per client in Redis | Allow | the counter at its limit, the window that ends, Redis that fails, a restart | no window lets more than the limit through, and nobody is locked out for ever |
| Pagination (`platform/pagination`, the lists of `posts`) | none: a cursor in the hands of the client | NormalizeLimit, BuildPage, the cursor's position | posts are published, committed late and deleted between two pages | nothing is shown twice, nothing that stayed is skipped |
| Start, shutdown, pool (`cmd/api`, `app`, `platform/database`) | the process, the listener, the pool | Connect, Serve, Shutdown, Close, WithTx, Recoverer | a signal at any moment, requests in flight, a panic inside a transaction | a clean exit has answered everybody; the process ends |
| Pages and components (`web/src/app`, `web/src/components`) | React state | composer, links from page to page, presentation | an answer that comes too late or never | a draft is neither lost nor published twice without an error |

How they interact. The browser calls the Next.js server; its Route Handlers and Server
Components call the API with the access token of the cookie, and exchange the refresh
token after a 401 (`apiFetch`). Posts call publishers and projects to decide who may
publish or manage; projects own a publisher; deleting a project reaches the posts
through foreign keys. Threads read posts. Media are attached by posts. The lists read posts, and
those of a profile read its identities from the publishers first. Every request borrows a
connection of the pool for each statement or transaction; those of the auth routes pass the limiter before.

`PROJECT.json` lists the hazards of this code line by line, with the properties that
watch each one.

## 2. Modules

| Module | Models |
|---|---|
| `Sessions` | the auth service and its table of sessions |
| `SessionLedger` | abstract: what rotating tokens promise to clients that do not wait for each other |
| `SessionRefinement` | the sessions table and its requests seen as the ledger |
| `WebSession` (extends `Sessions`) | one browser, the Next.js server and the API behind it |
| `Teams` | projects, members, publishers |
| `Posts` (extends `Teams`) | posts, threads, the cascade of a deleted project |
| `Threads` (extends `Posts`) | the tree that is shown of a post: `ThreadPosts`, `Build`, `Stats` |
| `Attachments` | uploads, the bucket, and updates of a post statement by statement |
| `Feed` | lists of posts read page by page while posts come and go; the composer |
| `ListWalk` | abstract: what a list read page by page promises its readers |
| `FeedList` (extends `Feed`) | the posts table and the requests of the readers seen as that list |
| `Server` | the API process: start, limiter, pool, shutdown, kill and restart |
| `SessionsProofs`, `WebSessionProofs`, `TeamsProofs`, `PostsProofs`, `ThreadsProofs`, `AttachmentsProofs`, `FeedProofs`, `ServerProofs` | theorems |
| `MCSessions`, `MCWebSession`, `MCPosts`, `MCAttachments`, `MCFeed`, `MCServer` | symmetry sets and bounds for TLC |

### Sessions

A row of `sessions` is named by its refresh token. `row` is `revoked_at` and the existence of
the row, `holder` is `user_id`, `expired` collects the tokens whose `expires_at` has
passed, `access[t]` is the access token signed with session `t`. A request is a
record: the handler it is in, the token and the account it has read, and the answer. `Signup`
and `Login` write once and are one step. `RefreshRead` is `ByTokenHash` and
`users.ByID` (accounts are never removed and a session never changes hands, so
the two reads are one step), `RefreshCommit` the
transaction, `RefreshAbort` its rollback. `LogoutRead` and `LogoutRevoke` are the two
statements of `Logout`. Two histories, `parent` and `acked`, record which
token was exchanged for which and which logouts were acknowledged; no action reads
them. Clocks are abstracted to the two events that matter, the expiry of a
refresh token and of an access token.

### SessionLedger and SessionRefinement

The ledger knows nothing of statements. A token is unused, open or closed; a client may claim it while it is open,
and a claim is spent on one exchange, on closing the token, or on nothing. Claims of several clients on one token are allowed
to exist together, because that is what the service can keep: between the read and the write of `Refresh` another request may
read the same row. The refinement mapping reads `status` off `row` and the claim of a client off its request: whoever has
read a usable session and not yet written has claimed its token. So `RefreshRead` and `LogoutRead` are claims, `RefreshCommit` an exchange,
`LogoutRevoke` a closing, `RefreshAbort` a withdrawal, and `Signup` and `Login` open a token. `StillOpen`, that a claimed token
is still open, holds when there is one request at a time and gives back "a token is usable once".

### WebSession

`jar` is the browser's pair of cookies. `web[w]` is a request inside the Next.js server: where it is, the cookies it
arrived with, and the `Set-Cookie` headers its answer will carry (`Keep`: none; `None`: both
deleted). The API side of request `w` is the request `w` of `Sessions`, so every step of the service is one of
`Sessions`'s actions. A `page` is the render of a Server Component: it rotates like a proxy call and
stores nothing, because `persistTokens` is skipped. `Send` may be answered with anything but a 401 at any time
(public endpoints, unreachable API). `LoseAnswer` and `LoseReply` lose the answer of the API and the answer to the browser.

### Teams and Posts

A publisher is named by the user or project it stands for. The team operations
check the caller, load the project and write in separate steps (`TeamCheck`,
`TeamLoad`, then one of three writes). A post operation is a record too: what it has read
(`job[r].root`, `job[r].publisher`) is used by the later transaction even if
the table has changed since. Foreign keys are guards of the commit steps. `PurgeProject` is
`DELETE FROM projects` with all its cascades: `Doomed` is the least set that holds the
project's posts and everything whose parent or root is in it. A purged row keeps its fields as history. Of
a body the model only keeps whether it was edited. The creation of a missing personal
publisher (`EnsureForUser`) is a step of the team tables that a post operation takes while it resolves whom it
publishes as; every step of `Posts` is a step of `Teams` or leaves the team tables alone.

### Threads

A thread keeps no state: `ThreadEntries` are the rows of the recursive query in their order (depth, then time of creation,
which the order of the ids stands for; a row stands one place after the rows before it), `Build` is the pass of `tree.go` as a fold over them
that passes the root over, `Stats` its recursive totals. The fold reads
the depth of the parent's node as far as it is known by then, as the code does: that the result is
the true depth depends on the order of the rows. `Answered` is a post and all it answers, up to the top of its tree. `DepthBelow` and `Stats` are recursive
functions, not operators, so that they can be proved about.

### Attachments

`media` is the row of a file, `bucket` the keys that hold an object; `Presign`, `Put` and `Complete` are the three halves of an upload, of which
the second belongs to the client and may never happen. An update of a post is a transaction of several statements
under READ COMMITTED: `call[r]` holds the place it has reached and the rows it has deleted (`gone`) and inserted (`added`)
without having committed them. A statement sees the rows committed when it starts and waits while another transaction in flight has
written a row it needs. For the `DELETE` these are two steps: `StartDetach` finds the rows, `Detach` ends the wait and deletes those of them that are left, so that
what was attached during the wait stays. Two updates that wait for each other are ended by `Abort`, which also stands for a failed
statement and the timeout. The rows an `INSERT` needs are taken at once. Only `UpdateBody` locks the row of the post, so an
update without a body is not ordered with `SoftDelete`. `uniqueIDs` makes an
empty list a nil slice, NULL in the `DELETE`: an update that asks for no files detaches nothing. New posts are one step, since nobody sees their row before
the commit. Posts are reduced here to what decides who may change them; the parent of a reply
decides nothing about its files.

### Feed

A row of `post` carries the state of the transaction that writes it. `created_at` is `now()`, the time at which the
transaction began: `Begin` stamps the row with the clock, `Commit` shows it, so a post may appear below posts that were shown
before it. Ids are UUIDs and say nothing about time. Five lists are read: the feed, the replies of
one post, and the three activities of a profile. For those the identities are read in a statement of their own (`Ask`), before the rows (`Serve`). A
reader opens a list, asks for a page, may lose the answer and ask again with the same cursor (`Retry`), and goes on with the
cursor of the answer. The page size is whatever the client asks for (0 when it asks for nothing), through `NormalizeLimit`; `Under` is the keyset condition
of the queries, `Top` their `ORDER BY ... LIMIT`, `BuildPage` the extra row that decides on the cursor.
A `composer` has one draft. `Submit` is `handleSubmit`; the attempt goes on by itself, and the composer is told that it was
published, or that it failed, which may be true, or come from the read-back after the commit, or from a connection that broke. The history `steady`
is the set of posts that the list of a walk has held ever since it began, `shown` what its pages have shown, `failures` how
often a composer was told of a failure. One project, one thread and one profile are enough: they tell the posts of a list apart.
Their deletion and team are reduced here to `project`; `Teams` and `Posts` have them in full.

`ListWalk` is what a reader may count on, without requests and cursors: posts get a place once, anywhere in the list, and may leave it; a page that is shown (`Page`) lies below all that was
shown before; unless it is the last it has something to show, and nothing that the list has held since the walk began is left above its last entry; the last one leaves nothing out. `FeedList` maps
the table and the requests to it: a committed post stands at its position, and a page counts when it is delivered (`Deliver`), so that asking, serving and asking again are no steps
of the list. A reader who stops half way, or is served again and again, has the promise too; `NothingSkipped` speaks only of the end of a walk.

### Server

`proc` follows `run` in `cmd/api/main.go`: connecting to PostgreSQL, then to Redis (which may be missing: `limiter`), wiring,
serving, draining, closing. `signal` is the context of `signal.NotifyContext`; `listener` the goroutine of
`ListenAndServe`. `SelectSignal` starts `Shutdown`, which ends when nothing is in flight (`Drained`) or after 15 seconds
(`DrainTimeout`); then the deferred `Close` closes the pool, which waits for every connection (`Exit`). `Kill` may happen at any time and `Start` follows. A request is
in the limiter, refused, running, or holds a connection for a statement or a transaction (`query`). No handler asks for a second connection
while it holds one, so a request holds at most one; `WithTx` gives it back after a commit, an error, the timeout and a panic. `INCR` and `EXPIRE NX`
are one transaction of Redis, so the counter never lacks its expiry (`Increment`). Redis may fail before it has counted (`FailOpen`) or after (`FailOpenCounted`):
go-redis does not repeat a transaction it has sent, and the limiter lets the request through in both cases. One client address is modelled, hence one counter; the
counters of several are independent. Key and counter outlive the process. Time passes in ticks of the window (`Tick`).

## 3. Runs

| Run | Instance | What it shows |
|---|---|---|
| `sessions` | 2 requests, 2 accounts, 3 tokens | under every overlap: the service implements `SessionLedger`, an exchanged token is revoked and a revoked one was exchanged or logged out, rotations keep the account, a signup leaves an account and its session or neither, acknowledged logouts are final |
| `sessions_replay` | as `sessions` | **violation**: two overlapping refreshes of one token both open a session |
| `web_tabs` | 2 tabs, 4 tokens, no loss | the cookie of the browser is alive or about to be replaced |
| `web_render` | 2 requests, pages included | **violation**: a render revokes the refresh token it cannot replace |
| `web_liveness` | 1 request of every kind, losses | every request is answered |
| `posts` | 2 accounts (one without a publisher), 1 project, 1 post, 2 post requests, 2 team operations | two of an addition, a removal and a deletion in flight together leave the owner in the lead and no orphan; authors were entitled; of an edit and a deletion in flight together the edit changes a live post or nothing, and both are its managers' |
| `posts_threads` | 1 account, 1 project, 3 posts, 2 post requests, 1 team operation | references resolve after every cascade, threads are trees, reply counters exact, and a thread is shown with the right depths and totals, and leaves out exactly the live replies below a deleted one |
| `posts_hidden` | 1 account, 3 posts | **violation**: a live reply under a deleted one is not shown |
| `media` | 2 accounts, 2 files, 1 post, 2 updates | only uploaded files of a manager are attached; a committed update leaves all the files it asked for and adds no others; edits of the body are ordered with deletions |
| `media_count` | 1 account, 1 file, 1 post, 1 update | **violation**: an update that keeps an attachment is told it has fewer |
| `server` | 3 requests, 2 per window, a window of 2 ticks, 2 connections | the limit holds across restarts and failures of Redis, a refusal is earned, a clean exit has served all, a signal ends the process, a full window ends |
| `feed` | a thread and 2 drafts of 1 composer, 1 reader, 2 instants, page sizes asked for 0 to 3 (default 1, cap 2) | the feed implements `ListWalk`; pages descend and skip nothing that stayed, page sizes are capped, drafts are published once per reported failure and never lost |

Bounds. `Tokens` bounds the sessions ever opened: three are enough for two rotations of the same
token and for a rotation of a rotation; the tabs use four so that both tabs can rotate and one of them rotate
again. Two requests are enough for every pairwise race; the theorems cover more. `OneLogin` (run `web_tabs`)
lets the visitor sign in once, so that the four tokens are spent on rotations. `MaxPosts` is three where depth matters (root, reply, reply to the reply) and
one in `posts`, where two requests edit and delete the same post while two team operations change who may; with no second post there are no
replies in that run, and what relates posts to each other, `ReferencesResolve` included, is checked in `posts_threads`. One project and one slug are enough, since posts and team operations look at one project at a time. Two files and two updates of one post give every overlap of two lists that
share a file or not; the updates of different posts do not meet. `ThreadIsShownWhole` is asked only of states without a request in flight: a
request can always fail and leave the same rows, so no thread is missed. Three requests with two connections and a limit of two let a
request wait for a connection and be refused; a window of two ticks tells a counter that
expires from one that is renewed. Three posts give a page, a cursor and something below it, with two instants for equal and different
times of creation and a commit that comes late; the default page of one post and the cap of two make walks of one to three pages. `count` stops at
`Limit + 1`, which stands for any excess. The clock of `Feed` stops at `MaxTime`; posts go on being written at the last instant. Requests, tokens, accounts, projects and slugs are symmetric
in the safety runs; `feed` and the runs that check liveness, `web_liveness` and `server`, use no symmetry. One composer is enough for `feed`: after a failure that
was reported too early it has both drafts on their way at once, and composers share nothing; the theorems cover any number.

Deadlock is not checked in the runs of `Posts`, `Attachments` and `Feed`: when every id has been drawn
and everything is deleted or uploaded nothing is left to do. The runs of `Sessions`, `WebSession` and `Server` do check it.

Fairness. `web_liveness` and `server` assume some. In `web_liveness` a started request takes its next step (`Progress`), per
request and weakly. The API cancels a request after 30 seconds (`requestTimeout` in
`api/internal/app/router.go`) and `fetch` rejects when the connection ends, so no step of a started request can be postponed for
ever. Nothing is assumed of the browser, of the clock, or of which outcome a step has. In `server` the main goroutine runs, a request
takes its next step for the same reason, weakly and each on its own, and time passes, on which the expiry of a key in Redis depends. Nothing is assumed of
`Start`, `Signal`, `Kill`, the listener, or new requests. That a signal ends the process rests on two things the fairness does not give: the drain has a deadline,
and every way out of `query` returns the connection `pool.Close` waits for.

Each property of a passing run has a mutant in the module it is about (`Mutant:` in the
comments): a plausible bug of that code, with which TLC finds the property violated.

## 4. What the violations show

1. `sessions_replay`. *Refresh* reads the session outside its transaction, and
   `Revoke` ignores how many rows it changed. Two refreshes that overlap both read the
   token active; both commit; the token was used twice. The comment of `Service.Refresh` says it is usable
   only once. The theorem `SerialTokensAreUsedOnce` shows that the overlap is the only cause.
2. `web_render`. `rotateSession` posts the refresh token and asks afterwards whether cookies can be
   written. In a render they cannot, the new pair is dropped and the browser keeps a
   revoked token. The header of `server.ts` and the comment of `SessionKeeper` describe the opposite.
3. `posts_hidden`. The recursive query of `ThreadPosts` stops at a deleted post, so the live replies
   below are not returned; `Build`, which would hang them off the root, never sees them. The theorem
   `ThreadsHideOnlyBelowDeleted` says what the code does instead.
4. `media_count`. `SyncMedia` returns the rows its `INSERT ... ON CONFLICT DO NOTHING` affected, which are only the new ones, and `Update`
   compares that number with the length of its whole list. An update that keeps one of the attachments is therefore refused, as if the
   file were missing. The comment of `SyncMedia` says that it reports how many attachments remain. The theorem `ReportsMissKept` gives the difference.

Consequences of the code that no comment contradicts are modelled and not reported as violations: `parent_id` and `root_id`
cascade, so the deletion of a project takes with it the replies of everyone else in its threads; a post whose answer was lost is published again when its author tries again; a post
that commits late appears below the posts a reader has seen; and `Shutdown` waits 15 seconds for requests that may take 30, after which the
process returns an error while they still use the pool.

Three more comments say what the code does not do; the models translate the code, and no run is spent on them. `posts/repository.go:203` says that `SyncMedia`
*replaces* the attachments. It does so only for an update that meets no other and whose list is not empty, which is what the theorem `SerialUpdatesReplace` says. `uniqueIDs` turns an empty list into a
nil slice, the database receives NULL, the `DELETE` finds no row, and the count, 0, is the length of the list: the update succeeds and removes nothing. And of two updates that overlap neither
deletes what the other has not committed, so that the post may keep the union of their lists (`UpdateIsWhole` bounds it). `threads/tree.go:35` says the
input of `Build` "may arrive in any order", but line 65 takes the depth of a node from its parent's, which must have been placed: with the rows in another order the depths are wrong (the mutant
`NewestFirst` of `ThreadEntries` shows it). The comment in the body (lines 41-42) and the query of `ThreadPosts`, which orders by depth, are what holds, and `ThreadsAreShownWhole`
rests on them. `media/service.go:53-54` says of `Presign` that nothing is created in the database until the client completes the upload, but it creates the row, in
the state `pending`, which is what `Complete` looks for later; `Attachments.Presign` does what the code does.

Four things were seen while reading that are not in a model. The "All" tab of a profile drops the cursor
(`web/src/app/[username]/page.tsx:46`), so its "Load more" link (line 62) leads to the first page again. `SettingsForm` sends the
`avatar_url` it was rendered with, also after `AvatarUpload` has stored another. In `run` the deferred `stop()` runs after `Close`, so a second signal during the
shutdown is swallowed instead of ending the process. The web server forwards no client address, so all its visitors share one counter of the limiter.

## 5. Proofs

Every theorem holds for any sets of accounts, tokens and requests. The only
assumptions on the constants are that `None` is none of them, that accounts and projects differ, for the web that
`Kinds` and `Lossy` are what their names say and that `Keep` (no `Set-Cookie` header) is no token, for posts that `None` is no id,
for attachments that the files are finitely many (they are counted), for
lists that ids are finitely many natural numbers (they are compared and counted) and the default page is at least one post and no larger than the cap, and for the server that
its limit, window and pool are natural numbers, the last two not zero.

`SessionsProofs`. The inductive invariant `Inv` is the conjunction of the checked invariants
with two more. `ReadIsCurrent` says what a request has read (a session that exists, and its holder)
still holds: without it `RefreshCommit` could give the new session to another account, and
`TypeOK` itself would not be inductive, because `LogoutRevoke` would record an unknown token.
`FreshIsBlank` says a token that was not drawn has no parent and no acknowledged logout, so
opening a session disturbs no other. There is one lemma per kind of step; steps that
only give up or receive an answer share `QuietStep`. From `Inv` follow type correctness, the four safety invariants and, as an action property, `RevokedForever`.

Of the same module, `ServiceImplementsLedger` says that every behaviour of the service is one of `SessionLedger`, for any number of
overlapping requests. Each action is mapped to one action of the ledger or to a stutter, from `Inv`: a request that writes has read a token that exists
and its holder, and the token it opens is fresh. Under `OneAtATime` (there is one request slot) `SerialInv` adds `StillOpen` and
that the logout of the token in hand is not acknowledged; then a token is exchanged once (`SerialTokensAreUsedOnce`) and
no rotation follows a logout (`SerialLogoutEndsRotation`). The assumption is needed: `sessions_replay` refutes the first for two requests.
`SignupsAreWhole` is about the accounts that signed up; those of the development seeds were never given a session. `NewSession` is the lemma for a session that an account
is given, by a signup, a login or a rotation.

`WebSessionProofs`. `CookiesWereIssued` says every token in the jar, in a request or in an answer was issued by the service. It makes
every step of the web application a step of `Sessions`, hence `WebSpec => Spec`: the web application is a client of the service, and
`LogoutIsFinal` carries over to it. `InStep` ties the two sides of a request: the BFF waits exactly while the API has a call of its own (`CallsAreAwaited`),
and where it stands says what that call is about. `PairInFlightIsOpen` is not inductive: whoever holds a token could revoke it. `PairsArePrivate` adds that a
token on its way to the browser is in no cookie, in no other request and in no other answer, so that nothing in flight can reach its row
(`PairsInFlightAreOpen`, for any number of requests of any kind, with losses). From there `JarsAreRepaired` follows each request that brings a
replacement until it delivers it (`KeepsReplacing`) and shows that whoever revokes a token is one (`RevokerReplaces`). Its hypothesis `RouteHandlersOnly`, no renders and no lost answers, is
needed: the render of `web_render` leaves a revoked token in the cookie and brings no replacement, and so does a rotation whose answer is lost, from which nothing in the code recovers.
`RequestsAdvance` is what `EveryRequestIsAnswered` says without the fairness: a started request has at most six steps left (`Left`), and every step it takes has fewer.

`TeamsProofs`. The invariants do not carry themselves: `AddMember` writes the role without looking at the owner. `ChecksHold` says
what was checked one read before still holds when the write happens: the member is not the owner of the project, because owners never
change and the id of a deleted project is not drawn again (`TeamHasJoined` and `joined` carry that). `NoAdmins` says that no row holds the role `admin`,
which the schema allows and the service never gives.

`PostsProofs`. The invariant extends that of the teams, and its lemmas reuse theirs: one shows that a step of the teams other than a deletion
takes nothing away that a post relies on, another that every step of the service is one of `TeamsSpec` (`PostsUseTheTeams`). `JobsAreSound` says that what
a request has read in one statement still holds in its later transaction: the root of a reply is the root of its parent, the author was on
the team it publishes as, and who was about to change a live post still manages it (`ChangedByItsManagers` asks that at the instant of the write, of an edit or a deletion that a request has in hand). The last is true because `NoAdmins` and `OwnerLeadsTeam` make managing a
project's posts the same as owning it, and the deletion of the project leaves none of its posts live. `IdsInOrder` gives that
a reply comes after its parent, and `CountsAreExact` is `ReplyCountIsExact` for every row, since a purged row keeps its replies. The cascade is handled by
`DoomedIsClosed`: the least closed set is closed, so whatever remains refers to what remains.

`ThreadsProofs`. `ThreadPosts` and `Answered` are least sets, so a set that holds the start of one and passes on to its replies (or parents) holds all of it
(`ThreadIsLeast`, `AnsweredIsLeast`): that replaces induction over the tree. The recursive definitions have closed forms. The depth
column is the number of posts above a row (`DepthColumn`); the rows stand in its order, so when the pass of `Build` reaches a row, its parent has been placed (`EntriesInOrder`, `TreeIsTrue`);
`Stats` counts the posts of the thread and finds the largest depth (`StatsAreTrue`). Each is shown by the least counterexample: ids grow from parent to reply, so a
value that is wrong would have a least or a largest place where it is, and the definition gives one before or after it. `LeastOf` gets that least place from the
well-foundedness of the natural numbers, without an induction theorem that takes an operator. `ThreadsAreShownWhole` needs no more of the posts than that replies come after
their parents and threads are trees. `ThreadsHideOnlyBelowDeleted` says what the code does where its comment promises more: a live reply is missing from the thread of its
root exactly when something it answers was deleted.

`AttachmentsProofs`. `UploadedIsStored` says a row marked uploaded has its object. `CallsAreSound` says of every update in flight that it is about a
post that exists and is managed by its caller, that what it has inserted could be attached and was counted, and that the post it
has locked is live. A committed update is whole because its count, of new rows only, can equal the length of its list only
when every file of the list was inserted by it: `FS_Subset` turns equal cardinalities into equal sets (`CommitAddsItsList`). `ReportsMissKept` is about an update that meets no other
(`OneUpdateAtATime`): what `SyncMedia` reports is the number of attachments that remain less those the update keeps, so an update that keeps none is told the truth and the run `media_count`
has no other cause. With two updates the difference is another one (what the other has committed in between), hence the hypothesis.
`SerialUpdatesReplace` has the same one. Both rest on `TakesTheRest`: from the start of its `DELETE` an update that is alone takes away what is attached and not on its list, because
nothing else changes the attachments meanwhile (`AloneStep`).

`ServerProofs`. `Counted` ties the counter to its histories: what has passed is the counter cut at the limit, the counter
let through no more than has passed, and a counter above zero has an expiry. `RefusalIsEarned` and `AdmittedWithinLimit` follow. `CountersExpire` and `WindowsRunOut` are the safety half of
`FullWindowEnds`: a counter has an expiry, no request gives it more time, and it is gone with it. `Ordered` follows the process: nothing is in flight before `Serve` or after `Exit`, the pool is open until `run` has returned, and
a return without an error leaves nothing in flight. None of this depends on how often the process is killed. `ShutdownsAdvance` is the safety half of `SignalEndsProcess`: the signal is kept as long as the process lives, from then on `run`
only comes nearer to its return (`Way`), and once the pool is closed no connection is lent that `Close` would have to wait for.

`FeedProofs`. The walk needs six facts about a reader besides types (`WalkInv`). What has been shown lies at or above the cursor (`ShownAbove`), and what the list has held
ever since and has not been shown lies below it (`RestBelow`): the first gives `WalkDescends`, the second `NothingSkipped` when
the cursor is gone. They survive a page because `PageFits` says what the page in flight is worth: it is under its cursor, and whatever
of the list it leaves out lies under the next one. `Held` and `Asked` tie the list to the rows and to the identities read before them: a
post that stayed in the list is one that the identities select. The argument rests on positions being totally ordered (time first, then id)
and never changing once a post is visible. `DraftsInv` counts: the attempts of a composer are at most its reported failures and one more while it
waits or after it has cleared (`AttemptsAreCounted`), and it waits for a post of its own (`WaitsForItsOwn`). A page is capped
(`PagesAreCapped`) because each of its rows but the last lies above the last, of which `Top` admits fewer than the limit.
`FeedReadsAsList` shows that every behaviour of the feed is one of `ListWalk`: what composers, deletions and the team do only gives posts a place and takes posts out of lists (`OthersChangeTheList`, from
`CommittedStays`), and the requests of a reader are its steps or none (`RequestsReadTheList`). A delivered page is a page of the list (`DeliverIsPage`) because the cursor lies below nothing that
has been shown by then (`CursorIsLast`) and above everything that is left (`PageFits`); that it is not empty is an invariant of its own (`PagesBring`).

Every invariant and action property of a passing run is one of these theorems. Only model-checked are the violations and the liveness properties
(`EveryRequestIsAnswered`, `SignalEndsProcess`, `FullWindowEnds`), which rest on fairness and on what is enabled and are out of reach of the prover. Of each, the safety half is proved:
nothing goes back, for any number of requests. That something goes on stays with TLC.

## 6. Not modelled

- Password hashing, validation, formatting and the texts of errors: a refusal.
- `RevokeAllForUser`, `DeleteExpired`, `UpdatePassword`, `media.Delete`: called by nothing.
- A connection that breaks while the API is still working, and a commit whose acknowledgement is lost between PostgreSQL and the API:
  `LoseAnswer` loses the answer after the step instead.
- Updates of accounts and projects: one statement each over columns that are displayed. Changes of usernames only change handles.
- The order of `Members`, the showcase of a profile's projects.
- The reading of the configuration, health probes, request logging, CORS, the cache's JSON helpers (called by nothing).
- The settings form and the avatar upload.
- Presentation, migrations and seeds (see the components of `PROJECT.json`).

## 7. Plan

Done: sessions and their ledger, the web session, teams, posts, threads, attachments, lists and what they promise, the process, and a theorem for every safety property of the passing runs. Left:

1. An abstract specification of uploads and attachments (a file is offered, uploaded, shown), implemented by `Attachments` statement by statement.
2. Updates of accounts and of projects, once more than one statement or reader depends on them.
