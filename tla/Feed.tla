-------------------------------- MODULE Feed --------------------------------
(***************************************************************************)
(* Lists of posts read page by page (internal/platform/pagination, the     *)
(* feed, the replies of a post and the activity of a profile) while posts  *)
(* are published, deleted and purged, and the composer of the web          *)
(* application, which publishes a draft and may be told so too late or     *)
(* not at all.                                                             *)
(*                                                                         *)
(* created_at is the time at which the transaction of a post began: a post *)
(* may appear below posts that were committed before it.  Ids are drawn at *)
(* random and say nothing about time.                                      *)
(*                                                                         *)
(* A reader is a client of the API that follows the cursor of each answer, *)
(* as the pages of the web application do, save the tab "All" of a profile *)
(* (app/[username]/page.tsx:46), which asks for its first page again.      *)
(***************************************************************************)
EXTENDS Naturals, FiniteSets

CONSTANTS
    Posts,          \* ids that may be drawn, compared as numbers
    Thread,         \* the id of the post whose replies are listed
    Composers,      \* composers, each with one draft
    Readers,        \* readers, each walking down one list at a time
    DefaultLimit, MaxLimit,
    MaxTime,        \* the bound on the clock
    None

\* A place in a list: what a cursor carries.
Position == [at : 0 .. MaxTime, id : Posts]

ASSUME FeedAssumption ==
    /\ Posts \subseteq Nat /\ IsFiniteSet(Posts) /\ Thread \in Posts
    /\ MaxLimit \in Nat /\ DefaultLimit \in 1 .. MaxLimit /\ MaxTime \in Nat
    /\ None \notin Posts \cup Composers \cup Position

VARIABLES
    clock,
    post,       \* the posts table, with the transactions that write it
    project,    \* the profile's project: it is "in" or "out" of the team
                \* that makes its posts the profile's, or "purged"
    composer,   \* the composer in the browser and the attempt it waits for
    failures,   \* history: attempts of a composer that were reported to fail
    reader,     \* the list a reader walks and the request it has in flight
    shown,      \* history: what the pages of the walk have shown
    steady      \* history: what its list has held ever since the walk began

writing == <<clock, post, project, composer, failures>>
reading == <<reader, shown>>
vars == <<writing, reading, steady>>

\* One project, one profile and one thread: what tells posts apart in a list.
Kinds == {"root", "reply", "project"}
Lists == {"feed", "replies", "all", "user", "projects"}

Row == [state : {"absent", "sent", "writing", "live", "deleted", "void"},
        kind : Kinds, at : 0 .. MaxTime, by : Composers \cup {None}]

Blank == [state |-> "absent", kind |-> "root", at |-> 0, by |-> None]

Editing == [pc |-> "draft", waits |-> None]

NoWalk == [pc |-> "new", list |-> "feed", cursor |-> None, scope |-> {},
           page |-> {}, next |-> None]

Init ==
    /\ clock = 0
    /\ post = [p \in Posts |->
                 IF p = Thread THEN [Blank EXCEPT !.state = "live"] ELSE Blank]
    /\ project \in {"in", "out"}
    /\ composer = [c \in Composers |-> Editing]
    /\ failures = [c \in Composers |-> 0]
    /\ reader = [v \in Readers |-> NoWalk]
    /\ shown = [v \in Readers |-> {}]
    /\ steady = [v \in Readers |-> {}]

Live == {p \in Posts : post[p].state = "live"}
Committed == {p \in Posts : post[p].state \in {"live", "deleted"}}

\* publishers.ListForUser, cut to the scope: the kinds of the posts that the
\* identities of the profile have published.
Identities(list) ==
    (IF list \in {"all", "user"} THEN {"root", "reply"} ELSE {})
    \cup (IF list \in {"all", "projects"} /\ project = "in"
          THEN {"project"} ELSE {})

\* What a list selects, the identities having been read before.
Selects(list, scope) ==
    CASE list = "feed"    -> Kinds \ {"reply"}
      [] list = "replies" -> {"reply"}
      [] OTHER            -> scope

Listed(list) ==
    {p \in Live : post[p].kind \in Selects(list, Identities(list))}

(***************************************************************************)
(* Publishing.                                                             *)
(***************************************************************************)
Drawn(p, c) == post[p].state = "absent" /\ c \in Composers

\* Mutant: the button is not disabled while a submission is pending.
SubmitAgain(c, p) ==
    /\ composer[c].pc # "clear"
    /\ Drawn(p, c)
    /\ \E k \in Kinds : post' = [post EXCEPT ![p] =
          [state |-> "sent", kind |-> k, at |-> 0, by |-> c]]
    /\ composer' = [composer EXCEPT ![c] = [pc |-> "pending", waits |-> p]]
    /\ UNCHANGED <<clock, project, failures, reading, steady>>

\* handleSubmit: nothing is sent while an answer is pending.
Submit(c, p) ==
    /\ composer[c].pc = "draft"
    /\ Drawn(p, c)
    /\ \E k \in Kinds : post' = [post EXCEPT ![p] =
          [state |-> "sent", kind |-> k, at |-> 0, by |-> c]]
    /\ composer' = [composer EXCEPT ![c] = [pc |-> "pending", waits |-> p]]
    /\ UNCHANGED <<clock, project, failures, reading, steady>>

\* The parent and the publisher were found; the transaction begins now.
Begin(p) ==
    /\ post[p].state = "sent"
    /\ post[p].kind = "reply" => Thread \in Live
    /\ post[p].kind = "project" => project # "purged"
    /\ post' = [post EXCEPT ![p].state = "writing", ![p].at = clock]
    /\ UNCHANGED <<clock, project, composer, failures, reading, steady>>

\* A project that was purged meanwhile fails the insert; a parent that was
\* deleted meanwhile does not.
Commit(p) ==
    /\ post[p].state = "writing"
    /\ post[p].kind = "project" => project # "purged"
    /\ post' = [post EXCEPT ![p].state = "live"]
    /\ UNCHANGED <<clock, project, composer, failures, reading, steady>>

\* Refused, failed, cancelled by the timeout or by the client that left.
Abort(p) ==
    /\ post[p].state \in {"sent", "writing"}
    /\ post' = [post EXCEPT ![p] = [Blank EXCEPT !.state = "void"]]
    /\ UNCHANGED <<clock, project, composer, failures, reading, steady>>

\* Mutant: the handler answers with the post it inserted, before the commit.
ToldEarly(c) ==
    /\ composer[c].pc = "pending"
    /\ post[composer[c].waits].state \in {"writing", "live"}
    /\ composer' = [composer EXCEPT ![c] = [pc |-> "clear", waits |-> None]]
    /\ UNCHANGED <<clock, post, project, failures, reading, steady>>

\* The read-back finds the post: the composer clears its draft.
Told(c) ==
    /\ composer[c].pc = "pending"
    /\ composer[c].waits \in Live
    /\ composer' = [composer EXCEPT ![c] = [pc |-> "clear", waits |-> None]]
    /\ UNCHANGED <<clock, post, project, failures, reading, steady>>

\* Mutant: the error path does not end the submission.
StaysPending(c) ==
    /\ composer[c].pc = "pending"
    /\ composer' = [composer EXCEPT ![c].waits = None]
    /\ failures' = [failures EXCEPT ![c] = @ + 1]
    /\ UNCHANGED <<clock, post, project, reading, steady>>

\* An error, also of the read-back after the commit, or no answer at all while
\* the attempt goes on: the draft stays.
ToldFailure(c) ==
    /\ composer[c].pc = "pending"
    /\ composer' = [composer EXCEPT ![c] = Editing]
    /\ failures' = [failures EXCEPT ![c] = @ + 1]
    /\ UNCHANGED <<clock, post, project, reading, steady>>

(***************************************************************************)
(* What disappears from the lists.                                         *)
(***************************************************************************)
Keep(lost) == steady' = [v \in Readers |-> steady[v] \ lost[v]]

Delete(p) ==
    /\ p \in Live
    /\ post' = [post EXCEPT ![p].state = "deleted"]
    /\ Keep([v \in Readers |-> {p}])
    /\ UNCHANGED <<clock, project, composer, failures, reading>>

OfProject == {p \in Posts : post[p].kind = "project"}

Purge ==
    /\ project # "purged"
    /\ project' = "purged"
    /\ post' = [p \in Posts |-> IF p \in OfProject \cap Live
                                THEN [post[p] EXCEPT !.state = "deleted"]
                                ELSE post[p]]
    /\ Keep([v \in Readers |-> OfProject])
    /\ UNCHANGED <<clock, composer, failures, reading>>

Join ==
    /\ project = "out"
    /\ project' = "in"
    /\ UNCHANGED <<clock, post, composer, failures, reading, steady>>

Leave ==
    /\ project = "in"
    /\ project' = "out"
    /\ Keep([v \in Readers |-> IF reader[v].list \in {"all", "projects"}
                               THEN OfProject ELSE {}])
    /\ UNCHANGED <<clock, post, composer, failures, reading>>

Tick ==
    /\ clock < MaxTime
    /\ clock' = clock + 1
    /\ UNCHANGED <<post, project, composer, failures, reading, steady>>

(***************************************************************************)
(* Pages.                                                                  *)
(***************************************************************************)
\* Mutant: a client gets the page size it asks for.
AnyLimit(limit) == IF limit = 0 THEN DefaultLimit ELSE limit

NormalizeLimit(limit) ==
    IF limit = 0 THEN DefaultLimit
    ELSE IF limit > MaxLimit THEN MaxLimit ELSE limit

PositionOf(p) == [at |-> post[p].at, id |-> p]

\* (created_at, id) < (created_at, id)
Below(a, b) == a.at < b.at \/ (a.at = b.at /\ a.id < b.id)

\* Mutant: the cursor carries the time alone.
UnderTime(cursor) == {p \in Posts : cursor = None \/ post[p].at < cursor.at}

\* Mutant: the rows that are not above the cursor.
UnderOrAt(cursor) == {p \in Posts : cursor = None \/ ~ Below(cursor, PositionOf(p))}

Under(cursor) == {p \in Posts : cursor = None \/ Below(PositionOf(p), cursor)}

Above(p, rows) == {q \in rows : q # p /\ ~ Below(PositionOf(q), PositionOf(p))}

\* The first rows in the order of the lists, newest first.
Top(rows, limit) == {p \in rows : Cardinality(Above(p, rows)) < limit}

\* Mutant: the cursor is that of the row that was read ahead.
BuildPageAhead(v, rows, limit) ==
    \/ /\ Cardinality(rows) <= limit
       /\ reader' = [reader EXCEPT ![v].pc = "sent", ![v].page = rows,
                                   ![v].next = None]
    \/ \E ahead \in Top(rows, limit + 1) \ Top(rows, limit) :
          reader' = [reader EXCEPT ![v].pc = "sent",
                                   ![v].page = Top(rows, limit),
                                   ![v].next = PositionOf(ahead)]

\* The items of a page and the cursor of its last item, if there is one more.
BuildPage(v, rows, limit) ==
    \/ /\ Cardinality(rows) <= limit
       /\ reader' = [reader EXCEPT ![v].pc = "sent", ![v].page = rows,
                                   ![v].next = None]
    \/ /\ Cardinality(rows) > limit
       /\ \E last \in Top(rows, limit) :
             /\ Above(last, Top(rows, limit)) = Top(rows, limit) \ {last}
             /\ reader' = [reader EXCEPT ![v].pc = "sent",
                                         ![v].page = Top(rows, limit),
                                         ![v].next = PositionOf(last)]

Open(v, list) ==
    /\ reader[v].pc = "new"
    /\ reader' = [reader EXCEPT ![v] =
                    [NoWalk EXCEPT !.pc = "ready", !.list = list]]
    /\ shown' = [shown EXCEPT ![v] = {}]
    /\ steady' = [steady EXCEPT ![v] = Listed(list)]
    /\ UNCHANGED writing

Stop(v) ==
    /\ reader' = [reader EXCEPT ![v] = NoWalk]
    /\ shown' = [shown EXCEPT ![v] = {}]
    /\ steady' = [steady EXCEPT ![v] = {}]

\* The statement before the rows: the parent of the replies, which must be
\* live, or the identities of the profile.
Ask(v) ==
    /\ reader[v].pc = "ready"
    /\ IF reader[v].list = "replies" /\ Thread \notin Live
       THEN Stop(v)
       ELSE /\ reader' = [reader EXCEPT ![v].pc = "asked",
                                       ![v].scope = Identities(reader[v].list)]
            /\ UNCHANGED <<shown, steady>>
    /\ UNCHANGED writing

Serve(v, requested) ==
    /\ reader[v].pc = "asked"
    /\ BuildPage(v, {p \in Live \cap Under(reader[v].cursor) :
                       post[p].kind \in Selects(reader[v].list, reader[v].scope)},
                 NormalizeLimit(requested))
    /\ UNCHANGED <<writing, shown, steady>>

\* The request failed or its answer was lost: the cursor is asked for again.
Retry(v) ==
    /\ reader[v].pc \in {"asked", "sent"}
    /\ reader' = [reader EXCEPT ![v] =
                    [NoWalk EXCEPT !.pc = "ready", !.list = reader[v].list,
                                   !.cursor = reader[v].cursor]]
    /\ UNCHANGED <<writing, shown, steady>>

Deliver(v) ==
    /\ reader[v].pc = "sent"
    /\ shown' = [shown EXCEPT ![v] = @ \cup reader[v].page]
    /\ reader' = [reader EXCEPT ![v] =
                    [NoWalk EXCEPT
                       !.pc = IF reader[v].next = None THEN "done" ELSE "ready",
                       !.list = reader[v].list, !.cursor = reader[v].next]]
    /\ UNCHANGED <<writing, steady>>

\* Another list, or the newest posts again.
Turn(v) ==
    /\ reader[v].pc \in {"ready", "done"}
    /\ Stop(v)
    /\ UNCHANGED writing

Read(v) ==
    \/ \E list \in Lists : Open(v, list)
    \/ Ask(v) \/ Retry(v) \/ Deliver(v) \/ Turn(v)
    \/ \E requested \in 0 .. MaxLimit + 1 : Serve(v, requested)

Publish ==
    \/ \E c \in Composers, p \in Posts : Submit(c, p)
    \/ \E p \in Posts : Begin(p) \/ Commit(p) \/ Abort(p)
    \/ \E c \in Composers : Told(c) \/ ToldFailure(c)

Remove == Purge \/ Join \/ Leave \/ \E p \in Posts : Delete(p)

Next == Publish \/ Remove \/ Tick \/ \E v \in Readers : Read(v)

Spec == Init /\ [][Next]_vars

-----------------------------------------------------------------------------

\* Posts, composers and walks have their types; a composer is disabled exactly
\* while an answer is due.
FeedTypeOK ==
    /\ clock \in 0 .. MaxTime
    /\ post \in [Posts -> Row]
    /\ project \in {"in", "out", "purged"}
    /\ composer \in [Composers -> [pc : {"draft", "pending", "clear"},
                                   waits : Posts \cup {None}]]
    /\ \A c \in Composers : composer[c].pc = "pending" <=> composer[c].waits # None
    /\ failures \in [Composers -> Nat]
    /\ reader \in [Readers -> [pc : {"new", "ready", "asked", "sent", "done"},
                               list : Lists, cursor : Position \cup {None},
                               scope : SUBSET Kinds, page : SUBSET Posts,
                               next : Position \cup {None}]]
    /\ shown \in [Readers -> SUBSET Posts]
    /\ steady \in [Readers -> SUBSET Posts]

\* "New posts never shift a page": what a page brings lies below everything
\* that the walk has shown, so nothing is listed twice and the order is kept,
\* whatever is published, deleted or asked for again between two pages.
WalkDescends ==
    \A v \in Readers : reader[v].pc = "sent" =>
        \A p \in reader[v].page, q \in shown[v] :
            Below(PositionOf(p), PositionOf(q))

\* "Positions are stable": when a walk has reached its end, it has shown every
\* post that its list held from the first request to the last.
NothingSkipped ==
    \A v \in Readers : reader[v].pc = "done" => steady[v] \subseteq shown[v]

\* No page is larger than the cap, whatever size was asked for.
PageIsCapped == \A v \in Readers : Cardinality(reader[v].page) <= MaxLimit

Copies(c) == {p \in Committed : post[p].by = c}

\* A draft is published once more at most for each time the composer was told
\* that it had failed.
DraftIsPublishedOnce ==
    \A c \in Composers : Cardinality(Copies(c)) <= failures[c] + 1

\* A composer throws its draft away only when the draft has been published.
ClearedIsPublished ==
    \A c \in Composers : composer[c].pc = "clear" => Copies(c) # {}

=============================================================================
