---------------------------- MODULE Attachments -----------------------------
(***************************************************************************)
(* Uploads and attachments: internal/media, the bucket it presigns uploads *)
(* to, and SyncMedia of internal/posts.  An update of a post is a          *)
(* transaction of several statements under READ COMMITTED: each statement  *)
(* sees what was committed when it started, and waits for the rows it      *)
(* needs that another transaction in flight has written.  The rows a transaction      *)
(* wrote are kept with it until it commits.  Posts are reduced to what     *)
(* decides who may change them.                                            *)
(***************************************************************************)
EXTENDS FiniteSets, Naturals

CONSTANTS
    Users,      \* accounts
    Files,      \* ids of media rows, and the keys of their objects
    Entries,    \* ids of posts
    Calls,      \* updates of posts that may be in flight together
    None        \* no account

ASSUME NoneAssumption == None \notin Users \cup Entries
ASSUME FilesAssumption == IsFiniteSet(Files)

VARIABLES
    media,      \* the media table
    bucket,     \* the keys that hold an object
    entry,      \* the posts table
    attached,   \* the committed rows of post_media
    call        \* the updates in flight, each with its uncommitted rows

vars == <<media, bucket, entry, attached, call>>

File == [state : {"absent", "pending", "uploaded"}, owner : Users \cup {None}]

\* boss manages the post besides its author: the owner of the publishing project.
Entry == [state  : {"absent", "live", "deleted"},
          author : Users \cup {None},
          boss   : Users \cup {None}]

Idle == [pc |-> "idle", caller |-> None, entry |-> None, files |-> {},
         body |-> FALSE, gone |-> {}, added |-> {}, reported |-> 0]

\* The transaction has deleted the attachments gone (at "deleting" it is about to)
\* and inserted the attachments added; reported is what SyncMedia returned.
Call == [pc       : {"idle", "body", "detach", "deleting", "attach", "synced"},
         caller   : Users \cup {None},
         entry    : Entries \cup {None},
         files    : SUBSET Files,
         body     : BOOLEAN,
         gone     : SUBSET Files,
         added    : SUBSET Files,
         reported : Nat]

Init ==
    /\ media    = [f \in Files |-> [state |-> "absent", owner |-> None]]
    /\ bucket   = {}
    /\ entry    = [p \in Entries |-> [state |-> "absent", author |-> None, boss |-> None]]
    /\ attached = [p \in Entries |-> {}]
    /\ call     = [r \in Calls |-> Idle]

MayManage(u, p) == u \in {entry[p].author, entry[p].boss}

\* Mutant: SyncMedia does not ask for status = 'uploaded'.
OwnFiles(u, F) == {f \in F : media[f].owner = u}

\* The files of a list that SyncMedia may attach for a user.
Attachable(u, F) == {f \in F : media[f].owner = u /\ media[f].state = "uploaded"}

(***************************************************************************)
(* Uploads.                                                                *)
(***************************************************************************)
\* The URL and the row are made in one call; without the row the URL is not
\* handed out.
Presign(u, f) ==
    /\ media[f].state = "absent"
    /\ media' = [media EXCEPT ![f] = [state |-> "pending", owner |-> u]]
    /\ UNCHANGED <<bucket, entry, attached, call>>

\* The client sends the file to the presigned URL, or never does.
Put(f) ==
    /\ media[f].state # "absent"
    /\ f \notin bucket
    /\ bucket' = bucket \cup {f}
    /\ UNCHANGED <<media, entry, attached, call>>

\* ByID, Stat and MarkUploaded.  Rows keep their owner and objects are never
\* removed, so what the first two saw still holds at the third.
Complete(u, f) ==
    /\ media[f].state # "absent" /\ media[f].owner = u
    /\ f \in bucket
    /\ media' = [media EXCEPT ![f].state = "uploaded"]
    /\ UNCHANGED <<bucket, entry, attached, call>>

(***************************************************************************)
(* New posts: nobody else sees the row before the transaction commits, and *)
(* files stay attachable, so it is one step.                               *)
(***************************************************************************)
Insert(p, u, b, F) ==
    /\ entry[p].state = "absent"
    /\ entry' = [entry EXCEPT ![p] = [state |-> "live", author |-> u, boss |-> b]]
    /\ attached' = [attached EXCEPT ![p] = Attachable(u, F)]
    /\ UNCHANGED <<media, bucket, call>>

\* persist: a post is created with all of its files or not at all.
CreatePost(p, u, b, F) == Attachable(u, F) = F /\ Insert(p, u, b, F)

\* Reply does not compare the count: files that cannot be attached are left out.
\* (The parent is some other post and decides nothing here.)
CreateReply(p, u, b, F) == Insert(p, u, b, F)

(***************************************************************************)
(* Update: ByID and requireManage, then the transaction.                   *)
(***************************************************************************)
BeginUpdate(r, u, p, F, withBody) ==
    /\ call[r].pc = "idle"
    /\ entry[p].state = "live" /\ MayManage(u, p)
    /\ call' = [call EXCEPT ![r] =
                   [Idle EXCEPT !.pc = IF withBody THEN "body" ELSE "detach",
                                !.caller = u, !.entry = p, !.files = F,
                                !.body = withBody]]
    /\ UNCHANGED <<media, bucket, entry, attached>>

\* The transactions in flight, besides r, on the same post.
Others(r) == {s \in Calls \ {r} : call[s].entry = call[r].entry}

\* UpdateBody has written the row of the post and locks it until the commit.
HoldsPost(s, p) ==
    call[s].body /\ call[s].entry = p /\ call[s].pc \notin {"idle", "body"}

\* The rows of post_media that a transaction has deleted, or written at all.
Deleted(s) == IF call[s].pc = "deleting" THEN {} ELSE call[s].gone

Pending(s) == Deleted(s) \cup call[s].added

\* Mutant: the rows of a transaction outlive its rollback.
RollbackLeavesRows(r) == call' = [call EXCEPT ![r].pc = "idle"]

Rollback(r) == call' = [call EXCEPT ![r] = Idle]

\* Mutant: UpdateBody does not ask for deleted_at IS NULL.
UpdateAnyBody(r) ==
    /\ call[r].pc = "body"
    /\ \A s \in Calls : ~HoldsPost(s, call[r].entry)
    /\ call' = [call EXCEPT ![r].pc = "detach"]
    /\ UNCHANGED <<media, bucket, entry, attached>>

\* UpdateBody waits for the row, and answers 404 when the post is deleted by then.
UpdateBody(r) ==
    /\ call[r].pc = "body"
    /\ \A s \in Calls : ~HoldsPost(s, call[r].entry)
    /\ IF entry[call[r].entry].state = "live"
       THEN call' = [call EXCEPT ![r].pc = "detach"]
       ELSE Rollback(r)
    /\ UNCHANGED <<media, bucket, entry, attached>>

\* SyncMedia, the DELETE starts: it finds its rows among those committed by now.
\* uniqueIDs makes an empty list a nil slice, which is NULL to the database:
\* nothing compares with it, nothing is deleted.
StartDetach(r) ==
    /\ call[r].pc = "detach"
    /\ call' = IF call[r].files = {}
               THEN [call EXCEPT ![r].pc = "synced"]
               ELSE [call EXCEPT ![r].pc   = "deleting",
                                 ![r].gone = attached[call[r].entry] \ call[r].files]
    /\ UNCHANGED <<media, bucket, entry, attached>>

\* The DELETE ends when no other transaction holds one of them, and deletes those
\* that are left.  It does not see what was attached while it waited.
Detach(r) ==
    /\ call[r].pc = "deleting"
    /\ \A s \in Others(r) : call[r].gone \cap Deleted(s) = {}
    /\ call' = [call EXCEPT ![r].pc   = "attach",
                            ![r].gone = @ \cap attached[call[r].entry]]
    /\ UNCHANGED <<media, bucket, entry, attached>>

\* SyncMedia, the INSERT: it waits for the rows of others in flight, skips the
\* attachments that exist, and reports how many it inserted.
Attach(r) ==
    /\ call[r].pc = "attach"
    /\ LET wanted == Attachable(call[r].caller, call[r].files)
           new    == wanted \ attached[call[r].entry]
       IN  /\ \A s \in Others(r) : wanted \cap Pending(s) = {}
           /\ call' = [call EXCEPT ![r].pc = "synced", ![r].added = new,
                                   ![r].reported = Cardinality(new)]
    /\ UNCHANGED <<media, bucket, entry, attached>>

\* Mutant: the count of SyncMedia is not compared, as in Reply.
CommitAny(r) ==
    /\ call[r].pc = "synced"
    /\ attached' = [attached EXCEPT ![call[r].entry] =
                       (@ \ call[r].gone) \cup call[r].added]
    /\ Rollback(r)
    /\ UNCHANGED <<media, bucket, entry>>

\* Update compares the count with the length of its list and commits.
Commit(r) ==
    /\ call[r].pc = "synced"
    /\ call[r].reported = Cardinality(call[r].files)
    /\ attached' = [attached EXCEPT ![call[r].entry] =
                       (@ \ call[r].gone) \cup call[r].added]
    /\ Rollback(r)
    /\ UNCHANGED <<media, bucket, entry>>

\* The count differs, a statement fails, two updates wait for each other, the
\* time is up: the transaction leaves nothing.
Abort(r) ==
    /\ call[r].pc # "idle"
    /\ Rollback(r)
    /\ UNCHANGED <<media, bucket, entry, attached>>

\* Delete: managers stay managers, so its reads and SoftDelete are one step.
\* The attachments stay.
SoftDelete(p, u) ==
    /\ entry[p].state = "live" /\ MayManage(u, p)
    /\ \A s \in Calls : ~HoldsPost(s, p)
    /\ entry' = [entry EXCEPT ![p].state = "deleted"]
    /\ UNCHANGED <<media, bucket, attached, call>>

Upload == \E u \in Users, f \in Files : Presign(u, f) \/ Put(f) \/ Complete(u, f)

Publish ==
    \E p \in Entries, u \in Users, b \in Users \cup {None}, F \in SUBSET Files :
        CreatePost(p, u, b, F) \/ CreateReply(p, u, b, F)

Edit(r) ==
    \/ \E u \in Users, p \in Entries, F \in SUBSET Files, withBody \in BOOLEAN :
          BeginUpdate(r, u, p, F, withBody)
    \/ UpdateBody(r) \/ StartDetach(r) \/ Detach(r) \/ Attach(r) \/ Commit(r) \/ Abort(r)

Next ==
    \/ Upload
    \/ Publish
    \/ \E p \in Entries, u \in Users : SoftDelete(p, u)
    \/ \E r \in Calls : Edit(r)

Spec == Init /\ [][Next]_vars

-----------------------------------------------------------------------------

\* The tables and the transactions in flight are typed: rows that exist have
\* owners, and a call that is over has no uncommitted rows.
TypeOK ==
    /\ media \in [Files -> File]
    /\ \A f \in Files : media[f].state = "absent" <=> media[f].owner = None
    /\ bucket \subseteq Files
    /\ entry \in [Entries -> Entry]
    /\ \A p \in Entries : entry[p].state = "absent" <=> entry[p].author = None
    /\ attached \in [Entries -> SUBSET Files]
    /\ call \in [Calls -> Call]
    /\ \A r \in Calls : call[r].pc = "idle" <=> call[r] = Idle

\* "Only media that finished uploading and belongs to the given user can be
\* attached": whatever a post shows is an object that reached the bucket, of
\* somebody who may manage the post.
AttachedIsUploaded ==
    \A p \in Entries : \A f \in attached[p] :
        /\ f \in bucket
        /\ media[f].state = "uploaded"
        /\ MayManage(media[f].owner, p)

\* The attachments of a post change only by an update of one of its managers, and
\* when they do the post shows every file the update asked for, and no other that
\* it did not show before, whatever other updates of the post have done since it
\* began.  (What others have attached in the meantime may stay.)
UpdateIsWhole ==
    [][\A p \in Entries :
          entry[p].state # "absent" /\ attached'[p] # attached[p] =>
             \E r \in Calls :
                /\ call[r].entry = p /\ call'[r] = Idle /\ call[r].pc # "idle"
                /\ MayManage(call[r].caller, p)
                /\ call[r].files \subseteq attached'[p]
                /\ attached'[p] \subseteq attached[p] \cup call[r].files]_vars

\* An update that edits the body changes the attachments of a live post: the
\* deletion waits for it, or it finds the post deleted and changes nothing.
\* (An update of the attachments alone may still reach a deleted post.)
BodyEditsReachLivePosts ==
    [][\A p \in Entries :
          attached'[p] # attached[p] /\ entry[p].state = "deleted" =>
             \E r \in Calls : call[r].entry = p /\ call[r].pc = "synced" /\ ~call[r].body]_vars

-----------------------------------------------------------------------------
(***************************************************************************)
(* What a comment says and the code does not do.                           *)
(***************************************************************************)

\* "reports how many attachments remain": what SyncMedia returns after its
\* INSERT is the number of attachments of the post, as the transaction sees it.
ReportsRemaining ==
    [][\A r \in Calls :
          Attach(r) =>
             call'[r].reported =
                Cardinality((attached[call[r].entry] \ call[r].gone) \cup call'[r].added)]_vars

=============================================================================
