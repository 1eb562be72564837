------------------------- MODULE AttachmentsProofs --------------------------
(***************************************************************************)
(* Proofs about Attachments, for any accounts, files, posts and updates.   *)
(***************************************************************************)
EXTENDS Attachments, FiniteSetTheorems, TLAPS

\* Complete marks what it has seen in the bucket.
UploadedIsStored == \A f \in Files : media[f].state = "uploaded" => f \in bucket

\* An update in flight is about a post that exists, for one who manages it.
CallIsManaged(r) ==
    call[r].pc # "idle" =>
        /\ call[r].caller \in Users
        /\ call[r].entry \in Entries
        /\ entry[call[r].entry].state # "absent"
        /\ MayManage(call[r].caller, call[r].entry)

\* What it has inserted could be attached, and was counted.
CallIsCounted(r) ==
    /\ call[r].added \subseteq Attachable(call[r].caller, call[r].files)
    /\ call[r].reported = Cardinality(call[r].added)

\* While it holds the row of the post, the post stays live.
CallHoldsPost(r) == \A p \in Entries : HoldsPost(r, p) => entry[p].state = "live"

CallsAreSound ==
    \A r \in Calls : CallIsManaged(r) /\ CallIsCounted(r) /\ CallHoldsPost(r)

\* The inductive invariant.
Inv == TypeOK /\ UploadedIsStored /\ AttachedIsUploaded /\ CallsAreSound

-----------------------------------------------------------------------------

\* Lemma: the initial state satisfies the invariant.
LEMMA InitInv == Init => Inv
<1> SUFFICES ASSUME Init PROVE Inv
  OBVIOUS
<1> USE NoneAssumption DEF Init
<1>1. TypeOK
  BY DEF TypeOK, File, Entry, Call, Idle
<1>2. UploadedIsStored /\ AttachedIsUploaded
  BY DEF UploadedIsStored, AttachedIsUploaded
<1>3. CallsAreSound
  BY FS_EmptySet DEF CallsAreSound, CallIsManaged, CallIsCounted, CallHoldsPost,
     HoldsPost, Idle, Attachable
<1> QED
  BY <1>1, <1>2, <1>3 DEF Inv

\* Lemma: uploads only add to what is stored, so what could be attached still can.
LEMMA UploadInv ==
    ASSUME Inv, NEW u \in Users, NEW f \in Files,
           Presign(u, f) \/ Put(f) \/ Complete(u, f)
    PROVE  Inv'
<1> USE NoneAssumption DEF Inv
<1>1. TypeOK'
  <2>1. CASE Presign(u, f)
    BY <2>1 DEF TypeOK, File, Presign
  <2>2. CASE Put(f)
    BY <2>2 DEF TypeOK, Put
  <2>3. CASE Complete(u, f)
    BY <2>3 DEF TypeOK, File, Complete
  <2> QED
    BY <2>1, <2>2, <2>3
<1>2. bucket \subseteq bucket' /\ entry' = entry /\ attached' = attached /\ call' = call
  BY DEF Presign, Put, Complete
<1>3. \A g \in Files : media[g].state = "uploaded" =>
         media'[g].state = "uploaded" /\ media'[g].owner = media[g].owner
  BY DEF Presign, Put, Complete, TypeOK, File
<1>4. UploadedIsStored'
  BY DEF UploadedIsStored, Presign, Put, Complete, TypeOK, File
<1>5. AttachedIsUploaded'
  BY <1>2, <1>3 DEF AttachedIsUploaded, MayManage, TypeOK
<1>6. CallsAreSound'
  <2> SUFFICES ASSUME NEW r \in Calls
               PROVE  (CallIsManaged(r) /\ CallIsCounted(r) /\ CallHoldsPost(r))'
    BY DEF CallsAreSound
  <2>1. CallIsManaged(r)' /\ CallHoldsPost(r)'
    BY <1>2 DEF CallsAreSound, CallIsManaged, CallHoldsPost, HoldsPost, MayManage
  <2>2. call[r].files \subseteq Files
    BY DEF TypeOK, Call
  <2>3. Attachable(call[r].caller, call[r].files)
           \subseteq Attachable(call[r].caller, call[r].files)'
    BY <1>2, <1>3, <2>2 DEF Attachable
  <2>4. CallIsCounted(r)'
    BY <1>2, <2>3 DEF CallsAreSound, CallIsCounted
  <2> QED
    BY <2>1, <2>4
<1> QED
  BY <1>1, <1>4, <1>5, <1>6

\* Lemma: a new post shows what its author could attach.
LEMMA InsertInv ==
    ASSUME Inv, NEW p \in Entries, NEW u \in Users, NEW b \in Users \cup {None},
           NEW F \in SUBSET Files, Insert(p, u, b, F)
    PROVE  Inv'
<1> USE NoneAssumption DEF Inv
<1>1. TypeOK'
  BY DEF TypeOK, Entry, Insert, Attachable
<1>2. UploadedIsStored'
  BY DEF UploadedIsStored, Insert
<1>3. AttachedIsUploaded'
  <2> SUFFICES ASSUME NEW q \in Entries, NEW f \in attached'[q]
               PROVE  f \in bucket /\ media[f].state = "uploaded"
                      /\ MayManage(media[f].owner, q)'
    BY DEF AttachedIsUploaded, Insert, MayManage
  <2>1. CASE q = p
    <3>1. f \in Attachable(u, F)
      BY <2>1 DEF Insert, TypeOK
    <3>2. entry'[p].author = u /\ media' = media
      BY DEF Insert, TypeOK
    <3> QED
      BY <2>1, <3>1, <3>2 DEF Attachable, UploadedIsStored, MayManage
  <2>2. CASE q # p
    BY <2>2 DEF Insert, TypeOK, AttachedIsUploaded, MayManage
  <2> QED
    BY <2>1, <2>2
<1>4. CallsAreSound'
  <2> SUFFICES ASSUME NEW r \in Calls
               PROVE  (CallIsManaged(r) /\ CallIsCounted(r) /\ CallHoldsPost(r))'
    BY DEF CallsAreSound
  <2>1. call' = call /\ media' = media /\ entry[p].state = "absent"
        /\ \A q \in Entries \ {p} : entry'[q] = entry[q]
    BY DEF Insert, TypeOK
  <2>2. entry'[p].state = "live"
    BY DEF Insert, TypeOK
  <2>3. CallIsManaged(r)'
    BY <2>1 DEF CallsAreSound, CallIsManaged, MayManage
  <2>4. CallIsCounted(r)'
    BY <2>1 DEF CallsAreSound, CallIsCounted, Attachable
  <2>5. CallHoldsPost(r)'
    BY <2>1, <2>2 DEF CallsAreSound, CallHoldsPost, HoldsPost
  <2> QED
    BY <2>3, <2>4, <2>5
<1> QED
  BY <1>1, <1>2, <1>3, <1>4

\* Lemma: a post is not deleted while an update holds its row.
LEMMA SoftDeleteInv ==
    ASSUME Inv, NEW p \in Entries, NEW u \in Users, SoftDelete(p, u)
    PROVE  Inv'
<1> USE NoneAssumption DEF Inv
<1>1. TypeOK'
  BY DEF TypeOK, Entry, SoftDelete
<1>2. \A q \in Entries : /\ entry'[q].author = entry[q].author
                         /\ entry'[q].boss = entry[q].boss
                         /\ entry[q].state # "absent" => entry'[q].state # "absent"
  BY DEF TypeOK, Entry, SoftDelete
<1>3. UploadedIsStored' /\ AttachedIsUploaded'
  BY <1>2 DEF UploadedIsStored, AttachedIsUploaded, MayManage, SoftDelete
<1>4. CallsAreSound'
  <2> SUFFICES ASSUME NEW r \in Calls
               PROVE  (CallIsManaged(r) /\ CallIsCounted(r) /\ CallHoldsPost(r))'
    BY DEF CallsAreSound
  <2>1. CallIsManaged(r)' /\ CallIsCounted(r)'
    BY <1>2 DEF CallsAreSound, CallIsManaged, CallIsCounted, Attachable, MayManage, SoftDelete
  <2>2. ~HoldsPost(r, p) /\ call' = call
    BY DEF SoftDelete
  <2>3. \A q \in Entries \ {p} : entry'[q] = entry[q]
    BY DEF SoftDelete, TypeOK
  <2>4. CallHoldsPost(r)'
    BY <2>2, <2>3 DEF CallsAreSound, CallHoldsPost, HoldsPost
  <2> QED
    BY <2>1, <2>4
<1> QED
  BY <1>1, <1>3, <1>4

\* Lemma: a step that changes one call, and leaves it sound, keeps the invariant.
LEMMA OneCallInv ==
    ASSUME Inv, NEW r \in Calls, NEW c \in Call,
           call' = [call EXCEPT ![r] = c],
           UNCHANGED <<media, bucket, entry, attached>>,
           c.pc = "idle" <=> c = Idle,
           (CallIsManaged(r) /\ CallIsCounted(r) /\ CallHoldsPost(r))'
    PROVE  Inv'
<1> USE DEF Inv
<1>1. TypeOK'
  BY DEF TypeOK
<1>2. UploadedIsStored' /\ AttachedIsUploaded'
  BY DEF UploadedIsStored, AttachedIsUploaded, MayManage
<1>3. CallsAreSound'
  <2> SUFFICES ASSUME NEW s \in Calls \ {r}
               PROVE  (CallIsManaged(s) /\ CallIsCounted(s) /\ CallHoldsPost(s))'
    BY DEF CallsAreSound
  <2>1. call'[s] = call[s]
    BY DEF TypeOK
  <2> QED
    BY <2>1 DEF CallsAreSound, CallIsManaged, CallIsCounted, CallHoldsPost, HoldsPost,
       Attachable, MayManage
<1> QED
  BY <1>1, <1>2, <1>3

\* Lemma: an update that begins has checked its caller and holds nothing.
LEMMA BeginUpdateInv ==
    ASSUME Inv, NEW r \in Calls, NEW u \in Users, NEW p \in Entries,
           NEW F \in SUBSET Files, NEW withBody \in BOOLEAN,
           BeginUpdate(r, u, p, F, withBody)
    PROVE  Inv'
<1> USE NoneAssumption DEF Inv
<1> DEFINE c == [Idle EXCEPT !.pc = IF withBody THEN "body" ELSE "detach",
                             !.caller = u, !.entry = p, !.files = F,
                             !.body = withBody]
<1>1. c \in Call /\ c.pc # "idle" /\ c # Idle /\ c.caller = u /\ c.entry = p
      /\ c.added = {} /\ c.reported = 0 /\ (c.pc = "body" \/ ~c.body)
  BY DEF Call, Idle
<1>2. call'[r] = c
  BY DEF BeginUpdate, TypeOK
<1>3. CallIsManaged(r)'
  BY <1>1, <1>2 DEF CallIsManaged, BeginUpdate, MayManage
<1>4. CallIsCounted(r)'
  BY <1>1, <1>2, FS_EmptySet DEF CallIsCounted
<1>5. CallHoldsPost(r)'
  BY <1>1, <1>2 DEF CallHoldsPost, HoldsPost
<1> HIDE DEF c
<1> QED
  BY <1>1, <1>3, <1>4, <1>5, OneCallInv DEF BeginUpdate, c

\* Lemma: an update that gives up holds nothing.
LEMMA RollbackInv ==
    ASSUME Inv, NEW r \in Calls, Rollback(r), UNCHANGED <<media, bucket, entry, attached>>
    PROVE  Inv'
<1> USE NoneAssumption DEF Inv
<1>1. Idle \in Call /\ Idle.pc = "idle" /\ Idle.added = {} /\ Idle.reported = 0
  BY DEF Call, Idle
<1>2. call'[r] = Idle
  BY DEF Rollback, TypeOK
<1>3. (CallIsManaged(r) /\ CallIsCounted(r) /\ CallHoldsPost(r))'
  BY <1>1, <1>2, FS_EmptySet DEF CallIsManaged, CallIsCounted, CallHoldsPost, HoldsPost
<1> QED
  BY <1>1, <1>3, OneCallInv DEF Rollback

\* Lemma: UpdateBody holds the row of a post it found live.
LEMMA UpdateBodyInv ==
    ASSUME Inv, NEW r \in Calls, UpdateBody(r)
    PROVE  Inv'
<1> USE DEF Inv
<1>1. CASE entry[call[r].entry].state # "live"
  BY <1>1, RollbackInv DEF UpdateBody
<1>2. CASE entry[call[r].entry].state = "live"
  <2> DEFINE c == [call[r] EXCEPT !.pc = "detach"]
  <2>1. call[r] \in Call /\ call[r].pc = "body"
    BY DEF TypeOK, UpdateBody
  <2>2. c \in Call /\ c.pc = "detach" /\ c # Idle /\ c.caller = call[r].caller
        /\ c.entry = call[r].entry /\ c.files = call[r].files
        /\ c.added = call[r].added /\ c.reported = call[r].reported
    BY <2>1 DEF Call, Idle
  <2>3. call' = [call EXCEPT ![r] = c] /\ call'[r] = c /\ entry' = entry /\ media' = media
    BY <1>2 DEF UpdateBody, TypeOK
  <2> HIDE DEF c
  <2>4. CallIsManaged(r)'
    BY <2>1, <2>2, <2>3 DEF CallsAreSound, CallIsManaged, MayManage
  <2>5. CallIsCounted(r)'
    BY <2>2, <2>3 DEF CallsAreSound, CallIsCounted, Attachable
  <2>6. CallHoldsPost(r)'
    BY <1>2, <2>2, <2>3 DEF CallHoldsPost, HoldsPost
  <2> QED
    BY <2>2, <2>3, <2>4, <2>5, <2>6, OneCallInv DEF UpdateBody
<1> QED
  BY <1>1, <1>2

\* Lemma: a statement that only moves the update on, past the body, and says which
\* attachments it takes away.
LEMMA GoneInv ==
    ASSUME Inv, NEW r \in Calls, call[r].pc \in {"detach", "deleting"},
           NEW gone \in SUBSET Files, NEW pc \in {"deleting", "attach", "synced"},
           call' = [call EXCEPT ![r] = [call[r] EXCEPT !.pc = pc, !.gone = gone]],
           UNCHANGED <<media, bucket, entry, attached>>
    PROVE  Inv'
<1> USE DEF Inv
<1> DEFINE c == [call[r] EXCEPT !.pc = pc, !.gone = gone]
<1>1. call[r] \in Call
  BY DEF TypeOK
<1>2. c \in Call /\ c.pc = pc /\ c # Idle /\ c.caller = call[r].caller
      /\ c.entry = call[r].entry /\ c.files = call[r].files /\ c.body = call[r].body
      /\ c.added = call[r].added /\ c.reported = call[r].reported
  BY <1>1 DEF Call, Idle
<1>3. call' = [call EXCEPT ![r] = c] /\ call'[r] = c
  BY DEF TypeOK
<1> HIDE DEF c
<1>4. CallIsManaged(r)'
  BY <1>2, <1>3 DEF CallsAreSound, CallIsManaged, MayManage
<1>5. CallIsCounted(r)'
  BY <1>2, <1>3 DEF CallsAreSound, CallIsCounted, Attachable
<1>6. CallHoldsPost(r)'
  <2>1. \A p \in Entries : HoldsPost(r, p)' => HoldsPost(r, p)
    BY <1>2, <1>3 DEF HoldsPost
  <2> QED
    BY <2>1 DEF CallsAreSound, CallHoldsPost
<1> QED
  BY <1>2, <1>3, <1>4, <1>5, <1>6, OneCallInv

\* Lemma: the DELETE of SyncMedia finds only attachments of the post.
LEMMA StartDetachInv ==
    ASSUME Inv, NEW r \in Calls, StartDetach(r)
    PROVE  Inv'
<1> USE DEF Inv
<1>1. call[r] \in Call /\ call[r].pc = "detach" /\ call[r].entry \in Entries
  BY DEF TypeOK, StartDetach, CallsAreSound, CallIsManaged
<1>2. call[r].gone \subseteq Files /\ attached[call[r].entry] \subseteq Files
  BY <1>1 DEF Call, TypeOK
<1>3. CASE call[r].files = {}
  <2>1. call' = [call EXCEPT ![r] = [call[r] EXCEPT !.pc = "synced", !.gone = call[r].gone]]
    BY <1>1, <1>3 DEF StartDetach, Call
  <2> QED
    BY <1>1, <1>2, <2>1, GoneInv DEF StartDetach
<1>4. CASE call[r].files # {}
  <2> DEFINE gone == attached[call[r].entry] \ call[r].files
  <2>1. call' = [call EXCEPT ![r] = [call[r] EXCEPT !.pc = "deleting", !.gone = gone]]
    BY <1>4 DEF StartDetach
  <2>2. gone \in SUBSET Files
    BY <1>2
  <2> HIDE DEF gone
  <2> QED
    BY <1>1, <2>1, <2>2, GoneInv DEF StartDetach
<1> QED
  BY <1>3, <1>4

\* Lemma: ... and deletes some of them.
LEMMA DetachInv ==
    ASSUME Inv, NEW r \in Calls, Detach(r)
    PROVE  Inv'
<1> USE DEF Inv
<1> DEFINE gone == call[r].gone \cap attached[call[r].entry]
<1>1. call' = [call EXCEPT ![r] = [call[r] EXCEPT !.pc = "attach", !.gone = gone]]
  BY DEF Detach
<1>2. gone \in SUBSET Files
  BY DEF TypeOK, Call
<1> HIDE DEF gone
<1> QED
  BY <1>1, <1>2, GoneInv DEF Detach

\* Lemma: the INSERT of SyncMedia adds what can be attached, and counts it.
LEMMA AttachInv ==
    ASSUME Inv, NEW r \in Calls, Attach(r)
    PROVE  Inv'
<1> USE FilesAssumption DEF Inv
<1> DEFINE new == Attachable(call[r].caller, call[r].files) \ attached[call[r].entry]
           c   == [call[r] EXCEPT !.pc = "synced", !.added = new,
                                  !.reported = Cardinality(new)]
<1>1. call[r] \in Call /\ call[r].pc = "attach"
  BY DEF TypeOK, Attach
<1>2. new \subseteq Files /\ IsFiniteSet(new)
  <2>1. new \subseteq Files
    BY <1>1 DEF Call, Attachable
  <2> QED
    BY <2>1, FS_Subset
<1>3. Cardinality(new) \in Nat
  BY <1>2, FS_CardinalityType
<1> HIDE DEF new
<1>4. c \in Call /\ c.pc = "synced" /\ c # Idle /\ c.caller = call[r].caller
      /\ c.entry = call[r].entry /\ c.files = call[r].files /\ c.body = call[r].body
      /\ c.added = new /\ c.reported = Cardinality(new)
  BY <1>1, <1>2, <1>3 DEF Call, Idle
<1>5. call' = [call EXCEPT ![r] = c] /\ call'[r] = c /\ entry' = entry
  BY DEF Attach, TypeOK, new
<1> HIDE DEF c
<1>6. CallIsManaged(r)'
  BY <1>1, <1>4, <1>5 DEF CallsAreSound, CallIsManaged, MayManage, Attach
<1>7. CallIsCounted(r)'
  BY <1>4, <1>5 DEF CallIsCounted, Attachable, Attach, new
<1>8. CallHoldsPost(r)'
  <2>1. \A p \in Entries : HoldsPost(r, p)' => HoldsPost(r, p)
    BY <1>1, <1>4, <1>5 DEF HoldsPost
  <2> QED
    BY <1>5, <2>1 DEF CallsAreSound, CallHoldsPost
<1> QED
  BY <1>4, <1>5, <1>6, <1>7, <1>8, OneCallInv DEF Attach

\* Lemma: a commit shows nothing but what was attached or could be.
LEMMA CommitInv ==
    ASSUME Inv, NEW r \in Calls, Commit(r)
    PROVE  Inv'
<1> USE NoneAssumption DEF Inv
<1> DEFINE p == call[r].entry
<1>1. call[r] \in Call /\ call[r].pc = "synced"
  BY DEF TypeOK, Commit
<1>2. /\ p \in Entries /\ MayManage(call[r].caller, p)
      /\ call[r].added \subseteq Attachable(call[r].caller, call[r].files)
      /\ call[r].files \subseteq Files
  BY <1>1 DEF CallsAreSound, CallIsManaged, CallIsCounted, Call
<1>3. attached' \in [Entries -> SUBSET Files]
  BY <1>2 DEF Commit, TypeOK, Attachable
<1>4. \A q \in Entries, f \in Files :
         f \in attached'[q] => \/ f \in attached[q]
                               \/ q = p /\ f \in Attachable(call[r].caller, call[r].files)
  BY <1>2 DEF Commit, TypeOK
<1>5. AttachedIsUploaded'
  <2> SUFFICES ASSUME NEW q \in Entries, NEW f \in attached'[q]
               PROVE  f \in bucket /\ media[f].state = "uploaded"
                      /\ MayManage(media[f].owner, q)
    BY DEF AttachedIsUploaded, Commit, MayManage
  <2>1. f \in Files
    BY <1>3
  <2>2. CASE f \in attached[q]
    BY <2>2 DEF AttachedIsUploaded
  <2>3. CASE q = p /\ f \in Attachable(call[r].caller, call[r].files)
    BY <1>2, <2>1, <2>3 DEF Attachable, UploadedIsStored
  <2> QED
    BY <1>4, <2>1, <2>2, <2>3
<1>6. TypeOK'
  BY <1>3 DEF TypeOK, Commit, Rollback, Call, Idle
<1>7. CallsAreSound'
  <2> SUFFICES ASSUME NEW s \in Calls
               PROVE  (CallIsManaged(s) /\ CallIsCounted(s) /\ CallHoldsPost(s))'
    BY DEF CallsAreSound
  <2>1. media' = media /\ entry' = entry
    BY DEF Commit
  <2>2. CASE s = r
    <3>1. call'[r] = Idle
      BY DEF Commit, Rollback, TypeOK
    <3> QED
      BY <2>2, <3>1, FS_EmptySet DEF CallIsManaged, CallIsCounted, CallHoldsPost, HoldsPost, Idle
  <2>3. CASE s # r
    <3>1. call'[s] = call[s]
      BY <2>3 DEF Commit, Rollback, TypeOK
    <3> QED
      BY <2>1, <3>1 DEF CallsAreSound, CallIsManaged, CallIsCounted, CallHoldsPost, HoldsPost,
         Attachable, MayManage
  <2> QED
    BY <2>2, <2>3
<1> QED
  BY <1>5, <1>6, <1>7 DEF UploadedIsStored, Commit

\* Lemma: every step keeps the invariant.
LEMMA NextInv == Inv /\ [Next]_vars => Inv'
<1> SUFFICES ASSUME Inv, [Next]_vars PROVE Inv'
  OBVIOUS
<1>1. CASE Upload
  BY <1>1, UploadInv DEF Upload
<1>2. CASE Publish
  BY <1>2, InsertInv DEF Publish, CreatePost, CreateReply
<1>3. CASE \E p \in Entries, u \in Users : SoftDelete(p, u)
  BY <1>3, SoftDeleteInv
<1>4. ASSUME NEW r \in Calls, Edit(r) PROVE Inv'
  BY <1>4, BeginUpdateInv, UpdateBodyInv, StartDetachInv, DetachInv, AttachInv, CommitInv, RollbackInv
     DEF Edit, Abort
<1>5. CASE UNCHANGED vars
  BY <1>5 DEF vars, Inv, TypeOK, UploadedIsStored, AttachedIsUploaded, CallsAreSound,
     CallIsManaged, CallIsCounted, CallHoldsPost, HoldsPost, Attachable, MayManage
<1> QED
  BY <1>1, <1>2, <1>3, <1>4, <1>5 DEF Next

\* The invariant holds in every reachable state.
THEOREM AttachmentsInvariance == Spec => []Inv
<1> QED
  BY InitInv, NextInv, PTL DEF Spec

\* The tables and the transactions in flight are typed (media/repository.go and
\* SyncMedia), for any number of updates.
THEOREM AttachmentsTyped == Spec => []TypeOK
<1>1. Inv => TypeOK
  BY DEF Inv
<1> QED
  BY <1>1, AttachmentsInvariance, PTL

\* Whatever a post shows reached the bucket and belongs to one who may manage the
\* post (Service.Complete, SyncMedia, requireManage).
THEOREM OnlyUploadsAreAttached == Spec => []AttachedIsUploaded
<1>1. Inv => AttachedIsUploaded
  BY DEF Inv
<1> QED
  BY <1>1, AttachmentsInvariance, PTL

\* Lemma: a step that changes the attachments of a post that exists is a commit.
LEMMA ChangeIsCommit ==
    ASSUME TypeOK, Next, NEW p \in Entries, entry[p].state # "absent",
           attached'[p] # attached[p]
    PROVE  \E r \in Calls : Commit(r) /\ call[r].entry = p
<1>1. ~Upload
  BY DEF Upload, Presign, Put, Complete
<1>2. ~Publish
  BY DEF Publish, CreatePost, CreateReply, Insert, TypeOK
<1>3. ASSUME NEW q \in Entries, NEW u \in Users, SoftDelete(q, u) PROVE FALSE
  BY <1>3 DEF SoftDelete
<1>4. PICK r \in Calls : Edit(r)
  BY <1>1, <1>2, <1>3 DEF Next
<1>5. Commit(r)
  BY <1>4 DEF Edit, BeginUpdate, UpdateBody, StartDetach, Detach, Attach, Abort
<1>6. call[r].entry = p
  BY <1>5 DEF Commit, TypeOK
<1> QED
  BY <1>5, <1>6

\* Lemma: the count that lets an update commit says that every file of its list
\* was inserted by it.
LEMMA CommitAddsItsList ==
    ASSUME Inv, NEW r \in Calls, Commit(r)
    PROVE  call[r].added = call[r].files
<1>1. call[r].files \subseteq Files /\ IsFiniteSet(call[r].files)
  <2>1. call[r].files \subseteq Files
    BY DEF Inv, TypeOK, Call
  <2> QED
    BY <2>1, FilesAssumption, FS_Subset
<1>2. call[r].added \subseteq call[r].files
  BY DEF Inv, CallsAreSound, CallIsCounted, Attachable
<1>3. Cardinality(call[r].added) = Cardinality(call[r].files)
  BY DEF Inv, CallsAreSound, CallIsCounted, Commit
<1> QED
  BY <1>1, <1>2, <1>3, FS_Subset

\* Attachments change only by an update of a manager, and then the post shows
\* every file of the update, and no other that it did not show before
\* (Service.Update, SyncMedia).
THEOREM UpdatesAreWhole == Spec => UpdateIsWhole
<1> DEFINE Whole ==
        \A p \in Entries :
          entry[p].state # "absent" /\ attached'[p] # attached[p] =>
             \E r \in Calls :
                /\ call[r].entry = p /\ call'[r] = Idle /\ call[r].pc # "idle"
                /\ MayManage(call[r].caller, p)
                /\ call[r].files \subseteq attached'[p]
                /\ attached'[p] \subseteq attached[p] \cup call[r].files
<1>1. Inv /\ [Next]_vars => [Whole]_vars
  <2> SUFFICES ASSUME Inv, Next, NEW p \in Entries, entry[p].state # "absent",
                      attached'[p] # attached[p]
               PROVE  \E r \in Calls :
                         /\ call[r].entry = p /\ call'[r] = Idle /\ call[r].pc # "idle"
                         /\ MayManage(call[r].caller, p)
                         /\ call[r].files \subseteq attached'[p]
                         /\ attached'[p] \subseteq attached[p] \cup call[r].files
    OBVIOUS
  <2>1. PICK r \in Calls : Commit(r) /\ call[r].entry = p
    BY ChangeIsCommit DEF Inv
  <2>2. call[r].pc # "idle" /\ MayManage(call[r].caller, p)
    BY <2>1 DEF Inv, CallsAreSound, CallIsManaged, Commit
  <2>3. call[r].added = call[r].files
    BY <2>1, CommitAddsItsList
  <2>4. /\ call[r].added \subseteq attached'[p]
        /\ attached'[p] \subseteq attached[p] \cup call[r].added
        /\ call'[r] = Idle
    BY <2>1 DEF Commit, Rollback, Inv, TypeOK
  <2> QED
    BY <2>1, <2>2, <2>3, <2>4
<1> QED
  BY <1>1, AttachmentsInvariance, PTL DEF Spec, UpdateIsWhole

\* An update with a body changes the attachments of a live post only
\* (Repository.UpdateBody, Repository.SoftDelete).
THEOREM BodyEditsAreOrdered == Spec => BodyEditsReachLivePosts
<1> DEFINE Ordered ==
        \A p \in Entries :
          attached'[p] # attached[p] /\ entry[p].state = "deleted" =>
             \E r \in Calls : call[r].entry = p /\ call[r].pc = "synced" /\ ~call[r].body
<1>1. Inv /\ [Next]_vars => [Ordered]_vars
  <2> SUFFICES ASSUME Inv, Next, NEW p \in Entries, attached'[p] # attached[p],
                      entry[p].state = "deleted"
               PROVE  \E r \in Calls : call[r].entry = p /\ call[r].pc = "synced"
                                       /\ ~call[r].body
    OBVIOUS
  <2>1. PICK r \in Calls : Commit(r) /\ call[r].entry = p
    BY ChangeIsCommit DEF Inv
  <2>2. ~HoldsPost(r, p)
    BY DEF Inv, CallsAreSound, CallHoldsPost
  <2>3. ~call[r].body
    BY <2>1, <2>2 DEF HoldsPost, Commit
  <2> QED
    BY <2>1, <2>3 DEF Commit
<1> QED
  BY <1>1, AttachmentsInvariance, PTL DEF Spec, BodyEditsReachLivePosts

-----------------------------------------------------------------------------
(***************************************************************************)
(* What SyncMedia reports to an update that meets no other, and what that  *)
(* update leaves.                                                          *)
(***************************************************************************)

OneUpdateAtATime == \A r, s \in Calls : r = s

\* Once its DELETE has started, what an update takes away are the attachments of
\* the post that are not on its list; none, when the list is empty.
TakesTheRest ==
    \A r \in Calls :
       /\ call[r].pc \in {"body", "detach"} => call[r].gone = {}
       /\ call[r].pc \in {"deleting", "attach"} => call[r].files # {}
       /\ call[r].pc \in {"deleting", "attach", "synced"} =>
             call[r].gone = IF call[r].files = {} THEN {}
                            ELSE attached[call[r].entry] \ call[r].files

AloneInv == Inv /\ TakesTheRest

\* Lemma: the steps of the update itself.
LEMMA AloneEdit ==
    ASSUME Inv, TakesTheRest, NEW r \in Calls, Edit(r)
    PROVE  \/ call'[r] = Idle
           \/ /\ call'[r].pc \in {"body", "detach"} /\ call'[r].gone = {}
           \/ /\ attached' = attached
              /\ call'[r].gone = IF call'[r].files = {} THEN {}
                                 ELSE attached[call'[r].entry] \ call'[r].files
              /\ call'[r].pc \in {"deleting", "attach", "synced"}
              /\ call'[r].pc \in {"deleting", "attach"} => call'[r].files # {}
<1> USE DEF Inv, TypeOK, Call
<1>1. CASE Commit(r) \/ Abort(r)
  BY <1>1 DEF Commit, Abort, Rollback
<1>2. ASSUME NEW u \in Users, NEW p \in Entries, NEW F \in SUBSET Files,
             NEW withBody \in BOOLEAN, BeginUpdate(r, u, p, F, withBody)
      PROVE  call'[r].pc \in {"body", "detach"} /\ call'[r].gone = {}
  BY <1>2 DEF BeginUpdate, Idle
<1>3. CASE UpdateBody(r)
  <2>1. CASE Rollback(r)
    BY <2>1 DEF Rollback
  <2>2. CASE call' = [call EXCEPT ![r].pc = "detach"]
    <3>1. call[r].gone = {}
      BY <1>3 DEF UpdateBody, TakesTheRest
    <3> QED
      BY <2>2, <3>1
  <2> QED
    BY <1>3, <2>1, <2>2 DEF UpdateBody
<1>4. CASE StartDetach(r)
  <2>1. attached' = attached /\ call[r].pc = "detach" /\ call[r].gone = {}
    BY <1>4 DEF StartDetach, TakesTheRest
  <2>2. CASE call[r].files = {}
    <3>1. /\ call'[r].pc = "synced" /\ call'[r].files = {}
          /\ call'[r].gone = call[r].gone
      BY <1>4, <2>2 DEF StartDetach
    <3> QED
      BY <2>1, <3>1
  <2>3. CASE call[r].files # {}
    <3>1. /\ call'[r].pc = "deleting" /\ call'[r].files = call[r].files
          /\ call'[r].entry = call[r].entry
          /\ call'[r].gone = attached[call[r].entry] \ call[r].files
      BY <1>4, <2>3 DEF StartDetach
    <3> QED
      BY <2>1, <2>3, <3>1
  <2> QED
    BY <2>2, <2>3
<1>5. CASE Detach(r)
  <2>1. /\ call[r].files # {}
        /\ call[r].gone = attached[call[r].entry] \ call[r].files
    BY <1>5 DEF Detach, TakesTheRest
  <2>2. /\ call'[r].pc = "attach" /\ call'[r].files = call[r].files
        /\ call'[r].entry = call[r].entry /\ attached' = attached
        /\ call'[r].gone = call[r].gone \cap attached[call[r].entry]
    BY <1>5 DEF Detach
  <2>3. call'[r].gone = attached[call[r].entry] \ call[r].files
    BY <2>1, <2>2
  <2> QED
    BY <2>1, <2>2, <2>3
<1>6. CASE Attach(r)
  <2>1. call[r].gone = IF call[r].files = {} THEN {}
                       ELSE attached[call[r].entry] \ call[r].files
    BY <1>6 DEF Attach, TakesTheRest
  <2>2. /\ call'[r].pc = "synced" /\ call'[r].gone = call[r].gone
        /\ call'[r].files = call[r].files /\ call'[r].entry = call[r].entry
        /\ attached' = attached
    BY <1>6 DEF Attach
  <2> QED
    BY <2>1, <2>2
<1> QED
  <2>1. CASE \E u \in Users, p \in Entries, F \in SUBSET Files, withBody \in BOOLEAN :
                BeginUpdate(r, u, p, F, withBody)
    BY <1>2, <2>1
  <2> QED
    BY <1>1, <1>3, <1>4, <1>5, <1>6, <2>1 DEF Edit

\* Lemma: nothing else changes the attachments of a post meanwhile.
LEMMA AloneStep ==
    ASSUME OneUpdateAtATime, AloneInv, [Next]_vars
    PROVE  AloneInv'
<1> USE DEF AloneInv
<1>1. Inv'
  BY NextInv
<1>2. ASSUME NEW r \in Calls
      PROVE  /\ call'[r].pc \in {"body", "detach"} => call'[r].gone = {}
             /\ call'[r].pc \in {"deleting", "attach"} => call'[r].files # {}
             /\ call'[r].pc \in {"deleting", "attach", "synced"} =>
                   call'[r].gone = IF call'[r].files = {} THEN {}
                                   ELSE attached'[call'[r].entry] \ call'[r].files
  <2>1. CASE Edit(r)
    <3>1. CASE call'[r] = Idle
      <4>1. Idle.pc = "idle"
        BY DEF Idle
      <4> QED
        BY <3>1, <4>1
    <3>2. CASE call'[r].pc \in {"body", "detach"} /\ call'[r].gone = {}
      BY <3>2
    <3>3. CASE /\ attached' = attached
               /\ call'[r].gone = IF call'[r].files = {} THEN {}
                                  ELSE attached[call'[r].entry] \ call'[r].files
               /\ call'[r].pc \in {"deleting", "attach", "synced"}
               /\ call'[r].pc \in {"deleting", "attach"} => call'[r].files # {}
      BY <3>3
    <3> QED
      BY <2>1, <3>1, <3>2, <3>3, AloneEdit
  <2>2. CASE ~Edit(r)
    <3>1. ~\E s \in Calls : Edit(s)
      BY <2>2 DEF OneUpdateAtATime
    <3>2. call' = call
      BY <3>1 DEF Next, vars, Upload, Presign, Put, Complete, Publish, CreatePost,
         CreateReply, Insert, SoftDelete
    <3>3. CASE call[r].pc # "idle"
      <4>1. call[r].entry \in Entries /\ entry[call[r].entry].state # "absent"
        BY <3>3 DEF Inv, CallsAreSound, CallIsManaged
      <4>2. attached'[call[r].entry] = attached[call[r].entry]
        BY <3>1, <4>1, ChangeIsCommit DEF Inv, Edit, vars
      <4> QED
        BY <3>2, <4>2 DEF TakesTheRest
    <3>4. CASE call[r].pc = "idle"
      BY <3>2, <3>4
    <3> QED
      BY <3>3, <3>4
  <2> QED
    BY <2>1, <2>2
<1> QED
  BY <1>1, <1>2 DEF TakesTheRest

LEMMA AloneInit == Init => AloneInv
  BY InitInv DEF AloneInv, TakesTheRest, Init, Idle

\* The attachments of the post that the update of a call changes, as its
\* transaction sees them after its INSERT, and those of them that it kept.
Remaining(r) == (attached[call[r].entry] \ call[r].gone) \cup call'[r].added

Kept(r) == attached[call[r].entry] \cap call[r].files

MissesKept ==
    \A r \in Calls :
        Attach(r) => Cardinality(Remaining(r)) = call'[r].reported + Cardinality(Kept(r))

\* For an update that meets no other, what SyncMedia reports falls short of the
\* attachments of the post by exactly those the update keeps: RowsAffected is
\* the whole cause of the violation of ReportsRemaining (run media_count), and an
\* update that keeps none is told the truth.
THEOREM ReportsMissKept ==
    ASSUME OneUpdateAtATime
    PROVE  Spec => [][MissesKept]_vars
<1>1. Init => AloneInv
  BY AloneInit
<1>2. AloneInv /\ [Next]_vars => AloneInv'
  BY AloneStep
<1>3. AloneInv /\ [Next]_vars => [MissesKept]_vars
  <2> SUFFICES ASSUME AloneInv, NEW r \in Calls, Attach(r)
               PROVE  Cardinality(Remaining(r)) = call'[r].reported + Cardinality(Kept(r))
    BY DEF MissesKept
  <2> USE DEF AloneInv, Inv, TypeOK, Call
  <2> DEFINE new == Attachable(call[r].caller, call[r].files) \ attached[call[r].entry]
  <2>1. call'[r].added = new /\ call'[r].reported = Cardinality(new)
    BY DEF Attach
  <2>2. call[r].entry \in Entries
    BY DEF Attach, CallsAreSound, CallIsManaged
  <2>3. attached[call[r].entry] \subseteq Files /\ call[r].files \subseteq Files
    BY <2>2
  <2>4. Remaining(r) = Kept(r) \cup new
    BY <2>1, <2>3 DEF Attach, TakesTheRest, Remaining, Kept, Attachable
  <2>5. IsFiniteSet(Kept(r)) /\ IsFiniteSet(new) /\ Kept(r) \cap new = {}
    <3>1. Kept(r) \subseteq Files /\ new \subseteq Files
      BY <2>3 DEF Kept, Attachable
    <3> QED
      BY <3>1, FilesAssumption, FS_Subset DEF Kept
  <2>6. Cardinality(Kept(r) \cup new)
           = Cardinality(Kept(r)) + Cardinality(new) - Cardinality(Kept(r) \cap new)
    BY <2>5, FS_Union
  <2>7. Cardinality(Kept(r)) \in Nat /\ Cardinality(new) \in Nat
        /\ Cardinality(Kept(r) \cap new) = 0
    BY <2>5, FS_CardinalityType, FS_EmptySet
  <2> HIDE DEF new
  <2> QED
    BY <2>1, <2>4, <2>6, <2>7
<1> QED
  BY <1>1, <1>2, <1>3, PTL DEF Spec

Replaces ==
    \A r \in Calls :
        Commit(r) => attached'[call[r].entry] = IF call[r].files = {}
                                               THEN attached[call[r].entry]
                                               ELSE call[r].files

\* An update that meets no other, and has a list that is not empty, replaces the
\* attachments of its post by its list.  "SyncMedia replaces the media attachments
\* of a post" (posts/repository.go) is true of no more: an empty list is NULL to
\* the DELETE and changes nothing, and updates that overlap leave the union.
THEOREM SerialUpdatesReplace ==
    ASSUME OneUpdateAtATime
    PROVE  Spec => [][Replaces]_vars
<1>1. Init => AloneInv
  BY AloneInit
<1>2. AloneInv /\ [Next]_vars => AloneInv'
  BY AloneStep
<1>3. AloneInv /\ [Next]_vars => [Replaces]_vars
  <2> SUFFICES ASSUME AloneInv, NEW r \in Calls, Commit(r)
               PROVE  attached'[call[r].entry] = IF call[r].files = {}
                                                 THEN attached[call[r].entry]
                                                 ELSE call[r].files
    BY DEF Replaces
  <2> USE DEF AloneInv
  <2>1. call[r].added = call[r].files
    BY CommitAddsItsList
  <2>2. call[r].entry \in Entries
    BY DEF Commit, Inv, CallsAreSound, CallIsManaged
  <2>3. attached'[call[r].entry] = (attached[call[r].entry] \ call[r].gone) \cup call[r].files
    BY <2>1, <2>2 DEF Commit, Inv, TypeOK
  <2>4. call[r].gone = IF call[r].files = {} THEN {}
                       ELSE attached[call[r].entry] \ call[r].files
    BY DEF TakesTheRest, Commit
  <2> QED
    BY <2>3, <2>4
<1> QED
  BY <1>1, <1>2, <1>3, PTL DEF Spec

=============================================================================
