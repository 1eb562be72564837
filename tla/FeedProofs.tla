----------------------------- MODULE FeedProofs ------------------------------
(***************************************************************************)
(* The theorems about Feed: a walk shows its list in order and leaves out  *)
(* nothing that stayed in it, and a draft is published once for each       *)
(* failure, for every number of posts, readers and composers and every     *)
(* page size.                                                              *)
(***************************************************************************)
EXTENDS FeedList, FiniteSetTheorems, TLAPS

USE FeedAssumption

-----------------------------------------------------------------------------
(***************************************************************************)
(* Types.                                                                  *)
(***************************************************************************)

\* A page size is a number.
LEMMA LimitIsNat == \A n \in Nat : NormalizeLimit(n) \in Nat
  BY DEF NormalizeLimit

\* The feed starts well-typed.
LEMMA FeedInitTyped == Init => FeedTypeOK
  <1> SUFFICES ASSUME Init PROVE FeedTypeOK
    OBVIOUS
  <1>1. Blank \in Row
    BY DEF Blank, Row, Kinds
  <1>2. post \in [Posts -> Row]
    <2>1. [Blank EXCEPT !.state = "live"] \in Row
      BY DEF Blank, Row, Kinds
    <2> QED
      BY <1>1, <2>1 DEF Init
  <1>3. composer \in [Composers -> [pc : {"draft", "pending", "clear"},
                                    waits : Posts \cup {None}]]
    BY DEF Init, Editing
  <1>4. \A c \in Composers : composer[c].pc = "pending" <=> composer[c].waits # None
    BY DEF Init, Editing
  <1>5. NoWalk \in [pc : {"new", "ready", "asked", "sent", "done"},
                    list : Lists, cursor : Position \cup {None},
                    scope : SUBSET Kinds, page : SUBSET Posts,
                    next : Position \cup {None}]
    BY DEF NoWalk, Lists
  <1> QED
    BY <1>2, <1>3, <1>4, <1>5 DEF Init, FeedTypeOK

\* Publishing keeps the types.
LEMMA PublishTyped == FeedTypeOK /\ Publish => FeedTypeOK'
  <1> SUFFICES ASSUME FeedTypeOK, Publish PROVE FeedTypeOK'
    OBVIOUS
  <1>1. ASSUME NEW c \in Composers, NEW p \in Posts, Submit(c, p)
        PROVE  FeedTypeOK'
    <2>1. PICK k \in Kinds : post' = [post EXCEPT ![p] =
              [state |-> "sent", kind |-> k, at |-> 0, by |-> c]]
      BY <1>1 DEF Submit
    <2>2. [state |-> "sent", kind |-> k, at |-> 0, by |-> c] \in Row
      BY DEF Row
    <2>3. post' \in [Posts -> Row]
      BY <2>1, <2>2 DEF FeedTypeOK
    <2> QED
      BY <1>1, <2>3 DEF FeedTypeOK, Submit, reading
  <1>2. ASSUME NEW p \in Posts, Begin(p) \/ Commit(p) \/ Abort(p)
        PROVE  FeedTypeOK'
    <2>1. CASE Begin(p)
      <3>1. [post[p] EXCEPT !.state = "writing", !.at = clock] \in Row
        <4>1. post[p] \in Row /\ clock \in 0 .. MaxTime
          BY DEF FeedTypeOK
        <4> QED
          BY <4>1 DEF Row
      <3>2. post' = [post EXCEPT ![p] = [post[p] EXCEPT !.state = "writing",
                                                        !.at = clock]]
        BY <2>1 DEF Begin, FeedTypeOK
      <3> QED
        BY <2>1, <3>1, <3>2 DEF FeedTypeOK, Begin, reading
    <2>2. CASE Commit(p)
      <3>1. [post[p] EXCEPT !.state = "live"] \in Row
        BY DEF FeedTypeOK, Row
      <3> QED
        BY <2>2, <3>1 DEF FeedTypeOK, Commit, reading
    <2>3. CASE Abort(p)
      <3>1. [Blank EXCEPT !.state = "void"] \in Row
        BY DEF Blank, Row, Kinds
      <3> QED
        BY <2>3, <3>1 DEF FeedTypeOK, Abort, reading
    <2> QED
      BY <1>2, <2>1, <2>2, <2>3
  <1>3. ASSUME NEW c \in Composers, Told(c) PROVE FeedTypeOK'
    BY <1>3 DEF FeedTypeOK, Told, reading
  <1>4. ASSUME NEW c \in Composers, ToldFailure(c) PROVE FeedTypeOK'
    BY <1>4 DEF FeedTypeOK, ToldFailure, Editing, reading
  <1> QED
    BY <1>1, <1>2, <1>3, <1>4 DEF Publish

\* So do deletions, purges, the team and the clock.
LEMMA RemoveTyped == FeedTypeOK /\ (Remove \/ Tick) => FeedTypeOK'
  <1> SUFFICES ASSUME FeedTypeOK, Remove \/ Tick PROVE FeedTypeOK'
    OBVIOUS
  <1>1. ASSUME NEW p \in Posts, Delete(p) PROVE FeedTypeOK'
    <2>1. [post[p] EXCEPT !.state = "deleted"] \in Row
      BY DEF FeedTypeOK, Row
    <2>2. steady' \in [Readers -> SUBSET Posts]
      BY <1>1 DEF FeedTypeOK, Delete, Keep
    <2> QED
      BY <1>1, <2>1, <2>2 DEF FeedTypeOK, Delete, reading
  <1>2. CASE Purge
    <2>1. \A p \in Posts : [post[p] EXCEPT !.state = "deleted"] \in Row
      BY DEF FeedTypeOK, Row
    <2>2. post' \in [Posts -> Row]
      BY <1>2, <2>1 DEF FeedTypeOK, Purge
    <2>3. steady' \in [Readers -> SUBSET Posts]
      BY <1>2 DEF FeedTypeOK, Purge, Keep
    <2> QED
      BY <1>2, <2>2, <2>3 DEF FeedTypeOK, Purge, reading
  <1>3. CASE Join
    BY <1>3 DEF FeedTypeOK, Join, reading
  <1>4. CASE Leave
    <2>1. steady' \in [Readers -> SUBSET Posts]
      BY <1>4 DEF FeedTypeOK, Leave, Keep
    <2> QED
      BY <1>4, <2>1 DEF FeedTypeOK, Leave, reading
  <1>5. CASE Tick
    BY <1>5 DEF FeedTypeOK, Tick, reading
  <1> QED
    BY <1>1, <1>2, <1>3, <1>4, <1>5 DEF Remove

\* What the requests of a reader bring is well-typed.
LEMMA ReadTyped ==
    FeedTypeOK => \A v \in Readers : Read(v) => FeedTypeOK'
  <1> SUFFICES ASSUME FeedTypeOK, NEW v \in Readers, Read(v) PROVE FeedTypeOK'
    OBVIOUS
  <1> DEFINE Walk == [pc : {"new", "ready", "asked", "sent", "done"},
                      list : Lists, cursor : Position \cup {None},
                      scope : SUBSET Kinds, page : SUBSET Posts,
                      next : Position \cup {None}]
  <1>0. NoWalk \in Walk
    BY DEF NoWalk, Lists
  <1>1. ASSUME NEW w \in Walk, reader' = [reader EXCEPT ![v] = w],
               shown' \in [Readers -> SUBSET Posts],
               steady' \in [Readers -> SUBSET Posts], UNCHANGED writing
        PROVE  FeedTypeOK'
    BY <1>1 DEF FeedTypeOK, writing
  <1>2. reader[v] \in Walk
    BY DEF FeedTypeOK
  <1>3. shown \in [Readers -> SUBSET Posts] /\ steady \in [Readers -> SUBSET Posts]
    BY DEF FeedTypeOK
  <1>4. ASSUME Stop(v), UNCHANGED writing PROVE FeedTypeOK'
    <2>1. shown' \in [Readers -> SUBSET Posts] /\ steady' \in [Readers -> SUBSET Posts]
      BY <1>3, <1>4 DEF Stop
    <2> QED
      BY <1>0, <1>1, <1>4, <2>1 DEF Stop
  <1>5. ASSUME NEW list \in Lists, Open(v, list) PROVE FeedTypeOK'
    <2>1. [NoWalk EXCEPT !.pc = "ready", !.list = list] \in Walk
      BY DEF NoWalk
    <2>2. shown' \in [Readers -> SUBSET Posts] /\ steady' \in [Readers -> SUBSET Posts]
      BY <1>3, <1>5 DEF Open, Listed, Live
    <2> QED
      BY <1>1, <1>5, <2>1, <2>2 DEF Open
  <1>6. CASE Ask(v)
    <2>1. CASE reader[v].list = "replies" /\ Thread \notin Live
      BY <1>4, <1>6, <2>1 DEF Ask
    <2>2. CASE ~ (reader[v].list = "replies" /\ Thread \notin Live)
      <3>1. Identities(reader[v].list) \in SUBSET Kinds
        BY DEF Identities, Kinds
      <3>2. [reader[v] EXCEPT !.pc = "asked", !.scope = Identities(reader[v].list)]
              \in Walk
        BY <1>2, <3>1
      <3> HIDE DEF Walk
      <3>3. reader' = [reader EXCEPT ![v] = [reader[v] EXCEPT !.pc = "asked",
                                        !.scope = Identities(reader[v].list)]]
        BY <1>6, <2>2 DEF Ask, FeedTypeOK
      <3> QED
        BY <1>1, <1>3, <1>6, <2>2, <3>2, <3>3 DEF Ask
    <2> QED
      BY <2>1, <2>2
  <1>7. CASE Retry(v)
    <2>1. [NoWalk EXCEPT !.pc = "ready", !.list = reader[v].list,
                         !.cursor = reader[v].cursor] \in Walk
      BY <1>2 DEF NoWalk
    <2> QED
      BY <1>1, <1>3, <1>7, <2>1 DEF Retry
  <1>8. CASE Deliver(v)
    <2>1. [NoWalk EXCEPT !.pc = IF reader[v].next = None THEN "done" ELSE "ready",
                         !.list = reader[v].list, !.cursor = reader[v].next] \in Walk
      BY <1>2 DEF NoWalk
    <2>2. shown' \in [Readers -> SUBSET Posts]
      BY <1>2, <1>3, <1>8 DEF Deliver
    <2> QED
      BY <1>1, <1>3, <1>8, <2>1, <2>2 DEF Deliver
  <1>9. CASE Turn(v)
    BY <1>4, <1>9 DEF Turn
  <1>10. ASSUME NEW n \in 0 .. MaxLimit + 1, Serve(v, n) PROVE FeedTypeOK'
    <2> DEFINE rows == {p \in Live \cap Under(reader[v].cursor) :
                          post[p].kind \in Selects(reader[v].list, reader[v].scope)}
    <2>1. rows \in SUBSET Posts
      BY DEF Live
    <2>2. BuildPage(v, rows, NormalizeLimit(n))
      BY <1>10 DEF Serve
    <2>3. UNCHANGED <<writing, shown, steady>>
      BY <1>10 DEF Serve
    <2> HIDE DEF rows
    <2>4. ASSUME NEW page \in SUBSET Posts, NEW next \in Position \cup {None},
                 reader' = [reader EXCEPT ![v].pc = "sent", ![v].page = page,
                                          ![v].next = next]
          PROVE  FeedTypeOK'
      <3>1. [reader[v] EXCEPT !.pc = "sent", !.page = page, !.next = next] \in Walk
        BY <1>2
      <3> HIDE DEF Walk
      <3>2. reader' = [reader EXCEPT ![v] = [reader[v] EXCEPT
                         !.pc = "sent", !.page = page, !.next = next]]
        BY <2>4 DEF FeedTypeOK
      <3> QED
        BY <1>1, <1>3, <2>3, <3>1, <3>2
    <2>5. Top(rows, NormalizeLimit(n)) \in SUBSET Posts
      BY <2>1 DEF Top
    <2>6. \A p \in Posts : PositionOf(p) \in Position
      BY DEF PositionOf, Position, FeedTypeOK, Row
    <2> QED
      BY <2>1, <2>2, <2>4, <2>5, <2>6 DEF BuildPage
  <1> QED
    BY <1>5, <1>6, <1>7, <1>8, <1>9, <1>10 DEF Read

\* Every step keeps the types.
LEMMA FeedNextTyped == FeedTypeOK /\ [Next]_vars => FeedTypeOK'
  <1> SUFFICES ASSUME FeedTypeOK, [Next]_vars PROVE FeedTypeOK'
    OBVIOUS
  <1>1. CASE UNCHANGED vars
    BY <1>1 DEF vars, writing, reading, FeedTypeOK
  <1> QED
    BY <1>1, PublishTyped, RemoveTyped, ReadTyped DEF Next

\* The types hold in every reachable state: the posts table, the composers and
\* the walks of the readers (posts, pagination, PostComposer).
THEOREM FeedTyped == Spec => []FeedTypeOK
  BY FeedInitTyped, FeedNextTyped, PTL DEF Spec

-----------------------------------------------------------------------------
(***************************************************************************)
(* The order of the lists, and what other clients do to a walk.            *)
(***************************************************************************)

\* Positions are totally ordered by (created_at, id).
LEMMA BelowOrder ==
    /\ \A a \in Position : ~ Below(a, a)
    /\ \A a, b, c \in Position : Below(a, b) /\ ~ Below(c, b) => Below(a, c)
    /\ \A a, b, c \in Position : Below(a, b) /\ Below(b, c) => Below(a, c)
    /\ \A a, b, c \in Position : ~ Below(a, b) /\ Below(c, b) => ~ Below(a, c)
    /\ \A a, b, c \in Position : ~ Below(a, b) /\ ~ Below(b, c) => ~ Below(a, c)
    /\ \A a, b \in Position : a.id # b.id => Below(a, b) \/ Below(b, a)
  <1>1. (\A p \in Posts : p \in Nat) /\ MaxTime \in Nat
    BY DEF FeedAssumption
  <1> HIDE FeedAssumption
  <1>2. ASSUME NEW a \in Position PROVE a.at \in Nat /\ a.id \in Nat
    <2>1. a.at \in 0 .. MaxTime /\ a.id \in Posts
      BY DEF Position
    <2> QED
      BY <1>1, <2>1
  <1> QED
    BY <1>2 DEF Below

\* What is not below a is below nothing that a is above.
LEMMA StaysAbove ==
    ASSUME NEW a \in Position, NEW b \in Position, NEW c \in Position,
           ~ Below(a, b), Below(c, b)
    PROVE  ~ Below(a, c)
  BY BelowOrder

\* What is below a is below everything that is not.
LEMMA StaysBelow ==
    ASSUME NEW a \in Position, NEW b \in Position, NEW c \in Position,
           Below(a, b), ~ Below(c, b)
    PROVE  Below(a, c)
  BY BelowOrder

\* A post has a position.
LEMMA Placed == FeedTypeOK => \A p \in Posts : PositionOf(p) \in Position
  BY DEF PositionOf, Position, FeedTypeOK, Row

\* A committed post stays committed, with its author, kind and position.
LEMMA CommittedStays ==
    FeedTypeOK /\ [Next]_vars =>
      \A p \in Committed : /\ p \in Committed'
                           /\ post'[p].at = post[p].at
                           /\ post'[p].kind = post[p].kind
                           /\ post'[p].by = post[p].by
  <1> SUFFICES ASSUME FeedTypeOK, [Next]_vars, NEW p \in Committed
               PROVE  /\ p \in Committed'
                      /\ post'[p].at = post[p].at
                      /\ post'[p].kind = post[p].kind
                      /\ post'[p].by = post[p].by
    OBVIOUS
  <1> DEFINE Stays == /\ p \in Committed'
                      /\ post'[p].at = post[p].at
                      /\ post'[p].kind = post[p].kind
                      /\ post'[p].by = post[p].by
  <1>1. p \in Posts /\ post[p].state \in {"live", "deleted"} /\ post[p] \in Row
    BY DEF Committed, FeedTypeOK
  <1>2. CASE UNCHANGED post
    BY <1>1, <1>2 DEF Committed
  <1>3. ASSUME NEW q \in Posts, post[q].state \notin {"live", "deleted"},
               NEW r, post' = [post EXCEPT ![q] = r]
        PROVE  Stays
    <2>1. post'[p] = post[p]
      BY <1>1, <1>3 DEF FeedTypeOK
    <2> QED
      BY <1>1, <2>1 DEF Committed
  <1>4. ASSUME NEW c \in Composers, NEW q \in Posts, Submit(c, q) PROVE Stays
    BY <1>3, <1>4 DEF Submit, Drawn
  <1>5. ASSUME NEW q \in Posts, Begin(q) \/ Abort(q) PROVE Stays
    <2>1. CASE Begin(q)
      <3>1. post[q].state = "sent"
        BY <2>1 DEF Begin
      <3>2. post' = [post EXCEPT ![q] = [post[q] EXCEPT !.state = "writing",
                                                        !.at = clock]]
        BY <2>1 DEF Begin, FeedTypeOK
      <3> QED
        BY <1>3, <3>1, <3>2
    <2>2. CASE Abort(q)
      BY <1>3, <2>2 DEF Abort
    <2> QED
      BY <1>5, <2>1, <2>2
  <1>6. ASSUME NEW q \in Posts, NEW s \in {"live", "deleted"},
               post' = [post EXCEPT ![q].state = s]
        PROVE  Stays
    <2>1. /\ post'[p].at = post[p].at /\ post'[p].kind = post[p].kind
          /\ post'[p].by = post[p].by
          /\ post'[p].state \in {s, post[p].state}
      BY <1>1, <1>6 DEF FeedTypeOK, Row
    <2> QED
      BY <1>1, <2>1 DEF Committed
  <1>7. CASE Purge
    BY <1>1, <1>7 DEF Purge, Committed, Live, FeedTypeOK, Row
  <1>8. CASE Join \/ Leave \/ Tick \/ \E c \in Composers : Told(c) \/ ToldFailure(c)
    BY <1>2, <1>8 DEF Join, Leave, Tick, Told, ToldFailure
  <1>9. CASE \E v \in Readers : Read(v)
    BY <1>2, <1>9 DEF Read, Open, Ask, Stop, Retry, Deliver, Turn, Serve, writing
  <1>10. CASE UNCHANGED vars
    BY <1>2, <1>10 DEF vars, writing
  <1> QED
    BY <1>4, <1>5, <1>6, <1>7, <1>8, <1>9, <1>10
       DEF Next, Publish, Remove, Commit, Delete

Walking(v) == reader[v].pc \in {"ready", "asked", "sent"}

\* What stayed in the list is there now.
Held(v) ==
    \A p \in steady[v] :
        p \in Live /\ post[p].kind \in Selects(reader[v].list, Identities(reader[v].list))

\* The identities that were read still cover it.
Asked(v) ==
    reader[v].pc = "asked" =>
        \A p \in steady[v] : post[p].kind \in Selects(reader[v].list, reader[v].scope)

\* The pages that were shown lie at the cursor or above it.
ShownAbove(v) ==
    /\ shown[v] \subseteq Committed
    /\ Walking(v) => \A q \in shown[v] : /\ reader[v].cursor # None
                                         /\ ~ Below(PositionOf(q), reader[v].cursor)

\* What has not been shown lies below the cursor.
RestBelow(v) ==
    Walking(v) => \A p \in steady[v] \ shown[v] :
        reader[v].cursor = None \/ Below(PositionOf(p), reader[v].cursor)

\* A page on its way lies below its cursor, its own cursor lies at its end, and
\* everything that neither it nor the pages before it hold lies below that.
PageFits(v) ==
    reader[v].pc = "sent" =>
        /\ reader[v].page \subseteq Committed
        /\ \A p \in reader[v].page :
              reader[v].cursor = None \/ Below(PositionOf(p), reader[v].cursor)
        /\ reader[v].next # None =>
              /\ \A p \in reader[v].page : ~ Below(PositionOf(p), reader[v].next)
              /\ reader[v].cursor = None \/ Below(reader[v].next, reader[v].cursor)
        /\ \A p \in steady[v] \ (shown[v] \cup reader[v].page) :
              reader[v].next # None /\ Below(PositionOf(p), reader[v].next)

AllShown(v) == reader[v].pc = "done" => steady[v] \subseteq shown[v]

WalkInv(v) ==
    Held(v) /\ Asked(v) /\ ShownAbove(v) /\ RestBelow(v) /\ PageFits(v) /\ AllShown(v)

\* Readers are left alone by all but their own requests.
LEMMA WritingIsNotReading ==
    Publish \/ Remove \/ Tick \/ UNCHANGED vars => UNCHANGED reading
  <1>1. Publish => UNCHANGED reading
    <2>1. ASSUME NEW c \in Composers, NEW p \in Posts, Submit(c, p)
          PROVE  UNCHANGED reading
      BY <2>1 DEF Submit
    <2>2. ASSUME NEW p \in Posts, Begin(p) \/ Commit(p) \/ Abort(p)
          PROVE  UNCHANGED reading
      BY <2>2 DEF Begin, Commit, Abort
    <2>3. ASSUME NEW c \in Composers, Told(c) \/ ToldFailure(c)
          PROVE  UNCHANGED reading
      BY <2>3 DEF Told, ToldFailure
    <2> QED
      BY <2>1, <2>2, <2>3 DEF Publish
  <1>2. Remove \/ Tick => UNCHANGED reading
    BY DEF Remove, Purge, Join, Leave, Delete, Tick
  <1> QED
    BY <1>1, <1>2 DEF vars

\* Publishing, deleting, purging and changing the team take no walk out of its
\* invariant: they only take posts out of what has stayed in its list.
LEMMA WritingSpares ==
    FeedTypeOK /\ (Publish \/ Remove \/ Tick)
      => \A v \in Readers : /\ steady'[v] \subseteq steady[v]
                            /\ Held(v) => Held(v)'
  <1> SUFFICES ASSUME FeedTypeOK, Publish \/ Remove \/ Tick, NEW v \in Readers
               PROVE  /\ steady'[v] \subseteq steady[v]
                      /\ Held(v) => Held(v)'
    OBVIOUS
  <1> DEFINE Spared == steady'[v] \subseteq steady[v] /\ (Held(v) => Held(v)')
  <1>1. ASSUME UNCHANGED <<project, reader, steady>>,
               \A p \in Live : p \in Live' /\ post'[p].kind = post[p].kind
        PROVE  Spared
    BY <1>1 DEF Held, Identities, Selects
  <1>2. ASSUME NEW q \in Posts, post[q].state # "live",
               NEW r, post' = [post EXCEPT ![q] = r]
        PROVE  \A p \in Live : p \in Live' /\ post'[p].kind = post[p].kind
    BY <1>2 DEF Live, FeedTypeOK
  <1>3. ASSUME NEW c \in Composers, NEW q \in Posts, Submit(c, q) PROVE Spared
    BY <1>1, <1>2, <1>3 DEF Submit, Drawn, reading
  <1>4. ASSUME NEW q \in Posts, Begin(q) PROVE Spared
    <2>1. post[q].state # "live" /\ UNCHANGED <<project, reader, steady>>
      BY <1>4 DEF Begin, reading
    <2>2. post' = [post EXCEPT ![q] = [post[q] EXCEPT !.state = "writing",
                                                      !.at = clock]]
      BY <1>4 DEF Begin, FeedTypeOK
    <2> QED
      BY <1>1, <1>2, <2>1, <2>2
  <1>5. ASSUME NEW q \in Posts, Abort(q) PROVE Spared
    <2>1. post[q].state # "live" /\ UNCHANGED <<project, reader, steady>>
      BY <1>5 DEF Abort, reading
    <2> QED
      BY <1>1, <1>2, <1>5, <2>1 DEF Abort
  <1>6. ASSUME NEW q \in Posts, Commit(q) PROVE Spared
    <2>1. UNCHANGED <<project, reader, steady>>
      BY <1>6 DEF Commit, reading
    <2>2. \A p \in Live : p \in Live' /\ post'[p].kind = post[p].kind
      BY <1>6 DEF Commit, Live, FeedTypeOK, Row
    <2> QED
      BY <1>1, <2>1, <2>2
  <1>7. CASE Join
    <2>1. steady' = steady /\ reader' = reader /\ post' = post
      BY <1>7 DEF Join, reading
    <2>2. Identities(reader[v].list) \subseteq Identities(reader[v].list)'
      BY <1>7, <2>1 DEF Join, Identities
    <2> QED
      BY <2>1, <2>2 DEF Held, Selects, Live
  <1>8. CASE Tick \/ \E c \in Composers : Told(c) \/ ToldFailure(c)
    BY <1>1, <1>8 DEF Tick, Told, ToldFailure, reading, Live
  <1>9. ASSUME NEW q \in Posts, Delete(q) PROVE Spared
    <2>1. steady'[v] = steady[v] \ {q} /\ UNCHANGED <<project, reader>>
      BY <1>9 DEF Delete, Keep, reading
    <2>2. \A p \in Live \ {q} : p \in Live' /\ post'[p].kind = post[p].kind
      BY <1>9 DEF Delete, Live, FeedTypeOK, Row
    <2> QED
      BY <2>1, <2>2 DEF Held, Identities, Selects
  <1>10. CASE Purge
    <2>1. steady'[v] = steady[v] \ OfProject /\ UNCHANGED reader
      BY <1>10 DEF Purge, Keep, reading
    <2>2. \A p \in Live \ OfProject :
             p \in Live' /\ post'[p].kind = post[p].kind /\ post[p].kind # "project"
      BY <1>10 DEF Purge, Live, OfProject, FeedTypeOK
    <2>3. Identities(reader[v].list) \ {"project"} \subseteq Identities(reader[v].list)'
      BY <2>1 DEF Identities
    <2> QED
      BY <2>1, <2>2, <2>3 DEF Held, Selects
  <1>11. CASE Leave
    <2>1. UNCHANGED <<post, reader>> /\ steady'[v] \subseteq steady[v]
      BY <1>11 DEF Leave, Keep, reading
    <2>2. CASE reader[v].list \in {"all", "projects"}
      <3>1. steady'[v] = steady[v] \ OfProject
        BY <1>11, <2>2 DEF Leave, Keep
      <3>2. \A p \in Live \ OfProject : post[p].kind # "project"
        BY DEF Live, OfProject
      <3>3. Identities(reader[v].list) \ {"project"} \subseteq Identities(reader[v].list)'
        BY <2>1 DEF Identities
      <3> QED
        BY <2>1, <3>1, <3>2, <3>3 DEF Held, Selects, Live
    <2>3. CASE reader[v].list \notin {"all", "projects"}
      <3>1. Identities(reader[v].list) = Identities(reader[v].list)'
        BY <2>1, <2>3 DEF Identities
      <3> QED
        BY <2>1, <3>1 DEF Held, Selects, Live
    <2> QED
      BY <2>2, <2>3
  <1> QED
    BY <1>3, <1>4, <1>5, <1>6, <1>7, <1>8, <1>9, <1>10, <1>11 DEF Publish, Remove

\* So a step of other clients keeps the invariant of every walk.
LEMMA WritingKeepsWalks ==
    FeedTypeOK /\ (Publish \/ Remove \/ Tick)
      => \A v \in Readers : WalkInv(v) => WalkInv(v)'
  <1> SUFFICES ASSUME FeedTypeOK, Publish \/ Remove \/ Tick,
                      NEW v \in Readers, WalkInv(v)
               PROVE  WalkInv(v)'
    OBVIOUS
  <1>1. reader' = reader /\ shown' = shown
    BY DEF Publish, Remove, Tick, Submit, Begin, Commit, Abort, Told,
           ToldFailure, Delete, Purge, Join, Leave, reading
  <1>2. steady'[v] \subseteq steady[v] /\ Held(v)'
    BY WritingSpares DEF WalkInv
  <1>3. steady[v] \subseteq Committed
    BY DEF WalkInv, Held, Live, Committed
  <1>4. \A p \in Committed : /\ p \in Committed'
                             /\ post'[p].kind = post[p].kind
                             /\ PositionOf(p)' = PositionOf(p)
    BY CommittedStays DEF Next, PositionOf
  <1>5. Asked(v)'
    BY <1>1, <1>2, <1>3, <1>4 DEF WalkInv, Asked, Selects
  <1>6. ShownAbove(v)'
    BY <1>1, <1>4 DEF WalkInv, ShownAbove, Walking, Below
  <1>7. RestBelow(v)'
    BY <1>1, <1>2, <1>3, <1>4 DEF WalkInv, RestBelow, Walking, Below
  <1>8. PageFits(v)'
    <2>1. SUFFICES ASSUME reader[v].pc = "sent" PROVE PageFits(v)'
      BY <1>1 DEF PageFits
    <2>2. reader[v].page \subseteq Committed
      BY <2>1 DEF WalkInv, PageFits
    <2>3. \A p \in reader[v].page :
             reader[v].cursor = None \/ Below(PositionOf(p), reader[v].cursor)
      BY <2>1 DEF WalkInv, PageFits
    <2>4. reader[v].next # None =>
             /\ \A p \in reader[v].page : ~ Below(PositionOf(p), reader[v].next)
             /\ reader[v].cursor = None \/ Below(reader[v].next, reader[v].cursor)
      BY <2>1 DEF WalkInv, PageFits
    <2>5. \A p \in steady[v] \ (shown[v] \cup reader[v].page) :
             reader[v].next # None /\ Below(PositionOf(p), reader[v].next)
      BY <2>1 DEF WalkInv, PageFits
    <2> QED
      BY <1>1, <1>2, <1>3, <1>4, <2>2, <2>3, <2>4, <2>5 DEF PageFits, Below
  <1>9. AllShown(v)'
    BY <1>1, <1>2 DEF WalkInv, AllShown
  <1> QED
    BY <1>2, <1>5, <1>6, <1>7, <1>8, <1>9 DEF WalkInv

\* A page holds the first rows of what the walk still needs, and its cursor is
\* the position of the last of them.
LEMMA PageIsTop ==
    FeedTypeOK /\ (\A v \in Readers : WalkInv(v)) =>
      \A v \in Readers, n \in 0 .. MaxLimit + 1 : Serve(v, n) => PageFits(v)'
  <1> SUFFICES ASSUME FeedTypeOK, NEW v \in Readers, WalkInv(v),
                      NEW n \in 0 .. MaxLimit + 1, Serve(v, n)
               PROVE  PageFits(v)'
    OBVIOUS
  <1> DEFINE rows == {p \in Live \cap Under(reader[v].cursor) :
                        post[p].kind \in Selects(reader[v].list, reader[v].scope)}
  <1>1. BuildPage(v, rows, NormalizeLimit(n)) /\ reader[v].pc = "asked"
        /\ UNCHANGED <<post, shown, steady>>
    BY DEF Serve, writing
  <1>2. rows \subseteq Posts /\ rows \subseteq Committed
        /\ \A p \in rows : reader[v].cursor = None
                             \/ Below(PositionOf(p), reader[v].cursor)
    BY DEF Under, Live, Committed
  <1>3. steady[v] \ shown[v] \subseteq rows
    BY <1>1 DEF WalkInv, Held, Asked, RestBelow, Walking, Under, Live
  <1> HIDE DEF rows
  <1>4. PICK limit \in Nat : limit = NormalizeLimit(n)
    BY LimitIsNat
  <1>5. /\ Committed' = Committed
        /\ \A p \in Posts : PositionOf(p)' = PositionOf(p)
        /\ \A p \in Posts : PositionOf(p) \in Position
    BY <1>1, Placed DEF Committed, PositionOf
  <1>6. reader[v].cursor \in Position \cup {None}
    BY DEF FeedTypeOK
  <1>7. ASSUME NEW page \in SUBSET rows, NEW next,
               reader' = [reader EXCEPT ![v].pc = "sent", ![v].page = page,
                                        ![v].next = next],
               next # None =>
                 /\ \A p \in page : ~ Below(PositionOf(p), next)
                 /\ reader[v].cursor = None \/ Below(next, reader[v].cursor),
               \A p \in rows \ page : next # None /\ Below(PositionOf(p), next)
        PROVE  PageFits(v)'
    <2>1. reader'[v].page = page /\ reader'[v].next = next
          /\ reader'[v].cursor = reader[v].cursor
      BY <1>7 DEF FeedTypeOK
    <2>2. page \subseteq Committed'
      BY <1>2, <1>5
    <2>3. \A p \in page : reader[v].cursor = None
                             \/ Below(PositionOf(p)', reader[v].cursor)
      BY <1>2, <1>5
    <2>4. next # None => \A p \in page : ~ Below(PositionOf(p)', next)
      BY <1>2, <1>5, <1>7
    <2>5. \A p \in steady[v] \ (shown[v] \cup page) :
             next # None /\ Below(PositionOf(p)', next)
      BY <1>2, <1>3, <1>5, <1>7
    <2> QED
      BY <1>1, <1>7, <2>1, <2>2, <2>3, <2>4, <2>5 DEF PageFits, Below
  <1>8. CASE Cardinality(rows) <= limit /\ reader' =
               [reader EXCEPT ![v].pc = "sent", ![v].page = rows, ![v].next = None]
    BY <1>7, <1>8
  <1>9. ASSUME NEW last \in Top(rows, limit),
               Above(last, Top(rows, limit)) = Top(rows, limit) \ {last},
               reader' = [reader EXCEPT ![v].pc = "sent",
                                        ![v].page = Top(rows, limit),
                                        ![v].next = PositionOf(last)]
        PROVE  PageFits(v)'
    <2>1. last \in rows /\ Top(rows, limit) \in SUBSET rows /\ last \in Posts
      BY <1>2, <1>9 DEF Top
    <2>2. PositionOf(last) # None
      BY <1>5, <2>1 DEF FeedAssumption
    <2>3. \A p \in Top(rows, limit) : ~ Below(PositionOf(p), PositionOf(last))
      <3>1. ~ Below(PositionOf(last), PositionOf(last))
        BY <1>5, <2>1, BelowOrder
      <3> QED
        BY <1>9, <3>1 DEF Above
    <2>4. reader[v].cursor = None \/ Below(PositionOf(last), reader[v].cursor)
      BY <1>2, <2>1
    <2>5. ASSUME NEW p \in rows \ Top(rows, limit)
          PROVE  Below(PositionOf(p), PositionOf(last))
      <3> SUFFICES ASSUME ~ Below(PositionOf(p), PositionOf(last)) PROVE FALSE
        OBVIOUS
      <3>1. p \in Posts /\ p # last
        BY <1>2, <1>9
      <3>2. Below(PositionOf(last), PositionOf(p))
        <4>1. PositionOf(p).id # PositionOf(last).id
          BY <3>1 DEF PositionOf
        <4> QED
          BY <1>5, <2>1, <3>1, <4>1, BelowOrder
      <3>3. Above(p, rows) \subseteq Above(last, rows)
        <4> SUFFICES ASSUME NEW q \in Above(p, rows) PROVE q \in Above(last, rows)
          OBVIOUS
        <4>1. q \in rows /\ q \in Posts /\ ~ Below(PositionOf(q), PositionOf(p))
          BY <1>2 DEF Above
        <4>2. ~ Below(PositionOf(q), PositionOf(last))
          <5>1. /\ PositionOf(q) \in Position /\ PositionOf(p) \in Position
                /\ PositionOf(last) \in Position
            BY <1>5, <2>1, <3>1, <4>1
          <5> QED
            BY <3>2, <4>1, <5>1, StaysAbove
        <4>3. q # last
          BY <3>2, <4>1
        <4> QED
          BY <4>1, <4>2, <4>3 DEF Above
      <3>4. IsFiniteSet(Above(last, rows))
        <4>1. Above(last, rows) \in SUBSET Posts
          BY <1>2 DEF Above
        <4> QED
          BY <4>1, FS_Subset DEF FeedAssumption
      <3>5. /\ Cardinality(Above(p, rows)) <= Cardinality(Above(last, rows))
            /\ Cardinality(Above(p, rows)) \in Nat
            /\ Cardinality(Above(last, rows)) \in Nat
        <4>1. Above(p, rows) \in SUBSET Above(last, rows)
          BY <3>3
        <4> QED
          BY <3>4, <4>1, FS_Subset, FS_CardinalityType
      <3>6. Cardinality(Above(last, rows)) < limit
        BY <1>9 DEF Top
      <3>7. ~ Cardinality(Above(p, rows)) < limit
        BY DEF Top
      <3> QED
        BY <3>5, <3>6, <3>7
    <2> QED
      BY <1>7, <1>9, <2>1, <2>2, <2>3, <2>4, <2>5
  <1> QED
    BY <1>1, <1>4, <1>8, <1>9 DEF BuildPage

\* The cursor of a page lies below nothing that the walk has shown by then.
LEMMA CursorIsLast ==
    ASSUME FeedTypeOK, NEW v \in Readers, WalkInv(v), reader[v].pc = "sent",
           reader[v].next # None, NEW q \in shown[v] \cup reader[v].page
    PROVE  ~ Below(PositionOf(q), reader[v].next)
  <1>1. PageFits(v) /\ ShownAbove(v)
    BY DEF WalkInv
  <1>2. CASE q \in reader[v].page
    BY <1>1, <1>2 DEF PageFits
  <1>3. CASE q \in shown[v]
    <2>1. /\ q \in Posts
          /\ reader[v].cursor # None /\ ~ Below(PositionOf(q), reader[v].cursor)
      BY <1>1, <1>3 DEF ShownAbove, Walking, Committed
    <2>2. Below(reader[v].next, reader[v].cursor)
      BY <1>1, <2>1 DEF PageFits
    <2>3. /\ PositionOf(q) \in Position
          /\ reader[v].cursor \in Position /\ reader[v].next \in Position
      BY <2>1, Placed DEF FeedTypeOK
    <2> QED
      BY <2>1, <2>2, <2>3, StaysAbove
  <1> QED
    BY <1>2, <1>3

\* A delivered page moves the walk to its end.
LEMMA DeliverKeepsWalk ==
    FeedTypeOK /\ (\A v \in Readers : WalkInv(v)) =>
      \A v \in Readers : Deliver(v) => WalkInv(v)'
  <1> SUFFICES ASSUME FeedTypeOK, NEW v \in Readers, WalkInv(v), Deliver(v)
               PROVE  WalkInv(v)'
    OBVIOUS
  <1> DEFINE next == reader[v].next
  <1>1. /\ reader[v].pc = "sent" /\ shown'[v] = shown[v] \cup reader[v].page
        /\ UNCHANGED <<post, project, steady>>
    BY DEF Deliver, FeedTypeOK, writing
  <1>2. /\ reader'[v].pc = IF next = None THEN "done" ELSE "ready"
        /\ reader'[v].list = reader[v].list /\ reader'[v].cursor = next
    BY DEF Deliver, FeedTypeOK, NoWalk
  <1>3. /\ Committed' = Committed /\ Live' = Live
        /\ \A p \in Posts : PositionOf(p)' = PositionOf(p)
        /\ \A p \in Posts : PositionOf(p) \in Position
    BY <1>1, Placed DEF Committed, Live, PositionOf
  <1>4. PageFits(v) /\ ShownAbove(v) /\ reader[v].page \subseteq Committed
        /\ Committed \subseteq Posts /\ steady[v] \subseteq Posts
    BY <1>1 DEF WalkInv, PageFits, Committed, FeedTypeOK
  <1>5. reader[v].cursor \in Position \cup {None} /\ next \in Position \cup {None}
    BY DEF FeedTypeOK
  <1>6. Held(v)'
    BY <1>1, <1>2 DEF WalkInv, Held, Identities, Selects, Live
  <1>7. Asked(v)' /\ PageFits(v)'
    BY <1>2 DEF Asked, PageFits
  <1>8. ShownAbove(v)'
    <2>1. shown'[v] \subseteq Committed'
      BY <1>1, <1>3, <1>4 DEF ShownAbove
    <2>2. ASSUME next # None, NEW q \in shown[v] \cup reader[v].page
          PROVE  ~ Below(PositionOf(q)', next)
      <3>1. ~ Below(PositionOf(q), next)
        BY <1>1, <2>2, CursorIsLast
      <3>2. q \in Posts
        BY <1>4, <2>2 DEF ShownAbove
      <3> QED
        BY <1>3, <3>1, <3>2
    <2> HIDE DEF next
    <2> QED
      BY <1>1, <1>2, <2>1, <2>2 DEF ShownAbove, Walking, Below
  <1>9. RestBelow(v)'
    <2>1. \A p \in steady[v] \ (shown[v] \cup reader[v].page) :
             Below(PositionOf(p)', next)
      BY <1>1, <1>3, <1>4 DEF PageFits
    <2> HIDE DEF next
    <2> QED
      BY <1>1, <1>2, <2>1 DEF RestBelow, Below
  <1>10. AllShown(v)'
    <2>1. next = None => steady[v] \subseteq shown[v] \cup reader[v].page
      BY <1>1, <1>4 DEF PageFits
    <2> QED
      BY <1>1, <1>2, <2>1 DEF AllShown
  <1> QED
    BY <1>6, <1>7, <1>8, <1>9, <1>10 DEF WalkInv

\* A reader's step keeps the invariant of its walk.
LEMMA ReadKeepsOwnWalk ==
    FeedTypeOK /\ (\A v \in Readers : WalkInv(v)) =>
      \A v \in Readers : Read(v) => WalkInv(v)'
  <1> SUFFICES ASSUME FeedTypeOK, \A w \in Readers : WalkInv(w),
                      NEW v \in Readers, Read(v)
               PROVE  WalkInv(v)'
    OBVIOUS
  <1>0. WalkInv(v)
    OBVIOUS
  <1>1. ASSUME Stop(v), UNCHANGED writing PROVE WalkInv(v)'
    <2>1. reader'[v] = NoWalk /\ shown'[v] = {} /\ steady'[v] = {}
      BY <1>1 DEF Stop, FeedTypeOK
    <2> QED
      BY <2>1 DEF WalkInv, Held, Asked, ShownAbove, RestBelow, PageFits, AllShown,
                  Walking, NoWalk
  <1>2. ASSUME NEW list \in Lists, Open(v, list) PROVE WalkInv(v)'
    <2>1. /\ reader'[v].pc = "ready" /\ reader'[v].list = list
          /\ reader'[v].cursor = None
          /\ shown'[v] = {} /\ steady'[v] = Listed(list)
          /\ UNCHANGED <<post, project>>
      BY <1>2 DEF Open, FeedTypeOK, NoWalk, writing
    <2>2. Held(v)'
      BY <2>1 DEF Held, Listed, Live, Identities, Selects
    <2> QED
      BY <2>1, <2>2 DEF WalkInv, Asked, ShownAbove, RestBelow, PageFits, AllShown,
                        Walking
  <1>3. CASE Ask(v)
    <2>1. CASE reader[v].list = "replies" /\ Thread \notin Live
      BY <1>1, <1>3, <2>1 DEF Ask
    <2>2. CASE ~ (reader[v].list = "replies" /\ Thread \notin Live)
      <3>1. /\ reader[v].pc = "ready" /\ reader'[v].pc = "asked"
            /\ reader'[v].list = reader[v].list
            /\ reader'[v].cursor = reader[v].cursor
            /\ reader'[v].scope = Identities(reader[v].list)
            /\ UNCHANGED <<post, project, shown, steady>>
        BY <1>3, <2>2 DEF Ask, FeedTypeOK, writing
      <3>2. Held(v)' /\ Asked(v)'
        BY <1>0, <3>1 DEF WalkInv, Held, Asked, Identities, Selects, Live
      <3>3. ShownAbove(v)' /\ RestBelow(v)'
        BY <1>0, <3>1 DEF WalkInv, ShownAbove, RestBelow, Walking, Committed,
                          PositionOf, Below
      <3>4. PageFits(v)' /\ AllShown(v)'
        BY <3>1 DEF PageFits, AllShown
      <3> QED
        BY <3>2, <3>3, <3>4 DEF WalkInv
    <2> QED
      BY <2>1, <2>2
  <1>4. CASE Retry(v)
    <2>1. /\ reader[v].pc \in {"asked", "sent"} /\ reader'[v].pc = "ready"
          /\ reader'[v].list = reader[v].list
          /\ reader'[v].cursor = reader[v].cursor
          /\ UNCHANGED <<post, project, shown, steady>>
      BY <1>4 DEF Retry, FeedTypeOK, NoWalk, writing
    <2>2. Held(v)'
      BY <1>0, <2>1 DEF WalkInv, Held, Identities, Selects, Live
    <2>3. ShownAbove(v)' /\ RestBelow(v)'
      BY <1>0, <2>1 DEF WalkInv, ShownAbove, RestBelow, Walking, Committed,
                        PositionOf, Below
    <2>4. Asked(v)' /\ PageFits(v)' /\ AllShown(v)'
      BY <2>1 DEF Asked, PageFits, AllShown
    <2> QED
      BY <2>2, <2>3, <2>4 DEF WalkInv
  <1>5. CASE Deliver(v)
    BY <1>5, DeliverKeepsWalk
  <1>6. CASE Turn(v)
    BY <1>1, <1>6 DEF Turn
  <1>7. ASSUME NEW n \in 0 .. MaxLimit + 1, Serve(v, n) PROVE WalkInv(v)'
    <2>1. /\ reader[v].pc = "asked" /\ reader'[v].pc = "sent"
          /\ reader'[v].list = reader[v].list
          /\ reader'[v].cursor = reader[v].cursor
          /\ UNCHANGED <<post, project, shown, steady>>
      <3>1. PICK page, next : reader' = [reader EXCEPT ![v].pc = "sent",
                                           ![v].page = page, ![v].next = next]
        BY <1>7 DEF Serve, BuildPage
      <3> QED
        BY <1>7, <3>1 DEF Serve, FeedTypeOK, writing
    <2>2. Held(v)'
      BY <1>0, <2>1 DEF WalkInv, Held, Identities, Selects, Live
    <2>3. ShownAbove(v)' /\ RestBelow(v)'
      BY <1>0, <2>1 DEF WalkInv, ShownAbove, RestBelow, Walking, Committed,
                        PositionOf, Below
    <2>4. Asked(v)' /\ AllShown(v)'
      BY <2>1 DEF Asked, AllShown
    <2>5. PageFits(v)'
      BY <1>7, PageIsTop
    <2> QED
      BY <2>2, <2>3, <2>4, <2>5 DEF WalkInv
  <1> QED
    BY <1>2, <1>3, <1>4, <1>5, <1>6, <1>7 DEF Read

\* And of every other walk: readers share nothing but the posts.
LEMMA ReadKeepsWalks ==
    FeedTypeOK /\ (\A v \in Readers : WalkInv(v)) =>
      \A v \in Readers : Read(v) => \A w \in Readers : WalkInv(w)'
  <1> SUFFICES ASSUME FeedTypeOK, \A w \in Readers : WalkInv(w),
                      NEW v \in Readers, Read(v), NEW w \in Readers
               PROVE  WalkInv(w)'
    OBVIOUS
  <1>1. CASE w = v
    BY <1>1, ReadKeepsOwnWalk
  <1>2. CASE w # v
    <2>1. /\ reader'[w] = reader[w] /\ shown'[w] = shown[w]
          /\ steady'[w] = steady[w] /\ UNCHANGED <<post, project>>
      BY <1>2 DEF Read, Open, Ask, Stop, Retry, Deliver, Turn, Serve, BuildPage,
                  writing, FeedTypeOK
    <2>2. WalkInv(w)
      OBVIOUS
    <2>3. Held(w)' /\ Asked(w)' /\ AllShown(w)'
      BY <2>1, <2>2 DEF WalkInv, Held, Asked, AllShown, Identities, Selects, Live
    <2>4. ShownAbove(w)' /\ RestBelow(w)'
      BY <2>1, <2>2 DEF WalkInv, ShownAbove, RestBelow, Walking, Committed,
                        PositionOf, Below
    <2>5. PageFits(w)'
      BY <2>1, <2>2 DEF WalkInv, PageFits, Committed, PositionOf, Below
    <2> QED
      BY <2>3, <2>4, <2>5 DEF WalkInv
  <1> QED
    BY <1>1, <1>2

WalksInv == FeedTypeOK /\ \A v \in Readers : WalkInv(v)

\* The invariant of the walks is inductive.
LEMMA WalksInductive ==
    /\ Init => WalksInv
    /\ WalksInv /\ [Next]_vars => WalksInv'
  <1>1. ASSUME Init PROVE WalksInv
    <2>1. \A v \in Readers : reader[v] = NoWalk /\ shown[v] = {} /\ steady[v] = {}
      BY <1>1 DEF Init
    <2>2. \A v \in Readers : WalkInv(v)
      BY <2>1 DEF WalkInv, Held, Asked, ShownAbove, RestBelow, PageFits, AllShown,
                  Walking, NoWalk
    <2> QED
      BY <1>1, <2>2, FeedInitTyped DEF WalksInv
  <1>2. ASSUME WalksInv, [Next]_vars PROVE WalksInv'
    <2>1. FeedTypeOK'
      BY <1>2, FeedNextTyped DEF WalksInv
    <2>2. CASE Publish \/ Remove \/ Tick
      BY <1>2, <2>1, <2>2, WritingKeepsWalks DEF WalksInv
    <2>3. CASE \E v \in Readers : Read(v)
      BY <1>2, <2>1, <2>3, ReadKeepsWalks DEF WalksInv
    <2>4. CASE UNCHANGED vars
      <3> SUFFICES ASSUME NEW v \in Readers PROVE WalkInv(v)'
        BY <2>1 DEF WalksInv
      <3>1. WalkInv(v) /\ UNCHANGED <<post, project, reader, shown, steady>>
        BY <1>2, <2>4 DEF WalksInv, vars, writing, reading
      <3>2. Held(v)' /\ Asked(v)' /\ AllShown(v)'
        BY <3>1 DEF WalkInv, Held, Asked, AllShown, Identities, Selects, Live
      <3>3. ShownAbove(v)' /\ RestBelow(v)'
        BY <3>1 DEF WalkInv, ShownAbove, RestBelow, Walking, Committed, PositionOf,
                    Below
      <3>4. PageFits(v)'
        BY <3>1 DEF WalkInv, PageFits, Committed, PositionOf, Below
      <3> QED
        BY <3>2, <3>3, <3>4 DEF WalkInv
    <2> QED
      BY <1>2, <2>2, <2>3, <2>4 DEF Next
  <1> QED
    BY <1>1, <1>2

\* A page on its way lies below what was shown: its rows are under its cursor,
\* and the pages that were shown are not.
LEMMA PagesLieBelow == WalksInv => WalkDescends
  <1>1. ASSUME WalksInv PROVE WalkDescends
    <2> SUFFICES ASSUME NEW v \in Readers, reader[v].pc = "sent",
                        NEW p \in reader[v].page, NEW q \in shown[v]
                 PROVE  Below(PositionOf(p), PositionOf(q))
      BY DEF WalkDescends
    <2>1. reader[v].cursor # None /\ ~ Below(PositionOf(q), reader[v].cursor)
      BY <1>1 DEF WalksInv, WalkInv, ShownAbove, Walking
    <2>2. Below(PositionOf(p), reader[v].cursor)
      BY <1>1, <2>1 DEF WalksInv, WalkInv, PageFits
    <2>3. PositionOf(p) \in Position /\ PositionOf(q) \in Position
          /\ reader[v].cursor \in Position
      <3>1. p \in Posts /\ q \in Posts /\ reader[v].cursor \in Position
        BY <1>1, <2>1 DEF WalksInv, FeedTypeOK
      <3> QED
        BY <1>1, <3>1, Placed DEF WalksInv
    <2> QED
      BY <2>1, <2>2, <2>3, BelowOrder
  <1> QED
    BY <1>1

\* Theorem: what a page brings lies below everything that the walk has shown,
\* whatever was published, deleted or asked for again in between (BuildPage,
\* ListFeed, ListByPublisherIDs, ListReplies).
THEOREM WalksDescend == Spec => []WalkDescends
  BY PagesLieBelow, WalksInductive, PTL DEF Spec

\* A walk that has reached its end has shown every post that its list held from
\* the first request to the last.
THEOREM NothingIsSkipped == Spec => []NothingSkipped
  <1>1. WalksInv => NothingSkipped
    BY DEF WalksInv, WalkInv, AllShown, NothingSkipped
  <1> QED
    BY <1>1, WalksInductive, PTL DEF Spec

-----------------------------------------------------------------------------
(***************************************************************************)
(* The feed implements the list of ListWalk.                               *)
(***************************************************************************)

\* A page that carries a cursor carries posts.
PagesBring ==
    \A v \in Readers :
        reader[v].pc = "sent" /\ reader[v].next # None => reader[v].page # {}

\* Serve puts a page on its way, and only a page with posts has a cursor.
LEMMA ServedPage ==
    ASSUME FeedTypeOK, NEW v \in Readers, NEW n \in 0 .. MaxLimit + 1, Serve(v, n)
    PROVE  \E w : /\ reader' = [reader EXCEPT ![v] = w] /\ w.pc = "sent"
                  /\ w.next # None => w.page # {}
  <1> DEFINE rows == {p \in Live \cap Under(reader[v].cursor) :
                        post[p].kind \in Selects(reader[v].list, reader[v].scope)}
             With(S, c) == [reader[v] EXCEPT !.pc = "sent", !.page = S, !.next = c]
  <1>1. BuildPage(v, rows, NormalizeLimit(n))
    BY DEF Serve
  <1>2. ASSUME NEW page, NEW next,
               reader' = [reader EXCEPT ![v].pc = "sent", ![v].page = page,
                                        ![v].next = next]
        PROVE  /\ reader' = [reader EXCEPT ![v] = With(page, next)]
               /\ With(page, next).pc = "sent"
               /\ With(page, next).page = page /\ With(page, next).next = next
    <2>1. reader' = [reader EXCEPT ![v] = With(page, next)]
      BY <1>2 DEF FeedTypeOK
    <2>2. /\ With(page, next).pc = "sent"
          /\ With(page, next).page = page /\ With(page, next).next = next
      BY DEF FeedTypeOK
    <2> QED
      BY <2>1, <2>2
  <1> HIDE DEF rows, With
  <1>3. CASE reader' = [reader EXCEPT ![v].pc = "sent", ![v].page = rows,
                                      ![v].next = None]
    <2>1. /\ reader' = [reader EXCEPT ![v] = With(rows, None)]
          /\ With(rows, None).pc = "sent" /\ With(rows, None).next = None
      BY <1>2, <1>3
    <2> QED
      BY <2>1
  <1>4. ASSUME NEW last \in Top(rows, NormalizeLimit(n)),
               reader' = [reader EXCEPT ![v].pc = "sent",
                                        ![v].page = Top(rows, NormalizeLimit(n)),
                                        ![v].next = PositionOf(last)]
        PROVE  \E w : /\ reader' = [reader EXCEPT ![v] = w] /\ w.pc = "sent"
                      /\ w.next # None => w.page # {}
    <2> DEFINE page == Top(rows, NormalizeLimit(n))
    <2>1. page # {}
      BY <1>4
    <2>2. reader' = [reader EXCEPT ![v].pc = "sent", ![v].page = page,
                                   ![v].next = PositionOf(last)]
      BY <1>4
    <2> HIDE DEF page
    <2> QED
      BY <1>2, <2>1, <2>2
  <1> QED
    BY <1>1, <1>3, <1>4 DEF BuildPage

\* It stays so: the cursor is that of the last post of the page.
LEMMA PagesBringInductive ==
    /\ Init => PagesBring
    /\ FeedTypeOK /\ PagesBring /\ [Next]_vars => PagesBring'
  <1>1. Init => PagesBring
    BY DEF Init, NoWalk, PagesBring
  <1>2. ASSUME FeedTypeOK, PagesBring, [Next]_vars PROVE PagesBring'
    <2>1. ASSUME NEW v \in Readers, NEW w, reader' = [reader EXCEPT ![v] = w],
                 w.pc = "sent" /\ w.next # None => w.page # {}
          PROVE  PagesBring'
      BY <1>2, <2>1 DEF PagesBring, FeedTypeOK
    <2>2. ASSUME NEW v \in Readers, Stop(v) PROVE PagesBring'
      BY <2>1, <2>2 DEF Stop, NoWalk
    <2>3. ASSUME NEW v \in Readers, Read(v) PROVE PagesBring'
      <3>1. ASSUME NEW list \in Lists, Open(v, list) PROVE PagesBring'
        BY <2>1, <3>1 DEF Open, NoWalk
      <3>2. CASE Ask(v)
        <4>1. CASE Stop(v)
          BY <2>2, <4>1
        <4>2. CASE ~ Stop(v)
          <5>1. reader' = [reader EXCEPT ![v] = [reader[v] EXCEPT !.pc = "asked",
                                            !.scope = Identities(reader[v].list)]]
            BY <1>2, <3>2, <4>2 DEF Ask, FeedTypeOK
          <5>2. [reader[v] EXCEPT !.pc = "asked",
                                  !.scope = Identities(reader[v].list)].pc = "asked"
            BY <1>2 DEF FeedTypeOK
          <5> QED
            BY <2>1, <5>1, <5>2
        <4> QED
          BY <4>1, <4>2
      <3>3. CASE Retry(v) \/ Deliver(v)
        BY <2>1, <3>3 DEF Retry, Deliver, NoWalk
      <3>4. CASE Turn(v)
        BY <2>2, <3>4 DEF Turn
      <3>5. ASSUME NEW n \in 0 .. MaxLimit + 1, Serve(v, n) PROVE PagesBring'
        BY <1>2, <2>1, <3>5, ServedPage
      <3> QED
        BY <2>3, <3>1, <3>2, <3>3, <3>4, <3>5 DEF Read
    <2>4. CASE UNCHANGED reader
      BY <1>2, <2>4 DEF PagesBring
    <2>5. Publish \/ Remove \/ Tick \/ UNCHANGED vars => UNCHANGED reader
      BY WritingIsNotReading DEF reading
    <2> QED
      BY <1>2, <2>3, <2>4, <2>5 DEF Next
  <1> QED
    BY <1>1, <1>2

\* A committed post stands at its position, for good.
LEMMA PlaceOfCommitted ==
    ASSUME FeedTypeOK
    PROVE  /\ Place \in [Posts -> Position \cup {None}]
           /\ List!Standing = Committed
           /\ \A p, q \in Committed :
                 Below(PositionOf(p), PositionOf(q)) => List!After(p, q)
  <1>1. \A p \in Posts : PositionOf(p) \in Position /\ PositionOf(p) # None
    BY Placed DEF FeedAssumption
  <1>2. Committed \subseteq Posts
    BY DEF Committed
  <1>3. \A p \in Posts : Place[p] = IF p \in Committed THEN PositionOf(p) ELSE None
    BY DEF Place, Committed
  <1>4. Place \in [Posts -> Position \cup {None}]
    BY <1>1 DEF Place
  <1>5. List!Standing = Committed
    BY <1>1, <1>2, <1>3 DEF List!Standing
  <1>6. ASSUME NEW p \in Committed, NEW q \in Committed,
               Below(PositionOf(p), PositionOf(q))
        PROVE  List!After(p, q)
    <2>1. Place[p] = PositionOf(p) /\ Place[q] = PositionOf(q)
      BY <1>2, <1>3
    <2>2. PositionOf(p) \in Position /\ PositionOf(q) \in Position
      BY <1>1, <1>2
    <2> QED
      BY <1>6, <2>1, <2>2 DEF List!After, Lower
  <1> QED
    BY <1>4, <1>5, <1>6

\* What the others do to the list: posts get a place or leave it.
LEMMA OthersChangeTheList ==
    FeedTypeOK /\ (Publish \/ Remove \/ Tick) => List!Change
  <1> SUFFICES ASSUME FeedTypeOK, Publish \/ Remove \/ Tick PROVE List!Change
    OBVIOUS
  <1>1. Next
    BY DEF Next
  <1>2. FeedTypeOK'
    BY <1>1, FeedNextTyped
  <1>3. UNCHANGED <<Phase, shown>>
    BY WritingIsNotReading DEF reading, Phase
  <1>4. Place' \in [Posts -> Position \cup {None}]
    <2>1. \A p \in Posts : PositionOf(p)' \in Position
      BY <1>2 DEF FeedTypeOK, PositionOf, Position, Row
    <2> QED
      BY <2>1 DEF Place
  <1>5. ASSUME NEW p \in Posts PROVE Place[p] \in {None, Place'[p]}
    <2>1. CASE p \in Committed
      <3>1. p \in Committed' /\ PositionOf(p)' = PositionOf(p)
        BY <1>1, <2>1, CommittedStays DEF PositionOf
      <3> QED
        BY <2>1, <3>1 DEF Place, Committed
    <2>2. CASE p \notin Committed
      BY <2>2 DEF Place, Committed
    <2> QED
      BY <2>1, <2>2
  <1>6. steady' \in [Readers -> SUBSET Posts]
    BY <1>2 DEF FeedTypeOK
  <1>7. \A v \in Readers : steady'[v] \subseteq steady[v]
    BY WritingSpares
  <1> QED
    BY <1>3, <1>4, <1>5, <1>6, <1>7 DEF List!Change

\* A page that is delivered is a page of the list.
LEMMA DeliverIsPage ==
    WalksInv /\ PagesBring =>
      \A v \in Readers : Deliver(v) => List!Page(v, reader[v].page)
  <1> SUFFICES ASSUME WalksInv, PagesBring, NEW v \in Readers, Deliver(v)
               PROVE  List!Page(v, reader[v].page)
    OBVIOUS
  <1> DEFINE page == reader[v].page
             next == reader[v].next
  <1>1. FeedTypeOK /\ WalkInv(v) /\ reader[v].pc = "sent"
    BY DEF WalksInv, Deliver
  <1>2. /\ page \subseteq Committed /\ shown[v] \subseteq Committed
        /\ steady[v] \subseteq Committed
    BY <1>1 DEF WalkInv, PageFits, ShownAbove, Held, Live, Committed
  <1>3. Phase[v] = "reading"
    BY <1>1 DEF Phase, PhaseOf
  <1>4. shown' = [shown EXCEPT ![v] = @ \cup page] /\ UNCHANGED <<post, steady>>
    BY DEF Deliver, writing
  <1>5. UNCHANGED Place
    BY <1>4 DEF Place, PositionOf
  <1>6. \A p \in page, q \in shown[v] : List!After(p, q)
    <2>1. \A p \in page, q \in shown[v] : Below(PositionOf(p), PositionOf(q))
      BY <1>1, PagesLieBelow DEF WalkDescends
    <2> HIDE DEF page
    <2> QED
      BY <1>1, <1>2, <2>1, PlaceOfCommitted
  <1>7. Phase' = [Phase EXCEPT ![v] = IF next = None THEN "end" ELSE "reading"]
    <2>1. reader' = [reader EXCEPT ![v] =
                       [NoWalk EXCEPT
                          !.pc = IF next = None THEN "done" ELSE "ready",
                          !.list = reader[v].list, !.cursor = next]]
      BY DEF Deliver
    <2>2. reader'[v].pc = (IF next = None THEN "done" ELSE "ready")
          /\ \A w \in Readers \ {v} : reader'[w] = reader[w]
      BY <1>1, <2>1 DEF FeedTypeOK, NoWalk
    <2> HIDE DEF next
    <2> QED
      BY <2>2 DEF Phase, PhaseOf
  <1>8. CASE next = None
    <2>1. steady[v] \subseteq shown[v] \cup page
      BY <1>1, <1>8 DEF WalkInv, PageFits
    <2> HIDE DEF page
    <2> QED
      BY <1>1, <1>2, <1>3, <1>4, <1>5, <1>6, <1>7, <1>8, <2>1, PlaceOfCommitted
         DEF List!Page, page
  <1>9. CASE next # None
    <2>1. page # {}
      BY <1>1, <1>9 DEF PagesBring
    <2>2. ASSUME NEW p \in steady[v] \ (shown[v] \cup page),
                 NEW q \in shown[v] \cup page
          PROVE  List!After(p, q)
      <3>1. Below(PositionOf(p), next)
        BY <1>1, <2>2 DEF WalkInv, PageFits
      <3>2. ~ Below(PositionOf(q), next)
        BY <1>1, <1>9, <2>2, CursorIsLast
      <3>3. p \in Committed /\ q \in Committed
        BY <1>2, <2>2
      <3>4. PositionOf(p) \in Position /\ PositionOf(q) \in Position /\ next \in Position
        BY <1>1, <1>9, <3>3, Placed DEF Committed, FeedTypeOK
      <3> HIDE DEF next
      <3>5. Below(PositionOf(p), PositionOf(q))
        BY <3>1, <3>2, <3>4, StaysBelow
      <3> QED
        BY <1>1, <3>3, <3>5, PlaceOfCommitted
    <2>3. List!Covers(v, page)
      BY <2>2 DEF List!Covers
    <2>4. UNCHANGED Phase
      BY <1>3, <1>7, <1>9 DEF Phase
    <2> HIDE DEF page
    <2> QED
      BY <1>1, <1>2, <1>3, <1>4, <1>5, <1>6, <2>1, <2>3, <2>4, PlaceOfCommitted
         DEF List!Page, page
  <1> QED
    BY <1>8, <1>9

\* A request of a reader is one of the list's steps, or none.
LEMMA RequestsReadTheList ==
    WalksInv /\ PagesBring =>
      \A v \in Readers : Read(v) => [List!Next]_(List!list)
  <1> SUFFICES ASSUME WalksInv, PagesBring, NEW v \in Readers, Read(v)
               PROVE  [List!Next]_(List!list)
    OBVIOUS
  <1>1. FeedTypeOK
    BY DEF WalksInv
  <1>2. UNCHANGED <<post, Place>>
    <2>1. UNCHANGED post
      BY DEF Read, Open, Ask, Stop, Retry, Deliver, Turn, Serve, writing
    <2> QED
      BY <2>1 DEF Place, PositionOf
  <1>3. ASSUME NEW w, reader' = [reader EXCEPT ![v] = w]
        PROVE  Phase' = [Phase EXCEPT ![v] = PhaseOf(w.pc)]
    BY <1>1, <1>3 DEF FeedTypeOK, Phase
  <1>4. ASSUME Stop(v), reader[v].pc # "new" PROVE List!Leave(v)
    <2>1. Phase' = [Phase EXCEPT ![v] = "away"]
      <3>1. PhaseOf(NoWalk.pc) = "away"
        BY DEF NoWalk, PhaseOf
      <3> QED
        BY <1>3, <1>4, <3>1 DEF Stop
    <2>2. Phase[v] \in {"reading", "end"}
      BY <1>4 DEF Phase, PhaseOf
    <2> QED
      BY <1>2, <1>4, <2>1, <2>2 DEF List!Leave, Stop
  <1>5. ASSUME NEW pc \in {"ready", "asked", "sent"}, NEW w, w.pc = pc,
               reader' = [reader EXCEPT ![v] = w], UNCHANGED <<shown, steady>>,
               reader[v].pc \in {"ready", "asked", "sent"}
        PROVE  UNCHANGED List!list
    <2>1. Phase' = [Phase EXCEPT ![v] = "reading"]
      BY <1>3, <1>5 DEF PhaseOf
    <2>2. Phase[v] = "reading"
      BY <1>5 DEF Phase, PhaseOf
    <2>3. Phase' = Phase
      BY <2>1, <2>2 DEF Phase
    <2> QED
      BY <1>2, <1>5, <2>3 DEF List!list
  <1>6. ASSUME NEW list \in Lists, Open(v, list)
        PROVE  \E L \in SUBSET Posts : L \subseteq List!Standing /\ List!Start(v, L)
    <2>1. Listed(list) \in SUBSET Posts /\ Listed(list) \subseteq List!Standing
      <3>1. Listed(list) \subseteq Committed /\ Committed \subseteq Posts
        BY DEF Listed, Live, Committed
      <3> QED
        BY <1>1, <3>1, PlaceOfCommitted
    <2>2. Phase' = [Phase EXCEPT ![v] = "reading"]
      <3>1. [NoWalk EXCEPT !.pc = "ready", !.list = list].pc = "ready"
        BY DEF NoWalk
      <3> QED
        BY <1>3, <1>6, <3>1 DEF Open, PhaseOf
    <2>3. Phase[v] = "away"
      BY <1>6 DEF Open, Phase, PhaseOf
    <2>4. List!Start(v, Listed(list))
      BY <1>2, <1>6, <2>2, <2>3 DEF Open, List!Start
    <2> QED
      BY <2>1, <2>4
  <1>7. ASSUME Ask(v) PROVE List!Leave(v) \/ UNCHANGED List!list
    <2>1. CASE Stop(v)
      BY <1>4, <1>7, <2>1 DEF Ask
    <2>2. CASE ~ Stop(v)
      <3> DEFINE w == [reader[v] EXCEPT !.pc = "asked",
                                        !.scope = Identities(reader[v].list)]
      <3>1. reader' = [reader EXCEPT ![v] = w] /\ UNCHANGED <<shown, steady>>
        BY <1>1, <1>7, <2>2 DEF Ask, FeedTypeOK
      <3>2. w.pc = "asked" /\ reader[v].pc = "ready"
        BY <1>1, <1>7 DEF Ask, FeedTypeOK
      <3> HIDE DEF w
      <3> QED
        BY <1>5, <3>1, <3>2
    <2> QED
      BY <2>1, <2>2
  <1>8. ASSUME NEW n \in 0 .. MaxLimit + 1, Serve(v, n) PROVE UNCHANGED List!list
    <2>1. PICK w : reader' = [reader EXCEPT ![v] = w] /\ w.pc = "sent"
      BY <1>1, <1>8, ServedPage
    <2>2. reader[v].pc = "asked" /\ UNCHANGED <<shown, steady>>
      BY <1>8 DEF Serve
    <2> QED
      BY <1>5, <2>1, <2>2
  <1>9. ASSUME Retry(v) PROVE UNCHANGED List!list
    <2> DEFINE w == [NoWalk EXCEPT !.pc = "ready", !.list = reader[v].list,
                                   !.cursor = reader[v].cursor]
    <2>1. reader' = [reader EXCEPT ![v] = w] /\ w.pc = "ready"
          /\ reader[v].pc \in {"asked", "sent"} /\ UNCHANGED <<shown, steady>>
      BY <1>9 DEF Retry, NoWalk
    <2> HIDE DEF w
    <2> QED
      BY <1>5, <2>1
  <1>10. ASSUME Turn(v) PROVE List!Leave(v)
    BY <1>4, <1>10 DEF Turn
  <1>11. ASSUME Deliver(v) PROVE \E S \in SUBSET Posts : List!Page(v, S)
    <2>1. reader[v].page \in SUBSET Posts
      BY <1>1 DEF FeedTypeOK
    <2> QED
      BY <1>11, <2>1, DeliverIsPage
  <1>12. List!Leave(v) => List!Next
    BY DEF List!Next
  <1>13. \A S \in SUBSET Posts : List!Page(v, S) => List!Next
    BY DEF List!Next
  <1>14. \A S \in SUBSET Posts :
            S \subseteq List!Standing /\ List!Start(v, S) => List!Next
    BY DEF List!Next
  <1> QED
    BY <1>6, <1>7, <1>8, <1>9, <1>10, <1>11, <1>12, <1>13, <1>14 DEF Read

\* The lists start as ListWalk does.
LEMMA ListStarts == Init => List!Init
  <1> SUFFICES ASSUME Init PROVE List!Init
    OBVIOUS
  <1>1. Place \in [Posts -> Position \cup {None}]
    BY FeedInitTyped, PlaceOfCommitted
  <1>2. Phase = [v \in Readers |-> "away"]
    BY DEF Init, NoWalk, Phase, PhaseOf
  <1> QED
    BY <1>1, <1>2 DEF Init, List!Init

\* Theorem: to its readers the feed is the list of ListWalk, for any number of
\* posts, readers and composers and any page size: however late posts commit and
\* whatever is deleted, purged, lost or asked for again, a page brings something
\* new below all that was shown and leaves out nothing above its last entry
\* (NormalizeLimit, BuildPage, ListFeed, ListByPublisherIDs, ListReplies).
THEOREM FeedReadsAsList == Spec => ReadsAsList
  <1> DEFINE ListInv == WalksInv /\ PagesBring
  <1>1. Init => ListInv /\ List!Init
    BY WalksInductive, PagesBringInductive, ListStarts
  <1>2. ListInv /\ [Next]_vars => ListInv'
    BY WalksInductive, PagesBringInductive DEF WalksInv
  <1>3. ListInv /\ [Next]_vars => [List!Next]_(List!list)
    <2> SUFFICES ASSUME ListInv, [Next]_vars PROVE [List!Next]_(List!list)
      OBVIOUS
    <2>1. CASE Publish \/ Remove \/ Tick
      BY <2>1, OthersChangeTheList DEF WalksInv, List!Next
    <2>2. CASE \E v \in Readers : Read(v)
      BY <2>2, RequestsReadTheList
    <2>3. CASE UNCHANGED vars
      BY <2>3 DEF vars, writing, reading, List!list, Place, PositionOf, Phase
    <2> QED
      BY <2>1, <2>2, <2>3 DEF Next
  <1> HIDE DEF ListInv
  <1> QED
    BY <1>1, <1>2, <1>3, PTL DEF Spec, ReadsAsList, List!Spec

-----------------------------------------------------------------------------
(***************************************************************************)
(* The size of a page.                                                     *)
(***************************************************************************)

\* The page that is cut from more rows than the limit is no larger than the
\* limit: every other row of it is above its last row, and fewer rows than the
\* limit are.
LEMMA TopIsCapped ==
    \A rows \in SUBSET Posts : \A limit \in Nat : \A last \in Top(rows, limit) :
        Above(last, Top(rows, limit)) = Top(rows, limit) \ {last}
          => Cardinality(Top(rows, limit)) <= limit
  <1> SUFFICES ASSUME NEW rows \in SUBSET Posts, NEW limit \in Nat,
                      NEW last \in Top(rows, limit),
                      Above(last, Top(rows, limit)) = Top(rows, limit) \ {last}
               PROVE  Cardinality(Top(rows, limit)) <= limit
    OBVIOUS
  <1> DEFINE page == Top(rows, limit)
             rest == page \ {last}
             over == Above(last, rows)
  <1>1. IsFiniteSet(page) /\ IsFiniteSet(over) /\ page \subseteq rows
    <2>1. page \in SUBSET Posts /\ over \in SUBSET Posts /\ page \subseteq rows
      BY DEF Top, Above
    <2> QED
      BY <2>1, FeedAssumption, FS_Subset
  <1>2. rest \subseteq over
    BY <1>1 DEF Above
  <1>3. Cardinality(over) < limit /\ Cardinality(over) \in Nat
    BY <1>1, FS_CardinalityType DEF Top
  <1>4. Cardinality(rest) <= Cardinality(over)
    BY <1>1, <1>2, FS_Subset
  <1>5. Cardinality(rest) = Cardinality(page) - 1 /\ Cardinality(page) \in Nat
    BY <1>1, FS_RemoveElement, FS_CardinalityType
  <1> QED
    BY <1>3, <1>4, <1>5

LEMMA ServeIsCapped ==
    FeedTypeOK /\ PageIsCapped =>
      \A v \in Readers, n \in 0 .. MaxLimit + 1 : Serve(v, n) => PageIsCapped'
  <1> SUFFICES ASSUME FeedTypeOK, PageIsCapped, NEW v \in Readers,
                      NEW n \in 0 .. MaxLimit + 1, Serve(v, n)
               PROVE  PageIsCapped'
    OBVIOUS
  <1> DEFINE rows  == {p \in Live \cap Under(reader[v].cursor) :
                         post[p].kind \in Selects(reader[v].list, reader[v].scope)}
             limit == NormalizeLimit(n)
  <1>1. limit \in Nat /\ limit <= MaxLimit
    BY FeedAssumption DEF NormalizeLimit
  <1>2. rows \in SUBSET Posts
    BY DEF Live
  <1>3. BuildPage(v, rows, limit)
    BY DEF Serve
  <1> HIDE DEF rows, limit
  <1>4. PICK page, next : /\ page \subseteq rows /\ Cardinality(page) <= limit
                          /\ reader' = [reader EXCEPT ![v].pc = "sent",
                                                      ![v].page = page, ![v].next = next]
    <2>1. CASE Cardinality(rows) <= limit
      <3>1. Cardinality(rows) \in Nat
        BY <1>2, FeedAssumption, FS_CardinalityType, FS_Subset
      <3>2. reader' = [reader EXCEPT ![v].pc = "sent", ![v].page = rows, ![v].next = None]
        BY <1>1, <1>3, <2>1, <3>1 DEF BuildPage
      <3> QED
        BY <2>1, <3>2
    <2>2. CASE ~ Cardinality(rows) <= limit
      <3>1. Top(rows, limit) \subseteq rows
        BY DEF Top
      <3>2. PICK last \in Top(rows, limit) :
              /\ Above(last, Top(rows, limit)) = Top(rows, limit) \ {last}
              /\ reader' = [reader EXCEPT ![v].pc = "sent", ![v].page = Top(rows, limit),
                                          ![v].next = PositionOf(last)]
        BY <1>3, <2>2 DEF BuildPage
      <3>3. Cardinality(Top(rows, limit)) <= limit
        BY <1>1, <1>2, <3>2, TopIsCapped
      <3> QED
        BY <3>1, <3>2, <3>3
    <2> QED
      BY <2>1, <2>2
  <1>5. \A w \in Readers : Cardinality(reader'[w].page) <= MaxLimit
    <2>1. page \in SUBSET Posts
      BY <1>2, <1>4
    <2>2. Cardinality(page) \in Nat
      BY <2>1, FeedAssumption, FS_Subset, FS_CardinalityType
    <2> QED
      BY <1>1, <1>4, <2>2, FeedAssumption DEF FeedTypeOK, PageIsCapped
  <1> QED
    BY <1>5 DEF PageIsCapped

\* However large a page a client asks for, and whatever the list holds, no page
\* is larger than the cap (NormalizeLimit, BuildPage).
THEOREM PagesAreCapped == Spec => []PageIsCapped
  <1>1. Cardinality({}) <= MaxLimit
    BY FS_EmptySet, FeedAssumption
  <1>2. ASSUME Init PROVE PageIsCapped
    BY <1>1, <1>2 DEF Init, NoWalk, PageIsCapped
  <1>3. ASSUME FeedTypeOK, PageIsCapped, [Next]_vars PROVE PageIsCapped'
    <2>1. CASE UNCHANGED reader
      BY <1>3, <2>1 DEF PageIsCapped
    <2>2. ASSUME NEW v \in Readers, Read(v) PROVE PageIsCapped'
      <3>1. ASSUME NEW list \in Lists, Open(v, list) PROVE PageIsCapped'
        BY <1>1, <1>3, <3>1 DEF Open, NoWalk, FeedTypeOK, PageIsCapped
      <3>2. ASSUME Stop(v) PROVE PageIsCapped'
        BY <1>1, <1>3, <3>2 DEF Stop, NoWalk, FeedTypeOK, PageIsCapped
      <3>3. CASE Ask(v)
        BY <1>3, <3>2, <3>3 DEF Ask, FeedTypeOK, PageIsCapped
      <3>4. CASE Retry(v)
        BY <1>1, <1>3, <3>4 DEF Retry, NoWalk, FeedTypeOK, PageIsCapped
      <3>5. CASE Deliver(v)
        BY <1>1, <1>3, <3>5 DEF Deliver, NoWalk, FeedTypeOK, PageIsCapped
      <3>6. CASE Turn(v)
        BY <3>2, <3>6 DEF Turn
      <3>7. ASSUME NEW n \in 0 .. MaxLimit + 1, Serve(v, n) PROVE PageIsCapped'
        BY <1>3, <3>7, ServeIsCapped
      <3> QED
        BY <2>2, <3>1, <3>3, <3>4, <3>5, <3>6, <3>7 DEF Read
    <2>3. CASE Publish \/ Remove \/ Tick
      BY <2>1, <2>3 DEF Publish, Remove, Tick, Submit, Begin, Commit, Abort, Told,
         ToldFailure, Purge, Join, Leave, Delete, reading
    <2>4. CASE UNCHANGED vars
      BY <2>1, <2>4 DEF vars, reading
    <2> QED
      BY <1>3, <2>2, <2>3, <2>4 DEF Next
  <1> QED
    BY <1>2, <1>3, FeedTyped, PTL DEF Spec

-----------------------------------------------------------------------------
(***************************************************************************)
(* Drafts.                                                                 *)
(***************************************************************************)
Sent(c) == {p \in Posts : post[p].by = c}

\* Every attempt but the one in hand was reported to fail.
AttemptsAreCounted ==
    \A c \in Composers : Cardinality(Sent(c))
                           <= failures[c] + (IF composer[c].pc = "draft" THEN 0 ELSE 1)

\* The attempt a composer waits for is its own, until it comes to nothing.
WaitsForItsOwn ==
    \A c \in Composers : composer[c].pc = "pending" =>
        \/ post[composer[c].waits].state = "void"
        \/ /\ post[composer[c].waits].state # "absent"
           /\ post[composer[c].waits].by = c

DraftsInv == FeedTypeOK /\ AttemptsAreCounted /\ WaitsForItsOwn /\ ClearedIsPublished

\* Sets of posts have a size, and a smaller set has a smaller one.
LEMMA Sizes ==
    \A S \in SUBSET Posts : \A T \in SUBSET S :
        /\ Cardinality(S) \in Nat /\ Cardinality(T) \in Nat
        /\ Cardinality(T) <= Cardinality(S)
  <1> TAKE S \in SUBSET Posts
  <1> TAKE T \in SUBSET S
  <1>1. IsFiniteSet(S)
    BY FS_Subset DEF FeedAssumption
  <1> QED
    BY <1>1, FS_Subset, FS_CardinalityType

\* One more post is at most one more.
LEMMA OneMore ==
    \A S \in SUBSET Posts : \A p \in Posts :
        /\ Cardinality(S) \in Nat /\ Cardinality(S \cup {p}) \in Nat
        /\ Cardinality(S \cup {p}) <= Cardinality(S) + 1
  <1> TAKE S \in SUBSET Posts
  <1> TAKE p \in Posts
  <1>1. IsFiniteSet(S)
    BY FS_Subset DEF FeedAssumption
  <1>2. IsFiniteSet(S \cup {p})
        /\ Cardinality(S \cup {p})
             = IF p \in S THEN Cardinality(S) ELSE Cardinality(S) + 1
    BY <1>1, FS_AddElement
  <1>3. Cardinality(S) \in Nat
    BY <1>1, FS_CardinalityType
  <1> QED
    BY <1>2, <1>3

\* A composer that has thrown its draft away still has its post.
LEMMA CopiesStay ==
    FeedTypeOK /\ [Next]_vars => \A c \in Composers : Copies(c) \subseteq Copies(c)'
  BY CommittedStays DEF Copies

\* What keeps the posts, or only takes authors away, keeps the count of a
\* composer that is left alone.
LEMMA LeftAlone ==
    FeedTypeOK /\ FeedTypeOK' /\ AttemptsAreCounted
      => \A c \in Composers :
           /\ Sent(c)' \subseteq Sent(c)
           /\ failures'[c] = failures[c] /\ composer'[c].pc = composer[c].pc
           => Cardinality(Sent(c)')
                <= failures'[c] + (IF composer'[c].pc = "draft" THEN 0 ELSE 1)
  <1> SUFFICES ASSUME FeedTypeOK, FeedTypeOK', AttemptsAreCounted,
                      NEW c \in Composers, Sent(c)' \subseteq Sent(c),
                      failures'[c] = failures[c], composer'[c].pc = composer[c].pc
               PROVE  Cardinality(Sent(c)')
                        <= failures'[c] + (IF composer'[c].pc = "draft" THEN 0 ELSE 1)
    OBVIOUS
  <1>1. Sent(c) \in SUBSET Posts /\ Sent(c)' \in SUBSET Sent(c)
    BY DEF Sent
  <1>2. /\ Cardinality(Sent(c)) \in Nat /\ Cardinality(Sent(c)') \in Nat
        /\ Cardinality(Sent(c)') <= Cardinality(Sent(c))
    BY <1>1, Sizes
  <1>3. Cardinality(Sent(c))
          <= failures[c] + (IF composer[c].pc = "draft" THEN 0 ELSE 1)
    BY DEF AttemptsAreCounted
  <1>4. failures[c] \in Nat
    BY DEF FeedTypeOK
  <1> QED
    BY <1>2, <1>3, <1>4

\* Sending a draft adds one attempt to those of its composer.
LEMMA SubmitKeepsDrafts ==
    DraftsInv /\ FeedTypeOK'
      => \A c \in Composers, p \in Posts : Submit(c, p) => DraftsInv'
  <1> SUFFICES ASSUME DraftsInv, FeedTypeOK', NEW c \in Composers, NEW p \in Posts,
                      Submit(c, p)
               PROVE  DraftsInv'
    OBVIOUS
  <1>1. /\ composer[c].pc = "draft" /\ post[p].state = "absent"
        /\ composer'[c] = [pc |-> "pending", waits |-> p]
        /\ \A d \in Composers \ {c} : composer'[d] = composer[d]
        /\ failures' = failures
        /\ post'[p].by = c /\ post'[p].state = "sent"
        /\ \A q \in Posts \ {p} : post'[q] = post[q]
    BY DEF Submit, Drawn, DraftsInv, FeedTypeOK
  <1>2. AttemptsAreCounted'
    <2> SUFFICES ASSUME NEW d \in Composers
                 PROVE  Cardinality(Sent(d)')
                          <= failures'[d] + (IF composer'[d].pc = "draft" THEN 0 ELSE 1)
      BY DEF AttemptsAreCounted
    <2>1. CASE d # c
      <3>1. Sent(d)' \subseteq Sent(d)
        BY <1>1, <2>1 DEF Sent
      <3> QED
        BY <1>1, <2>1, <3>1, LeftAlone DEF DraftsInv
    <2>2. CASE d = c
      <3>1. Sent(c) \in SUBSET Posts /\ Sent(c)' \in SUBSET (Sent(c) \cup {p})
            /\ Sent(c) \cup {p} \in SUBSET Posts
        BY <1>1 DEF Sent
      <3>2. /\ Cardinality(Sent(c)') \in Nat /\ Cardinality(Sent(c)) \in Nat
            /\ Cardinality(Sent(c)') <= Cardinality(Sent(c)) + 1
        <4>1. /\ Cardinality(Sent(c)) \in Nat
              /\ Cardinality(Sent(c) \cup {p}) \in Nat
              /\ Cardinality(Sent(c) \cup {p}) <= Cardinality(Sent(c)) + 1
          BY <3>1, OneMore
        <4>2. /\ Cardinality(Sent(c)') \in Nat
              /\ Cardinality(Sent(c)') <= Cardinality(Sent(c) \cup {p})
          BY <3>1, Sizes
        <4> QED
          BY <4>1, <4>2
      <3>3. Cardinality(Sent(c)) <= failures[c] /\ failures[c] \in Nat
        <4>1. Cardinality(Sent(c)) <= failures[c] + 0 /\ failures[c] \in Nat
          BY <1>1 DEF DraftsInv, AttemptsAreCounted, FeedTypeOK
        <4> QED
          BY <3>2, <4>1
      <3> QED
        BY <1>1, <2>2, <3>2, <3>3
    <2> QED
      BY <2>1, <2>2
  <1>3. WaitsForItsOwn'
    <2> SUFFICES ASSUME NEW d \in Composers, composer'[d].pc = "pending"
                 PROVE  \/ post'[composer'[d].waits].state = "void"
                        \/ /\ post'[composer'[d].waits].state # "absent"
                           /\ post'[composer'[d].waits].by = d
      BY DEF WaitsForItsOwn
    <2>1. CASE d = c
      BY <1>1, <2>1
    <2>2. CASE d # c
      <3>1. composer[d].pc = "pending" /\ composer'[d] = composer[d]
            /\ composer[d].waits \in Posts
        BY <1>1, <2>2 DEF DraftsInv, FeedTypeOK
      <3>2. composer[d].waits # p
        BY <1>1, <3>1 DEF DraftsInv, WaitsForItsOwn
      <3> QED
        BY <1>1, <3>1, <3>2 DEF DraftsInv, WaitsForItsOwn
    <2> QED
      BY <2>1, <2>2
  <1>4. ClearedIsPublished'
    <2>1. \A d \in Composers : composer'[d].pc = "clear" => composer[d].pc = "clear"
      BY <1>1
    <2>2. \A d \in Composers : Copies(d) \subseteq Copies(d)'
      BY CopiesStay DEF DraftsInv, Next, Publish
    <2> QED
      BY <2>1, <2>2 DEF ClearedIsPublished, DraftsInv
  <1> QED
    BY <1>2, <1>3, <1>4 DEF DraftsInv

\* An answer ends an attempt: a failure is counted, a success leaves the post.
LEMMA AnswerKeepsDrafts ==
    DraftsInv /\ FeedTypeOK'
      => \A c \in Composers : Told(c) \/ ToldFailure(c) => DraftsInv'
  <1> SUFFICES ASSUME DraftsInv, FeedTypeOK', NEW c \in Composers,
                      Told(c) \/ ToldFailure(c)
               PROVE  DraftsInv'
    OBVIOUS
  <1>1. /\ composer[c].pc = "pending" /\ composer[c].waits \in Posts
        /\ \A d \in Composers \ {c} : /\ composer'[d] = composer[d]
                                      /\ failures'[d] = failures[d]
        /\ post' = post
        /\ \A d \in Composers : Sent(d)' = Sent(d) /\ Copies(d)' = Copies(d)
    BY DEF Told, ToldFailure, DraftsInv, FeedTypeOK, Sent, Copies, Committed
  <1>2. \/ /\ composer'[c].pc = "clear" /\ failures'[c] = failures[c]
           /\ composer[c].waits \in Live
        \/ composer'[c].pc = "draft" /\ failures'[c] = failures[c] + 1
    BY DEF Told, ToldFailure, Editing, DraftsInv, FeedTypeOK
  <1>3. AttemptsAreCounted'
    <2> SUFFICES ASSUME NEW d \in Composers
                 PROVE  Cardinality(Sent(d)')
                          <= failures'[d] + (IF composer'[d].pc = "draft" THEN 0 ELSE 1)
      BY DEF AttemptsAreCounted
    <2>1. CASE d # c
      BY <1>1, <2>1, LeftAlone DEF DraftsInv
    <2>2. CASE d = c
      <3>1. Cardinality(Sent(c)) <= failures[c] + 1 /\ failures[c] \in Nat
        BY <1>1 DEF DraftsInv, AttemptsAreCounted, FeedTypeOK
      <3>2. Cardinality(Sent(c)) \in Nat
        BY Sizes DEF Sent
      <3> QED
        BY <1>1, <1>2, <2>2, <3>1, <3>2
    <2> QED
      BY <2>1, <2>2
  <1>4. WaitsForItsOwn'
    BY <1>1, <1>2 DEF WaitsForItsOwn, DraftsInv
  <1>5. ClearedIsPublished'
    <2> SUFFICES ASSUME NEW d \in Composers, composer'[d].pc = "clear"
                 PROVE  Copies(d) # {}
      BY <1>1 DEF ClearedIsPublished
    <2>1. CASE d # c
      BY <1>1, <2>1 DEF DraftsInv, ClearedIsPublished
    <2>2. CASE d = c
      <3>1. post[composer[c].waits].state = "live"
        BY <1>2, <2>2 DEF Live
      <3>2. post[composer[c].waits].by = c
        BY <1>1, <3>1 DEF DraftsInv, WaitsForItsOwn
      <3> QED
        BY <1>1, <2>2, <3>1, <3>2 DEF Copies, Committed
    <2> QED
      BY <2>1, <2>2
  <1> QED
    BY <1>3, <1>4, <1>5 DEF DraftsInv

\* No other step gives a post an author, and none that an attempt came to
\* something takes its author away.
LEMMA OthersKeepDrafts ==
    /\ DraftsInv /\ FeedTypeOK' /\ [Next]_vars /\ UNCHANGED <<composer, failures>>
    /\ \A p \in Posts : /\ post'[p].by \in {post[p].by, None}
                        /\ post'[p].state = "void" \/ post'[p].by = post[p].by
                        /\ post[p].state = "void" => post'[p].state = "void"
                        /\ post[p].state # "absent" => post'[p].state # "absent"
    => DraftsInv'
  <1> SUFFICES ASSUME DraftsInv, FeedTypeOK', [Next]_vars,
                      UNCHANGED <<composer, failures>>,
                      \A p \in Posts :
                        /\ post'[p].by \in {post[p].by, None}
                        /\ post'[p].state = "void" \/ post'[p].by = post[p].by
                        /\ post[p].state = "void" => post'[p].state = "void"
                        /\ post[p].state # "absent" => post'[p].state # "absent"
               PROVE  DraftsInv'
    OBVIOUS
  <1>1. \A c \in Composers : Sent(c)' \subseteq Sent(c)
    BY DEF Sent, FeedAssumption
  <1>2. AttemptsAreCounted'
    BY <1>1, LeftAlone DEF AttemptsAreCounted, DraftsInv
  <1>3. WaitsForItsOwn'
    <2>1. \A c \in Composers : composer[c].pc = "pending" => composer[c].waits \in Posts
      BY DEF DraftsInv, FeedTypeOK
    <2> QED
      BY <2>1 DEF WaitsForItsOwn, DraftsInv
  <1>4. ClearedIsPublished'
    BY CopiesStay DEF ClearedIsPublished, DraftsInv
  <1> QED
    BY <1>2, <1>3, <1>4 DEF DraftsInv

\* The invariant of the drafts is inductive.
LEMMA DraftsInductive ==
    /\ Init => DraftsInv
    /\ DraftsInv /\ [Next]_vars => DraftsInv'
  <1>1. ASSUME Init PROVE DraftsInv
    <2>1. \A c \in Composers : Sent(c) = {}
      BY <1>1 DEF Init, Sent, Blank, FeedAssumption
    <2>2. AttemptsAreCounted
      <3>1. \A c \in Composers : failures[c] = 0
        BY <1>1 DEF Init
      <3>2. Cardinality({}) = 0
        BY FS_EmptySet
      <3>3. \A c \in Composers : composer[c].pc = "draft"
        BY <1>1 DEF Init, Editing
      <3> SUFFICES ASSUME NEW c \in Composers
                   PROVE  Cardinality(Sent(c))
                            <= failures[c] + (IF composer[c].pc = "draft" THEN 0 ELSE 1)
        BY DEF AttemptsAreCounted
      <3>4. Cardinality(Sent(c)) = 0
        BY <2>1, <3>2
      <3> QED
        BY <3>1, <3>3, <3>4
    <2> QED
      BY <1>1, <2>2, FeedInitTyped
         DEF Init, Editing, DraftsInv, WaitsForItsOwn, ClearedIsPublished
  <1>2. ASSUME DraftsInv, [Next]_vars PROVE DraftsInv'
    <2>0. FeedTypeOK /\ FeedTypeOK'
      BY <1>2, FeedNextTyped DEF DraftsInv
    <2> DEFINE Quiet == \A p \in Posts :
                 /\ post'[p].by \in {post[p].by, None}
                 /\ post'[p].state = "void" \/ post'[p].by = post[p].by
                 /\ post[p].state = "void" => post'[p].state = "void"
                 /\ post[p].state # "absent" => post'[p].state # "absent"
    <2>1. ASSUME UNCHANGED <<composer, failures>>, Quiet PROVE DraftsInv'
      BY <1>2, <2>0, <2>1, OthersKeepDrafts
    <2>2. CASE UNCHANGED <<composer, failures, post>>
      BY <2>1, <2>2
    <2>3. ASSUME NEW p \in Posts, Begin(p) PROVE DraftsInv'
      <3>1. /\ post[p].state = "sent" /\ post'[p].state = "writing"
            /\ post'[p].by = post[p].by
            /\ \A q \in Posts \ {p} : post'[q] = post[q]
        BY <2>0, <2>3 DEF Begin, FeedTypeOK, Row
      <3>2. Quiet
        BY <3>1
      <3> QED
        BY <2>1, <2>3, <3>2 DEF Begin
    <2>4. ASSUME NEW p \in Posts, Commit(p) \/ Delete(p) PROVE DraftsInv'
      <3>1. /\ post[p].state \in {"writing", "live"}
            /\ post'[p].state \in {"live", "deleted"}
            /\ post'[p].by = post[p].by
            /\ \A q \in Posts \ {p} : post'[q] = post[q]
        BY <2>0, <2>4 DEF Commit, Delete, Live, FeedTypeOK, Row
      <3>2. Quiet
        BY <3>1
      <3> QED
        BY <2>1, <2>4, <3>2 DEF Commit, Delete
    <2>5. ASSUME NEW p \in Posts, Abort(p) PROVE DraftsInv'
      <3>1. /\ post'[p].state = "void" /\ post'[p].by = None
            /\ \A q \in Posts \ {p} : post'[q] = post[q]
        BY <2>0, <2>5 DEF Abort, Blank, FeedTypeOK
      <3>2. Quiet
        BY <3>1
      <3> QED
        BY <2>1, <2>5, <3>2 DEF Abort
    <2>6. CASE Purge
      <3>1. \A q \in Posts : /\ post'[q].by = post[q].by
                             /\ \/ post'[q].state = post[q].state
                                \/ /\ post[q].state = "live"
                                   /\ post'[q].state = "deleted"
        BY <2>0, <2>6 DEF Purge, Live, FeedTypeOK, Row
      <3>2. Quiet
        BY <3>1
      <3> QED
        BY <2>1, <2>6, <3>2 DEF Purge
    <2>7. ASSUME NEW c \in Composers, NEW p \in Posts, Submit(c, p) PROVE DraftsInv'
      BY <1>2, <2>0, <2>7, SubmitKeepsDrafts
    <2>8. ASSUME NEW c \in Composers, Told(c) \/ ToldFailure(c) PROVE DraftsInv'
      BY <1>2, <2>0, <2>8, AnswerKeepsDrafts
    <2>9. CASE Join \/ Leave \/ Tick
      BY <2>2, <2>9 DEF Join, Leave, Tick
    <2>10. CASE \E v \in Readers : Read(v)
      BY <2>2, <2>10 DEF Read, Open, Ask, Retry, Deliver, Turn, Serve, writing
    <2>11. CASE UNCHANGED vars
      BY <2>2, <2>11 DEF vars, writing
    <2> QED
      BY <1>2, <2>3, <2>4, <2>5, <2>6, <2>7, <2>8, <2>9, <2>10, <2>11
         DEF Next, Publish, Remove
  <1> QED
    BY <1>1, <1>2

\* A draft is published once more at most for each failure the composer was
\* told of (PostComposer.handleSubmit, Service.Create).
THEOREM DraftsArePublishedOnce == Spec => []DraftIsPublishedOnce
  <1>1. ASSUME DraftsInv PROVE DraftIsPublishedOnce
    <2> SUFFICES ASSUME NEW c \in Composers
                 PROVE  Cardinality(Copies(c)) <= failures[c] + 1
      BY DEF DraftIsPublishedOnce
    <2>1. Sent(c) \in SUBSET Posts /\ Copies(c) \in SUBSET Sent(c)
      BY DEF Sent, Copies, Committed
    <2>2. /\ Cardinality(Copies(c)) <= Cardinality(Sent(c))
          /\ Cardinality(Copies(c)) \in Nat /\ Cardinality(Sent(c)) \in Nat
      BY <2>1, Sizes
    <2>3. /\ Cardinality(Sent(c))
               <= failures[c] + (IF composer[c].pc = "draft" THEN 0 ELSE 1)
          /\ failures[c] \in Nat
      BY <1>1 DEF DraftsInv, AttemptsAreCounted, FeedTypeOK
    <2> QED
      BY <2>2, <2>3
  <1> QED
    BY <1>1, DraftsInductive, PTL DEF Spec

\* A composer throws its draft away only when the draft has been published: the
\* answer is read back from the database after the commit (Service.ByID).
THEOREM ClearedArePublished == Spec => []ClearedIsPublished
  <1>1. DraftsInv => ClearedIsPublished
    BY DEF DraftsInv
  <1> QED
    BY <1>1, DraftsInductive, PTL DEF Spec

=============================================================================
