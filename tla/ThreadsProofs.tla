---------------------------- MODULE ThreadsProofs ----------------------------
(***************************************************************************)
(* Proofs about Threads, for any number of posts: the thread that is shown *)
(* is the thread that is stored.  ThreadPosts is a least set, so whatever  *)
(* holds of its start and passes on to live replies holds of all of it.    *)
(* The recursive definitions (the depth column, the pass of Build, Stats)  *)
(* have one solution: a sum or a fold that went wrong would have a smallest *)
(* place where it does.                                                    *)
(***************************************************************************)
EXTENDS Threads, PostsProofs

-----------------------------------------------------------------------------
(***************************************************************************)
(* Least and largest elements, sums.                                       *)
(***************************************************************************)

\* Lemma: a set of natural numbers that is not empty has a least element.
LEMMA LeastOf == \A T \in SUBSET Nat : T # {} => \E m \in T : \A n \in T : m <= n
<1> SUFFICES ASSUME NEW T \in SUBSET Nat, T # {} PROVE \E m \in T : \A n \in T : m <= n
  OBVIOUS
<1> DEFINE R == {ss \in Nat \X Nat : ss[1] < ss[2]}
<1>1. IsWellFoundedOn(R, Nat)
  BY NatLessThanWellFounded DEF OpToRel
<1>2. PICK m \in T : \A n \in T : ~ (<<n, m>> \in R)
  <2> HIDE DEF R
  <2> QED
    BY <1>1, WFMin
<1>3. \A n \in T : n \in Nat /\ m \in Nat /\ (n < m => <<n, m>> \in R)
  OBVIOUS
<1> HIDE DEF R
<1>4. \A n \in T : ~ (n < m)
  BY <1>2, <1>3, Zenon
<1> QED
  BY <1>3, <1>4

\* Lemma: a set of natural numbers with a bound has a largest element.
LEMMA LargestOf ==
    ASSUME NEW n \in Nat, NEW T \in SUBSET (0..n), T # {}
    PROVE  /\ Max(T) \in T /\ \A i \in T : i <= Max(T)
           /\ \A i \in T : (\A j \in T : j <= i) => i = Max(T)
<1> DEFINE R == {n - i : i \in T}
<1>1. R \in SUBSET Nat /\ R # {}
  <2>1. \A i \in T : n - i \in Nat
    OBVIOUS
  <2> QED
    BY <2>1
<1>2. PICK m \in R : \A k \in R : m <= k
  <2> HIDE DEF R
  <2> QED
    BY <1>1, LeastOf
<1>3. PICK j \in T : m = n - j
  BY <1>2
<1>4. \A i \in T : j >= i
  <2> SUFFICES ASSUME NEW i \in T PROVE j >= i
    OBVIOUS
  <2>1. n - j <= n - i
    BY <1>2, <1>3
  <2> QED
    BY <2>1
<1> DEFINE max == Max(T)
<1>5. max \in T /\ \A i \in T : max >= i
  BY <1>4 DEF Max
<1>6. T \subseteq Nat
  OBVIOUS
<1> HIDE DEF max
<1>7. \A i \in T : i <= max /\ ((\A k \in T : k <= i) => i = max)
  BY <1>5, <1>6
<1> QED
  BY <1>5, <1>7 DEF max

\* The counts that w gives for the elements of S, added up.
SumCounts(w, S) == MapThenSumSet(LAMBDA c : w[c].count, S)

\* Lemma: MapThenSumSet over sets that have no element in common counts their union.
LEMMA SumOfSizes ==
    ASSUME NEW U, IsFiniteSet(U), NEW S \in SUBSET U, NEW w, NEW D \in [S -> SUBSET U],
           \A c \in S : w[c].count = Cardinality(D[c]),
           \A c, d \in S : c # d => D[c] \cap D[d] = {}
    PROVE  SumCounts(w, S) = Cardinality(UNION {D[c] : c \in S})
<1> DEFINE whole(s) == UNION {D[c] : c \in s}
           one(s) == CHOOSE x \in s : TRUE
           Eq(g) == g = [s \in SUBSET S |->
                            IF s = {} THEN 0 ELSE w[one(s)].count + g[s \ {one(s)}]]
           sum == CHOOSE g : Eq(g)
           size == [s \in SUBSET S |-> Cardinality(whole(s))]
<1>1. SumCounts(w, S) = sum[S]
  BY DEF SumCounts, MapThenSumSet, MapThenFoldSet
<1>2. ASSUME NEW s \in SUBSET S
      PROVE  /\ whole(s) \in SUBSET U /\ IsFiniteSet(whole(s)) /\ Cardinality(whole(s)) \in Nat
             /\ IsFiniteSet(s) /\ Cardinality(s) \in Nat
  <2>1. whole(s) \in SUBSET U
    OBVIOUS
  <2>2. IsFiniteSet(whole(s)) /\ IsFiniteSet(s)
    <3> HIDE DEF whole
    <3> QED
      BY <2>1, FS_Subset
  <2> QED
    BY <2>1, <2>2, FS_CardinalityType
<1>3. Cardinality(whole({})) = 0
  BY FS_EmptySet
<1>4. ASSUME NEW s \in SUBSET S, NEW x \in s
      PROVE  Cardinality(whole(s)) = w[x].count + Cardinality(whole(s \ {x}))
  <2>1. whole(s) = D[x] \cup whole(s \ {x})
    OBVIOUS
  <2>2. D[x] \cap whole(s \ {x}) = {}
    OBVIOUS
  <2>3. D[x] = whole({x})
    OBVIOUS
  <2>4. /\ IsFiniteSet(D[x]) /\ Cardinality(D[x]) \in Nat
        /\ IsFiniteSet(whole(s \ {x})) /\ Cardinality(whole(s \ {x})) \in Nat
    <3>1. {x} \in SUBSET S /\ s \ {x} \in SUBSET S
      OBVIOUS
    <3> HIDE DEF whole
    <3> QED
      BY <1>2, <2>3, <3>1
  <2>5. w[x].count = Cardinality(D[x])
    OBVIOUS
  <2> HIDE DEF whole
  <2>6. Cardinality(D[x] \cup whole(s \ {x})) =
           Cardinality(D[x]) + Cardinality(whole(s \ {x})) - Cardinality(D[x] \cap whole(s \ {x}))
    BY <2>4, FS_Union
  <2>7. Cardinality(D[x] \cap whole(s \ {x})) = 0
    BY <2>2, FS_EmptySet
  <2>8. Cardinality(whole(s)) = Cardinality(D[x] \cup whole(s \ {x}))
    BY <2>1
  <2> QED
    BY <2>4, <2>5, <2>6, <2>7, <2>8
<1>5. \A s \in SUBSET S : s # {} => one(s) \in s
  OBVIOUS
<1>6. Eq(size)
  <2> SUFFICES ASSUME NEW s \in SUBSET S
               PROVE  Cardinality(whole(s)) =
                        IF s = {} THEN 0 ELSE w[one(s)].count + size[s \ {one(s)}]
    OBVIOUS
  <2>1. CASE s = {}
    BY <1>3, <2>1
  <2>2. CASE s # {}
    <3>1. one(s) \in s /\ s \ {one(s)} \in SUBSET S
      BY <1>5, <2>2
    <3>2. size[s \ {one(s)}] = Cardinality(whole(s \ {one(s)}))
      BY <3>1
    <3> HIDE DEF one, whole, size
    <3> QED
      BY <1>4, <2>2, <3>1, <3>2
  <2> QED
    BY <2>1, <2>2
<1>7. Eq(sum)
  <2> HIDE DEF Eq, size
  <2> QED
    BY <1>6
<1>8. \A s \in SUBSET S : sum[s] = IF s = {} THEN 0 ELSE w[one(s)].count + sum[s \ {one(s)}]
  <2> HIDE DEF sum, one
  <2> QED
    BY <1>7
<1> HIDE DEF sum, one, whole
<1> DEFINE Bad == {s \in SUBSET S : sum[s] # Cardinality(whole(s))}
           T == {n \in Nat : \E s \in Bad : Cardinality(s) = n}
<1>9. Bad = {}
  <2> SUFFICES ASSUME Bad # {} PROVE FALSE
    OBVIOUS
  <2>1. T # {} /\ T \in SUBSET Nat
    BY <1>2
  <2>2. PICK n \in T : \A k \in T : n <= k
    <3> HIDE DEF T
    <3> QED
      BY <2>1, LeastOf
  <2>3. PICK s \in Bad : Cardinality(s) = n
    OBVIOUS
  <2>4. s \in SUBSET S /\ sum[s] # Cardinality(whole(s))
    BY <2>3
  <2>5. s # {}
    BY <1>3, <1>8, <2>4
  <2>6. one(s) \in s /\ s \ {one(s)} \in SUBSET S
    BY <1>5, <2>5
  <2>7. Cardinality(s \ {one(s)}) = n - 1 /\ n - 1 \in Nat
    <3>1. IsFiniteSet(s) /\ Cardinality(s) \in Nat /\ Cardinality(s \ {one(s)}) \in Nat
      BY <1>2, <2>4, <2>6
    <3>2. Cardinality(s \ {one(s)}) = Cardinality(s) - 1
      BY <2>6, <3>1, FS_RemoveElement
    <3> QED
      BY <2>3, <3>1, <3>2
  <2>8. s \ {one(s)} \notin Bad
    BY <2>2, <2>7
  <2>9. sum[s \ {one(s)}] = Cardinality(whole(s \ {one(s)}))
    BY <2>6, <2>8
  <2> QED
    BY <1>4, <1>8, <2>4, <2>5, <2>6, <2>9
<1>10. sum[S] = Cardinality(whole(S))
  BY <1>9
<1> QED
  BY <1>1, <1>10 DEF whole

-----------------------------------------------------------------------------
(***************************************************************************)
(* What ThreadPosts finds.                                                 *)
(***************************************************************************)

\* The replies that the recursion follows from a post.
LiveReplies(n) == {c \in Posts : Live(c) /\ post[c].parent = n}

\* The posts of the thread of q that s answers, directly or not.
Above(q, s) == {t \in ThreadPosts(q) \ {s} : s \in ThreadPosts(t)}

\* Lemma: the recursion reaches where it starts and goes on to every live reply.
LEMMA ThreadIsClosed ==
    ASSUME NEW q \in Posts
    PROVE  /\ q \in ThreadPosts(q) /\ ThreadPosts(q) \subseteq Posts
           /\ HoldsLiveChildren(ThreadPosts(q))
  BY DEF ThreadPosts, HoldsLiveChildren

\* Lemma: and reaches nothing else.
LEMMA ThreadIsLeast ==
    ASSUME NEW q \in Posts, NEW D \in SUBSET Posts, q \in D, HoldsLiveChildren(D)
    PROVE  ThreadPosts(q) \subseteq D
  BY DEF ThreadPosts

\* Lemma: a thread holds the threads of its posts.
LEMMA ThreadHoldsThreads ==
    ASSUME NEW q \in Posts, NEW t \in ThreadPosts(q)
    PROVE  t \in Posts /\ ThreadPosts(t) \subseteq ThreadPosts(q)
  BY ThreadIsClosed, ThreadIsLeast

\* Lemma: a live reply comes after its parent.
LEMMA RepliesComeLater ==
    ASSUME PostsInv, NEW c \in Posts, Live(c), post[c].parent \in Posts
    PROVE  post[c].parent < c
  BY PostsAssumption DEF PostsInv, RowsInv, ThreadsAreTrees, Stored, Live, Posts

\* Lemma: where the thread starts, and how every other post came into it.
LEMMA ThreadPostIsReply ==
    ASSUME PostsInv, NEW q \in Posts, NEW s \in ThreadPosts(q)
    PROVE  /\ s \in Posts /\ q <= s
           /\ s # q => /\ Live(s) /\ post[s].parent \in ThreadPosts(q)
                       /\ post[s].parent \in Posts /\ post[s].parent < s /\ q < s
<1> DEFINE D == {x \in ThreadPosts(q) :
                    x # q => Live(x) /\ post[x].parent \in ThreadPosts(q)}
           E == {x \in Posts : q <= x}
<1>1. /\ q \in ThreadPosts(q) /\ ThreadPosts(q) \subseteq Posts
      /\ HoldsLiveChildren(ThreadPosts(q))
  BY ThreadIsClosed
<1>2. s \in D
  <2>1. D \in SUBSET Posts /\ q \in D /\ HoldsLiveChildren(D)
    BY <1>1 DEF HoldsLiveChildren
  <2> HIDE DEF D
  <2> QED
    BY <2>1, ThreadIsLeast
<1>3. s \in E
  <2>1. q \in E /\ E \in SUBSET Posts
    BY DEF Posts
  <2>2. ASSUME NEW c \in Posts, Live(c), post[c].parent \in E PROVE c \in E
    <3>1. post[c].parent < c /\ post[c].parent \in Posts
      BY <2>2, RepliesComeLater
    <3> QED
      BY <2>2, <3>1 DEF Posts
  <2>3. HoldsLiveChildren(E)
    <3> HIDE DEF E
    <3> QED
      BY <2>2 DEF HoldsLiveChildren
  <2> HIDE DEF E
  <2> QED
    BY <2>1, <2>3, ThreadIsLeast
<1>4. s # q => post[s].parent \in Posts /\ post[s].parent < s
  BY <1>1, <1>2, RepliesComeLater
<1> QED
  BY <1>1, <1>2, <1>3, <1>4 DEF Posts

\* Lemma: the thread of a post is the post and the threads of its live replies,
\* which have nothing in common and do not lead back to the post.
LEMMA ThreadSplits ==
    ASSUME PostsInv, NEW q \in Posts
    PROVE  /\ ThreadPosts(q) = {q} \cup UNION {ThreadPosts(c) : c \in LiveReplies(q)}
           /\ \A c \in LiveReplies(q) : c \in ThreadPosts(q) /\ q \notin ThreadPosts(c)
           /\ \A c, d \in LiveReplies(q) : c # d => ThreadPosts(c) \cap ThreadPosts(d) = {}
<1> DEFINE D == {q} \cup UNION {ThreadPosts(c) : c \in LiveReplies(q)}
<1>1. /\ q \in ThreadPosts(q) /\ ThreadPosts(q) \subseteq Posts
      /\ HoldsLiveChildren(ThreadPosts(q))
  BY ThreadIsClosed
<1>2. \A c \in LiveReplies(q) :
         /\ c \in Posts /\ Live(c) /\ post[c].parent = q /\ q < c
         /\ c \in ThreadPosts(c) /\ ThreadPosts(c) \subseteq Posts
         /\ HoldsLiveChildren(ThreadPosts(c))
  BY ThreadIsClosed, RepliesComeLater DEF LiveReplies
<1>3. \A c \in LiveReplies(q) : c \in ThreadPosts(q) /\ ThreadPosts(c) \subseteq ThreadPosts(q)
  <2>1. \A c \in LiveReplies(q) : c \in ThreadPosts(q)
    BY <1>1, <1>2 DEF HoldsLiveChildren
  <2> QED
    BY <2>1, ThreadHoldsThreads
<1>4. \A c \in LiveReplies(q) : q \notin ThreadPosts(c)
  <2> SUFFICES ASSUME NEW c \in LiveReplies(q), q \in ThreadPosts(c) PROVE FALSE
    OBVIOUS
  <2>1. c <= q
    BY <1>2, ThreadPostIsReply
  <2> QED
    BY <1>2, <2>1 DEF Posts
<1>5. ThreadPosts(q) \subseteq D
  <2>1. q \in D /\ D \in SUBSET Posts
    BY <1>2
  <2>2. ASSUME NEW c \in Posts, Live(c), post[c].parent \in D PROVE c \in D
    <3>1. CASE post[c].parent = q
      BY <1>2, <2>2, <3>1 DEF LiveReplies
    <3>2. ASSUME NEW d \in LiveReplies(q), post[c].parent \in ThreadPosts(d) PROVE c \in D
      BY <1>2, <2>2, <3>2 DEF HoldsLiveChildren
    <3> QED
      BY <2>2, <3>1, <3>2
  <2>3. HoldsLiveChildren(D)
    <3> HIDE DEF D
    <3> QED
      BY <2>2 DEF HoldsLiveChildren
  <2> HIDE DEF D
  <2> QED
    BY <2>1, <2>3, ThreadIsLeast
<1>6. ASSUME NEW c \in LiveReplies(q), NEW d \in LiveReplies(q), c # d
      PROVE  ThreadPosts(c) \cap ThreadPosts(d) = {}
  <2> DEFINE E == ThreadPosts(c) \ ThreadPosts(d)
  <2>1. c \notin ThreadPosts(d)
    <3> SUFFICES ASSUME c \in ThreadPosts(d) PROVE FALSE
      OBVIOUS
    <3>1. post[c].parent \in ThreadPosts(d)
      BY <1>2, <1>6, ThreadPostIsReply
    <3> QED
      BY <1>2, <1>4, <3>1
  <2>2. ASSUME NEW x \in Posts, Live(x), post[x].parent \in E PROVE x \in E
    <3>1. x \in ThreadPosts(c)
      BY <1>2, <2>2 DEF HoldsLiveChildren
    <3>2. ASSUME x \in ThreadPosts(d) PROVE FALSE
      <4>1. x = d
        BY <1>2, <2>2, <3>2, ThreadPostIsReply
      <4>2. q \in ThreadPosts(c)
        BY <1>2, <2>2, <4>1
      <4> QED
        BY <1>4, <4>2
    <3> QED
      BY <3>1, <3>2
  <2>3. HoldsLiveChildren(E)
    <3> HIDE DEF E
    <3> QED
      BY <2>2 DEF HoldsLiveChildren
  <2>4. ThreadPosts(c) \subseteq E
    <3>1. c \in E /\ E \in SUBSET Posts
      BY <1>2, <2>1
    <3> HIDE DEF E
    <3> QED
      BY <1>2, <2>3, <3>1, ThreadIsLeast
  <2> QED
    BY <2>4
<1>7. D \subseteq ThreadPosts(q)
  BY <1>1, <1>3
<1> QED
  BY <1>3, <1>4, <1>5, <1>6, <1>7

-----------------------------------------------------------------------------
(***************************************************************************)
(* The depth of a post in a thread.                                        *)
(***************************************************************************)

\* The true depth of s in the thread of q.
TrueDepth(q, s) == Cardinality(Above(q, s))

\* Lemma: a thread is finite.
LEMMA ThreadIsFinite ==
    ASSUME NEW q \in Posts
    PROVE  /\ IsFiniteSet(ThreadPosts(q)) /\ Cardinality(ThreadPosts(q)) \in Nat
           /\ \A s : IsFiniteSet(Above(q, s)) /\ TrueDepth(q, s) \in Nat
<1>1. IsFiniteSet(Posts)
  BY PostsAssumption, FS_Interval DEF Posts
<1>2. ThreadPosts(q) \subseteq Posts /\ \A s : Above(q, s) \subseteq Posts
  BY DEF ThreadPosts, Above
<1>3. IsFiniteSet(ThreadPosts(q)) /\ \A s : IsFiniteSet(Above(q, s))
  BY <1>1, <1>2, FS_Subset
<1> QED
  BY <1>3, FS_CardinalityType DEF TrueDepth

\* Lemma: a reply answers its parent and all that its parent answers.
LEMMA AboveReply ==
    ASSUME PostsInv, NEW q \in Posts, NEW s \in ThreadPosts(q), s # q
    PROVE  /\ Above(q, s) = Above(q, post[s].parent) \cup {post[s].parent}
           /\ post[s].parent \notin Above(q, post[s].parent)
<1> DEFINE p == post[s].parent
<1>1. s \in Posts /\ Live(s) /\ p \in ThreadPosts(q) /\ p \in Posts /\ p < s
  BY ThreadPostIsReply
<1>2. ASSUME NEW t \in ThreadPosts(q), s \in ThreadPosts(t), t # s
      PROVE  p \in ThreadPosts(t)
  BY <1>2, ThreadHoldsThreads, ThreadPostIsReply
<1>3. ASSUME NEW t \in ThreadPosts(q), p \in ThreadPosts(t)
      PROVE  s \in ThreadPosts(t) /\ t # s
  <2>1. t \in Posts /\ t <= p
    BY <1>3, ThreadHoldsThreads, ThreadPostIsReply
  <2>2. s \in ThreadPosts(t)
    BY <1>1, <1>3, <2>1, ThreadIsClosed DEF HoldsLiveChildren
  <2> QED
    BY <1>1, <2>1, <2>2 DEF Posts
<1>4. p \in ThreadPosts(p)
  BY <1>1, ThreadIsClosed
<1> QED
  BY <1>1, <1>2, <1>3, <1>4 DEF Above

\* Lemma: seen from a post, the posts below one of its replies answer one more.
LEMMA AboveBelowReply ==
    ASSUME PostsInv, NEW q \in Posts, NEW c \in LiveReplies(q), NEW s \in ThreadPosts(c)
    PROVE  Above(q, s) = Above(c, s) \cup {q} /\ q \notin Above(c, s)
<1>1. /\ c \in Posts /\ s \in ThreadPosts(q) /\ q # s
      /\ q \notin ThreadPosts(c) /\ c \in ThreadPosts(q) /\ q \in ThreadPosts(q)
  BY ThreadSplits, ThreadIsClosed DEF LiveReplies
<1>2. ASSUME NEW t \in ThreadPosts(q), t # q, s \in ThreadPosts(t)
      PROVE  t \in ThreadPosts(c)
  <2>1. PICK d \in LiveReplies(q) : t \in ThreadPosts(d)
    BY <1>2, ThreadSplits
  <2>2. s \in ThreadPosts(d)
    BY <1>2, <2>1, ThreadHoldsThreads DEF LiveReplies
  <2>3. d = c
    BY <2>2, ThreadSplits
  <2> QED
    BY <2>1, <2>3
<1>3. ThreadPosts(c) \subseteq ThreadPosts(q)
  BY <1>1, ThreadHoldsThreads
<1> QED
  BY <1>1, <1>2, <1>3 DEF Above

\* Lemma: how depths follow from each other.
LEMMA DepthSteps ==
    ASSUME PostsInv, NEW q \in Posts
    PROVE  /\ TrueDepth(q, q) = 0
           /\ \A s \in ThreadPosts(q) : s # q =>
                 TrueDepth(q, s) = TrueDepth(q, post[s].parent) + 1
           /\ \A c \in LiveReplies(q) : \A s \in ThreadPosts(c) :
                 TrueDepth(q, s) = TrueDepth(c, s) + 1
<1>1. Above(q, q) = {}
  <2> SUFFICES ASSUME NEW t \in ThreadPosts(q), t # q, q \in ThreadPosts(t) PROVE FALSE
    BY DEF Above
  <2>1. t \in Posts /\ q < t /\ t <= q
    BY ThreadHoldsThreads, ThreadPostIsReply
  <2> QED
    BY <2>1 DEF Posts
<1>2. ASSUME NEW s \in ThreadPosts(q), s # q
      PROVE  TrueDepth(q, s) = TrueDepth(q, post[s].parent) + 1
  <2>1. /\ Above(q, s) = Above(q, post[s].parent) \cup {post[s].parent}
        /\ post[s].parent \notin Above(q, post[s].parent)
    BY <1>2, AboveReply
  <2>2. IsFiniteSet(Above(q, post[s].parent))
    BY ThreadIsFinite
  <2> QED
    BY <2>1, <2>2, FS_AddElement DEF TrueDepth
<1>3. ASSUME NEW c \in LiveReplies(q), NEW s \in ThreadPosts(c)
      PROVE  TrueDepth(q, s) = TrueDepth(c, s) + 1
  <2>1. Above(q, s) = Above(c, s) \cup {q} /\ q \notin Above(c, s)
    BY AboveBelowReply
  <2>2. IsFiniteSet(Above(c, s))
    BY ThreadIsFinite DEF LiveReplies
  <2> QED
    BY <2>1, <2>2, FS_AddElement DEF TrueDepth
<1> QED
  BY <1>1, <1>2, <1>3, FS_EmptySet DEF TrueDepth

\* Lemma: the depth column of the query holds the true depths.
LEMMA DepthColumn ==
    ASSUME PostsInv, NEW q \in Posts
    PROVE  DepthBelow(q) = [s \in ThreadPosts(q) |-> TrueDepth(q, s)]
<1> DEFINE Eq(f) == f = [s \in ThreadPosts(q) |->
                            IF s = q THEN 0 ELSE f[post[s].parent] + 1]
           depth == CHOOSE f : Eq(f)
           true == [s \in ThreadPosts(q) |-> TrueDepth(q, s)]
<1>1. DepthBelow(q) = depth
  BY DEF DepthBelow
<1>2. Eq(true)
  <2> SUFFICES ASSUME NEW s \in ThreadPosts(q)
               PROVE  TrueDepth(q, s) = IF s = q THEN 0 ELSE true[post[s].parent] + 1
    OBVIOUS
  <2>1. s # q => true[post[s].parent] = TrueDepth(q, post[s].parent)
    BY ThreadPostIsReply
  <2> HIDE DEF true
  <2> QED
    BY <2>1, DepthSteps
<1>3. Eq(depth)
  <2> HIDE DEF Eq, true
  <2> QED
    BY <1>2
<1>4. /\ DOMAIN depth = ThreadPosts(q)
      /\ \A s \in ThreadPosts(q) : depth[s] = IF s = q THEN 0 ELSE depth[post[s].parent] + 1
  <2> HIDE DEF depth
  <2> QED
    BY <1>3
<1>5. depth = [s \in ThreadPosts(q) |-> depth[s]]
  <2> HIDE DEF depth
  <2> QED
    BY <1>3
<1> HIDE DEF depth
<1> DEFINE D == {s \in ThreadPosts(q) : depth[s] = TrueDepth(q, s)}
<1>6. ThreadPosts(q) \subseteq D
  <2>1. q \in D /\ D \in SUBSET Posts
    BY <1>4, DepthSteps, ThreadIsClosed
  <2>2. ASSUME NEW c \in Posts, Live(c), post[c].parent \in D PROVE c \in D
    <3>1. c \in ThreadPosts(q)
      BY <2>2, ThreadIsClosed DEF HoldsLiveChildren
    <3>2. c # q => depth[c] = TrueDepth(q, c)
      BY <1>4, <2>2, <3>1, DepthSteps
    <3> QED
      BY <2>1, <3>1, <3>2
  <2>3. HoldsLiveChildren(D)
    <3> HIDE DEF D
    <3> QED
      BY <2>2 DEF HoldsLiveChildren
  <2> HIDE DEF D
  <2> QED
    BY <2>1, <2>3, ThreadIsLeast
<1> QED
  BY <1>1, <1>5, <1>6

-----------------------------------------------------------------------------
(***************************************************************************)
(* The order of the rows.                                                  *)
(***************************************************************************)

\* A total order on S: what comes before each element.
TotallyOrders(before, S) ==
    /\ before \in [S -> SUBSET S]
    /\ \A s \in S : s \notin before[s]
    /\ \A s \in S : \A t \in before[s] : before[t] \subseteq before[s]
    /\ \A s, t \in S : s # t => s \in before[t] \/ t \in before[s]

\* The place of s is one after those before it.
Places(before, S) == [s \in S |-> Cardinality(before[s]) + 1]

\* Lemma: in a finite set that is totally ordered, every place from the first to
\* the last is taken by one element.
LEMMA PlacesInOrder ==
    ASSUME NEW S, IsFiniteSet(S), NEW before, TotallyOrders(before, S)
    PROVE  /\ Places(before, S) \in [S -> 1..Cardinality(S)]
           /\ \A s \in S : Cardinality(before[s]) \in Nat
           /\ \A s \in S : \A t \in before[s] : Places(before, S)[t] < Places(before, S)[s]
           /\ \A s, t \in S : Places(before, S)[s] = Places(before, S)[t] => s = t
           /\ \A i \in 1..Cardinality(S) : \E s \in S : Places(before, S)[s] = i
<1> DEFINE place == Places(before, S)
<1> USE DEF TotallyOrders
<1>0. place = [s \in S |-> Cardinality(before[s]) + 1]
  BY DEF Places
<1> HIDE DEF place
<1>1. ASSUME NEW s \in S
      PROVE  /\ IsFiniteSet(before[s]) /\ Cardinality(before[s]) \in Nat
             /\ Cardinality(before[s]) + 1 \in 1..Cardinality(S)
  <2>1. IsFiniteSet(before[s]) /\ Cardinality(before[s]) \in Nat
    BY FS_Subset, FS_CardinalityType
  <2>2. /\ IsFiniteSet(before[s] \cup {s})
        /\ Cardinality(before[s] \cup {s}) = Cardinality(before[s]) + 1
    BY <2>1, FS_AddElement
  <2>3. before[s] \cup {s} \in SUBSET S
    OBVIOUS
  <2>4. Cardinality(before[s] \cup {s}) <= Cardinality(S)
    BY <2>3, FS_Subset
  <2>5. Cardinality(S) \in Nat
    BY FS_CardinalityType
  <2> QED
    BY <2>1, <2>2, <2>4, <2>5
<1>2. ASSUME NEW s \in S, NEW t \in before[s] PROVE place[t] < place[s]
  <2>1. t \in S /\ t \notin before[t] /\ before[t] \cup {t} \in SUBSET before[s]
    OBVIOUS
  <2>2. /\ IsFiniteSet(before[t]) /\ Cardinality(before[t]) \in Nat
        /\ IsFiniteSet(before[s]) /\ Cardinality(before[s]) \in Nat
    BY <1>1, <2>1
  <2>3. Cardinality(before[t] \cup {t}) = Cardinality(before[t]) + 1
    BY <2>1, <2>2, FS_AddElement
  <2>4. Cardinality(before[t] \cup {t}) <= Cardinality(before[s])
    BY <2>1, <2>2, FS_Subset
  <2> QED
    BY <1>0, <2>1, <2>2, <2>3, <2>4
<1>3. place \in [S -> 1..Cardinality(S)]
  BY <1>0, <1>1
<1>4. ASSUME NEW s \in S, NEW t \in S, place[s] = place[t] PROVE s = t
  <2>1. place[s] \in Nat
    BY <1>0, <1>1
  <2> QED
    BY <1>2, <1>4, <2>1
<1>5. place \in Surjection(S, 1..Cardinality(S))
  <2>1. place \in Injection(S, 1..Cardinality(S))
    BY <1>3, <1>4 DEF Injection, IsInjective
  <2>2. Cardinality(S) \in Nat
    BY FS_CardinalityType
  <2>3. /\ IsFiniteSet(1..Cardinality(S)) /\ Cardinality(1..Cardinality(S)) = Cardinality(S)
    BY <2>2, FS_Interval
  <2> QED
    BY <2>1, <2>3, FS_Injection
<1>6. \A i \in 1..Cardinality(S) : \E s \in S : place[s] = i
  BY <1>5 DEF Surjection
<1> QED
  BY <1>1, <1>2, <1>3, <1>4, <1>6 DEF place

\* Lemma: ThreadPosts returns every post of the thread once, and none before the
\* post that it answers.
LEMMA EntriesInOrder ==
    ASSUME PostsInv, NEW q \in Posts
    PROVE  LET n == Cardinality(ThreadPosts(q))
               entries == ThreadEntries(q)
           IN  /\ entries \in [1..n -> ThreadPosts(q)]
               /\ \A s \in ThreadPosts(q) : \E i \in 1..n : entries[i] = s
               /\ \A i, j \in 1..n : entries[i] = entries[j] => i = j
               /\ \A i, j \in 1..n : entries[j] # q /\ entries[i] = post[entries[j]].parent
                                        => i < j
<1> DEFINE rows == ThreadPosts(q)
           n == Cardinality(rows)
           depth == DepthBelow(q)
           earlier(s) == {t \in rows : \/ depth[t] < depth[s]
                                       \/ depth[t] = depth[s] /\ t < s}
           before == [s \in rows |-> earlier(s)]
           place == Places(before, rows)
           entries == [i \in 1..n |-> CHOOSE s \in rows : Cardinality(earlier(s)) = i - 1]
<1>1. ThreadEntries(q) = entries
  BY DEF ThreadEntries
<1>2. /\ IsFiniteSet(rows) /\ n \in Nat /\ rows \subseteq Nat
      /\ \A s \in rows : depth[s] = TrueDepth(q, s) /\ depth[s] \in Nat
  <2>1. rows \subseteq Nat
    BY ThreadIsClosed DEF Posts
  <2> QED
    BY <2>1, ThreadIsFinite, DepthColumn
<1> HIDE DEF depth
<1>3. /\ before \in [rows -> SUBSET rows]
      /\ \A s, t \in rows : t \in before[s] <=> \/ depth[t] < depth[s]
                                                \/ depth[t] = depth[s] /\ t < s
      /\ \A s \in rows : Cardinality(earlier(s)) = Cardinality(before[s])
  OBVIOUS
<1> HIDE DEF before, earlier, rows
<1>4. /\ \A s \in rows : s \notin before[s]
      /\ \A s \in rows : \A t \in before[s] : before[t] \subseteq before[s]
      /\ \A s, t \in rows : s # t => s \in before[t] \/ t \in before[s]
  <2>1. \A s, t \in rows : s \in Nat /\ depth[s] \in Nat
    BY <1>2
  <2>2. \A s \in rows : s \notin before[s]
    BY <1>3, <2>1
  <2>3. ASSUME NEW s \in rows, NEW t \in before[s], NEW x \in before[t]
        PROVE  x \in before[s]
    <3>1. t \in rows /\ x \in rows
      BY <1>3
    <3> QED
      BY <1>3, <2>1, <3>1
  <2>4. \A s, t \in rows : s # t => s \in before[t] \/ t \in before[s]
    BY <1>3, <2>1
  <2> QED
    BY <2>2, <2>3, <2>4
<1>5. place = [s \in rows |-> Cardinality(before[s]) + 1]
  BY DEF Places
<1> HIDE DEF place
<1>6. /\ place \in [rows -> 1..n]
      /\ \A s \in rows : Cardinality(before[s]) \in Nat
      /\ \A s \in rows : \A t \in before[s] : place[t] < place[s]
      /\ \A s, t \in rows : place[s] = place[t] => s = t
      /\ \A i \in 1..n : \E s \in rows : place[s] = i
  <2>1. TotallyOrders(before, rows)
    BY <1>3, <1>4 DEF TotallyOrders
  <2>2. IsFiniteSet(rows)
    BY <1>2
  <2>3. /\ place \in [rows -> 1..n]
        /\ \A s \in rows : Cardinality(before[s]) \in Nat
    BY <2>1, <2>2, PlacesInOrder DEF place
  <2>4. \A s \in rows : \A t \in before[s] : place[t] < place[s]
    BY <2>1, <2>2, PlacesInOrder DEF place
  <2>5. \A s, t \in rows : place[s] = place[t] => s = t
    BY <2>1, <2>2, PlacesInOrder DEF place
  <2>6. \A i \in 1..n : \E s \in rows : place[s] = i
    BY <2>1, <2>2, PlacesInOrder DEF place
  <2> QED
    BY <2>3, <2>4, <2>5, <2>6
<1>7. ASSUME NEW i \in 1..n
      PROVE  entries[i] \in rows /\ place[entries[i]] = i
  <2>1. PICK s \in rows : place[s] = i
    BY <1>6
  <2>2. Cardinality(earlier(s)) = i - 1
    BY <1>3, <1>5, <1>6, <2>1
  <2>3. entries[i] \in rows /\ Cardinality(earlier(entries[i])) = i - 1
    BY <2>2
  <2>4. Cardinality(before[entries[i]]) = i - 1
    <3> HIDE DEF entries
    <3> QED
      BY <1>3, <2>3
  <2> HIDE DEF entries
  <2> QED
    BY <1>5, <2>3, <2>4
<1> HIDE DEF entries
<1>8. \A s \in rows : \E i \in 1..n : entries[i] = s
  BY <1>6, <1>7
<1>9. \A i, j \in 1..n : entries[i] = entries[j] => i = j
  BY <1>7
<1>10. ASSUME NEW i \in 1..n, NEW j \in 1..n, entries[j] # q,
              entries[i] = post[entries[j]].parent
       PROVE  i < j
  <2>1. depth[entries[i]] < depth[entries[j]]
    <3>1. entries[i] \in rows /\ entries[j] \in rows
      BY <1>7
    <3>2. TrueDepth(q, entries[j]) = TrueDepth(q, entries[i]) + 1
      BY <1>10, <3>1, DepthSteps DEF rows
    <3>3. /\ depth[entries[i]] = TrueDepth(q, entries[i]) /\ depth[entries[i]] \in Nat
          /\ depth[entries[j]] = TrueDepth(q, entries[j])
      BY <1>2, <3>1
    <3> HIDE DEF entries
    <3> QED
      BY <3>2, <3>3
  <2>2. entries[i] \in before[entries[j]]
    BY <1>3, <1>7, <2>1
  <2> QED
    BY <1>6, <1>7, <2>2
<1>11. entries \in [1..n -> rows]
  BY <1>7 DEF entries
<1> QED
  BY <1>1, <1>8, <1>9, <1>10, <1>11 DEF rows

-----------------------------------------------------------------------------
(***************************************************************************)
(* The tree that Build makes of the rows.                                  *)
(***************************************************************************)

\* Lemma: the nodes of the tree, what hangs under each, and the true depth at each.
LEMMA TreeIsTrue ==
    ASSUME PostsInv, NEW q \in Posts
    PROVE  /\ Thread(q).root = q
           /\ Thread(q).children = [n \in ThreadPosts(q) |-> LiveReplies(n)]
           /\ Thread(q).depth = [s \in ThreadPosts(q) |-> TrueDepth(q, s)]
<1> DEFINE rows == ThreadPosts(q)
           n == Cardinality(rows)
           entries == ThreadEntries(q)
           nodes == {q} \cup ToSet(entries)
           above == [s \in nodes |-> IF post[s].parent \in nodes THEN post[s].parent ELSE q]
           Place(depth, s) == IF s = q THEN depth ELSE [depth EXCEPT ![s] = depth[above[s]] + 1]
           base == [s \in nodes |-> 0]
           Eq(g, D) == g = [T \in D |-> IF T = {} THEN base
                                        ELSE Place(g[T \ {Max(T)}], entries[Max(T)])]
           fold == CHOOSE g : Eq(g, SUBSET DOMAIN entries)
<1>1. /\ n \in Nat /\ entries \in [1..n -> rows]
      /\ \A s \in rows : \E i \in 1..n : entries[i] = s
      /\ \A i, j \in 1..n : entries[i] = entries[j] => i = j
      /\ \A i, j \in 1..n : entries[j] # q /\ entries[i] = post[entries[j]].parent => i < j
  BY EntriesInOrder, ThreadIsFinite
<1>2. q \in rows /\ nodes = rows /\ ToSet(entries) = rows
  <2>1. q \in rows
    BY ThreadIsClosed
  <2> HIDE DEF rows, entries
  <2> QED
    BY <1>1, <2>1 DEF ToSet
<1>3. /\ Thread(q).root = q
      /\ Thread(q).depth = fold[DOMAIN entries]
      /\ Thread(q).children =
            [m \in nodes |-> {s \in ToSet(entries) \ {q} : above[s] = m}]
  BY DEF Thread, Build, FoldLeft, MapThenFoldSet
<1>4. \A s \in rows : s # q => above[s] = post[s].parent /\ post[s].parent \in rows
  <2>1. \A s \in rows : s # q => post[s].parent \in rows
    BY ThreadPostIsReply
  <2> HIDE DEF rows, nodes
  <2> QED
    BY <1>2, <2>1
<1>5. Thread(q).children = [m \in rows |-> LiveReplies(m)]
  <2>1. ASSUME NEW m \in rows
        PROVE  {s \in rows \ {q} : above[s] = m} = LiveReplies(m)
    <3>1. \A s \in LiveReplies(m) : s \in rows /\ post[s].parent = m
      BY ThreadIsClosed DEF LiveReplies, HoldsLiveChildren
    <3>2. q \notin LiveReplies(m)
      <4>1. m \in Posts /\ q <= m
        BY ThreadPostIsReply
      <4>2. q \in LiveReplies(m) => m < q
        BY <4>1, RepliesComeLater DEF LiveReplies
      <4> QED
        BY <4>1, <4>2 DEF Posts
    <3>3. \A s \in rows : s # q => s \in Posts /\ Live(s)
      BY ThreadPostIsReply
    <3> HIDE DEF above, rows
    <3> QED
      BY <1>4, <3>1, <3>2, <3>3 DEF LiveReplies
  <2> HIDE DEF above, rows, nodes, entries
  <2> QED
    BY <1>2, <1>3, <2>1
<1>6. DOMAIN entries = 1..n
  BY <1>1
<1> DEFINE small(k) == {T \in SUBSET (1..n) : Cardinality(T) <= k}
           step(g, T) == IF T = {} THEN base ELSE Place(g[T \ {Max(T)}], entries[Max(T)])
           Unsolved == {k \in Nat : ~ \E g : Eq(g, small(k))}
<1>7. \A T \in SUBSET (1..n) : IsFiniteSet(T) /\ Cardinality(T) \in Nat /\ Cardinality(T) <= n
  <2>1. IsFiniteSet(1..n) /\ Cardinality(1..n) = n
    BY <1>1, FS_Interval
  <2> QED
    BY <2>1, FS_Subset, FS_CardinalityType
<1>8. \A g, D : Eq(g, D) <=> g = [T \in D |-> step(g, T)]
  OBVIOUS
<1>9. \A g, h, T : T # {} /\ g[T \ {Max(T)}] = h[T \ {Max(T)}] => step(g, T) = step(h, T)
  <2> HIDE DEF Place, base, entries
  <2> QED
    OBVIOUS
<1>10. \A g, h : step(g, {}) = step(h, {})
  OBVIOUS
<1>11. Unsolved = {}
  <2> SUFFICES ASSUME Unsolved # {} PROVE FALSE
    OBVIOUS
  <2>1. Unsolved \in SUBSET Nat
    OBVIOUS
  <2>2. PICK k \in Unsolved : k \in Nat /\ \A m \in Unsolved : k <= m
    <3> HIDE DEF Unsolved, rows, entries, nodes
    <3> QED
      BY <2>1, LeastOf
  <2>3. k \in Nat /\ ~ \E g : Eq(g, small(k))
    <3> HIDE DEF Eq, small
    <3> QED
      BY <2>2
  <2> DEFINE g == CHOOSE f : Eq(f, small(k - 1))
  <2> HIDE DEF Eq, small
  <2>4. ASSUME k # 0 PROVE k - 1 \in Nat /\ k - 1 \notin Unsolved
    <3> HIDE DEF Unsolved, rows, entries, nodes
    <3> QED
      BY <2>2, <2>4
  <2>5. ASSUME k # 0 PROVE Eq(g, small(k - 1))
    <3>1. \E f : Eq(f, small(k - 1))
      BY <2>4, <2>5
    <3> QED
      BY <3>1
  <2> HIDE DEF g
  <2> USE DEF small
  <2> DEFINE h == [T \in small(k) |-> step(g, T)]
  <2> HIDE DEF step, Eq, Unsolved
  <2>6. ASSUME NEW T \in small(k) PROVE step(g, T) = step(h, T)
    <3>1. CASE T = {}
      BY <1>10, <3>1
    <3>2. CASE T # {}
      <4> DEFINE U == T \ {Max(T)}
      <4>1. T \in SUBSET (1..n) /\ Cardinality(T) <= k /\ Max(T) \in T
        <5>1. T \in SUBSET (0..n)
          OBVIOUS
        <5> QED
          BY <1>1, <3>2, <5>1, LargestOf
      <4>2. Cardinality(U) = Cardinality(T) - 1 /\ U \in SUBSET (1..n)
        BY <1>7, <4>1, FS_RemoveElement
      <4>3. k # 0 /\ U \in small(k - 1) /\ U \in small(k)
        BY <1>7, <2>3, <4>1, <4>2
      <4> HIDE DEF small, U
      <4>4. g[U] = step(g, U)
        BY <1>8, <2>5, <4>3
      <4>5. h[U] = step(g, U)
        BY <4>3
      <4> QED
        BY <1>9, <3>2, <4>4, <4>5 DEF U
    <3> QED
      BY <3>1, <3>2
  <2>7. h = [T \in small(k) |-> step(h, T)]
    <3> HIDE DEF small
    <3> QED
      BY <2>6
  <2> HIDE DEF h, small
  <2> QED
    BY <1>8, <2>3, <2>7
<1>12. small(n) = SUBSET DOMAIN entries
  BY <1>6, <1>7
<1>13. Eq(fold, SUBSET DOMAIN entries)
  <2> HIDE DEF Eq, small, n, entries
  <2>1. \E g : Eq(g, small(n))
    BY <1>1, <1>11
  <2>2. \E g : Eq(g, SUBSET DOMAIN entries)
    BY <1>12, <2>1
  <2> QED
    BY <2>2
<1>14. \A T \in SUBSET (1..n) : fold[T] = step(fold, T)
  <2> HIDE DEF Eq, step, fold
  <2> QED
    BY <1>6, <1>8, <1>13
<1> HIDE DEF fold, Eq, entries, rows, nodes
<1> DEFINE placed(k) == [s \in rows |-> IF \E i \in 1..k : entries[i] = s
                                        THEN TrueDepth(q, s) ELSE 0]
           Bad == {k \in Nat : k <= n /\ fold[1..k] # placed(k)}
<1>15. ASSUME NEW k \in 1..n, fold[1..(k - 1)] = placed(k - 1)
       PROVE  fold[1..k] = placed(k)
  <2> DEFINE s == entries[k]
             prev == placed(k - 1)
  <2>1. k \in Nat /\ k - 1 \in Nat /\ 1..k \in SUBSET (1..n) /\ 1..k # {}
    BY <1>1
  <2>2. Max(1..k) = k
    <3>1. 1..k \in SUBSET (0..n) /\ k \in 1..k /\ \A i \in 1..k : i <= k
      BY <2>1
    <3> QED
      BY <1>1, <3>1, LargestOf
  <2>3. (1..k) \ {k} = 1..(k - 1)
    BY <2>1
  <2>4. fold[1..k] = Place(prev, s)
    <3>1. fold[1..k] = step(fold, 1..k)
      BY <1>14, <2>1
    <3>2. step(fold, 1..k) = Place(fold[1..(k - 1)], entries[k])
      <4> HIDE DEF Place, base
      <4> QED
        BY <2>1, <2>2, <2>3
    <3> HIDE DEF Place, step
    <3> QED
      BY <1>15, <3>1, <3>2
  <2>5. s \in rows
    BY <1>1
  <2>6. \A t \in rows : t # s =>
           ((\E i \in 1..k : entries[i] = t) <=> (\E i \in 1..(k - 1) : entries[i] = t))
    BY <2>1
  <2>7. s = q => TrueDepth(q, s) = 0
    BY DepthSteps
  <2>8. s # q => /\ above[s] \in rows /\ prev[above[s]] = TrueDepth(q, above[s])
                 /\ TrueDepth(q, s) = TrueDepth(q, above[s]) + 1
    <3> SUFFICES ASSUME s # q PROVE <2>8!2
      OBVIOUS
    <3>1. above[s] = post[s].parent /\ post[s].parent \in rows
      BY <1>4, <2>5
    <3>2. PICK i \in 1..n : entries[i] = post[s].parent
      BY <1>1, <3>1
    <3>3. i \in 1..(k - 1)
      BY <1>1, <2>1, <3>2
    <3>4. TrueDepth(q, s) = TrueDepth(q, post[s].parent) + 1
      BY <2>5, DepthSteps DEF rows
    <3> HIDE DEF above
    <3> QED
      BY <3>1, <3>2, <3>3, <3>4
  <2>9. Place(prev, s) = placed(k)
    <3>1. /\ placed(k)[s] = TrueDepth(q, s)
          /\ \A t \in rows : t # s => placed(k)[t] = prev[t]
      BY <2>1, <2>5, <2>6
    <3>2. DOMAIN prev = rows /\ DOMAIN placed(k) = rows /\ prev = [t \in rows |-> prev[t]]
          /\ placed(k) = [t \in rows |-> placed(k)[t]]
      OBVIOUS
    <3>3. s = q => prev[s] = TrueDepth(q, s)
      BY <2>5, <2>7
    <3> HIDE DEF placed, prev, above
    <3>4. CASE s = q
      BY <3>1, <3>2, <3>3, <3>4
    <3>5. CASE s # q
      <4>1. Place(prev, s) = [prev EXCEPT ![s] = TrueDepth(q, s)]
        BY <2>8, <3>5
      <4> QED
        BY <2>5, <3>1, <3>2, <4>1
    <3> QED
      BY <3>4, <3>5
  <2> QED
    BY <2>4, <2>9
<1>16. fold[1..0] = placed(0)
  <2>1. 1..0 = {}
    OBVIOUS
  <2>2. fold[1..0] = step(fold, {})
    <3> HIDE DEF step
    <3> QED
      BY <1>1, <1>14, <2>1
  <2>3. step(fold, {}) = base
    OBVIOUS
  <2>4. base = [s \in rows |-> 0]
    BY <1>2
  <2>5. placed(0) = [s \in rows |-> 0]
    <3>1. \A s \in rows : ~ \E i \in 1..0 : entries[i] = s
      BY <2>1
    <3> QED
      BY <3>1
  <2> HIDE DEF step, base, placed
  <2> QED
    BY <2>2, <2>3, <2>4, <2>5
<1>17. Bad = {}
  <2> SUFFICES ASSUME Bad # {} PROVE FALSE
    OBVIOUS
  <2>1. PICK k \in Bad : \A m \in Bad : k <= m
    <3>1. Bad \in SUBSET Nat
      OBVIOUS
    <3> HIDE DEF Bad
    <3> QED
      BY <3>1, LeastOf
  <2>2. k \in Nat /\ k <= n /\ fold[1..k] # placed(k)
    OBVIOUS
  <2> HIDE DEF placed
  <2>3. k # 0
    BY <1>16, <2>2
  <2>4. k \in 1..n /\ k - 1 \in Nat /\ k - 1 <= n
    BY <1>1, <2>2, <2>3
  <2>5. k - 1 \notin Bad
    <3> HIDE DEF Bad
    <3> QED
      BY <2>1, <2>2
  <2> QED
    BY <1>15, <2>2, <2>4, <2>5
<1>18. fold[1..n] = [s \in rows |-> TrueDepth(q, s)]
  <2>1. fold[1..n] = placed(n)
    <3> HIDE DEF placed
    <3> QED
      BY <1>1, <1>17
  <2> QED
    BY <1>1, <2>1
<1> QED
  BY <1>3, <1>5, <1>6, <1>18 DEF rows

-----------------------------------------------------------------------------
(***************************************************************************)
(* The numbers that Stats reports.                                         *)
(***************************************************************************)

\* The longest way down from a post.
Depths(n) == {TrueDepth(n, s) : s \in ThreadPosts(n)}
Height(n) == Max(Depths(n))

\* Lemma: a thread has a longest way down.
LEMMA HeightIsLargest ==
    ASSUME NEW n \in Posts
    PROVE  /\ Depths(n) \subseteq Nat /\ Height(n) \in Depths(n) /\ Height(n) \in Nat
           /\ \A d \in Depths(n) : d <= Height(n)
           /\ \A d \in Depths(n) : (\A e \in Depths(n) : e <= d) => d = Height(n)
<1> DEFINE size == Cardinality(ThreadPosts(n))
<1>1. size \in Nat /\ n \in ThreadPosts(n) /\ IsFiniteSet(ThreadPosts(n))
  BY ThreadIsFinite, ThreadIsClosed
<1>2. \A s : TrueDepth(n, s) \in 0..size
  <2> SUFFICES ASSUME NEW s PROVE TrueDepth(n, s) \in 0..size
    OBVIOUS
  <2>1. Above(n, s) \in SUBSET ThreadPosts(n)
    BY DEF Above
  <2>2. TrueDepth(n, s) <= size /\ TrueDepth(n, s) \in Nat
    BY <1>1, <2>1, FS_Subset, ThreadIsFinite DEF TrueDepth
  <2> QED
    BY <1>1, <2>2
<1>3. Depths(n) \in SUBSET (0..size) /\ Depths(n) # {} /\ Depths(n) \subseteq Nat
  <2> HIDE DEF size
  <2> QED
    BY <1>1, <1>2 DEF Depths
<1> HIDE DEF size
<1>4. /\ Max(Depths(n)) \in Depths(n) /\ \A d \in Depths(n) : d <= Max(Depths(n))
      /\ \A d \in Depths(n) : (\A e \in Depths(n) : e <= d) => d = Max(Depths(n))
  BY <1>1, <1>3, LargestOf
<1> QED
  BY <1>3, <1>4 DEF Height

\* Lemma: the longest way down from a post is one more than the longest from one
\* of its replies, if it has any.
LEMMA HeightSteps ==
    ASSUME PostsInv, NEW n \in Posts
    PROVE  Height(n) = Max({0} \cup {Height(c) + 1 : c \in LiveReplies(n)})
<1> DEFINE E == {0} \cup {Height(c) + 1 : c \in LiveReplies(n)}
<1>1. \A c \in LiveReplies(n) : c \in Posts /\ Height(c) \in Nat
  BY HeightIsLargest DEF LiveReplies
<1>2. ASSUME NEW c \in LiveReplies(n), NEW d \in Depths(c)
      PROVE  d \in Nat /\ d + 1 \in Depths(n) /\ d <= Height(c)
  <2>1. PICK s \in ThreadPosts(c) : d = TrueDepth(c, s)
    BY DEF Depths
  <2>2. s \in ThreadPosts(n)
    BY ThreadSplits
  <2>3. TrueDepth(n, s) = d + 1
    BY <2>1, DepthSteps
  <2> QED
    BY <1>1, <1>2, <2>2, <2>3, HeightIsLargest DEF Depths
<1>3. 0 \in Depths(n)
  BY DepthSteps, ThreadIsClosed DEF Depths
<1>4. E \subseteq Depths(n)
  <2>1. \A c \in LiveReplies(n) : Height(c) + 1 \in Depths(n)
    BY <1>1, <1>2, HeightIsLargest
  <2> QED
    BY <1>3, <2>1
<1>5. Height(n) \in E
  <2>1. PICK s \in ThreadPosts(n) : Height(n) = TrueDepth(n, s)
    BY HeightIsLargest DEF Depths
  <2>2. CASE s = n
    BY <2>1, <2>2, DepthSteps
  <2>3. CASE s # n
    <3>1. PICK c \in LiveReplies(n) : s \in ThreadPosts(c)
      BY <2>3, ThreadSplits
    <3>2. Height(n) = TrueDepth(c, s) + 1 /\ TrueDepth(c, s) \in Depths(c)
      BY <2>1, <3>1, DepthSteps DEF Depths
    <3>3. Height(c) + 1 <= Height(n)
      BY <1>4, HeightIsLargest
    <3>4. TrueDepth(c, s) <= Height(c) /\ TrueDepth(c, s) \in Nat
      BY <1>2, <3>2
    <3>5. Height(n) = Height(c) + 1
      BY <1>1, <3>2, <3>3, <3>4
    <3> QED
      BY <3>5
  <2> QED
    BY <2>2, <2>3
<1>6. E \subseteq Nat /\ \A e \in E : e <= Height(n)
  BY <1>4, HeightIsLargest
<1>7. E \in SUBSET (0..Height(n)) /\ E # {} /\ Height(n) \in Nat
  BY <1>6, HeightIsLargest
<1> HIDE DEF E
<1>8. Height(n) = Max(E)
  BY <1>5, <1>6, <1>7, LargestOf
<1> QED
  BY <1>8 DEF E

\* Lemma: a thread is as large as its post and the threads of the replies together.
LEMMA SizeSteps ==
    ASSUME PostsInv, NEW n \in Posts, NEW w,
           \A c \in LiveReplies(n) : w[c].count = Cardinality(ThreadPosts(c))
    PROVE  Cardinality(ThreadPosts(n)) = 1 + SumCounts(w, LiveReplies(n))
<1> DEFINE S == LiveReplies(n)
           D == [c \in S |-> ThreadPosts(c)]
           rest == UNION {D[c] : c \in S}
<1>1. IsFiniteSet(Posts) /\ S \in SUBSET Posts
  BY PostsAssumption, FS_Interval DEF Posts, LiveReplies
<1>2. /\ D \in [S -> SUBSET Posts]
      /\ \A c \in S : w[c].count = Cardinality(D[c])
      /\ \A c, d \in S : c # d => D[c] \cap D[d] = {}
  BY ThreadSplits DEF ThreadPosts
<1>3. ThreadPosts(n) = rest \cup {n} /\ n \notin rest
  BY ThreadSplits
<1>4. IsFiniteSet(rest) /\ Cardinality(rest) \in Nat
  <2>1. rest \in SUBSET ThreadPosts(n)
    BY <1>3
  <2> HIDE DEF rest
  <2> QED
    BY <2>1, ThreadIsFinite, FS_Subset, FS_CardinalityType
<1>5. SumCounts(w, S) = Cardinality(rest)
  <2> HIDE DEF S, D
  <2> QED
    BY <1>1, <1>2, SumOfSizes
<1> HIDE DEF rest
<1>6. Cardinality(ThreadPosts(n)) = Cardinality(rest) + 1
  BY <1>3, <1>4, FS_AddElement
<1> QED
  BY <1>4, <1>5, <1>6

\* Lemma: Stats counts the posts of the thread and finds its longest way down.
LEMMA StatsAreTrue ==
    ASSUME PostsInv, NEW q \in Posts
    PROVE  Stats(Thread(q)) = [count |-> Cardinality(ThreadPosts(q)), depth |-> Height(q)]
<1> DEFINE rows == ThreadPosts(q)
           tree == Thread(q)
           node(g, n) == [count |-> 1 + SumCounts(g, tree.children[n]),
                          depth |-> Max({0} \cup {g[c].depth + 1 : c \in tree.children[n]})]
           Eq(g) == g = [n \in DOMAIN tree.children |-> node(g, n)]
           below == CHOOSE g : Eq(g)
           true == [n \in rows |-> [count |-> Cardinality(ThreadPosts(n)), depth |-> Height(n)]]
<1>1. Stats(tree) = below[tree.root]
  BY DEF Stats, SumCounts, MapThenSumSet, MapThenFoldSet
<1>2. /\ tree.root = q /\ q \in rows /\ rows \subseteq Posts
      /\ DOMAIN tree.children = rows
      /\ \A n \in rows : tree.children[n] = LiveReplies(n)
      /\ \A n \in rows : \A c \in LiveReplies(n) : c \in rows /\ n < c
  <2>1. q \in rows /\ rows \subseteq Posts
    BY ThreadIsClosed
  <2>2. ASSUME NEW n \in rows, NEW c \in LiveReplies(n) PROVE c \in rows /\ n < c
    BY <2>1, ThreadIsClosed, RepliesComeLater DEF LiveReplies, HoldsLiveChildren
  <2>3. tree.root = q /\ tree.children = [n \in rows |-> LiveReplies(n)]
    BY TreeIsTrue
  <2> HIDE DEF tree, rows
  <2> QED
    BY <2>1, <2>2, <2>3
<1> HIDE DEF tree, rows
<1>3. ASSUME NEW n \in rows, NEW g,
             \A c \in LiveReplies(n) : g[c] = [count |-> Cardinality(ThreadPosts(c)),
                                               depth |-> Height(c)]
      PROVE  node(g, n) = [count |-> Cardinality(ThreadPosts(n)), depth |-> Height(n)]
  <2>1. ASSUME NEW c \in LiveReplies(n)
        PROVE  g[c].count = Cardinality(ThreadPosts(c)) /\ g[c].depth = Height(c)
    <3>1. g[c] = [count |-> Cardinality(ThreadPosts(c)), depth |-> Height(c)]
      BY <1>3
    <3> QED
      BY <3>1
  <2>2. Cardinality(ThreadPosts(n)) = 1 + SumCounts(g, LiveReplies(n))
    BY <1>2, <2>1, SizeSteps
  <2>3. {g[c].depth + 1 : c \in LiveReplies(n)} = {Height(c) + 1 : c \in LiveReplies(n)}
    BY <2>1
  <2>4. Height(n) = Max({0} \cup {Height(c) + 1 : c \in LiveReplies(n)})
    BY <1>2, HeightSteps
  <2> QED
    BY <1>2, <2>2, <2>3, <2>4
<1> HIDE DEF node
<1>4. Eq(true)
  <2>1. \A n \in rows : \A c \in LiveReplies(n) :
           true[c] = [count |-> Cardinality(ThreadPosts(c)), depth |-> Height(c)]
    BY <1>2
  <2>2. \A n \in rows : node(true, n) =
           [count |-> Cardinality(ThreadPosts(n)), depth |-> Height(n)]
    <3> HIDE DEF true
    <3> QED
      BY <1>3, <2>1
  <2> QED
    BY <1>2, <2>2
<1>5. Eq(below)
  <2> HIDE DEF Eq, true
  <2> QED
    BY <1>4
<1>6. \A n \in rows : below[n] = node(below, n)
  <2> HIDE DEF below
  <2> QED
    BY <1>2, <1>5
<1> HIDE DEF below, true
<1> DEFINE Bad == {n \in rows : below[n] # [count |-> Cardinality(ThreadPosts(n)),
                                            depth |-> Height(n)]}
<1>7. Bad = {}
  <2> SUFFICES ASSUME Bad # {} PROVE FALSE
    OBVIOUS
  <2>1. Bad \in SUBSET (0..MaxPosts) /\ MaxPosts \in Nat
    <3>1. Posts \subseteq 0..MaxPosts /\ MaxPosts \in Nat
      BY PostsAssumption DEF Posts
    <3> QED
      BY <1>2, <3>1
  <2>2. Max(Bad) \in Bad /\ \A n \in Bad : n <= Max(Bad)
    <3> HIDE DEF Bad
    <3> QED
      BY <2>1, LargestOf
  <2> DEFINE n == Max(Bad)
  <2>3. n \in rows /\ n \in Nat
    <3> HIDE DEF n
    <3>1. n \in Bad
      BY <2>2 DEF n
    <3> QED
      BY <2>1, <3>1
  <2>4. \A c \in LiveReplies(n) : c \notin Bad /\ c \in rows
    <3> HIDE DEF Bad, n
    <3>1. ASSUME NEW c \in LiveReplies(n) PROVE c \in rows /\ n < c /\ c \in Nat
      <4>1. Posts \subseteq Nat
        BY DEF Posts
      <4> QED
        BY <1>2, <2>3, <4>1
    <3> QED
      BY <2>2, <2>3, <3>1 DEF n
  <2>5. below[n] = [count |-> Cardinality(ThreadPosts(n)), depth |-> Height(n)]
    <3> HIDE DEF n
    <3> QED
      BY <1>3, <1>6, <2>3, <2>4
  <2>6. n \notin Bad
    <3> HIDE DEF n
    <3> QED
      BY <2>5
  <2> QED
    BY <2>2, <2>6
<1> QED
  BY <1>1, <1>2, <1>7 DEF tree

\* Theorem: the tree that is shown for a live post holds what ThreadPosts found
\* at its true depth, and its totals are those of the tree, however many posts,
\* replies, deletions and requests there are: Build reads the depth of a node
\* only after its pass has set it.
THEOREM ThreadsAreShownWhole == Spec => []ThreadIsShownWhole
<1>1. PostsInv => ThreadIsShownWhole
  <2> SUFFICES ASSUME PostsInv PROVE ThreadIsShownWhole
    OBVIOUS
  <2> DEFINE shown == [q \in Posts |-> IF Live(q) THEN ThreadPosts(q) ELSE {}]
             above(q, s) == {t \in shown[q] \ {s} : s \in shown[t]}
             depths(q) == {Cardinality(above(q, s)) : s \in shown[q]}
  <2>1. ASSUME NEW q \in Posts, Live(q)
        PROVE  /\ \A s \in shown[q] : Thread(q).depth[s] = Cardinality(above(q, s))
               /\ Stats(Thread(q)) = [count |-> Cardinality(shown[q]), depth |-> Max(depths(q))]
    <3>1. shown[q] = ThreadPosts(q)
      BY <2>1
    <3>2. \A t \in ThreadPosts(q) : shown[t] = ThreadPosts(t)
      <4>1. \A t \in ThreadPosts(q) : t \in Posts /\ Live(t)
        BY <2>1, ThreadPostIsReply
      <4> QED
        BY <4>1
    <3> HIDE DEF shown
    <3>3. \A s : above(q, s) = Above(q, s)
      BY <3>1, <3>2 DEF Above
    <3>4. \A s : Cardinality(above(q, s)) = TrueDepth(q, s)
      BY <3>3 DEF TrueDepth
    <3> HIDE DEF above
    <3>5. depths(q) = Depths(q)
      BY <3>1, <3>4 DEF Depths
    <3>6. \A s \in shown[q] : Thread(q).depth[s] = Cardinality(above(q, s))
      <4>1. Thread(q).depth = [s \in ThreadPosts(q) |-> TrueDepth(q, s)]
        BY TreeIsTrue
      <4> QED
        BY <3>1, <3>4, <4>1
    <3>7. Stats(Thread(q)) = [count |-> Cardinality(shown[q]), depth |-> Max(depths(q))]
      <4> HIDE DEF depths
      <4> QED
        BY <3>1, <3>5, StatsAreTrue DEF Height
    <3> QED
      BY <3>6, <3>7
  <2> QED
    BY <2>1 DEF ThreadIsShownWhole
<1> QED
  BY <1>1, PostsInvariance, PTL

-----------------------------------------------------------------------------
(***************************************************************************)
(* What a thread leaves out.                                               *)
(***************************************************************************)

\* Lemma: what a post answers begins with the post and goes on to its parent.
LEMMA AnsweredIsClosed ==
    ASSUME NEW s \in Posts
    PROVE  /\ s \in Answered(s)
           /\ \A t \in Answered(s) : post[t].parent \in Posts => post[t].parent \in Answered(s)
  BY DEF Answered

\* Lemma: and holds nothing else.
LEMMA AnsweredIsLeast ==
    ASSUME NEW s \in Posts, NEW D \in SUBSET Posts, s \in D,
           \A c \in D : post[c].parent \in Posts => post[c].parent \in D
    PROVE  Answered(s) \subseteq D
  BY DEF Answered

\* Lemma: what the parent answers, the reply answers.
LEMMA AnsweredByParent ==
    ASSUME NEW s \in Posts, post[s].parent \in Posts
    PROVE  Answered(post[s].parent) \subseteq Answered(s)
<1>1. Answered(s) \in SUBSET Posts
  BY DEF Answered
<1> QED
  BY <1>1, AnsweredIsClosed, AnsweredIsLeast

\* Lemma: a live post under a root was replied to from its parent, which is the
\* root or under it as well.
LEMMA RootIsInherited ==
    ASSUME PostsInv, NEW q \in Posts, NEW s \in Posts, Live(s), post[s].root = q
    PROVE  /\ post[s].parent \in Posts /\ post[s].parent < s
           /\ post[s].parent = q \/ post[post[s].parent].root = q
           /\ post[q].root = None
<1>1. Stored(s) /\ q # None
  BY PostsAssumption DEF Stored, Live, Posts
<1>2. post[s].parent # None /\ post[s].parent \in Posts
  BY <1>1 DEF PostsInv, TypeOK, Row, Ref, RowsInv, ThreadsAreTrees
<1> QED
  BY <1>1, <1>2 DEF PostsInv, RowsInv, ThreadsAreTrees, RootFor

\* Theorem: a live reply is missing from the thread of its live root exactly when
\* something that it answers was deleted, however long the way up is.
THEOREM ThreadsHideOnlyBelowDeleted == Spec => []HiddenOnlyBelowDeleted
<1>1. PostsInv => HiddenOnlyBelowDeleted
  <2> SUFFICES ASSUME PostsInv, NEW q \in Posts, Live(q)
               PROVE  \A s \in Posts : Live(s) /\ post[s].root = q =>
                         (s \in ThreadPosts(q) <=> \A t \in Answered(s) : Live(t))
    BY DEF HiddenOnlyBelowDeleted
  <2> DEFINE lost == {s \in Posts : /\ Live(s) /\ post[s].root = q /\ s \notin ThreadPosts(q)
                                    /\ \A t \in Answered(s) : Live(t)}
  <2>1. lost = {}
    <3> SUFFICES ASSUME lost # {} PROVE FALSE
      OBVIOUS
    <3>1. lost \in SUBSET Nat
      BY DEF Posts
    <3>2. PICK s \in lost : \A t \in lost : s <= t
      <4> HIDE DEF lost
      <4> QED
        BY <3>1, LeastOf
    <3>3. /\ s \in Posts /\ Live(s) /\ post[s].root = q /\ s \notin ThreadPosts(q)
          /\ \A t \in Answered(s) : Live(t)
      OBVIOUS
    <3> DEFINE p == post[s].parent
    <3>4. p \in Posts /\ p < s /\ (p = q \/ post[p].root = q)
      BY <3>3, RootIsInherited
    <3>5. Live(p) /\ \A t \in Answered(p) : Live(t)
      BY <3>3, <3>4, AnsweredIsClosed, AnsweredByParent
    <3>6. p \notin lost
      <4>1. p \in Nat /\ s \in Nat
        BY <3>3, <3>4 DEF Posts
      <4> HIDE DEF lost, p
      <4> QED
        BY <3>2, <3>4, <4>1
    <3>7. p \in ThreadPosts(q)
      BY <3>4, <3>5, <3>6, ThreadIsClosed
    <3> QED
      BY <3>3, <3>7, ThreadIsClosed DEF HoldsLiveChildren
  <2>2. ASSUME NEW s \in Posts, Live(s), post[s].root = q, s \in ThreadPosts(q)
        PROVE  \A t \in Answered(s) : Live(t)
    <3>1. post[q].parent \notin Posts
      <4>1. post[q].root = None
        BY <2>2, RootIsInherited
      <4>2. post[q].parent = None
        BY <4>1 DEF PostsInv, RowsInv, ThreadsAreTrees, Stored, Live
      <4> QED
        BY <4>2, PostsAssumption DEF Posts
    <3>2. \A c \in ThreadPosts(q) : post[c].parent \in Posts => post[c].parent \in ThreadPosts(q)
      BY <3>1, ThreadPostIsReply
    <3>3. Answered(s) \subseteq ThreadPosts(q)
      BY <2>2, <3>2, ThreadIsClosed, AnsweredIsLeast
    <3> QED
      BY <3>3, ThreadPostIsReply
  <2> QED
    BY <2>1, <2>2
<1> QED
  BY <1>1, PostsInvariance, PTL

=============================================================================
