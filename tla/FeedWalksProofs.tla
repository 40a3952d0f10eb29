-------------------------- MODULE FeedWalksProofs --------------------------
(* Theorems about the walks of clients down the following feed, the        *)
(* timeline and the hot feed, for every number of videos, authors and      *)
(* readers and every limit.                                                *)
EXTENDS FollowingFeed, TimelineWalk, HotWindow, FiniteSetTheorems,
        WellFoundedInduction, TLAPS

----------------------------------------------------------------------------
(* Lemmas about sets of numbers.                                           *)

LEMMA LeastMember ==
  ASSUME NEW S \in SUBSET Nat, S # {}
  PROVE  \E x \in S : \A y \in S : x <= y
<1>1. PICK x \in S : \A y \in S : <<y, x>> \notin OpToRel(<, Nat)
  BY NatLessThanWellFounded, WFMin
<1>2. \A y \in S : ~(y < x)
  BY <1>1 DEF OpToRel
<1> QED BY <1>2

LEMMA GreatestMember ==
  ASSUME NEW S \in SUBSET Nat, IsFiniteSet(S), S # {}
  PROVE  \E x \in S : \A y \in S : y <= x
<1> DEFINE Newer(x) == {y \in S : y > x}
           counts == {Cardinality(Newer(x)) : x \in S}
<1>1. \A x \in S : IsFiniteSet(Newer(x)) /\ Cardinality(Newer(x)) \in Nat
  BY FS_Subset, FS_CardinalityType
<1>2. counts \in SUBSET Nat /\ counts # {}
  BY <1>1
<1>3. PICK c \in counts : \A d \in counts : c <= d
  BY <1>2, LeastMember
<1>4. PICK x \in S : c = Cardinality(Newer(x))
  OBVIOUS
<1>5. \A y \in S : Cardinality(Newer(x)) <= Cardinality(Newer(y))
  BY <1>3, <1>4
<1> HIDE DEF counts
<1>6. ASSUME NEW y \in S, y > x PROVE FALSE
  <2>1. ~(y > y) /\ \A z \in S : z > y => z > x
    BY <1>6
  <2>2. Newer(y) \in SUBSET Newer(x) /\ y \in Newer(x) /\ y \notin Newer(y)
    BY <1>6, <2>1
  <2>3. /\ Cardinality(Newer(y)) <= Cardinality(Newer(x))
        /\ Cardinality(Newer(x)) = Cardinality(Newer(y)) => Newer(x) = Newer(y)
    BY <1>1, <2>2, FS_Subset
  <2>4. Cardinality(Newer(x)) = Cardinality(Newer(y))
    BY <1>1, <1>5, <2>3
  <2> QED BY <2>2, <2>3, <2>4
<1> QED BY <1>6

\* A page of the newest takes all, or what it leaves is older than all it takes.
LEMMA NewestTaken ==
  ASSUME NEW n \in Nat, NEW S \in SUBSET (1 .. n), NEW limit \in Nat
  PROVE  /\ Newest(S, limit) \subseteq S
         /\ IsFiniteSet(S) /\ Cardinality(S) \in Nat
         /\ Cardinality(S) <= limit => Newest(S, limit) = S
         /\ \A v \in S \ Newest(S, limit) : \A w \in Newest(S, limit) : v < w
         /\ S # {} /\ limit > 0 => Newest(S, limit) # {}
<1> DEFINE Newer(v) == {w \in S : w > v}
           taken == {v \in S : Cardinality(Newer(v)) < limit}
<1>0. taken = Newest(S, limit) /\ \A y \in S : y \in Int
  BY DEF Newest
<1>1. IsFiniteSet(S) /\ Cardinality(S) \in Nat
  <2>1. IsFiniteSet(1 .. n)
    BY FS_Interval
  <2> QED BY <2>1, FS_Subset, FS_CardinalityType
<1>2. ASSUME NEW v \in S
      PROVE  IsFiniteSet(Newer(v)) /\ Cardinality(Newer(v)) \in Nat
  BY <1>1, FS_Subset, FS_CardinalityType
<1>3. ASSUME Cardinality(S) <= limit, NEW v \in S PROVE v \in taken
  <2>1. Newer(v) \in SUBSET S /\ Newer(v) # S
    OBVIOUS
  <2>2. Cardinality(Newer(v)) <= Cardinality(S) /\ Cardinality(Newer(v)) # Cardinality(S)
    BY <1>1, <2>1, FS_Subset
  <2> QED BY <1>1, <1>2, <1>3, <2>2
<1>4. ASSUME NEW v \in S \ taken, NEW w \in taken PROVE v < w
  <2> SUFFICES ASSUME w <= v PROVE FALSE
    BY <1>0
  <2>0. \A y \in S : y > v => y > w
    BY <1>0
  <2>1. Newer(v) \in SUBSET Newer(w)
    BY <2>0
  <2>2. Cardinality(Newer(v)) <= Cardinality(Newer(w))
    BY <1>2, <2>1, FS_Subset
  <2> QED BY <1>2, <2>2
<1>5. ASSUME S # {}, limit > 0 PROVE taken # {}
  <2>1. PICK x \in S : \A y \in S : y <= x
    <3>1. S \in SUBSET Nat
      OBVIOUS
    <3> QED BY <1>1, <1>5, <3>1, GreatestMember
  <2>2. \A y \in S : ~(y > x)
    BY <1>0, <2>1
  <2>3. Newer(x) = {}
    BY <2>2
  <2>4. Cardinality(Newer(x)) = 0
    BY <2>3, FS_EmptySet
  <2> QED BY <1>5, <2>4
<1>6. taken \subseteq S
  OBVIOUS
<1> HIDE DEF taken
<1> QED BY <1>0, <1>1, <1>3, <1>4, <1>5, <1>6

\* It takes as many as it may, if there are as many.
LEMMA NewestSize ==
  ASSUME NEW n \in Nat, NEW S \in SUBSET (1 .. n), NEW limit \in Nat
  PROVE  /\ IsFiniteSet(Newest(S, limit)) /\ Cardinality(Newest(S, limit)) \in Nat
         /\ Cardinality(Newest(S, limit)) <= limit
         /\ Newest(S, limit) # S => Cardinality(Newest(S, limit)) = limit
         /\ Cardinality(S) >= limit => Cardinality(Newest(S, limit)) = limit
<1> DEFINE taken == Newest(S, limit)
           Newer(v) == {w \in S : w > v}
<1>1. /\ taken \subseteq S /\ IsFiniteSet(S) /\ Cardinality(S) \in Nat
      /\ \A v \in S \ taken : \A w \in taken : v < w
  BY NewestTaken
<1>2. IsFiniteSet(taken) /\ Cardinality(taken) \in Nat
  BY <1>1, FS_Subset, FS_CardinalityType
<1>3. taken = {v \in S : Cardinality(Newer(v)) < limit} /\ \A y \in S : y \in Nat
  BY DEF Newest
<1> HIDE DEF taken
<1>4. \A v \in S : IsFiniteSet(Newer(v)) /\ Cardinality(Newer(v)) \in Nat
  BY <1>1, FS_Subset, FS_CardinalityType
<1>5. Cardinality(taken) <= limit
  <2>1. CASE taken = {}
    BY <2>1, FS_EmptySet
  <2>2. CASE taken # {}
    <3>1. PICK x \in taken : \A y \in taken : x <= y
      BY <1>1, <1>3, <2>2, LeastMember
    <3>2. x \in S /\ Cardinality(Newer(x)) < limit
      BY <1>3
    <3>3. taken \in SUBSET (Newer(x) \cup {x})
      <4>1. \A y \in taken : y \in S /\ (y > x \/ y = x)
        BY <1>1, <1>3, <3>1
      <4> QED BY <4>1
    <3>4. /\ IsFiniteSet(Newer(x) \cup {x})
          /\ Cardinality(Newer(x) \cup {x}) = Cardinality(Newer(x)) + 1
      <4>1. x \notin Newer(x)
        BY <1>3, <3>2
      <4> QED BY <1>4, <3>2, <4>1, FS_AddElement
    <3>5. Cardinality(taken) <= Cardinality(Newer(x) \cup {x})
      BY <3>3, <3>4, FS_Subset
    <3> QED BY <1>2, <1>4, <3>2, <3>4, <3>5
  <2> QED BY <2>1, <2>2
<1>6. ASSUME taken # S PROVE Cardinality(taken) = limit
  <2>1. S \ taken \in SUBSET Nat /\ S \ taken # {} /\ IsFiniteSet(S \ taken)
    BY <1>1, <1>3, <1>6, FS_Subset
  <2>2. PICK x \in S \ taken : \A y \in S \ taken : y <= x
    BY <2>1, GreatestMember
  <2>3. Cardinality(Newer(x)) >= limit
    BY <1>3, <1>4
  <2>4. Newer(x) \in SUBSET taken
    <3>1. \A y \in S : y > x => y \in taken
      BY <1>3, <2>2
    <3> QED BY <3>1
  <2>5. Cardinality(Newer(x)) <= Cardinality(taken)
    BY <1>2, <2>4, FS_Subset
  <2> QED BY <1>2, <1>4, <1>5, <2>3, <2>5
<1>7. ASSUME Cardinality(S) >= limit PROVE Cardinality(taken) = limit
  <2>1. CASE taken = S
    BY <1>1, <1>5, <1>7, <2>1
  <2>2. CASE taken # S
    BY <1>6, <2>2
  <2> QED BY <2>1, <2>2
<1> QED BY <1>2, <1>5, <1>6, <1>7 DEF taken

LEMMA VideosFinite ==
  ASSUME NEW S \in SUBSET Videos
  PROVE  IsFiniteSet(S) /\ Cardinality(S) \in Nat /\ \A v \in S : v \in Nat
<1>1. IsFiniteSet(Videos)
  BY ConstantsAssumption, FS_Interval DEF Videos
<1>2. \A v \in S : v \in Nat
  BY DEF Videos
<1> QED BY <1>1, <1>2, FS_Subset, FS_CardinalityType

\* What a box holds, a larger one holds.
LEMMA HoldsMore ==
  ASSUME NEW A \in SUBSET Videos, NEW B \in SUBSET Videos, A \subseteq B,
         NEW v \in Videos, NEW n \in Nat, Holds(A, v, n)
  PROVE  Holds(B, v, n)
<1> DEFINE NA == {w \in A : w > v}
           NB == {w \in B : w > v}
<1>1. NA \in SUBSET NB /\ NB \in SUBSET Videos /\ NA \in SUBSET Videos
  OBVIOUS
<1>2. IsFiniteSet(NB) /\ Cardinality(NB) \in Nat /\ Cardinality(NA) \in Nat
  BY <1>1, VideosFinite
<1>3. Cardinality(NA) <= Cardinality(NB)
  BY <1>1, <1>2, FS_Subset
<1>4. v \in A \/ Cardinality(NA) >= n
  BY DEF Holds
<1>5. v \in B \/ Cardinality(NB) >= n
  BY <1>2, <1>3, <1>4
<1> QED BY <1>5 DEF Holds

\* Adding videos to a box and cutting it keeps what it and another hold.
LEMMA HoldsCut ==
  ASSUME NEW A \in SUBSET Videos, NEW X \in SUBSET Videos, NEW Y \in SUBSET Videos,
         NEW v \in Videos, NEW n \in Nat, Holds(A \cup Y, v, n)
  PROVE  Holds(Newest(A \cup X, n) \cup Y, v, n)
<1> DEFINE S == A \cup X
           cut == Newest(S, n)
           newer == {w \in S : w > v}
           kept == {w \in cut \cup Y : w > v}
           old == {w \in A \cup Y : w > v}
<1>0. S \in SUBSET (1 .. Count) /\ Count \in Nat
  BY ConstantsAssumption DEF Videos
<1>1. /\ cut \subseteq S /\ IsFiniteSet(S)
      /\ \A x \in S \ cut : \A w \in cut : x < w
  BY <1>0, NewestTaken
<1>2. Cardinality(cut) \in Nat /\ (S # cut => Cardinality(cut) = n)
  BY <1>0, NewestSize
<1>3. \A x \in S : (x \in cut) <=> Cardinality({w \in S : w > x}) < n
  BY DEF Newest
<1> HIDE DEF cut
<1>4. cut \in SUBSET Videos /\ S \in SUBSET Videos
  BY <1>1
<1>5. kept \in SUBSET Videos /\ newer \in SUBSET Videos /\ old \in SUBSET Videos
  BY <1>4
<1>6. /\ IsFiniteSet(kept) /\ Cardinality(kept) \in Nat
      /\ IsFiniteSet(newer) /\ Cardinality(newer) \in Nat /\ Cardinality(old) \in Nat
  BY <1>5, VideosFinite
<1>7. \A w \in Videos : w \in Nat
  BY DEF Videos
<1>8. v \in A \cup Y \/ Cardinality(old) >= n
  BY DEF Holds
<1>9. CASE \E x \in S \ cut : x >= v
  <2>1. \A w \in cut : w > v
    BY <1>1, <1>4, <1>7, <1>9
  <2>2. cut \in SUBSET kept
    BY <2>1
  <2>3. Cardinality(cut) <= Cardinality(kept)
    BY <1>6, <2>2, FS_Subset
  <2>4. Cardinality(kept) >= n
    BY <1>2, <1>6, <1>9, <2>3
  <2> QED BY <2>4 DEF Holds, cut
<1>10. CASE \A x \in S \ cut : ~(x >= v)
  <2>1. old \in SUBSET kept
    BY <1>4, <1>7, <1>10
  <2>2. Cardinality(old) <= Cardinality(kept)
    BY <1>6, <2>1, FS_Subset
  <2>3. v \in A => v \in cut
    BY <1>7, <1>10
  <2>4. v \in cut \cup Y \/ Cardinality(kept) >= n
    BY <1>6, <1>8, <2>2, <2>3
  <2> QED BY <2>4 DEF Holds, cut
<1> QED BY <1>9, <1>10

\* A page cut from what was found shows a video, or ends above it and says that
\* more follows.
LEMMA PageShows ==
  ASSUME NEW u, NEW got \in SUBSET Videos, NEW v \in Videos,
         \/ v \in got
         \/ /\ Cardinality(Newest(got, PageLimit + 1)) = PageLimit + 1
            /\ \A w \in Newest(got, PageLimit + 1) : v < w
  PROVE  LET page == Answer(u, Newest(got, PageLimit + 1))
         IN  v \in page.items \/ (page.more /\ \A w \in page.items : ~(w < v))
<1> DEFINE N == Newest(got, PageLimit + 1)
           items == Newest(N, PageLimit)
           page == Answer(u, N)
<1>0. /\ Count \in Nat /\ PageLimit \in Nat /\ PageLimit + 1 \in Nat
      /\ got \in SUBSET (1 .. Count) /\ \A w \in Videos : w \in Nat
  BY ConstantsAssumption DEF Videos
<1>1. /\ N \subseteq got
      /\ \A x \in got \ N : \A w \in N : x < w
  BY <1>0, NewestTaken
<1>2. /\ Cardinality(N) \in Nat
      /\ N # got => Cardinality(N) = PageLimit + 1
  BY <1>0, NewestSize
<1> HIDE DEF N
<1>3. N \in SUBSET (1 .. Count)
  BY <1>0, <1>1
<1>4. /\ items \subseteq N
      /\ Cardinality(N) <= PageLimit => items = N
      /\ \A x \in N \ items : \A w \in items : x < w
  BY <1>0, <1>3, NewestTaken
<1>5. page.items = items /\ (page.more <=> Cardinality(N) > PageLimit)
  BY DEF Answer
<1> HIDE DEF items, page
<1>6. \A w \in items : w \in Nat
  BY <1>0, <1>1, <1>4
<1>7. v \in Nat
  BY <1>0
<1>8. v \in got \/ (Cardinality(N) = PageLimit + 1 /\ \A w \in N : v < w)
  BY DEF N
<1>9. v \in items \/ (Cardinality(N) > PageLimit /\ \A w \in items : v < w)
  BY <1>0, <1>1, <1>2, <1>4, <1>8
<1>10. v \in page.items \/ (page.more /\ \A w \in page.items : ~(w < v))
  BY <1>5, <1>6, <1>7, <1>9
<1> QED BY <1>10 DEF N, page

\* A load that reads the cached pages is at one of its steps.
LEMMA LoadRecord ==
  ASSUME FollowTypeOK, NEW u \in Readers, load[u] # NoLoad, load[u].step # "answer"
  PROVE  load[u] \in LoadRecords
BY DEF FollowTypeOK, Answers

\* The page that a trusted index gives leaves out nothing and shows no stranger.
LEMMA IndexSkipsNothing ==
  ASSUME FollowTypeOK, NEW u \in Readers, At(u, "list"),
         load[u].all = Following(u), load[u].pull = Following(u) \cap big,
         Covered(u, inbox[u]), \A v \in inbox[u] : AuthorOf[v] \in Following(u),
         IndexPage(u).ok
  PROVE  Missed(u, Answer(u, IndexPage(u).items)) = {}
<1> DEFINE n    == PageLimit + 1
           keys == {<<inbox[u], InboxMax>>} \cup {<<outbox[a], OutboxMax>> : a \in load[u].pull}
           Slice(k) == Newest(Before(k[1], load[u].cursor), n)
           all  == UNION {Slice(k) : k \in keys}
           got  == {v \in all : AuthorOf[v] \in load[u].all}
           full == {k \in keys : Cardinality(k[1]) >= k[2]}
           cut  == full # {} \/ \E k \in keys : Cardinality(Slice(k)) = n
           missing == \/ \A k \in keys : k[1] = {}
                      \/ load[u].oldest # 0 /\ inbox[u] = {}
           short == Cardinality(got) < n /\ cut
           edge  == /\ Cardinality(got) >= n
                    /\ \E k \in full : Oldest(Newest(got, n)) <= Oldest(k[1])
           page == Answer(u, Newest(got, n))
           whole == ~missing /\ ~short /\ ~edge
<1>1. IndexPage(u) = [ok |-> whole, items |-> Newest(got, n)]
  BY DEF IndexPage
<1>2. ~short /\ ~edge /\ IndexPage(u).items = Newest(got, n)
  <2> HIDE DEF whole, got
  <2>1. IndexPage(u).ok = whole
    BY <1>1
  <2>2. IndexPage(u).items = Newest(got, n)
    BY <1>1
  <2> QED BY <2>1, <2>2 DEF whole
<1>3. /\ u \in Viewers /\ load[u] \in LoadRecords /\ Count \in Nat /\ n \in Nat /\ n > 0
      /\ PageLimit \in Nat /\ InboxMax \in Nat \ {0} /\ OutboxMax \in Nat \ {0}
      /\ AuthorOf \in [Videos -> Authors]
  BY ConstantsAssumption, LoadRecord DEF At
<1>4. inbox[u] \in SUBSET Videos /\ Cardinality(inbox[u]) <= InboxMax
  BY <1>3 DEF FollowTypeOK
<1>5. \A a \in load[u].pull :
         /\ outbox[a] \in SUBSET Videos /\ Cardinality(outbox[a]) <= OutboxMax
         /\ \A v \in outbox[a] : AuthorOf[v] = a
         /\ a \in load[u].all
  BY <1>3 DEF FollowTypeOK, LoadRecords
<1>6. \A k \in keys : /\ k[1] \in SUBSET Videos /\ k[2] \in Nat \ {0} /\ Cardinality(k[1]) <= k[2]
                      /\ \A v \in k[1] : AuthorOf[v] \in load[u].all
  <2>1. ASSUME NEW k \in keys, k = <<inbox[u], InboxMax>>
        PROVE  /\ k[1] \in SUBSET Videos /\ k[2] \in Nat \ {0} /\ Cardinality(k[1]) <= k[2]
               /\ \A v \in k[1] : AuthorOf[v] \in load[u].all
    <3>1. k[1] = inbox[u] /\ k[2] = InboxMax
      BY <2>1
    <3> QED BY <3>1, <1>3, <1>4
  <2>2. ASSUME NEW k \in keys, NEW a \in load[u].pull, k = <<outbox[a], OutboxMax>>
        PROVE  /\ k[1] \in SUBSET Videos /\ k[2] \in Nat \ {0} /\ Cardinality(k[1]) <= k[2]
               /\ \A v \in k[1] : AuthorOf[v] \in load[u].all
    <3>1. k[1] = outbox[a] /\ k[2] = OutboxMax
      BY <2>2
    <3> QED BY <3>1, <1>3, <1>5
  <2> QED BY <2>1, <2>2
<1> HIDE DEF keys
<1>7. ASSUME NEW k \in keys
      PROVE  /\ Slice(k) \subseteq got /\ Slice(k) \subseteq k[1]
             /\ \A v \in k[1] : v < load[u].cursor =>
                  v \in Slice(k) \/ (Cardinality(Slice(k)) = n /\ \A w \in Slice(k) : v < w)
  <2> DEFINE B == Before(k[1], load[u].cursor)
  <2>1. B \in SUBSET (1 .. Count) /\ B \subseteq k[1] /\ \A v \in k[1] : v < load[u].cursor => v \in B
    BY <1>6 DEF Before, Videos
  <2> HIDE DEF B
  <2>2. Newest(B, n) \subseteq B /\ \A v \in B \ Newest(B, n) : \A w \in Newest(B, n) : v < w
    BY <1>3, <2>1, NewestTaken
  <2>3. Newest(B, n) # B => Cardinality(Newest(B, n)) = n
    BY <1>3, <2>1, NewestSize
  <2>4. Slice(k) = Newest(B, n)
    BY DEF B
  <2>5. Slice(k) \subseteq k[1]
    BY <2>1, <2>2, <2>4
  <2>6. Slice(k) \subseteq got
    BY <1>6, <2>5
  <2> HIDE DEF Range
  <2> QED BY <2>1, <2>2, <2>3, <2>4, <2>5, <2>6
<1>8. got \in SUBSET Videos
  <2>1. all \in SUBSET Videos
    BY <1>6, <1>7
  <2> HIDE DEF all
  <2> QED BY <2>1
<1> HIDE DEF Range, got
<1>9. got \in SUBSET (1 .. Count) /\ \A v \in Videos : v \in Nat
  BY <1>8 DEF Videos
<1>10. /\ Newest(got, n) \subseteq got
       /\ \A x \in got \ Newest(got, n) : \A w \in Newest(got, n) : x < w
  BY <1>3, <1>9, NewestTaken
<1>11. /\ Cardinality(Newest(got, n)) \in Nat /\ Cardinality(Newest(got, n)) <= n
       /\ Newest(got, n) # got => Cardinality(Newest(got, n)) = n
       /\ Cardinality(got) >= n => Cardinality(Newest(got, n)) = n
  BY <1>3, <1>9, NewestSize
<1>12. Cardinality(got) \in Nat /\ IsFiniteSet(got)
  BY <1>8, VideosFinite
\* What a key has below the cursor is found, or the page ends above it.
<1>13. ASSUME NEW k \in keys, NEW v \in k[1], v < load[u].cursor
       PROVE  v \in got \/ (Cardinality(Newest(got, n)) = n /\ \A w \in Newest(got, n) : v < w)
  <2> SUFFICES ASSUME v \notin got
               PROVE  Cardinality(Newest(got, n)) = n /\ \A w \in Newest(got, n) : v < w
    OBVIOUS
  <2>1. Cardinality(Slice(k)) = n /\ (\A w \in Slice(k) : v < w) /\ Slice(k) \in SUBSET got
    BY <1>7, <1>13
  <2>2. Cardinality(got) >= n
    BY <1>12, <2>1, FS_Subset
  <2>3. ASSUME NEW w \in Newest(got, n), ~(v < w) PROVE FALSE
    <3>1. \A x \in Slice(k) : x > w
      <4>1. v \in Nat
        BY <1>6, <1>9
      <4>2. w \in Nat /\ \A x \in Slice(k) : x \in Nat
        BY <1>8, <1>9, <1>10, <2>1
      <4> QED BY <2>1, <2>3, <4>1, <4>2
    <3>2. Slice(k) \in SUBSET {x \in got : x > w}
      BY <2>1, <3>1
    <3>3. {x \in got : x > w} \in SUBSET Videos
      BY <1>8
    <3>4. IsFiniteSet({x \in got : x > w}) /\ Cardinality({x \in got : x > w}) \in Nat
      BY <3>3, VideosFinite
    <3>5. Cardinality({x \in got : x > w}) >= n
      BY <2>1, <3>2, <3>4, FS_Subset
    <3>6. Cardinality({x \in got : x > w}) < n
      BY DEF Newest
    <3> QED BY <1>3, <3>4, <3>5, <3>6
  <2> QED BY <1>11, <2>2, <2>3
\* The page ends above what has been cut out of a key.
<1>14. ASSUME NEW k \in keys, NEW v \in Videos, Cardinality({w \in k[1] : w > v}) >= k[2]
       PROVE  Cardinality(Newest(got, n)) = n /\ \A w \in Newest(got, n) : v < w
  <2> DEFINE newer == {w \in k[1] : w > v}
  <2>1. newer \in SUBSET k[1] /\ k[1] \in SUBSET Videos /\ newer \in SUBSET Videos
    BY <1>6
  <2>2. IsFiniteSet(k[1]) /\ Cardinality(k[1]) \in Nat /\ Cardinality(newer) \in Nat
    BY <2>1, VideosFinite
  <2>3. Cardinality(newer) <= Cardinality(k[1])
        /\ (Cardinality(newer) = Cardinality(k[1]) => newer = k[1])
    BY <2>1, <2>2, FS_Subset
  <2>4. Cardinality(newer) = Cardinality(k[1]) /\ Cardinality(k[1]) >= k[2]
    BY <1>6, <1>14, <2>2, <2>3
  <2>5. newer = k[1] /\ k \in full
    BY <2>3, <2>4
  <2>6. k[1] # {}
    BY <1>6, <2>2, <2>4, FS_EmptySet
  <2>7. Cardinality(got) >= n
    BY <1>2, <1>3, <1>12, <2>5
  <2>8. ~(Oldest(Newest(got, n)) <= Oldest(k[1]))
    BY <1>2, <2>5, <2>7
  <2>9. Oldest(k[1]) \in k[1]
    <3>1. k[1] \in SUBSET Nat
      BY <1>9, <2>1
    <3> QED BY <2>6, <3>1, LeastMember DEF Oldest
  <2>10. Newest(got, n) # {}
    <3>1. Cardinality(Newest(got, n)) # 0
      BY <1>3, <1>11, <2>7
    <3> HIDE DEF n
    <3> QED BY <3>1, FS_EmptySet
  <2>11. \A w \in Newest(got, n) : Oldest(Newest(got, n)) \in Nat /\ Oldest(Newest(got, n)) <= w
    <3>1. Newest(got, n) \in SUBSET Nat
      BY <1>8, <1>9, <1>10
    <3> QED BY <2>10, <3>1, LeastMember DEF Oldest
  <2>12. Oldest(k[1]) > v /\ Oldest(k[1]) \in Nat
    BY <1>9, <2>1, <2>5, <2>9
  <2>13. \A w \in Newest(got, n) : w \in Nat
    BY <1>8, <1>9, <1>10
  <2> QED BY <1>9, <1>11, <2>7, <2>8, <2>11, <2>12, <2>13
<1>15. ASSUME NEW v \in Feed(u), v < load[u].cursor, announced[v] = 0
       PROVE  v \in page.items \/ (page.more /\ \A w \in page.items : ~(w < v))
  <2>1. v \in Videos /\ AuthorOf[v] \in Following(u) /\ Reaches(u, v, inbox[u])
    BY <1>15 DEF Feed, Published, Covered
  <2>2. ~OnItsWay(u, v)
    BY <1>15 DEF OnItsWay
  <2>3. v \in got \/ (Cardinality(Newest(got, n)) = n /\ \A w \in Newest(got, n) : v < w)
    <3>1. CASE Holds(inbox[u], v, InboxMax)
      <4> DEFINE k == <<inbox[u], InboxMax>>
      <4>1. k \in keys /\ k[1] = inbox[u] /\ k[2] = InboxMax
        BY DEF keys
      <4> HIDE DEF k
      <4> QED BY <1>13, <1>14, <1>15, <2>1, <3>1, <4>1 DEF Holds
    <3>2. CASE AuthorOf[v] \in big /\ Holds(outbox[AuthorOf[v]], v, OutboxMax)
      <4> DEFINE k == <<outbox[AuthorOf[v]], OutboxMax>>
      <4>1. k \in keys /\ k[1] = outbox[AuthorOf[v]] /\ k[2] = OutboxMax
        BY <2>1, <3>2 DEF keys
      <4> HIDE DEF k
      <4> QED BY <1>13, <1>14, <1>15, <2>1, <3>2, <4>1 DEF Holds
    <3> QED BY <2>1, <2>2, <3>1, <3>2 DEF Reaches
  <2> QED BY <1>8, <2>1, <2>3, PageShows
<1>16. ASSUME NEW v \in Missed(u, page) PROVE FALSE
  <2>1. /\ v \in Feed(u) /\ v < load[u].cursor /\ announced[v] = 0 /\ v \notin page.items
        /\ ~page.more \/ \E w \in page.items : w < v
    BY <1>16 DEF Missed, Before
  <2> QED BY <1>15, <2>1
<1> QED BY <1>2, <1>16

LEMMA IndexShowsFollowed ==
  ASSUME FollowTypeOK, NEW u \in Readers, At(u, "list"), load[u].all = Following(u)
  PROVE  {v \in Answer(u, IndexPage(u).items).items : AuthorOf[v] \notin Following(u)} = {}
<1> DEFINE n    == PageLimit + 1
           keys == {<<inbox[u], InboxMax>>} \cup {<<outbox[a], OutboxMax>> : a \in load[u].pull}
           Slice(k) == Newest(Before(k[1], load[u].cursor), n)
           all  == UNION {Slice(k) : k \in keys}
           got  == {v \in all : AuthorOf[v] \in load[u].all}
<1>1. IndexPage(u).items = Newest(got, n)
  BY DEF IndexPage
<1>2. Answer(u, IndexPage(u).items).items \subseteq Newest(got, n)
  BY <1>1 DEF Answer, Newest
<1> HIDE DEF got
<1>3. Newest(got, n) \subseteq got
  BY DEF Newest
<1> QED BY <1>2, <1>3 DEF got

\* The pages are of videos.
LEMMA PagesOfVideos ==
  ASSUME FollowTypeOK, NEW u \in Readers, load[u] # NoLoad, load[u].step # "answer"
  PROVE  /\ \A n \in Nat : SqlPage(u, NoCursor, n) \in SUBSET Videos
         /\ \A n \in Nat : SqlPage(u, load[u].cursor, n) \in SUBSET Videos
         /\ IndexPage(u).items \in SUBSET Videos
<1>1. Feed(u) \in SUBSET Videos
  BY DEF Feed, Published
<1>2. \A n \in Nat : \A c : SqlPage(u, c, n) \in SUBSET Videos
  BY <1>1 DEF SqlPage, Newest, Before
<1> DEFINE n    == PageLimit + 1
           keys == {<<inbox[u], InboxMax>>} \cup {<<outbox[a], OutboxMax>> : a \in load[u].pull}
           Slice(k) == Newest(Before(k[1], load[u].cursor), n)
           all  == UNION {Slice(k) : k \in keys}
           got  == {v \in all : AuthorOf[v] \in load[u].all}
<1>3. IndexPage(u).items = Newest(got, n)
  BY DEF IndexPage
<1>4. \A k \in keys : k[1] \in SUBSET Videos
  <2>1. u \in Viewers /\ load[u] \in LoadRecords
    BY LoadRecord, ConstantsAssumption
  <2>2. inbox[u] \in SUBSET Videos /\ \A a \in load[u].pull : outbox[a] \in SUBSET Videos
    BY <2>1 DEF FollowTypeOK, LoadRecords
  <2>3. <<inbox[u], InboxMax>>[1] = inbox[u]
    OBVIOUS
  <2>4. \A a \in load[u].pull : <<outbox[a], OutboxMax>>[1] = outbox[a]
    OBVIOUS
  <2> QED BY <2>2, <2>3, <2>4
<1> HIDE DEF keys
<1>5. \A k \in keys : Slice(k) \in SUBSET Videos
  BY <1>4 DEF Newest, Before
<1> HIDE DEF Range
<1>6. Newest(got, n) \in SUBSET Videos
  BY <1>5 DEF Newest
<1> QED BY <1>2, <1>3, <1>6

----------------------------------------------------------------------------
(* FollowingFeed: types.                                                   *)

LEMMA FollowTypeInitial == Init => FollowTypeOK
<1> SUFFICES ASSUME Init PROVE FollowTypeOK
  OBVIOUS
<1>1. \A u \in Viewers : Cardinality(inbox[u]) <= InboxMax
  BY ConstantsAssumption, FS_EmptySet DEF Init
<1>2. \A a \in Authors : Cardinality(outbox[a]) <= OutboxMax /\ \A v \in outbox[a] : AuthorOf[v] = a
  BY ConstantsAssumption, FS_EmptySet DEF Init
<1>3. /\ status \in [Videos -> {"new", "published", "hidden"}]
      /\ fan \in [Videos -> [step : {"idle", "outbox", "list", "push"}, after : Nat, to : SUBSET Viewers]]
      /\ \A v \in Videos : fan[v].step # "idle" => announced[v] > 0
  BY DEF Init, InitFan
<1>4. /\ snap \in [Readers -> [oldest : Videos \cup {0}, complete : BOOLEAN] \cup {NotCached}]
      /\ known \in [Readers -> [all : SUBSET Authors, pull : SUBSET Authors] \cup {NotCached}]
      /\ call \in [Readers -> CallRecords \cup {NoCall}]
      /\ load \in [Readers -> LoadRecords \cup Answers \cup {NoLoad}]
  BY DEF Init
<1>5. /\ follow \subseteq Viewers \X Authors /\ big \subseteq Authors
      /\ inbox \in [Viewers -> SUBSET Videos] /\ outbox \in [Authors -> SUBSET Videos]
      /\ announced \in [Videos -> Nat] /\ cleanups \in [Videos -> Int] /\ cleaning \subseteq Videos
      /\ doubt \subseteq Readers
  BY DEF Init
<1> QED BY <1>1, <1>2, <1>3, <1>4, <1>5 DEF FollowTypeOK

\* What the steps of the videos and of the worker leave as it is.
LEMMA ContentTypes ==
  ASSUME FollowTypeOK, NEW v \in Videos, Publish(v) \/ Hide(v) \/ CountFollowers(v) \/ FanoutFails(v) \/ ListFollowers(v)
  PROVE  FollowTypeOK'
<1>1. CASE Publish(v)
  BY <1>1 DEF FollowTypeOK, Publish, redis, worker
<1>2. CASE Hide(v)
  BY <1>2 DEF FollowTypeOK, Hide, redis, worker
<1>3. CASE CountFollowers(v)
  BY <1>3 DEF FollowTypeOK, CountFollowers, FanGoto, FanOnly
<1>4. CASE FanoutFails(v)
  BY <1>4 DEF FollowTypeOK, FanoutFails, InitFan, FanOnly
<1>5. CASE ListFollowers(v)
  <2> DEFINE to == NextFollowers(AuthorOf[v], fan[v].after)
  <2>1. to \in SUBSET Viewers
    BY DEF NextFollowers
  <2>2. /\ fan[v].step = "list" /\ fan[v].after \in Nat
        /\ to = {} => Handled(v)
        /\ to # {} => FanGoto(v, "push", fan[v].after, to) /\ UNCHANGED announced
        /\ FanOnly /\ UNCHANGED <<inbox, outbox, doubt>>
    BY <1>5 DEF ListFollowers, FollowTypeOK
  <2> HIDE DEF to
  <2>3. /\ announced' \in [Videos -> Nat]
        /\ fan' \in [Videos -> [step : {"idle", "outbox", "list", "push"}, after : Nat, to : SUBSET Viewers]]
        /\ \A w \in Videos : fan'[w].step # "idle" => announced'[w] > 0
    <3>0. fan[v].step = "list" /\ fan[v].after \in Nat
      BY <2>2
    <3>1. CASE to = {}
      <4>1. Handled(v)
        BY <2>2, <3>1
      <4> QED BY <3>0, <4>1 DEF FollowTypeOK, Handled, InitFan
    <3>2. CASE to # {}
      <4>1. FanGoto(v, "push", fan[v].after, to) /\ UNCHANGED announced
        BY <2>2, <3>2
      <4> QED BY <2>1, <3>0, <4>1 DEF FollowTypeOK, FanGoto
    <3> QED BY <3>1, <3>2
  <2> QED BY <2>2, <2>3 DEF FollowTypeOK, FanOnly
<1> QED BY <1>1, <1>2, <1>3, <1>4, <1>5

\* A box that is cut is a box.
LEMMA BoxCut ==
  ASSUME NEW A \in SUBSET Videos, NEW X \in SUBSET Videos, NEW n \in Nat
  PROVE  Newest(A \cup X, n) \in SUBSET (A \cup X) /\ Cardinality(Newest(A \cup X, n)) <= n
<1>1. A \cup X \in SUBSET (1 .. Count) /\ Count \in Nat
  BY ConstantsAssumption DEF Videos
<1> QED BY <1>1, NewestSize DEF Newest

LEMMA BoxCleaned ==
  ASSUME NEW A \in SUBSET Videos, NEW v, NEW n \in Nat, Cardinality(A) <= n
  PROVE  Cardinality(A \ {v}) <= n
<1>1. IsFiniteSet(A) /\ Cardinality(A) \in Nat
  BY VideosFinite
<1>2. IsFiniteSet(A \ {v}) /\ Cardinality(A \ {v}) \in Nat /\ Cardinality(A \ {v}) <= Cardinality(A)
  BY <1>1, FS_Subset, FS_CardinalityType
<1> QED BY <1>1, <1>2

\* The last of a batch of followers that is full.
LEMMA LastOfBatch ==
  ASSUME NEW to \in SUBSET Viewers, Cardinality(to) >= Batch
  PROVE  /\ (CHOOSE u \in to : \A w \in to : w <= u) \in to
         /\ \A w \in to : w <= (CHOOSE u \in to : \A x \in to : x <= u)
<1>0. Viewers \subseteq Nat /\ IsFiniteSet(Viewers) /\ Batch \in Nat \ {0}
  BY ConstantsAssumption
<1>1. to # {}
  BY <1>0, FS_EmptySet
<1>2. IsFiniteSet(to)
  BY <1>0, FS_Subset
<1>3. \E x \in to : \A y \in to : y <= x
  BY <1>0, <1>1, <1>2, GreatestMember
<1> QED BY <1>0, <1>3

LEMMA BoxTypes ==
  ASSUME FollowTypeOK, NEW v \in Videos,
         CleanInboxes(v) \/ CleanOutboxes(v) \/ AddAuthorOutboxItem(v) \/ AddInboxItems(v)
  PROVE  FollowTypeOK'
<1>0. /\ AuthorOf \in [Videos -> Authors] /\ InboxMax \in Nat /\ OutboxMax \in Nat /\ Batch \in Nat \ {0}
      /\ IsFiniteSet(Viewers) /\ Viewers \subseteq Nat
  BY ConstantsAssumption
<1>1. CASE CleanInboxes(v)
  <2>1. \A u \in Viewers : Cardinality(inbox[u] \ {v}) <= InboxMax
    BY <1>0, BoxCleaned DEF FollowTypeOK
  <2>2. /\ inbox' \in [Viewers -> SUBSET Videos] /\ \A u \in Viewers : Cardinality(inbox'[u]) <= InboxMax
        /\ cleaning' \subseteq Videos /\ doubt' \subseteq Readers
    BY <1>1, <2>1 DEF FollowTypeOK, CleanInboxes
  <2> QED BY <1>1, <2>2 DEF FollowTypeOK, CleanInboxes
<1>2. CASE CleanOutboxes(v)
  <2>1. \A a \in Authors : Cardinality(outbox[a] \ {v}) <= OutboxMax
    BY <1>0, BoxCleaned DEF FollowTypeOK
  <2>2. /\ outbox' \in [Authors -> SUBSET Videos]
        /\ \A a \in Authors : Cardinality(outbox'[a]) <= OutboxMax /\ \A w \in outbox'[a] : AuthorOf[w] = a
        /\ cleaning' \subseteq Videos /\ doubt' \subseteq Readers /\ cleanups' \in [Videos -> Int]
    BY <1>2, <2>1 DEF FollowTypeOK, CleanOutboxes
  <2> QED BY <1>2, <2>2 DEF FollowTypeOK, CleanOutboxes
<1>3. CASE AddAuthorOutboxItem(v)
  <2> DEFINE a == AuthorOf[v]
             box == Newest(outbox[a] \cup {v}, OutboxMax)
  <2>1. a \in Authors /\ outbox[a] \in SUBSET Videos /\ \A w \in outbox[a] : AuthorOf[w] = a
    BY <1>0 DEF FollowTypeOK
  <2>2. box \in SUBSET (outbox[a] \cup {v}) /\ Cardinality(box) <= OutboxMax
    <3>1. {v} \in SUBSET Videos
      OBVIOUS
    <3> QED BY <1>0, <2>1, <3>1, BoxCut
  <2>3. outbox' = [outbox EXCEPT ![a] = box] /\ Handled(v) /\ FanOnly /\ UNCHANGED <<inbox, doubt>>
        /\ fan[v].step = "outbox"
    BY <1>3 DEF AddAuthorOutboxItem
  <2> HIDE DEF box
  <2>4. /\ outbox' \in [Authors -> SUBSET Videos]
        /\ \A b \in Authors : Cardinality(outbox'[b]) <= OutboxMax /\ \A w \in outbox'[b] : AuthorOf[w] = b
    BY <2>1, <2>2, <2>3 DEF FollowTypeOK
  <2> QED BY <2>3, <2>4 DEF FollowTypeOK, Handled, InitFan, FanOnly
<1>4. CASE AddInboxItems(v)
  <2> DEFINE to == fan[v].to
  <2>1. \A u \in Viewers : Pushed(inbox[u], v) \in SUBSET Videos /\ Cardinality(Pushed(inbox[u], v)) <= InboxMax
    <3>1. {v} \in SUBSET Videos /\ \A u \in Viewers : inbox[u] \in SUBSET Videos
      BY DEF FollowTypeOK
    <3>2. \A u \in Viewers : /\ Newest(inbox[u] \cup {v}, InboxMax) \in SUBSET (inbox[u] \cup {v})
                            /\ Cardinality(Newest(inbox[u] \cup {v}, InboxMax)) <= InboxMax
      BY <1>0, <3>1, BoxCut
    <3> QED BY <3>1, <3>2 DEF Pushed
  <2>2. inbox' \in [Viewers -> SUBSET Videos] /\ \A u \in Viewers : Cardinality(inbox'[u]) <= InboxMax
    BY <1>4, <2>1 DEF FollowTypeOK, AddInboxItems
  <2>3. doubt' \subseteq Readers
    BY <1>4 DEF FollowTypeOK, AddInboxItems
  <2>4. fan[v].step = "push" /\ to \in SUBSET Viewers
    BY <1>4 DEF FollowTypeOK, AddInboxItems
  <2>5. /\ announced' \in [Videos -> Nat]
        /\ fan' \in [Videos -> [step : {"idle", "outbox", "list", "push"}, after : Nat, to : SUBSET Viewers]]
        /\ \A w \in Videos : fan'[w].step # "idle" => announced'[w] > 0
    <3>1. CASE Cardinality(to) < Batch
      <4>1. Handled(v)
        BY <1>4, <3>1 DEF AddInboxItems
      <4> QED BY <2>4, <4>1 DEF FollowTypeOK, Handled, InitFan
    <3>2. CASE ~(Cardinality(to) < Batch)
      <4> DEFINE m == CHOOSE u \in to : \A w \in to : w <= u
      <4>1. FanGoto(v, "list", m, {}) /\ UNCHANGED announced
        BY <1>4, <3>2 DEF AddInboxItems
      <4>2. m \in Nat
        <5>1. Cardinality(to) \in Nat
          BY <1>0, <2>4, FS_Subset, FS_CardinalityType
        <5>2. Cardinality(to) >= Batch
          BY <1>0, <3>2, <5>1
        <5>3. m \in to
          BY <2>4, <5>2, LastOfBatch
        <5> QED BY <1>0, <2>4, <5>3
      <4> HIDE DEF m
      <4> QED BY <2>4, <4>1, <4>2 DEF FollowTypeOK, FanGoto
    <3> QED BY <3>1, <3>2
  <2> QED BY <1>4, <2>2, <2>3, <2>5 DEF FollowTypeOK, AddInboxItems, FanOnly
<1> QED BY <1>1, <1>2, <1>3, <1>4


\* A reader's call changes the box and the keys of that reader.
LEMMA CallTypes ==
  ASSUME FollowTypeOK, NEW u \in Readers,
         \/ \E a \in Authors : SetBlock(u, a) \/ \E active \in BOOLEAN : SetFollow(u, a, active)
         \/ Invalidate(u) \/ ListAuthorRecentVideos(u) \/ Backfill(u) \/ CallFails(u)
  PROVE  FollowTypeOK'
<1>0. /\ InboxMax \in Nat /\ u \in Viewers /\ RecentMax \in Nat
      /\ Cardinality({}) = 0
  BY ConstantsAssumption, FS_EmptySet
<1>1. ASSUME NEW a \in Authors, NEW active \in BOOLEAN, SetFollow(u, a, active) PROVE FollowTypeOK'
  <2>1. load' \in [Readers -> LoadRecords \cup Answers \cup {NoLoad}]
    <3>1. CASE load[u] = NoLoad \/ load[u].step = "answer"
      BY <1>1, <3>1 DEF SetFollow, Overtaken, FollowTypeOK
    <3>2. CASE load[u] # NoLoad /\ load[u].step # "answer"
      <4>1. [load[u] EXCEPT !.raced = TRUE] \in LoadRecords
        BY <3>2, LoadRecord DEF LoadRecords
      <4>2. load' = [load EXCEPT ![u] = [load[u] EXCEPT !.raced = TRUE]]
        BY <1>1, <3>2 DEF SetFollow, Overtaken
      <4> QED BY <4>1, <4>2 DEF FollowTypeOK
    <3> QED BY <3>1, <3>2
  <2>2. call' \in [Readers -> CallRecords \cup {NoCall}]
    BY <1>1 DEF SetFollow, FollowTypeOK, CallRecords
  <2>3. follow' \subseteq Viewers \X Authors
    BY <1>0, <1>1 DEF SetFollow, FollowTypeOK
  <2> QED BY <1>1, <2>1, <2>2, <2>3 DEF FollowTypeOK, SetFollow, redis, content, worker
<1>2. ASSUME call[u] # NoCall PROVE call[u] \in CallRecords
  BY <1>2 DEF FollowTypeOK
<1>3. ASSUME call[u] # NoCall, NEW step \in {"recent", "backfill"}, NEW items \in SUBSET Videos,
             CallGoto(u, step, items)
      PROVE  call' \in [Readers -> CallRecords \cup {NoCall}]
  BY <1>2, <1>3 DEF CallGoto, FollowTypeOK, CallRecords
<1>4. CASE Invalidate(u)
  <2>1. call' \in [Readers -> CallRecords \cup {NoCall}]
    <3>1. CallGoto(u, "recent", {}) \/ call' = [call EXCEPT ![u] = NoCall]
      BY <1>4 DEF Invalidate
    <3> QED BY <1>3, <1>4, <3>1 DEF Invalidate, FollowTypeOK
  <2>2. /\ inbox' = [inbox EXCEPT ![u] = {}] /\ snap' = [snap EXCEPT ![u] = NotCached]
        /\ known' = [known EXCEPT ![u] = NotCached] /\ doubt' = doubt \ {u}
        /\ UNCHANGED <<follow, load>> /\ CallOnly
    BY <1>4 DEF Invalidate, DeleteIndex
  <2> QED BY <1>0, <2>1, <2>2 DEF FollowTypeOK, CallOnly, content, worker
<1>5. CASE ListAuthorRecentVideos(u)
  <2> DEFINE items == Newest({v \in Published : AuthorOf[v] = call[u].author}, RecentMax)
  <2>1. items \in SUBSET Videos
    BY DEF Newest, Published
  <2>2. /\ call[u] # NoCall /\ CallGoto(u, "backfill", items)
        /\ UNCHANGED <<follow, inbox, snap, known, load, doubt>> /\ CallOnly
    BY <1>5 DEF ListAuthorRecentVideos
  <2> HIDE DEF items
  <2> QED BY <1>3, <2>1, <2>2 DEF FollowTypeOK, CallOnly, content, worker
<1>6. CASE Backfill(u)
  <2> DEFINE items == call[u].items
  <2>1. /\ call[u] # NoCall /\ items \in SUBSET Videos
        /\ UNCHANGED <<follow, snap, known, load>> /\ CallOnly
    BY <1>2, <1>6 DEF Backfill, CallRecords
  <2>4. doubt' \subseteq Readers
    BY <1>6 DEF Backfill, FollowTypeOK
  <2>2. CASE items = {}
    BY <1>6, <2>1, <2>2, <2>4 DEF Backfill, FollowTypeOK, CallOnly, content, worker
  <2>3. CASE items # {}
    <3>1. PICK v \in Newest(items, 1) : /\ inbox' = [inbox EXCEPT ![u] = Pushed(@, v)]
                                        /\ CallGoto(u, "backfill", items \ {v})
      BY <1>6, <2>3 DEF Backfill
    <3>2. {v} \in SUBSET Videos /\ inbox[u] \in SUBSET Videos
      BY <1>0, <2>1 DEF Newest, FollowTypeOK
    <3>3. Pushed(inbox[u], v) \in SUBSET Videos /\ Cardinality(Pushed(inbox[u], v)) <= InboxMax
      <4>1. /\ Newest(inbox[u] \cup {v}, InboxMax) \in SUBSET (inbox[u] \cup {v})
            /\ Cardinality(Newest(inbox[u] \cup {v}, InboxMax)) <= InboxMax
        BY <1>0, <3>2, BoxCut
      <4> QED BY <3>2, <4>1 DEF Pushed
    <3>4. items \ {v} \in SUBSET Videos
      BY <2>1
    <3>5. call' \in [Readers -> CallRecords \cup {NoCall}]
      BY <1>3, <2>1, <3>1, <3>4
    <3> QED BY <1>0, <2>1, <2>4, <3>1, <3>3, <3>5 DEF FollowTypeOK, CallOnly, content, worker
  <2> QED BY <2>2, <2>3
<1>7. CASE CallFails(u)
  BY <1>7 DEF CallFails, FollowTypeOK, CallOnly, content, worker
<1>8. ASSUME NEW a \in Authors, SetBlock(u, a) PROVE FollowTypeOK'
  BY <1>8 DEF SetBlock, FollowTypeOK, redis, content, worker
<1> QED BY <1>1, <1>4, <1>5, <1>6, <1>7, <1>8

\* The next record of a load.
LEMMA LoadTypes ==
  ASSUME FollowTypeOK, NEW u \in Readers,
         \/ \E cursor \in Videos \cup {NoCursor} : Load(u, cursor)
         \/ GetSnapshot(u) \/ ListSnapshot(u) \/ GetFollowingAuthorIDs(u) \/ ListFollowingAuthorIDs(u)
         \/ ListFollowingPullAuthorIDs(u) \/ ListFollowingIndexPage(u) \/ ListFollowingPage(u)
         \/ RedisFails(u) \/ Return(u)
  PROVE  FollowTypeOK'
<1>0. /\ InboxMax \in Nat /\ PageLimit \in Nat /\ PageLimit + 1 \in Nat /\ u \in Viewers
  BY ConstantsAssumption
<1>1. ASSUME NEW next \in LoadRecords \cup Answers \cup {NoLoad}, LoadGoto(u, next), LoadOnly,
             UNCHANGED <<inbox, snap, known, doubt>>
      PROVE  FollowTypeOK'
  <2>1. load' \in [Readers -> LoadRecords \cup Answers \cup {NoLoad}]
    BY <1>1 DEF LoadGoto, FollowTypeOK
  <2> QED BY <1>1, <2>1 DEF LoadOnly, FollowTypeOK, worker
<1>2. Following(u) \in SUBSET Authors /\ big \in SUBSET Authors
  BY DEF Following, FollowTypeOK
<1>3. ASSUME NEW cursor \in Videos \cup {NoCursor}, Load(u, cursor) PROVE FollowTypeOK'
  <2> DEFINE next == [step |-> "snapshot", cursor |-> cursor, oldest |-> 0, items |-> {},
                      complete |-> FALSE, all |-> {}, pull |-> {}, raced |-> call[u] # NoCall]
  <2>1. next \in LoadRecords
    BY DEF LoadRecords
  <2>2. LoadGoto(u, next) /\ LoadOnly /\ UNCHANGED <<inbox, snap, known, doubt>>
    BY <1>3 DEF Load
  <2> HIDE DEF next
  <2> QED BY <1>1, <2>1, <2>2
<1>4. CASE GetSnapshot(u)
  <2>1. load[u] \in LoadRecords
    BY <1>4, LoadRecord DEF GetSnapshot, At
  <2> DEFINE next == IF snap[u] = NotCached THEN [load[u] EXCEPT !.step = "cold"]
                     ELSE AfterSnapshot(u, snap[u].oldest, snap[u].complete)
  <2>2. next \in LoadRecords
    <3>1. CASE snap[u] = NotCached
      BY <2>1, <3>1 DEF LoadRecords
    <3>2. CASE snap[u] # NotCached
      <4>1. snap[u].oldest \in Videos \cup {0}
        BY <3>2 DEF FollowTypeOK
      <4> QED BY <2>1, <3>2, <4>1 DEF LoadRecords, AfterSnapshot
    <3> QED BY <3>1, <3>2
  <2>3. LoadGoto(u, next) /\ LoadOnly /\ UNCHANGED <<inbox, snap, known, doubt>>
    BY <1>4 DEF GetSnapshot
  <2> HIDE DEF next
  <2> QED BY <1>1, <2>2, <2>3
<1>5. CASE ListSnapshot(u)
  <2>1. load[u] \in LoadRecords /\ load[u] # NoLoad /\ load[u].step # "answer"
    BY <1>5, LoadRecord DEF ListSnapshot, At
  <2> DEFINE items == SqlPage(u, NoCursor, InboxMax)
             complete == Cardinality(Feed(u)) <= InboxMax
             next == [load[u] EXCEPT !.step = "bootstrap", !.items = items, !.complete = complete]
  <2>2. items \in SUBSET Videos
    BY <1>0, <2>1, PagesOfVideos
  <2>3. LoadGoto(u, next) /\ LoadOnly /\ UNCHANGED <<inbox, snap, known, doubt>>
    BY <1>5 DEF ListSnapshot
  <2>5. complete \in BOOLEAN
    OBVIOUS
  <2> HIDE DEF items, complete
  <2>4. next \in LoadRecords
    BY <2>1, <2>2, <2>5 DEF LoadRecords
  <2> HIDE DEF next
  <2> QED BY <1>1, <2>3, <2>4
<1>6. CASE GetFollowingAuthorIDs(u)
  <2>1. load[u] \in LoadRecords
    BY <1>6, LoadRecord DEF GetFollowingAuthorIDs, At
  <2> DEFINE next == IF known[u] = NotCached THEN [load[u] EXCEPT !.step = "all"]
                     ELSE [load[u] EXCEPT !.step = "list", !.all = known[u].all, !.pull = known[u].pull]
  <2>2. next \in LoadRecords
    <3>1. CASE known[u] = NotCached
      BY <2>1, <3>1 DEF LoadRecords
    <3>2. CASE known[u] # NotCached
      <4>1. known[u].all \in SUBSET Authors /\ known[u].pull \in SUBSET Authors
        BY <3>2 DEF FollowTypeOK
      <4> QED BY <2>1, <3>2, <4>1 DEF LoadRecords
    <3> QED BY <3>1, <3>2
  <2>3. LoadGoto(u, next) /\ LoadOnly /\ UNCHANGED <<inbox, snap, known, doubt>>
    BY <1>6 DEF GetFollowingAuthorIDs
  <2> HIDE DEF next
  <2> QED BY <1>1, <2>2, <2>3
<1>7. CASE ListFollowingAuthorIDs(u)
  <2>1. load[u] \in LoadRecords
    BY <1>7, LoadRecord DEF ListFollowingAuthorIDs, At
  <2>2. [load[u] EXCEPT !.step = "pull", !.all = Following(u)] \in LoadRecords
    BY <1>2, <2>1 DEF LoadRecords
  <2> QED BY <1>1, <1>7, <2>2 DEF ListFollowingAuthorIDs
<1>8. CASE ListFollowingPullAuthorIDs(u)
  <2>1. load[u] \in LoadRecords
    BY <1>8, LoadRecord DEF ListFollowingPullAuthorIDs, At
  <2>2. [load[u] EXCEPT !.step = "set", !.pull = Following(u) \cap big] \in LoadRecords
    BY <1>2, <2>1 DEF LoadRecords
  <2> QED BY <1>1, <1>8, <2>2 DEF ListFollowingPullAuthorIDs
<1>9. ASSUME NEW found \in SUBSET Videos, NEW missed \in SUBSET Videos, NEW strange \in SUBSET Videos
      PROVE  Served(u, Answer(u, found), missed, strange) \in Answers
  <2> DEFINE page == Answer(u, found)
  <2>1. page.items \in SUBSET Videos /\ page.more \in BOOLEAN
    BY DEF Answer, Newest
  <2> HIDE DEF page
  <2>2. Served(u, page, missed, strange) \in Answers
    BY <2>1 DEF Served, Answers
  <2> QED BY <2>2 DEF page
<1>10. CASE ListFollowingIndexPage(u)
  <2>1. load[u] \in LoadRecords /\ load[u] # NoLoad /\ load[u].step # "answer"
    BY <1>10, LoadRecord DEF ListFollowingIndexPage, At
  <2> DEFINE page == Answer(u, IndexPage(u).items)
             strange == {v \in page.items : AuthorOf[v] \notin Following(u)}
             next == IF IndexPage(u).ok THEN Served(u, page, Missed(u, page), strange)
                     ELSE [load[u] EXCEPT !.step = "sql"]
  <2>2. IndexPage(u).items \in SUBSET Videos
    BY <2>1, PagesOfVideos
  <2>3. strange \in SUBSET Videos /\ Missed(u, page) \in SUBSET Videos
    BY <2>2 DEF Answer, Newest, Missed, Before, Feed, Published
  <2>4. LoadGoto(u, next) /\ LoadOnly /\ UNCHANGED <<inbox, snap, known, doubt>>
    BY <1>10 DEF ListFollowingIndexPage
  <2> HIDE DEF strange
  <2>5. next \in LoadRecords \cup Answers
    BY <1>9, <2>1, <2>2, <2>3 DEF LoadRecords
  <2> HIDE DEF next
  <2> QED BY <1>1, <2>4, <2>5
<1>11. CASE ListFollowingPage(u)
  <2>1. load[u] \in LoadRecords /\ load[u] # NoLoad /\ load[u].step # "answer"
    BY <1>11, LoadRecord DEF ListFollowingPage, At
  <2> DEFINE next == Served(u, Answer(u, SqlPage(u, load[u].cursor, PageLimit + 1)), {}, {})
  <2>2. next \in Answers
    BY <1>0, <1>9, <2>1, PagesOfVideos
  <2>3. LoadGoto(u, next) /\ LoadOnly /\ UNCHANGED <<inbox, snap, known, doubt>>
    BY <1>11 DEF ListFollowingPage
  <2> HIDE DEF next
  <2> QED BY <1>1, <2>2, <2>3
<1>12. CASE RedisFails(u)
  <2>1. load[u] \in LoadRecords
    BY <1>12, LoadRecord DEF RedisFails, At
  <2>2. [load[u] EXCEPT !.step = "sql"] \in LoadRecords
    BY <2>1 DEF LoadRecords
  <2> QED BY <1>1, <1>12, <2>2 DEF RedisFails
<1>13. CASE Return(u)
  BY <1>1, <1>13 DEF Return
<1> QED BY <1>3, <1>4, <1>5, <1>6, <1>7, <1>8, <1>10, <1>11, <1>12, <1>13

\* The steps of a load that write to Redis, and the keys that expire.
LEMMA KeyTypes ==
  ASSUME FollowTypeOK, NEW u \in Readers,
         BootstrapFollowingIndex(u) \/ SetFollowingAuthorIDs(u) \/ ExpireKnown(u) \/ ExpireSnapshot(u)
  PROVE  FollowTypeOK'
<1>0. InboxMax \in Nat /\ u \in Viewers
  BY ConstantsAssumption
<1>1. CASE BootstrapFollowingIndex(u)
  <2>1. load[u] \in LoadRecords
    BY <1>1, LoadRecord DEF BootstrapFollowingIndex, At
  <2> DEFINE items == load[u].items
             oldest == IF items = {} THEN 0 ELSE Oldest(items)
             box == Newest(inbox[u] \cup items, InboxMax)
             next == AfterSnapshot(u, oldest, load[u].complete)
  <2>2. items \in SUBSET Videos /\ inbox[u] \in SUBSET Videos
    BY <1>0, <2>1 DEF LoadRecords, FollowTypeOK
  <2>3. oldest \in Videos \cup {0}
    <3>1. items \in SUBSET Nat
      BY <2>2 DEF Videos
    <3>2. items # {} => Oldest(items) \in items
      BY <3>1, LeastMember DEF Oldest
    <3> QED BY <2>2, <3>2
  <2>4. box \in SUBSET Videos /\ Cardinality(box) <= InboxMax
    <3> HIDE DEF items
    <3>1. /\ Newest(inbox[u] \cup items, InboxMax) \in SUBSET (inbox[u] \cup items)
          /\ Cardinality(Newest(inbox[u] \cup items, InboxMax)) <= InboxMax
      BY <1>0, <2>2, BoxCut
    <3> QED BY <2>2, <3>1
  <2>5. /\ inbox' = [inbox EXCEPT ![u] = box]
        /\ snap' = [snap EXCEPT ![u] = [oldest |-> oldest, complete |-> load[u].complete]]
        /\ load' = [load EXCEPT ![u] = next]
        /\ doubt' = Doubtful(u) /\ LoadOnly /\ UNCHANGED known
    BY <1>1 DEF BootstrapFollowingIndex, LoadGoto
  <2> HIDE DEF oldest, box
  <2>6. next \in LoadRecords
    BY <2>1, <2>3 DEF LoadRecords, AfterSnapshot
  <2>7. [oldest |-> oldest, complete |-> load[u].complete] \in [oldest : Videos \cup {0}, complete : BOOLEAN]
    BY <2>1, <2>3 DEF LoadRecords
  <2>8. doubt' \subseteq Readers
    BY <2>5 DEF Doubtful, FollowTypeOK
  <2> HIDE DEF next
  <2>9. /\ load' \in [Readers -> LoadRecords \cup Answers \cup {NoLoad}]
        /\ snap' \in [Readers -> [oldest : Videos \cup {0}, complete : BOOLEAN] \cup {NotCached}]
        /\ inbox' \in [Viewers -> SUBSET Videos] /\ \A w \in Viewers : Cardinality(inbox'[w]) <= InboxMax
    BY <1>0, <2>4, <2>5, <2>6, <2>7 DEF FollowTypeOK
  <2> QED BY <2>5, <2>8, <2>9 DEF FollowTypeOK, LoadOnly, worker
<1>2. CASE SetFollowingAuthorIDs(u)
  <2>1. load[u] \in LoadRecords
    BY <1>2, LoadRecord DEF SetFollowingAuthorIDs, At
  <2>2. [load[u] EXCEPT !.step = "list"] \in LoadRecords
    BY <2>1 DEF LoadRecords
  <2>3. [all |-> load[u].all, pull |-> load[u].pull] \in [all : SUBSET Authors, pull : SUBSET Authors]
    BY <2>1 DEF LoadRecords
  <2>4. /\ load' \in [Readers -> LoadRecords \cup Answers \cup {NoLoad}]
        /\ known' \in [Readers -> [all : SUBSET Authors, pull : SUBSET Authors] \cup {NotCached}]
        /\ doubt' \subseteq Readers
    BY <1>2, <2>2, <2>3 DEF SetFollowingAuthorIDs, LoadGoto, Doubtful, FollowTypeOK
  <2> QED BY <1>2, <2>4 DEF SetFollowingAuthorIDs, FollowTypeOK, LoadOnly, worker
<1>3. CASE ExpireKnown(u)
  BY <1>3 DEF ExpireKnown, FollowTypeOK, LoadOnly, worker
<1>4. CASE ExpireSnapshot(u)
  BY <1>4 DEF ExpireSnapshot, FollowTypeOK, LoadOnly, worker
<1> QED BY <1>1, <1>2, <1>3, <1>4

----------------------------------------------------------------------------
(* FollowingFeed: the steps of others.                                     *)

\* Another reader acts.
Elsewhere(u) ==
  /\ UNCHANGED <<status, big, outbox, announced, fan>>
  /\ call'[u] = call[u] /\ load'[u] = load[u] /\ snap'[u] = snap[u] /\ known'[u] = known[u]
  /\ inbox'[u] = inbox[u] /\ (u \in doubt' <=> u \in doubt) /\ Following(u)' = Following(u)

LEMMA ElsewhereStands ==
  ASSUME NEW u \in Readers, ReaderStands(u), Elsewhere(u)
  PROVE  ReaderStands(u)'
<1>1. Feed(u)' = Feed(u)
  BY DEF Elsewhere, Feed, Published
<1>2. \A v \in Feed(u) : OnItsWay(u, v)' <=> OnItsWay(u, v)
  BY DEF Elsewhere, OnItsWay
<1>3. ASSUME NEW v \in Feed(u), Reaches(u, v, inbox[u])
      PROVE  Reaches(u, v, inbox[u])'
  BY <1>2, <1>3 DEF Elsewhere, Reaches, Holds
<1>4. ASSUME NEW v \in Feed(u), Reaches(u, v, inbox[u] \cup load[u].items)
      PROVE  Reaches(u, v, inbox[u] \cup load[u].items)'
  BY <1>2, <1>4 DEF Elsewhere, Reaches, Holds
<1>5. CallStands(u)'
  BY DEF Elsewhere, ReaderStands, CallStands
<1>6. FollowsStand(u)'
  BY DEF Elsewhere, ReaderStands, FollowsStand, Trusted, Unraced
<1>7. (Trusted(u)' => Trusted(u)) /\ (Indexed(u)' => Indexed(u))
      /\ (Unraced(u, {"bootstrap"})' => Unraced(u, {"bootstrap"}))
  BY DEF Elsewhere, Trusted, Indexed, Unraced
<1>8. IndexStands(u)'
  BY <1>1, <1>3, <1>4, <1>7 DEF ReaderStands, IndexStands, Covered
<1>9. AnswerStands(u)'
  BY DEF Elsewhere, ReaderStands, AnswerStands, At
<1> QED BY <1>5, <1>6, <1>8, <1>9 DEF ReaderStands

\* The index of u, and what a cold start would add to it, stays as good.
KeepsReach(u) ==
  \A Y \in SUBSET Videos, v \in Videos :
    v \in Feed(u)' /\ (v \in Feed(u) => Reaches(u, v, inbox[u] \cup Y)) => Reaches(u, v, inbox[u] \cup Y)'

\* The worker acts, or a video changes.
LEMMA WorldStands ==
  ASSUME FollowTypeOK, NEW u \in Readers, ReaderStands(u), UNCHANGED <<follow, snap, known, call, load>>,
         u \notin doubt' =>
           /\ u \notin doubt /\ UNCHANGED big
           /\ \A v \in inbox'[u] : v \in inbox[u] \/ AuthorOf[v] \in Following(u)
           /\ KeepsReach(u)
  PROVE  ReaderStands(u)'
<1>1. CallStands(u)'
  BY DEF ReaderStands, CallStands, Following
<1>2. AnswerStands(u)'
  BY DEF ReaderStands, AnswerStands, At
<1>3. (Trusted(u)' => Trusted(u) /\ u \notin doubt') /\ (Indexed(u)' => Indexed(u))
      /\ (Unraced(u, {"bootstrap"})' => Unraced(u, {"bootstrap"}))
  BY DEF Trusted, Indexed, Unraced
<1>4. ASSUME Trusted(u)' PROVE UNCHANGED Following(u) /\ UNCHANGED big
  BY <1>3, <1>4 DEF Following
<1>5. FollowsStand(u)'
  BY <1>3, <1>4 DEF ReaderStands, FollowsStand, Unraced
<1>6. ASSUME Trusted(u)', NEW Y \in SUBSET Videos, Covered(u, inbox[u] \cup Y)
      PROVE  Covered(u, inbox[u] \cup Y)'
  <2>1. KeepsReach(u)
    BY <1>3, <1>6
  <2>2. \A v \in Feed(u)' : v \in Videos
    BY DEF Feed, Published
  <2>3. \A v \in Feed(u)' : v \in Feed(u) => Reaches(u, v, inbox[u] \cup Y)
    BY <1>6 DEF Covered
  <2>4. \A v \in Feed(u)' : Reaches(u, v, inbox[u] \cup Y)'
    BY <2>1, <2>2, <2>3 DEF KeepsReach
  <2> QED BY <2>4 DEF Covered
<1>7. ASSUME Trusted(u)', Indexed(u)' PROVE Covered(u, inbox[u])'
  <2>1. Covered(u, inbox[u])
    BY <1>3, <1>7 DEF ReaderStands, IndexStands
  <2>2. Covered(u, inbox[u] \cup {})
    <3>1. inbox[u] \cup {} = inbox[u]
      OBVIOUS
    <3> QED BY <2>1, <3>1
  <2>3. Covered(u, inbox[u] \cup {})'
    BY <1>6, <1>7, <2>2
  <2>4. (inbox[u] \cup {})' = inbox'[u]
    OBVIOUS
  <2> QED BY <2>3, <2>4 DEF Covered
<1>8. ASSUME Trusted(u)', Unraced(u, {"bootstrap"})'
      PROVE  Covered(u, inbox[u] \cup load[u].items)'
  <2> DEFINE Y == load[u].items
  <2>1. Unraced(u, {"bootstrap"})
    BY <1>3, <1>8
  <2>2. Y \in SUBSET Videos
    <3>1. load[u] \in LoadRecords
      BY <2>1, LoadRecord DEF Unraced
    <3> QED BY <3>1 DEF LoadRecords
  <2>3. Covered(u, inbox[u] \cup Y)
    BY <1>3, <1>8, <2>1 DEF ReaderStands, IndexStands
  <2>4. load'[u].items = load[u].items
    OBVIOUS
  <2>5. PICK Z \in SUBSET Videos : Z = load[u].items
    BY <2>2
  <2>6. Covered(u, inbox[u] \cup Z)'
    BY <1>6, <1>8, <2>3, <2>5
  <2> QED BY <2>4, <2>5, <2>6 DEF Covered
<1>9. IndexStands(u)'
  BY <1>7, <1>8 DEF IndexStands
<1> QED BY <1>1, <1>2, <1>5, <1>9 DEF ReaderStands


LEMMA ReachKept ==
  ASSUME NEW u \in Readers, NEW v \in Videos, NEW Y \in SUBSET Videos,
         Reaches(u, v, inbox[u] \cup Y), UNCHANGED <<big, inbox, outbox>>,
         OnItsWay(u, v) => OnItsWay(u, v)'
  PROVE  Reaches(u, v, inbox[u] \cup Y)'
<1>1. CASE Holds(inbox[u] \cup Y, v, InboxMax)
  BY <1>1 DEF Reaches, Holds
<1>2. CASE AuthorOf[v] \in big /\ Holds(outbox[AuthorOf[v]], v, OutboxMax)
  BY <1>2 DEF Reaches, Holds
<1>3. CASE OnItsWay(u, v)
  BY <1>3 DEF Reaches
<1> QED BY <1>1, <1>2, <1>3 DEF Reaches

LEMMA PublicationStands ==
  ASSUME FollowTypeOK, NEW u \in Readers, ReaderStands(u), NEW x \in Videos, Publish(x) \/ Hide(x)
  PROVE  ReaderStands(u)'
<1>1. CASE Publish(x)
  <2>1. UNCHANGED <<follow, big, inbox, outbox, snap, known, fan, call, load, doubt>>
        /\ announced' = [announced EXCEPT ![x] = @ + 1]
        /\ status' = [status EXCEPT ![x] = "published"]
    BY <1>1 DEF Publish, redis, worker
  <2>2. OnItsWay(u, x)'
    <3>1. announced[x] \in Nat /\ announced'[x] = announced[x] + 1 /\ (fan[x].step # "idle" => announced[x] > 0)
      BY <2>1 DEF FollowTypeOK
    <3>2. fan'[x].step # "idle" => announced'[x] > 1
      BY <2>1, <3>1
    <3> QED BY <3>1, <3>2 DEF OnItsWay
  <2>3. ASSUME NEW Y \in SUBSET Videos, NEW v \in Videos, v \in Feed(u)',
               v \in Feed(u) => Reaches(u, v, inbox[u] \cup Y)
        PROVE  Reaches(u, v, inbox[u] \cup Y)'
    <3>1. CASE v = x
      BY <2>2, <3>1 DEF Reaches
    <3>2. CASE v # x
      <4>1. v \in Feed(u)
        BY <2>1, <2>3, <3>2 DEF Feed, Published, Following, FollowTypeOK
      <4>2. announced'[v] = announced[v] /\ fan'[v] = fan[v]
        BY <2>1, <3>2 DEF FollowTypeOK
      <4>3. OnItsWay(u, v) => OnItsWay(u, v)'
        BY <2>1, <4>2 DEF OnItsWay
      <4> QED BY <2>1, <2>3, <4>1, <4>3, ReachKept
    <3> QED BY <3>1, <3>2
  <2>4. KeepsReach(u)
    BY <2>3 DEF KeepsReach
  <2> QED BY <2>1, <2>4, WorldStands
<1>2. CASE Hide(x)
  <2>1. UNCHANGED <<follow, big, inbox, outbox, snap, known, fan, announced, call, load, doubt>>
        /\ status' = [status EXCEPT ![x] = "hidden"]
    BY <1>2 DEF Hide, redis, worker
  <2>2. ASSUME NEW v \in Feed(u)' PROVE v \in Feed(u)
    BY <2>1, <2>2 DEF Feed, Published, Following, FollowTypeOK
  <2>3. ASSUME NEW Y \in SUBSET Videos, NEW v \in Videos, v \in Feed(u)',
               v \in Feed(u) => Reaches(u, v, inbox[u] \cup Y)
        PROVE  Reaches(u, v, inbox[u] \cup Y)'
    <3>1. OnItsWay(u, v) => OnItsWay(u, v)'
      BY <2>1 DEF OnItsWay
    <3> QED BY <2>1, <2>2, <2>3, <3>1, ReachKept
  <2>4. KeepsReach(u)
    BY <2>3 DEF KeepsReach
  <2> QED BY <2>1, <2>4, WorldStands
<1> QED BY <1>1, <1>2

\* Steps of the fanout that fill no box leave on its way what is.
LEMMA FanoutStands ==
  ASSUME FollowTypeOK, NEW u \in Readers, ReaderStands(u), NEW x \in Videos,
         CountFollowers(x) \/ ListFollowers(x) \/ FanoutFails(x)
  PROVE  ReaderStands(u)'
<1>0. u \in Nat \ {0} /\ u \in Viewers /\ Batch \in Nat \ {0} /\ IsFiniteSet(Viewers) /\ Viewers \subseteq Nat
  BY ConstantsAssumption
<1>1. UNCHANGED <<status, follow, big, inbox, outbox, snap, known, call, load, doubt>>
  BY DEF CountFollowers, ListFollowers, FanoutFails, FanOnly
<1>2. ASSUME NEW v \in Videos, v # x PROVE announced'[v] = announced[v] /\ fan'[v] = fan[v]
  BY <1>2 DEF CountFollowers, ListFollowers, FanoutFails, FanGoto, Handled, FollowTypeOK
<1>3. fan[x] \in [step : {"idle", "outbox", "list", "push"}, after : Nat, to : SUBSET Viewers]
      /\ announced[x] \in Nat
  BY DEF FollowTypeOK
<1>4. ASSUME x \in Feed(u), OnItsWay(u, x) PROVE OnItsWay(u, x)'
  <2>1. CASE CountFollowers(x)
    <3>1. /\ fan'[x] = [step |-> IF AuthorOf[x] \in big THEN "outbox" ELSE "list", after |-> 0, to |-> {}]
          /\ announced'[x] = announced[x]
      BY <2>1 DEF CountFollowers, FanGoto, FollowTypeOK
    <3>2. /\ fan'[x].step = IF AuthorOf[x] \in big THEN "outbox" ELSE "list"
          /\ fan'[x].after = 0
      BY <3>1
    <3> QED BY <1>0, <1>1, <1>3, <1>4, <3>1, <3>2 DEF OnItsWay
  <2>2. CASE FanoutFails(x)
    <3>1. fan'[x].step = "idle" /\ announced'[x] = announced[x]
      BY <2>2 DEF FanoutFails, InitFan, FollowTypeOK
    <3> QED BY <1>3, <1>4, <3>1 DEF OnItsWay
  <2>3. CASE ListFollowers(x)
    <3> DEFINE rest == {w \in Viewers : <<w, AuthorOf[x]>> \in follow /\ w > fan[x].after}
               lower(w) == {y \in rest : y < w}
               to == NextFollowers(AuthorOf[x], fan[x].after)
    <3>1. to = {w \in rest : Cardinality(lower(w)) < Batch} /\ rest \in SUBSET Viewers
      BY DEF NextFollowers
    <3>2. <<u, AuthorOf[x]>> \in follow
      BY <1>4 DEF Feed, Following
    <3>3. /\ fan[x].step = "list"
          /\ to = {} => Handled(x)
          /\ to # {} => FanGoto(x, "push", fan[x].after, to) /\ UNCHANGED announced
      BY <2>3 DEF ListFollowers
    <3>4. CASE announced[x] > 1
      <4>1. CASE to = {}
        <5>1. Handled(x)
          BY <3>3, <4>1
        <5>2. announced'[x] = announced[x] - 1 /\ fan'[x].step = "idle"
          BY <5>1 DEF Handled, InitFan, FollowTypeOK
        <5> QED BY <1>3, <3>4, <5>2 DEF OnItsWay
      <4>2. CASE to # {}
        BY <3>3, <3>4, <4>2 DEF OnItsWay
      <4> QED BY <4>1, <4>2
    <3>5. CASE ~(announced[x] > 1)
      <4>1. announced[x] = 1 /\ fan[x].after < u
        BY <1>4, <3>3, <3>5 DEF OnItsWay
      <4>2. u \in rest
        BY <1>0, <1>3, <3>2, <4>1
      <4>3. IsFiniteSet(rest) /\ \A w \in Viewers : IsFiniteSet(lower(w)) /\ Cardinality(lower(w)) \in Nat
        <5>1. \A w \in Viewers : lower(w) \in SUBSET Viewers
          OBVIOUS
        <5> QED BY <1>0, <5>1, FS_Subset, FS_CardinalityType
      <4> HIDE DEF rest
      <4>4. to # {}
        <5>1. PICK m \in rest : \A w \in rest : m <= w
          BY <1>0, <3>1, <4>2, LeastMember
        <5>2. \A w \in rest : ~(w < m)
          BY <1>0, <3>1, <5>1
        <5>3. lower(m) = {}
          BY <5>2
        <5>4. Cardinality(lower(m)) = 0
          BY <5>3, FS_EmptySet
        <5> QED BY <1>0, <3>1, <5>1, <5>4
      <4>5. fan'[x].step = "push" /\ fan'[x].to = to /\ announced'[x] = 1
        BY <3>3, <4>1, <4>4 DEF FanGoto, FollowTypeOK
      <4>7. /\ \A w \in rest : w \in Nat /\ w \in Viewers
            /\ \A w \in to : w \in rest /\ Cardinality(lower(w)) < Batch
            /\ \A w \in rest \ to : Cardinality(lower(w)) >= Batch
        BY <1>0, <3>1, <4>3
      <4>8. \A w \in rest, y \in rest : y < w => y \in lower(w)
        OBVIOUS
      <4>9. \A w \in rest : \A y \in lower(w) : y \in rest /\ y < w
        OBVIOUS
      <4> HIDE DEF to, lower
      <4>6. ASSUME u \notin to PROVE Cardinality(to) >= Batch /\ \A w \in to : w < u
        <5>1. Cardinality(lower(u)) >= Batch
          BY <4>2, <4>6, <4>7
        <5>2. \A w \in to : w < u
          <6>1. ASSUME NEW w \in to, ~(w < u) PROVE FALSE
            <7>1. \A y \in rest : y < u => y < w
              BY <4>2, <4>7, <6>1
            <7>2. lower(u) \in SUBSET lower(w) /\ w \in Viewers
              BY <4>2, <4>7, <4>8, <4>9, <6>1, <7>1
            <7>3. Cardinality(lower(u)) <= Cardinality(lower(w))
              BY <4>3, <7>2, FS_Subset
            <7> QED BY <1>0, <4>3, <4>7, <5>1, <6>1, <7>2, <7>3
          <6> QED BY <6>1
        <5>3. Cardinality(to) >= Batch
          <6>1. rest \ to \in SUBSET Nat /\ rest \ to # {}
            BY <4>2, <4>6, <4>7
          <6>2. PICK m \in rest \ to : \A w \in rest \ to : m <= w
            BY <6>1, LeastMember
          <6>3. \A w \in rest : w < m => w \in to
            BY <4>7, <6>2
          <6>4. lower(m) \in SUBSET to /\ m \in Viewers /\ to \in SUBSET Viewers
            BY <4>7, <4>9, <6>2, <6>3
          <6>5. Cardinality(lower(m)) <= Cardinality(to) /\ Cardinality(to) \in Nat
            BY <1>0, <6>4, FS_Subset, FS_CardinalityType
          <6>6. Cardinality(lower(m)) >= Batch
            BY <4>7, <6>2
          <6> QED BY <1>0, <4>3, <6>4, <6>5, <6>6
        <5> QED BY <5>2, <5>3
      <4> QED BY <4>5, <4>6 DEF OnItsWay
    <3> QED BY <3>4, <3>5
  <2> QED BY <2>1, <2>2, <2>3
<1>5. Feed(u)' = Feed(u)
  BY <1>1 DEF Feed, Published, Following
<1>6. ASSUME NEW Y \in SUBSET Videos, NEW v \in Videos, v \in Feed(u)',
             v \in Feed(u) => Reaches(u, v, inbox[u] \cup Y)
      PROVE  Reaches(u, v, inbox[u] \cup Y)'
  <2>1. OnItsWay(u, v) => OnItsWay(u, v)'
    <3>1. CASE v = x
      BY <1>4, <1>5, <1>6, <3>1
    <3>2. CASE v # x
      BY <1>1, <1>2, <3>2 DEF OnItsWay
    <3> QED BY <3>1, <3>2
  <2> QED BY <1>1, <1>5, <1>6, <2>1, ReachKept
<1>7. KeepsReach(u)
  BY <1>6 DEF KeepsReach
<1> QED BY <1>1, <1>7, WorldStands

\* An invalidation that finds nothing in the index changes nothing.
LEMMA CleaningStands ==
  ASSUME FollowTypeOK, NEW u \in Readers, ReaderStands(u), NEW x \in Videos,
         CleanInboxes(x) \/ CleanOutboxes(x)
  PROVE  ReaderStands(u)'
<1>0. u \in Viewers /\ AuthorOf \in [Videos -> Authors]
  BY ConstantsAssumption
<1>1. UNCHANGED <<status, follow, big, fan, announced, snap, known, call, load>>
  BY DEF CleanInboxes, CleanOutboxes
<1>2. ASSUME u \notin doubt'
      PROVE  /\ u \notin doubt /\ inbox'[u] = inbox[u]
             /\ \A v \in Videos : outbox'[AuthorOf[v]] = outbox[AuthorOf[v]]
  <2>1. CASE CleanInboxes(x)
    BY <1>0, <1>2, <2>1 DEF CleanInboxes, FollowTypeOK
  <2>2. CASE CleanOutboxes(x)
    <3>1. x \notin outbox[AuthorOf[x]] /\ u \notin doubt /\ inbox' = inbox
      BY <1>2, <2>2 DEF CleanOutboxes
    <3>2. \A a \in Authors : x \notin outbox[a]
      BY <1>0, <3>1 DEF FollowTypeOK
    <3>3. \A a \in Authors : outbox'[a] = outbox[a]
      BY <2>2, <3>2 DEF CleanOutboxes, FollowTypeOK
    <3> QED BY <1>0, <3>1, <3>3
  <2> QED BY <2>1, <2>2
<1>3. Feed(u)' = Feed(u)
  BY <1>1 DEF Feed, Published, Following
<1>4. ASSUME u \notin doubt', NEW Y \in SUBSET Videos, NEW v \in Videos, v \in Feed(u)',
             v \in Feed(u) => Reaches(u, v, inbox[u] \cup Y)
      PROVE  Reaches(u, v, inbox[u] \cup Y)'
  <2>1. OnItsWay(u, v) => OnItsWay(u, v)'
    BY <1>1 DEF OnItsWay
  <2>2. Reaches(u, v, inbox[u] \cup Y)
    BY <1>3, <1>4
  <2>3. inbox'[u] = inbox[u] /\ outbox'[AuthorOf[v]] = outbox[AuthorOf[v]]
    BY <1>2, <1>4
  <2> QED BY <1>1, <2>1, <2>2, <2>3 DEF Reaches, Holds
<1>5. u \notin doubt' => KeepsReach(u)
  BY <1>4 DEF KeepsReach
<1> QED BY <1>1, <1>2, <1>5, WorldStands


\* What is added to a box is in it or has been cut.
LEMMA HoldsAdded ==
  ASSUME NEW A \in SUBSET Videos, NEW Y \in SUBSET Videos, NEW v \in Videos, NEW n \in Nat
  PROVE  Holds(Newest(A \cup {v}, n) \cup Y, v, n)
<1>1. A \cup {v} \in SUBSET Videos /\ {} \in SUBSET Videos
  OBVIOUS
<1>2. Holds((A \cup {v}) \cup Y, v, n)
  BY DEF Holds
<1>3. Holds(Newest((A \cup {v}) \cup {}, n) \cup Y, v, n)
  BY <1>1, <1>2, HoldsCut
<1>4. (A \cup {v}) \cup {} = A \cup {v}
  OBVIOUS
<1> QED BY <1>3, <1>4

\* An event that is handled again, or that others will follow, is on its way.
LEMMA OutboxStands ==
  ASSUME FollowTypeOK, NEW u \in Readers, ReaderStands(u), NEW x \in Videos, AddAuthorOutboxItem(x)
  PROVE  ReaderStands(u)'
<1> DEFINE a == AuthorOf[x]
           box == Newest(outbox[a] \cup {x}, OutboxMax)
<1>0. a \in Authors /\ OutboxMax \in Nat /\ AuthorOf \in [Videos -> Authors] /\ outbox[a] \in SUBSET Videos
      /\ \A v \in Videos : outbox[AuthorOf[v]] \in SUBSET Videos
  BY ConstantsAssumption DEF FollowTypeOK
<1>1. /\ UNCHANGED <<status, follow, big, inbox, snap, known, call, load, doubt>>
      /\ fan[x].step = "outbox" /\ Handled(x) /\ outbox' = [outbox EXCEPT ![a] = box]
  BY DEF AddAuthorOutboxItem, FanOnly
<1>2. Feed(u)' = Feed(u)
  BY <1>1 DEF Feed, Published, Following
<1>3. /\ fan'[x].step = "idle" /\ announced'[x] = announced[x] - 1 /\ announced[x] \in Nat
      /\ \A v \in Videos : v # x => fan'[v] = fan[v] /\ announced'[v] = announced[v]
  BY <1>1 DEF Handled, InitFan, FollowTypeOK
<1>4. ASSUME NEW v \in Videos, Holds(outbox[AuthorOf[v]], v, OutboxMax)
      PROVE  Holds(outbox[AuthorOf[v]], v, OutboxMax)'
  <2>1. CASE AuthorOf[v] # a
    <3>1. outbox'[AuthorOf[v]] = outbox[AuthorOf[v]]
      BY <1>0, <1>1, <2>1 DEF FollowTypeOK
    <3> QED BY <1>4, <3>1 DEF Holds
  <2>2. CASE AuthorOf[v] = a
    <3>1. outbox'[AuthorOf[v]] = box
      BY <1>0, <1>1, <2>2 DEF FollowTypeOK
    <3>2. Holds(outbox[a] \cup {}, v, OutboxMax)
      <4>1. outbox[a] \cup {} = outbox[a]
        OBVIOUS
      <4> QED BY <1>4, <2>2, <4>1
    <3>3. {x} \in SUBSET Videos /\ {} \in SUBSET Videos
      OBVIOUS
    <3>4. Holds(box \cup {}, v, OutboxMax)
      BY <1>0, <3>2, <3>3, HoldsCut
    <3>5. box \cup {} = box
      OBVIOUS
    <3> HIDE DEF box
    <3>6. Holds(box, v, OutboxMax)
      BY <3>4, <3>5
    <3> QED BY <3>1, <3>6 DEF Holds
  <2> QED BY <2>1, <2>2
<1>5. Holds(outbox[AuthorOf[x]], x, OutboxMax)'
  <2>1. {} \in SUBSET Videos
    OBVIOUS
  <2>2. Holds(box \cup {}, x, OutboxMax)
    BY <1>0, <2>1, HoldsAdded
  <2>3. box \cup {} = box /\ outbox'[AuthorOf[x]] = box
    BY <1>0, <1>1 DEF FollowTypeOK
  <2> HIDE DEF box
  <2>4. Holds(box, x, OutboxMax)
    BY <2>2, <2>3
  <2> QED BY <2>3, <2>4 DEF Holds
<1>6. ASSUME NEW Y \in SUBSET Videos, NEW v \in Videos, v \in Feed(u)',
             v \in Feed(u) => Reaches(u, v, inbox[u] \cup Y)
      PROVE  Reaches(u, v, inbox[u] \cup Y)'
  <2>1. Reaches(u, v, inbox[u] \cup Y)
    BY <1>2, <1>6
  <2>2. CASE Holds(inbox[u] \cup Y, v, InboxMax)
    BY <1>1, <2>2 DEF Reaches, Holds
  <2>3. CASE AuthorOf[v] \in big /\ Holds(outbox[AuthorOf[v]], v, OutboxMax)
    BY <1>1, <1>4, <2>3 DEF Reaches
  <2>4. CASE OnItsWay(u, v) /\ v = x
    <3>1. announced[x] > 1 \/ (announced[x] = 1 /\ AuthorOf[x] \in big)
      BY <1>1, <2>4 DEF OnItsWay
    <3>2. CASE announced[x] > 1
      BY <1>3, <2>4, <3>2 DEF Reaches, OnItsWay
    <3>3. CASE AuthorOf[x] \in big
      BY <1>1, <1>5, <2>4, <3>3 DEF Reaches
    <3> QED BY <3>1, <3>2, <3>3
  <2>5. CASE OnItsWay(u, v) /\ v # x
    BY <1>1, <1>3, <2>5 DEF Reaches, OnItsWay
  <2> QED BY <2>1, <2>2, <2>3, <2>4, <2>5 DEF Reaches
<1>7. KeepsReach(u)
  BY <1>6 DEF KeepsReach
<1> QED BY <1>1, <1>7, WorldStands

LEMMA PushStands ==
  ASSUME FollowTypeOK, NEW u \in Readers, ReaderStands(u), NEW x \in Videos, AddInboxItems(x)
  PROVE  ReaderStands(u)'
<1> DEFINE to == fan[x].to
           last == CHOOSE w \in to : \A y \in to : y <= w
<1>0. /\ InboxMax \in Nat /\ u \in Viewers /\ IsFiniteSet(Viewers) /\ Batch \in Nat /\ Viewers \subseteq Nat
      /\ inbox[u] \in SUBSET Videos /\ to \in SUBSET Viewers
  BY ConstantsAssumption DEF FollowTypeOK
<1>1. /\ UNCHANGED <<status, follow, big, outbox, snap, known, call, load>>
      /\ fan[x].step = "push"
      /\ inbox'[u] = IF u \in to THEN Newest(inbox[u] \cup {x}, InboxMax) ELSE inbox[u]
      /\ u \notin doubt' => u \notin doubt /\ (u \in to => <<u, AuthorOf[x]>> \in follow)
      /\ Cardinality(to) < Batch => Handled(x)
      /\ ~(Cardinality(to) < Batch) => FanGoto(x, "list", last, {}) /\ UNCHANGED announced
  BY <1>0 DEF AddInboxItems, FanOnly, Pushed
<1>2. Feed(u)' = Feed(u)
  BY <1>1 DEF Feed, Published, Following
<1>3. Cardinality(to) \in Nat
  BY <1>0, FS_Subset, FS_CardinalityType
<1>4. announced[x] \in Nat /\ \A v \in Videos : v # x => fan'[v] = fan[v] /\ announced'[v] = announced[v]
  BY <1>1 DEF Handled, FanGoto, FollowTypeOK
<1>5. ASSUME u \notin doubt', NEW v \in inbox'[u]
      PROVE  v \in inbox[u] \/ AuthorOf[v] \in Following(u)
  <2>1. CASE u \in to
    <3>1. AuthorOf[x] \in Following(u)
      BY <1>1, <1>5, <2>1 DEF Following, FollowTypeOK
    <3> QED BY <1>1, <1>5, <2>1, <3>1 DEF Newest
  <2>2. CASE u \notin to
    BY <1>1, <1>5, <2>2
  <2> QED BY <2>1, <2>2
<1>6. ASSUME NEW Y \in SUBSET Videos, NEW v \in Videos, Holds(inbox[u] \cup Y, v, InboxMax)
      PROVE  Holds(inbox[u] \cup Y, v, InboxMax)'
  <2>1. CASE u \in to
    <3>1. {x} \in SUBSET Videos
      OBVIOUS
    <3>2. Holds(Newest(inbox[u] \cup {x}, InboxMax) \cup Y, v, InboxMax)
      BY <1>0, <1>6, <3>1, HoldsCut
    <3>3. inbox'[u] = Newest(inbox[u] \cup {x}, InboxMax)
      BY <1>1, <2>1
    <3> QED BY <3>2, <3>3 DEF Holds
  <2>2. CASE u \notin to
    <3>1. inbox'[u] = inbox[u]
      BY <1>1, <2>2
    <3> QED BY <1>6, <3>1 DEF Holds
  <2> QED BY <2>1, <2>2
<1>7. ASSUME NEW Y \in SUBSET Videos, OnItsWay(u, x)
      PROVE  Reaches(u, x, inbox[u] \cup Y)'
  <2>1. CASE announced[x] > 1
    <3>1. CASE Cardinality(to) < Batch
      <4>1. fan'[x].step = "idle" /\ announced'[x] = announced[x] - 1
        BY <1>1, <3>1 DEF Handled, InitFan, FollowTypeOK
      <4> QED BY <1>4, <2>1, <4>1 DEF Reaches, OnItsWay
    <3>2. CASE ~(Cardinality(to) < Batch)
      BY <1>1, <2>1, <3>2 DEF Reaches, OnItsWay
    <3> QED BY <3>1, <3>2
  <2>2. CASE u \in to
    <3>1. Holds(Newest(inbox[u] \cup {x}, InboxMax) \cup Y, x, InboxMax)
      BY <1>0, HoldsAdded
    <3>2. inbox'[u] = Newest(inbox[u] \cup {x}, InboxMax)
      BY <1>1, <2>2
    <3>3. Holds(inbox[u] \cup Y, x, InboxMax)'
      BY <3>1, <3>2 DEF Holds
    <3> QED BY <3>3 DEF Reaches
  <2>3. CASE ~(announced[x] > 1) /\ u \notin to
    <3>1. announced[x] = 1 /\ Cardinality(to) >= Batch /\ \A w \in to : w < u
      BY <1>1, <1>7, <2>3 DEF OnItsWay
    <3>2. FanGoto(x, "list", last, {}) /\ announced'[x] = 1
      BY <1>0, <1>1, <1>3, <3>1
    <3>3. last \in to
      BY <1>0, <3>1, LastOfBatch
    <3>4. last < u
      BY <3>1, <3>3
    <3> HIDE DEF last
    <3>5. fan'[x].step = "list" /\ fan'[x].after = last
      BY <3>2 DEF FanGoto, FollowTypeOK
    <3> QED BY <3>2, <3>4, <3>5 DEF Reaches, OnItsWay
  <2> QED BY <2>1, <2>2, <2>3
<1>8. ASSUME NEW Y \in SUBSET Videos, NEW v \in Videos, v \in Feed(u)',
             v \in Feed(u) => Reaches(u, v, inbox[u] \cup Y)
      PROVE  Reaches(u, v, inbox[u] \cup Y)'
  <2>1. Reaches(u, v, inbox[u] \cup Y)
    BY <1>2, <1>8
  <2>2. CASE Holds(inbox[u] \cup Y, v, InboxMax)
    BY <1>6, <2>2 DEF Reaches
  <2>3. CASE AuthorOf[v] \in big /\ Holds(outbox[AuthorOf[v]], v, OutboxMax)
    BY <1>1, <2>3 DEF Reaches, Holds
  <2>4. CASE OnItsWay(u, v) /\ v = x
    BY <1>7, <2>4
  <2>5. CASE OnItsWay(u, v) /\ v # x
    BY <1>1, <1>4, <2>5 DEF Reaches, OnItsWay
  <2> QED BY <2>1, <2>2, <2>3, <2>4, <2>5 DEF Reaches
<1>9. KeepsReach(u)
  BY <1>8 DEF KeepsReach
<1> QED BY <1>1, <1>5, <1>9, WorldStands

\* An author crosses the threshold: every index is in doubt.
LEMMA CrossStands ==
  ASSUME FollowTypeOK, NEW u \in Readers, ReaderStands(u), NEW a \in Authors, Cross(a)
  PROVE  ReaderStands(u)'
<1>1. UNCHANGED <<follow, call, load, snap, known>> /\ doubt' = Readers
  BY DEF Cross, redis
<1> QED BY <1>1, WorldStands

----------------------------------------------------------------------------
(* FollowingFeed: the steps of a reader.                                   *)

RequestStep(u) ==
  \/ \E a \in Authors : SetBlock(u, a) \/ \E active \in BOOLEAN : SetFollow(u, a, active)
  \/ Invalidate(u) \/ ListAuthorRecentVideos(u) \/ Backfill(u) \/ CallFails(u)

LoadStep(u) ==
  \/ \E cursor \in Videos \cup {NoCursor} : Load(u, cursor)
  \/ GetSnapshot(u) \/ ListSnapshot(u) \/ BootstrapFollowingIndex(u)
  \/ GetFollowingAuthorIDs(u) \/ ListFollowingAuthorIDs(u)
  \/ ListFollowingPullAuthorIDs(u) \/ SetFollowingAuthorIDs(u)
  \/ ListFollowingIndexPage(u) \/ ListFollowingPage(u) \/ RedisFails(u) \/ Return(u)
  \/ ExpireKnown(u) \/ ExpireSnapshot(u)

LEMMA RequestElsewhere ==
  ASSUME FollowTypeOK, NEW u \in Readers, RequestStep(u), NEW w \in Readers, w # u
  PROVE  Elsewhere(w)
<1>0. w \in Viewers
  BY ConstantsAssumption
<1>1. ASSUME NEW a \in Authors, NEW active \in BOOLEAN, SetFollow(u, a, active) PROVE Elsewhere(w)
  <2>1. Following(w)' = Following(w)
    BY <1>1 DEF SetFollow, Following
  <2>2. load'[w] = load[w]
    BY <1>1 DEF SetFollow, Overtaken, FollowTypeOK
  <2> QED BY <1>0, <1>1, <2>1, <2>2 DEF SetFollow, Elsewhere, redis, content, worker, FollowTypeOK
<1>2. CASE Invalidate(u)
  BY <1>0, <1>2 DEF Invalidate, DeleteIndex, Elsewhere, CallOnly, CallGoto, content, worker, FollowTypeOK, Following
<1>3. CASE ListAuthorRecentVideos(u)
  BY <1>0, <1>3 DEF ListAuthorRecentVideos, Elsewhere, CallOnly, CallGoto, content, worker, FollowTypeOK, Following
<1>4. CASE Backfill(u)
  <2>1. UNCHANGED <<follow, snap, known, load>> /\ CallOnly /\ (w \in doubt' <=> w \in doubt)
    BY <1>4 DEF Backfill
  <2>2. inbox'[w] = inbox[w] /\ call'[w] = call[w]
    BY <1>0, <1>4 DEF Backfill, CallGoto, FollowTypeOK
  <2> QED BY <2>1, <2>2 DEF Elsewhere, CallOnly, content, worker, Following
<1>5. CASE CallFails(u)
  BY <1>0, <1>5 DEF CallFails, Elsewhere, CallOnly, content, worker, FollowTypeOK, Following
<1>6. ASSUME NEW a \in Authors, SetBlock(u, a) PROVE Elsewhere(w)
  <2>1. Following(w)' = Following(w)
    BY <1>6 DEF SetBlock, Following
  <2> QED BY <1>0, <1>6, <2>1 DEF SetBlock, Elsewhere, redis, content, worker
<1> QED BY <1>1, <1>2, <1>3, <1>4, <1>5, <1>6 DEF RequestStep

LEMMA LoadElsewhere ==
  ASSUME FollowTypeOK, NEW u \in Readers, LoadStep(u), NEW w \in Readers, w # u
  PROVE  Elsewhere(w)
<1>0. w \in Viewers
  BY ConstantsAssumption
<1>1. UNCHANGED <<status, follow, big, outbox, announced, fan, call>>
  BY DEF LoadStep, Load, GetSnapshot, ListSnapshot, BootstrapFollowingIndex, GetFollowingAuthorIDs,
         ListFollowingAuthorIDs, ListFollowingPullAuthorIDs, SetFollowingAuthorIDs, ListFollowingIndexPage,
         ListFollowingPage, RedisFails, Return, ExpireKnown, ExpireSnapshot, LoadOnly, worker
<1>2. load'[w] = load[w] /\ snap'[w] = snap[w] /\ known'[w] = known[w] /\ inbox'[w] = inbox[w]
      /\ (w \in doubt' <=> w \in doubt)
  <2>1. CASE BootstrapFollowingIndex(u)
    BY <1>0, <2>1 DEF BootstrapFollowingIndex, LoadGoto, Doubtful, FollowTypeOK
  <2>2. CASE SetFollowingAuthorIDs(u)
    BY <1>0, <2>2 DEF SetFollowingAuthorIDs, LoadGoto, Doubtful, FollowTypeOK
  <2>3. CASE ExpireKnown(u) \/ ExpireSnapshot(u)
    BY <1>0, <2>3 DEF ExpireKnown, ExpireSnapshot, FollowTypeOK
  <2>4. ASSUME NEW next, LoadGoto(u, next), UNCHANGED <<inbox, snap, known, doubt>>
        PROVE  load'[w] = load[w] /\ snap'[w] = snap[w] /\ known'[w] = known[w] /\ inbox'[w] = inbox[w]
               /\ (w \in doubt' <=> w \in doubt)
    BY <1>0, <2>4 DEF LoadGoto, FollowTypeOK
  <2>5. ASSUME ~BootstrapFollowingIndex(u), ~SetFollowingAuthorIDs(u), ~ExpireKnown(u), ~ExpireSnapshot(u)
        PROVE  \E next : LoadGoto(u, next) /\ UNCHANGED <<inbox, snap, known, doubt>>
    BY <2>5 DEF LoadStep, Load, GetSnapshot, ListSnapshot, GetFollowingAuthorIDs,
         ListFollowingAuthorIDs, ListFollowingPullAuthorIDs, ListFollowingIndexPage,
         ListFollowingPage, RedisFails, Return
  <2> QED BY <2>1, <2>2, <2>3, <2>4, <2>5
<1>3. Following(w)' = Following(w)
  BY <1>1 DEF Following
<1> QED BY <1>1, <1>2, <1>3 DEF Elsewhere

LoadSteps == {"bootstrap", "authors", "all", "pull", "set", "list"}

\* Without a load that is not raced, the index stands on what the boxes hold.
LEMMA IndexKept ==
  ASSUME FollowTypeOK, NEW u \in Readers, ReaderStands(u), Trusted(u)' => Trusted(u),
         UNCHANGED <<status, follow, big, outbox, announced, fan, snap>>,
         \A steps : steps \subseteq LoadSteps => ~Unraced(u, steps)',
         inbox' = inbox \/ \A v \in Videos : Holds(inbox[u], v, InboxMax) => Holds(inbox[u], v, InboxMax)'
  PROVE  IndexStands(u)'
<1>1. \A v \in Videos : Holds(inbox[u], v, InboxMax) => Holds(inbox[u], v, InboxMax)'
  BY DEF Holds
<1>2. ~Unraced(u, {"bootstrap"})' /\ ~Unraced(u, {"authors", "all", "pull", "set", "list"})'
  BY DEF LoadSteps
<1>3. ASSUME Trusted(u)', Indexed(u)' PROVE Covered(u, inbox[u])'
  <2>1. Indexed(u)
    BY <1>2, <1>3 DEF Indexed
  <2>2. Covered(u, inbox[u])
    BY <1>3, <2>1 DEF ReaderStands, IndexStands
  <2>3. Feed(u)' = Feed(u) /\ \A v \in Feed(u) : v \in Videos
    BY DEF Feed, Published, Following
  <2>4. ASSUME NEW v \in Feed(u) PROVE Reaches(u, v, inbox[u])'
    <3>1. Reaches(u, v, inbox[u])
      BY <2>2 DEF Covered
    <3>2. OnItsWay(u, v) => OnItsWay(u, v)'
      BY DEF OnItsWay
    <3>3. AuthorOf[v] \in big /\ Holds(outbox[AuthorOf[v]], v, OutboxMax)
            => AuthorOf[v] \in big' /\ Holds(outbox[AuthorOf[v]], v, OutboxMax)'
      BY DEF Holds
    <3> QED BY <1>1, <2>3, <3>1, <3>2, <3>3 DEF Reaches
  <2> QED BY <2>3, <2>4 DEF Covered
<1> QED BY <1>2, <1>3 DEF IndexStands

\* A request leaves the caches to be trusted only when they are deleted, or when
\* it had nothing left to write.
LEMMA RequestStands ==
  ASSUME FollowTypeOK, NEW u \in Readers, ReaderStands(u), RequestStep(u)
  PROVE  ReaderStands(u)'
<1>0. u \in Viewers /\ NoCall \notin CallRecords /\ InboxMax \in Nat
  BY ConstantsAssumption
<1>1. call[u] # NoCall => call[u] \in CallRecords
  BY DEF FollowTypeOK
<1>2. AnswerStands(u)'
  <2>1. ASSUME load' = load PROVE AnswerStands(u)'
    BY <2>1 DEF ReaderStands, AnswerStands, At
  <2>2. ASSUME load' = Overtaken(u) PROVE AnswerStands(u)'
    <3>1. CASE load[u] = NoLoad \/ load[u].step = "answer"
      BY <2>1, <2>2, <3>1 DEF Overtaken
    <3>2. CASE load[u] # NoLoad /\ load[u].step # "answer"
      <4>1. load[u] \in LoadRecords /\ load'[u] = [load[u] EXCEPT !.raced = TRUE]
        BY <2>2, <3>2, LoadRecord DEF Overtaken, FollowTypeOK
      <4>2. load'[u].step # "answer"
        BY <3>2, <4>1 DEF LoadRecords
      <4> QED BY <4>2 DEF AnswerStands, At
    <3> QED BY <3>1, <3>2
  <2> QED BY <2>1, <2>2 DEF RequestStep, SetFollow, SetBlock, Invalidate, ListAuthorRecentVideos, Backfill, CallFails
\* The steps after the first: no load runs that is not raced.
<1>3. ASSUME call[u] # NoCall, UNCHANGED <<load, follow>> PROVE \A steps : steps \subseteq LoadSteps => ~Unraced(u, steps)'
  BY <1>3 DEF ReaderStands, CallStands, Unraced, LoadSteps
<1>4. ASSUME NEW a \in Authors, NEW active \in BOOLEAN, SetFollow(u, a, active) PROVE ReaderStands(u)'
  <2>1. call'[u] = [step |-> "invalidate", author |-> a, active |-> active, items |-> {}]
    BY <1>4 DEF SetFollow, FollowTypeOK
  <2>2. call'[u] \in CallRecords /\ call'[u].step = "invalidate"
    BY <2>1 DEF CallRecords
  <2>3. ~Trusted(u)'
    BY <1>0, <2>2 DEF Trusted
  <2>4. load'[u] = NoLoad \/ load'[u].step = "answer" \/ load'[u].raced
    <3>1. CASE load[u] = NoLoad \/ load[u].step = "answer"
      BY <1>4, <3>1 DEF SetFollow, Overtaken
    <3>2. CASE load[u] # NoLoad /\ load[u].step # "answer"
      <4>1. load[u] \in LoadRecords /\ load'[u] = [load[u] EXCEPT !.raced = TRUE]
        BY <1>4, <3>2, LoadRecord DEF SetFollow, Overtaken, FollowTypeOK
      <4> QED BY <4>1 DEF LoadRecords
    <3> QED BY <3>1, <3>2
  <2>5. CallStands(u)'
    BY <2>2, <2>4 DEF CallStands
  <2> QED BY <1>2, <2>3, <2>5 DEF ReaderStands, FollowsStand, IndexStands
<1>5. CASE Invalidate(u)
  <2>1. /\ call[u] # NoCall /\ UNCHANGED <<load, follow>>
        /\ inbox'[u] = {} /\ snap'[u] = NotCached /\ known'[u] = NotCached
    BY <1>0, <1>5 DEF Invalidate, DeleteIndex, FollowTypeOK
  <2>2. CallStands(u)'
    <3>1. CASE call[u].active /\ call[u].author \notin big
      <4>1. call'[u] = [step |-> "recent", author |-> call[u].author, active |-> call[u].active, items |-> {}]
        BY <1>5, <3>1 DEF Invalidate, CallGoto, FollowTypeOK
      <4> QED BY <2>1, <4>1 DEF ReaderStands, CallStands
    <3>2. CASE ~(call[u].active /\ call[u].author \notin big)
      <4>1. call'[u] = NoCall
        BY <1>5, <3>2 DEF Invalidate, FollowTypeOK
      <4> QED BY <4>1 DEF CallStands
    <3> QED BY <3>1, <3>2
  <2>3. FollowsStand(u)'
    BY <1>3, <2>1 DEF FollowsStand, LoadSteps
  <2>4. IndexStands(u)'
    BY <1>3, <2>1 DEF IndexStands, Indexed, LoadSteps
  <2> QED BY <1>2, <2>2, <2>3, <2>4 DEF ReaderStands
<1>6. CASE ListAuthorRecentVideos(u)
  <2> DEFINE items == Newest({v \in Published : AuthorOf[v] = call[u].author}, RecentMax)
  <2>1. /\ call[u] # NoCall /\ call[u].step = "recent"
        /\ UNCHANGED <<status, follow, big, inbox, outbox, announced, fan, snap, known, load, doubt>>
        /\ call' = [call EXCEPT ![u] = [step |-> "backfill", author |-> call[u].author,
                                       active |-> call[u].active, items |-> items]]
    BY <1>6 DEF ListAuthorRecentVideos, CallGoto, CallOnly, content, worker
  <2>2. \A v \in items : AuthorOf[v] = call[u].author
    BY DEF Newest
  <2> HIDE DEF items
  <2>3. call'[u] = [step |-> "backfill", author |-> call[u].author, active |-> call[u].active, items |-> items]
    BY <2>1 DEF FollowTypeOK
  <2>4. Following(u)' = Following(u)
    BY <2>1 DEF Following
  <2>5. CallStands(u)'
    BY <2>1, <2>2, <2>3, <2>4 DEF ReaderStands, CallStands
  <2>6. Trusted(u)' => Trusted(u)
    BY <2>1 DEF Trusted
  <2>7. FollowsStand(u)'
    BY <1>3, <2>1, <2>4, <2>6 DEF ReaderStands, FollowsStand, LoadSteps
  <2>8. IndexStands(u)'
    BY <1>3, <2>1, <2>6, IndexKept DEF LoadSteps
  <2> QED BY <1>2, <2>5, <2>7, <2>8 DEF ReaderStands
<1>7. CASE Backfill(u)
  <2> DEFINE items == call[u].items
  <2>1. /\ call[u] # NoCall /\ call[u].step = "backfill"
        /\ UNCHANGED <<status, follow, big, outbox, announced, fan, snap, known, load>>
        /\ doubt' = IF items = {} \/ <<u, call[u].author>> \in follow THEN doubt ELSE doubt \cup {u}
    BY <1>7 DEF Backfill, CallOnly, content, worker
  <2>2. /\ Following(u)' = Following(u)
        /\ \A v \in items : AuthorOf[v] = call[u].author
    BY <2>1 DEF ReaderStands, CallStands, Following
  <2>3. Trusted(u)' => Trusted(u)
    BY <2>1 DEF Trusted
  <2>4. CASE items = {}
    <3>1. inbox' = inbox /\ call'[u] = NoCall
      BY <1>7, <2>4 DEF Backfill, FollowTypeOK
    <3>2. CallStands(u)'
      BY <3>1 DEF CallStands
    <3>3. FollowsStand(u)'
      BY <1>3, <2>1, <2>2, <2>3, <3>1 DEF ReaderStands, FollowsStand, LoadSteps
    <3>4. IndexStands(u)'
      BY <1>3, <2>1, <2>3, <3>1, IndexKept DEF LoadSteps
    <3> QED BY <1>2, <3>2, <3>3, <3>4 DEF ReaderStands
  <2>5. CASE items # {}
    <3>1. PICK v \in Newest(items, 1) : /\ inbox' = [inbox EXCEPT ![u] = Pushed(@, v)]
                                        /\ CallGoto(u, "backfill", items \ {v})
      BY <1>7, <2>5 DEF Backfill
    <3>2. /\ inbox'[u] = Newest(inbox[u] \cup {v}, InboxMax)
          /\ call'[u] = [step |-> "backfill", author |-> call[u].author,
                          active |-> call[u].active, items |-> items \ {v}]
      BY <1>0, <3>1 DEF Pushed, CallGoto, FollowTypeOK
    <3>3. v \in items /\ v \in Videos
      BY <1>1, <2>1, <3>1 DEF Newest, CallRecords
    <3>4. CallStands(u)'
      BY <2>1, <2>2, <3>2 DEF ReaderStands, CallStands
    <3>5. Trusted(u)' => \A w \in inbox'[u] : w \in inbox[u] \/ AuthorOf[w] \in Following(u)
      <4>1. Trusted(u)' => call[u].author \in Following(u)
        BY <1>1, <2>1, <2>5 DEF Trusted, Following, CallRecords
      <4> QED BY <2>2, <3>2, <3>3, <4>1 DEF Newest
    <3>6. FollowsStand(u)'
      BY <1>3, <2>1, <2>2, <2>3, <3>5 DEF ReaderStands, FollowsStand, LoadSteps
    <3>7. ASSUME NEW w \in Videos, Holds(inbox[u], w, InboxMax) PROVE Holds(inbox[u], w, InboxMax)'
      <4>1. {v} \in SUBSET Videos /\ {} \in SUBSET Videos /\ inbox[u] \in SUBSET Videos
        BY <1>0, <3>3 DEF FollowTypeOK
      <4>2. inbox[u] \cup {} = inbox[u]
        OBVIOUS
      <4>3. Holds(Newest(inbox[u] \cup {v}, InboxMax) \cup {}, w, InboxMax)
        BY <1>0, <3>7, <4>1, <4>2, HoldsCut
      <4>4. inbox'[u] \cup {} = inbox'[u]
        OBVIOUS
      <4>5. Holds(inbox'[u], w, InboxMax)
        BY <3>2, <4>3, <4>4
      <4> QED BY <4>5 DEF Holds
    <3>8. IndexStands(u)'
      BY <1>3, <2>1, <2>3, <3>7, IndexKept DEF LoadSteps
    <3> QED BY <1>2, <3>4, <3>6, <3>8 DEF ReaderStands
  <2> QED BY <2>4, <2>5
<1>8. CASE CallFails(u)
  <2>1. /\ call[u] # NoCall
        /\ UNCHANGED <<status, follow, big, inbox, outbox, announced, fan, snap, known, load>>
        /\ call'[u] = NoCall
        /\ doubt' = IF call[u].step = "invalidate" THEN doubt \cup {u} ELSE doubt
    BY <1>8 DEF CallFails, CallOnly, content, worker, FollowTypeOK
  <2>2. Trusted(u)' => Trusted(u)
    BY <2>1 DEF Trusted
  <2>3. CallStands(u)'
    BY <2>1 DEF CallStands
  <2>4. Following(u)' = Following(u)
    BY <2>1 DEF Following
  <2>5. FollowsStand(u)'
    BY <1>3, <2>1, <2>2, <2>4 DEF ReaderStands, FollowsStand, LoadSteps
  <2>6. IndexStands(u)'
    BY <1>3, <2>1, <2>2, IndexKept DEF LoadSteps
  <2> QED BY <1>2, <2>3, <2>5, <2>6 DEF ReaderStands
\* A block leaves the index in doubt.
<1>9. ASSUME NEW a \in Authors, SetBlock(u, a) PROVE ReaderStands(u)'
  <2>1. UNCHANGED <<call, load>> /\ u \in doubt'
    BY <1>9 DEF SetBlock
  <2>2. ~Trusted(u)'
    BY <2>1 DEF Trusted
  <2>3. CallStands(u)'
    BY <2>1 DEF ReaderStands, CallStands
  <2> QED BY <1>2, <2>2, <2>3 DEF ReaderStands, FollowsStand, IndexStands
<1> QED BY <1>4, <1>5, <1>6, <1>7, <1>8, <1>9 DEF RequestStep

\* A load goes on, on what it has read.
LEMMA LoadGoesOn ==
  ASSUME NEW u \in Readers, ReaderStands(u),
         UNCHANGED <<status, follow, big, outbox, announced, fan, call, inbox, snap, known, doubt>>,
         NEW next, load'[u] = next,
         next # NoLoad /\ next.step # "answer" /\ ~next.raced => call[u] = NoCall,
         Trusted(u) /\ next # NoLoad =>
           /\ next.step \in {"pull", "set", "list"} /\ ~next.raced => next.all = Following(u)
           /\ next.step \in {"set", "list"} /\ ~next.raced => next.pull = Following(u) \cap big
           /\ next.step = "bootstrap" /\ ~next.raced =>
                Covered(u, inbox[u] \cup next.items) /\ \A v \in next.items : AuthorOf[v] \in Following(u)
           /\ next.step \in {"authors", "all", "pull", "set", "list"} /\ ~next.raced => Indexed(u),
         next # NoLoad /\ next.step = "answer" /\ next.sure => next.missed = {} /\ next.strange = {}
  PROVE  ReaderStands(u)'
<1>1. /\ Feed(u)' = Feed(u) /\ Following(u)' = Following(u) /\ (Trusted(u)' <=> Trusted(u))
      /\ \A v \in Feed(u) : OnItsWay(u, v)' <=> OnItsWay(u, v)
  BY DEF Feed, Published, Following, Trusted, OnItsWay
<1>2. ASSUME Covered(u, inbox[u]) PROVE Covered(u, inbox[u])'
  BY <1>1, <1>2 DEF Covered, Reaches, Holds
<1>3. ASSUME Covered(u, inbox[u] \cup next.items) PROVE Covered(u, inbox[u] \cup load[u].items)'
  BY <1>1, <1>3 DEF Covered, Reaches, Holds
<1>4. CallStands(u)'
  BY <1>1 DEF ReaderStands, CallStands
<1>5. FollowsStand(u)'
  BY <1>1 DEF ReaderStands, FollowsStand, Unraced
<1>6. Trusted(u)' /\ Indexed(u)' => Indexed(u)
  BY <1>1 DEF Indexed, Unraced
<1>7. Trusted(u)' /\ Unraced(u, {"bootstrap"})' => Covered(u, inbox[u] \cup next.items)
  BY <1>1 DEF Unraced
<1>8. IndexStands(u)'
  BY <1>1, <1>2, <1>3, <1>6, <1>7 DEF ReaderStands, IndexStands
<1>9. AnswerStands(u)'
  BY DEF AnswerStands, At
<1> QED BY <1>4, <1>5, <1>8, <1>9 DEF ReaderStands

\* What a cold start reads covers the feed.
LEMMA ColdStartCovers ==
  ASSUME FollowTypeOK, NEW u \in Readers
  PROVE  /\ Covered(u, inbox[u] \cup SqlPage(u, NoCursor, InboxMax))
         /\ \A v \in SqlPage(u, NoCursor, InboxMax) : AuthorOf[v] \in Following(u)
<1> DEFINE feed == Before(Feed(u), NoCursor)
           items == Newest(feed, InboxMax)
<1>0. u \in Viewers /\ Count \in Nat /\ InboxMax \in Nat /\ inbox[u] \in SUBSET Videos
  BY ConstantsAssumption DEF FollowTypeOK
<1>1. feed = Feed(u) /\ Feed(u) \in SUBSET Videos
  BY <1>0 DEF Before, Feed, Published, NoCursor, Videos
<1>2. items \subseteq feed
  BY DEF Newest
<1>3. ASSUME NEW v \in Feed(u) PROVE Holds(items, v, InboxMax)
  <2>1. feed \in SUBSET Videos /\ v \in feed /\ v \in Videos /\ {} \in SUBSET Videos
    BY <1>1
  <2> HIDE DEF feed
  <2>2. Holds(feed \cup {}, v, InboxMax)
    BY <2>1 DEF Holds
  <2>3. Holds(Newest(feed \cup {}, InboxMax) \cup {}, v, InboxMax)
    BY <1>0, <2>1, <2>2, HoldsCut
  <2>4. feed \cup {} = feed /\ items \cup {} = items
    OBVIOUS
  <2> QED BY <2>3, <2>4
<1>4. items = SqlPage(u, NoCursor, InboxMax)
  BY DEF SqlPage
<1> HIDE DEF items, feed
<1>5. ASSUME NEW v \in Feed(u) PROVE Holds(inbox[u] \cup items, v, InboxMax)
  <2>1. items \in SUBSET Videos /\ inbox[u] \cup items \in SUBSET Videos /\ v \in Videos
    BY <1>0, <1>1, <1>2
  <2>2. items \subseteq inbox[u] \cup items
    OBVIOUS
  <2> QED BY <1>0, <1>3, <2>1, <2>2, HoldsMore
<1>6. Covered(u, inbox[u] \cup items)
  BY <1>5 DEF Covered, Reaches
<1>7. \A v \in items : AuthorOf[v] \in Following(u)
  BY <1>1, <1>2 DEF Feed
<1> QED BY <1>4, <1>6, <1>7

LEMMA LoadStands ==
  ASSUME FollowTypeOK, NEW u \in Readers, ReaderStands(u),
         \/ \E cursor \in Videos \cup {NoCursor} : Load(u, cursor)
         \/ GetSnapshot(u) \/ ListSnapshot(u) \/ GetFollowingAuthorIDs(u) \/ ListFollowingAuthorIDs(u)
         \/ ListFollowingPullAuthorIDs(u) \/ RedisFails(u) \/ Return(u)
  PROVE  ReaderStands(u)'
<1>1. UNCHANGED <<status, follow, big, outbox, announced, fan, call, inbox, snap, known, doubt>>
  BY DEF Load, GetSnapshot, ListSnapshot, GetFollowingAuthorIDs, ListFollowingAuthorIDs,
         ListFollowingPullAuthorIDs, RedisFails, Return, LoadOnly, worker
<1>2. ASSUME NEW next, LoadGoto(u, next) PROVE load'[u] = next
  BY <1>2 DEF LoadGoto, FollowTypeOK
\* The steps that only say where the load goes.
<1>3. ASSUME NEW next \in LoadRecords, load[u] \in LoadRecords, load[u] # NoLoad,
             LoadGoto(u, next), next.raced = load[u].raced,
             \/ next.step \in {"cold", "sql"}
             \/ next.step \in {"authors", "all"} /\ (~next.raced => Indexed(u))
      PROVE  ReaderStands(u)'
  <2>1. load'[u] = next
    BY <1>2, <1>3
  <2>2. next # NoLoad /\ next.step # "answer" /\ ~next.raced => call[u] = NoCall
    BY <1>3 DEF ReaderStands, CallStands, LoadRecords
  <2>3. next.step \notin {"pull", "set", "list", "bootstrap", "answer"}
    BY <1>3
  <2> QED BY <1>1, <1>3, <2>1, <2>2, <2>3, LoadGoesOn
<1>4. ASSUME NEW cursor \in Videos \cup {NoCursor}, Load(u, cursor) PROVE ReaderStands(u)'
  <2> DEFINE raced == call[u] # NoCall
             next == [step |-> "snapshot", cursor |-> cursor, oldest |-> 0, items |-> {},
                      complete |-> FALSE, all |-> {}, pull |-> {}, raced |-> raced]
  <2>1. load'[u] = next
    BY <1>2, <1>4 DEF Load
  <2>2. ~raced => call[u] = NoCall
    OBVIOUS
  <2> HIDE DEF raced
  <2>3. next.step = "snapshot" /\ next.raced = raced
    OBVIOUS
  <2> HIDE DEF next
  <2>4. ~next.raced => call[u] = NoCall
    BY <2>2, <2>3
  <2> QED BY <1>1, <2>1, <2>3, <2>4, LoadGoesOn
<1>5. CASE GetSnapshot(u)
  <2>1. load[u] \in LoadRecords /\ load[u] # NoLoad
    BY <1>5, LoadRecord DEF GetSnapshot, At
  <2>2. CASE snap[u] = NotCached
    <3> DEFINE next == [load[u] EXCEPT !.step = "cold"]
    <3>1. next \in LoadRecords /\ next.step = "cold" /\ next.raced = load[u].raced
      BY <2>1 DEF LoadRecords
    <3>2. LoadGoto(u, next)
      BY <1>5, <2>2 DEF GetSnapshot
    <3> HIDE DEF next
    <3> QED BY <1>3, <2>1, <3>1, <3>2
  <2>3. CASE snap[u] # NotCached
    <3> DEFINE next == AfterSnapshot(u, snap[u].oldest, snap[u].complete)
    <3>1. snap[u].oldest \in Videos \cup {0} /\ Indexed(u)
      BY <2>3 DEF FollowTypeOK, Indexed
    <3>2. next \in LoadRecords /\ next.step \in {"authors", "sql"} /\ next.raced = load[u].raced
      BY <2>1, <3>1 DEF LoadRecords, AfterSnapshot
    <3>3. LoadGoto(u, next)
      BY <1>5, <2>3 DEF GetSnapshot
    <3> HIDE DEF next
    <3> QED BY <1>3, <2>1, <3>1, <3>2, <3>3
  <2> QED BY <2>2, <2>3
<1>6. CASE ListSnapshot(u)
  <2>1. load[u] \in LoadRecords /\ load[u] # NoLoad /\ load[u].step = "cold"
    BY <1>6, LoadRecord DEF ListSnapshot, At
  <2> DEFINE items == SqlPage(u, NoCursor, InboxMax)
             complete == Cardinality(Feed(u)) <= InboxMax
             next == [load[u] EXCEPT !.step = "bootstrap", !.items = items, !.complete = complete]
  <2>2. load'[u] = next
    BY <1>2, <1>6 DEF ListSnapshot
  <2>3. Covered(u, inbox[u] \cup items) /\ \A v \in items : AuthorOf[v] \in Following(u)
    BY ColdStartCovers
  <2> HIDE DEF items, complete
  <2>4. next.step = "bootstrap" /\ next.items = items /\ next.raced = load[u].raced
    BY <2>1 DEF LoadRecords
  <2> HIDE DEF next
  <2>5. ~next.raced => call[u] = NoCall
    BY <2>1, <2>4 DEF ReaderStands, CallStands
  <2> QED BY <1>1, <2>2, <2>3, <2>4, <2>5, LoadGoesOn
<1>7. CASE GetFollowingAuthorIDs(u)
  <2>1. load[u] \in LoadRecords /\ load[u] # NoLoad /\ load[u].step = "authors"
    BY <1>7, LoadRecord DEF GetFollowingAuthorIDs, At
  <2>2. Trusted(u) /\ ~load[u].raced => Indexed(u)
    BY <2>1 DEF Indexed, Unraced
  <2>3. ~load[u].raced => call[u] = NoCall
    BY <2>1 DEF ReaderStands, CallStands
  <2>4. CASE known[u] = NotCached
    <3> DEFINE next == [load[u] EXCEPT !.step = "all"]
    <3>1. next.step = "all" /\ next.raced = load[u].raced
      BY <2>1 DEF LoadRecords
    <3>2. load'[u] = next
      BY <1>2, <1>7, <2>4 DEF GetFollowingAuthorIDs
    <3> HIDE DEF next
    <3> QED BY <1>1, <2>2, <2>3, <3>1, <3>2, LoadGoesOn
  <2>5. CASE known[u] # NotCached
    <3> DEFINE all == known[u].all
               pull == known[u].pull
               next == [load[u] EXCEPT !.step = "list", !.all = all, !.pull = pull]
    <3>1. Trusted(u) => all = Following(u) /\ pull = Following(u) \cap big
      BY <2>5 DEF ReaderStands, FollowsStand
    <3>2. load'[u] = next
      BY <1>2, <1>7, <2>5 DEF GetFollowingAuthorIDs
    <3> HIDE DEF all, pull
    <3>3. next.step = "list" /\ next.raced = load[u].raced /\ next.all = all /\ next.pull = pull
      BY <2>1 DEF LoadRecords
    <3> HIDE DEF next
    <3> QED BY <1>1, <2>2, <2>3, <3>1, <3>2, <3>3, LoadGoesOn
  <2> QED BY <2>4, <2>5
<1>8. CASE ListFollowingAuthorIDs(u)
  <2>1. load[u] \in LoadRecords /\ load[u] # NoLoad /\ load[u].step = "all"
    BY <1>8, LoadRecord DEF ListFollowingAuthorIDs, At
  <2>2. Trusted(u) /\ ~load[u].raced => Indexed(u)
    BY <2>1 DEF Indexed, Unraced
  <2>3. ~load[u].raced => call[u] = NoCall
    BY <2>1 DEF ReaderStands, CallStands
  <2> DEFINE next == [load[u] EXCEPT !.step = "pull", !.all = Following(u)]
  <2>4. next.step = "pull" /\ next.raced = load[u].raced /\ next.all = Following(u)
    BY <2>1 DEF LoadRecords
  <2>5. load'[u] = next
    BY <1>2, <1>8 DEF ListFollowingAuthorIDs
  <2> HIDE DEF next
  <2> QED BY <1>1, <2>2, <2>3, <2>4, <2>5, LoadGoesOn
<1>9. CASE ListFollowingPullAuthorIDs(u)
  <2>1. load[u] \in LoadRecords /\ load[u] # NoLoad /\ load[u].step = "pull"
    BY <1>9, LoadRecord DEF ListFollowingPullAuthorIDs, At
  <2>2. Trusted(u) /\ ~load[u].raced => Indexed(u) /\ load[u].all = Following(u)
    BY <2>1 DEF Indexed, Unraced, ReaderStands, FollowsStand
  <2>3. ~load[u].raced => call[u] = NoCall
    BY <2>1 DEF ReaderStands, CallStands
  <2> DEFINE next == [load[u] EXCEPT !.step = "set", !.pull = Following(u) \cap big]
  <2>4. next.step = "set" /\ next.raced = load[u].raced /\ next.all = load[u].all
        /\ next.pull = Following(u) \cap big
    BY <2>1 DEF LoadRecords
  <2>5. load'[u] = next
    BY <1>2, <1>9 DEF ListFollowingPullAuthorIDs
  <2> HIDE DEF next
  <2> QED BY <1>1, <2>2, <2>3, <2>4, <2>5, LoadGoesOn
<1>10. CASE RedisFails(u)
  <2>1. load[u] \in LoadRecords /\ load[u] # NoLoad
    BY <1>10, LoadRecord DEF RedisFails, At
  <2> DEFINE next == [load[u] EXCEPT !.step = "sql"]
  <2>2. next \in LoadRecords /\ next.step = "sql" /\ next.raced = load[u].raced
    BY <2>1 DEF LoadRecords
  <2>3. LoadGoto(u, next)
    BY <1>10 DEF RedisFails
  <2> HIDE DEF next
  <2> QED BY <1>3, <2>1, <2>2, <2>3
<1>11. CASE Return(u)
  <2>1. load'[u] = NoLoad
    BY <1>2, <1>11 DEF Return
  <2> QED BY <1>1, <2>1, LoadGoesOn
<1> QED BY <1>4, <1>5, <1>6, <1>7, <1>8, <1>9, <1>10, <1>11

\* The answers.
LEMMA AnswersStand ==
  ASSUME FollowTypeOK, NEW u \in Readers, ReaderStands(u), ListFollowingIndexPage(u) \/ ListFollowingPage(u)
  PROVE  ReaderStands(u)'
<1>0. UNCHANGED <<status, follow, big, outbox, announced, fan, call, inbox, snap, known, doubt>>
  BY DEF ListFollowingIndexPage, ListFollowingPage, LoadOnly, worker
<1>1. load[u] \in LoadRecords /\ load[u] # NoLoad /\ load[u].step # "answer"
  BY LoadRecord DEF ListFollowingIndexPage, ListFollowingPage, At
<1>2. ~load[u].raced => call[u] = NoCall
  BY <1>1 DEF ReaderStands, CallStands
<1>3. ASSUME NEW page, NEW missed, NEW strange, load'[u] = Served(u, page, missed, strange),
             u \notin doubt /\ ~load[u].raced => missed = {} /\ strange = {}
      PROVE  ReaderStands(u)'
  <2> DEFINE next == Served(u, page, missed, strange)
  <2>1. /\ next.step = "answer" /\ (next.sure <=> u \notin doubt)
        /\ next.missed = IF load[u].raced THEN {} ELSE missed
        /\ next.strange = IF load[u].raced THEN {} ELSE strange
    BY DEF Served
  <2>2. load'[u] = next
    BY <1>3
  <2> HIDE DEF next
  <2>3. next.sure => next.missed = {} /\ next.strange = {}
    BY <1>3, <2>1
  <2> QED BY <1>0, <2>1, <2>2, <2>3, LoadGoesOn
<1>4. CASE ListFollowingIndexPage(u)
  <2> DEFINE page == Answer(u, IndexPage(u).items)
             strange == {v \in page.items : AuthorOf[v] \notin Following(u)}
  <2>1. At(u, "list") /\ load[u].step = "list"
    BY <1>4 DEF ListFollowingIndexPage, At
  <2>2. CASE IndexPage(u).ok
    <3>1. load'[u] = Served(u, page, Missed(u, page), strange)
      BY <1>4, <2>2 DEF ListFollowingIndexPage, LoadGoto, FollowTypeOK
    <3>2. ASSUME u \notin doubt, ~load[u].raced
          PROVE  Missed(u, page) = {} /\ strange = {}
      <4>1. Trusted(u) /\ Unraced(u, {"set", "list"}) /\ Unraced(u, {"pull", "set", "list"}) /\ Indexed(u)
        BY <1>1, <1>2, <2>1, <3>2 DEF Trusted, Unraced, Indexed
      <4>2. /\ load[u].all = Following(u) /\ load[u].pull = Following(u) \cap big
            /\ Covered(u, inbox[u]) /\ \A v \in inbox[u] : AuthorOf[v] \in Following(u)
        BY <4>1 DEF ReaderStands, FollowsStand, IndexStands
      <4> QED BY <2>1, <2>2, <4>2, IndexSkipsNothing, IndexShowsFollowed
    <3> HIDE DEF page, strange
    <3> QED BY <1>3, <3>1, <3>2
  <2>3. CASE ~IndexPage(u).ok
    <3> DEFINE next == [load[u] EXCEPT !.step = "sql"]
    <3>1. load'[u] = next
      BY <1>4, <2>3 DEF ListFollowingIndexPage, LoadGoto, FollowTypeOK
    <3>2. next.step = "sql" /\ next.raced = load[u].raced
      BY <1>1 DEF LoadRecords
    <3> HIDE DEF next
    <3> QED BY <1>0, <1>2, <3>1, <3>2, LoadGoesOn
  <2> QED BY <2>2, <2>3
<1>5. CASE ListFollowingPage(u)
  <2> DEFINE page == Answer(u, SqlPage(u, load[u].cursor, PageLimit + 1))
  <2>1. load'[u] = Served(u, page, {}, {})
    BY <1>5 DEF ListFollowingPage, LoadGoto, FollowTypeOK
  <2> HIDE DEF page
  <2> QED BY <1>3, <2>1
<1> QED BY <1>4, <1>5

\* The steps that write keys, and keys that expire.
LEMMA KeysStand ==
  ASSUME FollowTypeOK, NEW u \in Readers, ReaderStands(u),
         BootstrapFollowingIndex(u) \/ SetFollowingAuthorIDs(u) \/ ExpireKnown(u) \/ ExpireSnapshot(u)
  PROVE  ReaderStands(u)'
<1>0. u \in Viewers /\ InboxMax \in Nat
  BY ConstantsAssumption
<1>1. UNCHANGED <<status, follow, big, outbox, announced, fan, call>>
  BY DEF BootstrapFollowingIndex, SetFollowingAuthorIDs, ExpireKnown, ExpireSnapshot, LoadOnly, worker
<1>2. /\ Feed(u)' = Feed(u) /\ Following(u)' = Following(u)
      /\ \A v \in Feed(u) : v \in Videos /\ (OnItsWay(u, v)' <=> OnItsWay(u, v))
  BY <1>1 DEF Feed, Published, Following, OnItsWay
<1>3. ASSUME inbox' = inbox, Covered(u, inbox[u]) PROVE Covered(u, inbox[u])'
  BY <1>1, <1>2, <1>3 DEF Covered, Reaches, Holds
<1>4. CASE BootstrapFollowingIndex(u)
  <2>1. load[u] \in LoadRecords /\ load[u] # NoLoad /\ load[u].step = "bootstrap"
    BY <1>4, LoadRecord DEF BootstrapFollowingIndex, At
  <2> DEFINE items == load[u].items
             oldest == IF items = {} THEN 0 ELSE Oldest(items)
             next == AfterSnapshot(u, oldest, load[u].complete)
  <2>2. /\ load'[u] = next /\ known' = known /\ doubt' = Doubtful(u)
        /\ inbox'[u] = Newest(inbox[u] \cup items, InboxMax)
    BY <1>0, <1>4 DEF BootstrapFollowingIndex, LoadGoto, FollowTypeOK
  <2>3. next.step \in {"authors", "sql"} /\ next.raced = load[u].raced
    BY <2>1 DEF AfterSnapshot, LoadRecords
  <2>4. items \in SUBSET Videos /\ inbox[u] \in SUBSET Videos
    BY <1>0, <2>1 DEF LoadRecords, FollowTypeOK
  <2> HIDE DEF next, items
  <2>5. CallStands(u)'
    BY <1>1, <1>2, <2>1, <2>2, <2>3 DEF ReaderStands, CallStands
  <2>6. AnswerStands(u)'
    BY <2>2, <2>3 DEF AnswerStands, At
  <2>7. Trusted(u)' => Trusted(u) /\ Unraced(u, {"bootstrap"})
    BY <1>1, <2>1, <2>2 DEF Trusted, Doubtful, Unraced
  <2>8. FollowsStand(u)'
    <3>1. Trusted(u)' => \A v \in inbox'[u] : AuthorOf[v] \in Following(u)
      BY <2>2, <2>7 DEF ReaderStands, FollowsStand, Newest, items
    <3>2. ~Unraced(u, {"pull", "set", "list"})' /\ ~Unraced(u, {"set", "list"})' /\ ~Unraced(u, {"bootstrap"})'
      BY <2>2, <2>3 DEF Unraced
    <3> QED BY <1>1, <1>2, <2>2, <2>7, <3>1, <3>2 DEF ReaderStands, FollowsStand
  <2>9. ASSUME Trusted(u)' PROVE Covered(u, inbox[u])'
    <3>1. Covered(u, inbox[u] \cup items)
      BY <2>7, <2>9 DEF ReaderStands, IndexStands, items
    <3>2. ASSUME NEW v \in Feed(u) PROVE Reaches(u, v, inbox[u])'
      <4>1. Reaches(u, v, inbox[u] \cup items)
        BY <3>1 DEF Covered
      <4>2. CASE Holds(inbox[u] \cup items, v, InboxMax)
        <5>1. /\ inbox[u] \cup items \in SUBSET Videos /\ {} \in SUBSET Videos /\ v \in Videos
              /\ (inbox[u] \cup items) \cup {} = inbox[u] \cup items
          BY <1>2, <2>4
        <5>2. Holds(Newest((inbox[u] \cup items) \cup {}, InboxMax) \cup {}, v, InboxMax)
          BY <1>0, <4>2, <5>1, HoldsCut
        <5>3. inbox'[u] \cup {} = inbox'[u]
          OBVIOUS
        <5>4. Holds(inbox'[u], v, InboxMax)
          BY <2>2, <5>1, <5>2, <5>3
        <5> QED BY <5>4 DEF Reaches, Holds
      <4>3. CASE AuthorOf[v] \in big /\ Holds(outbox[AuthorOf[v]], v, OutboxMax)
        BY <1>1, <4>3 DEF Reaches, Holds
      <4>4. CASE OnItsWay(u, v)
        BY <1>2, <4>4 DEF Reaches
      <4> QED BY <4>1, <4>2, <4>3, <4>4 DEF Reaches
    <3> QED BY <1>2, <3>2 DEF Covered
  <2>10. IndexStands(u)'
    <3>1. ~Unraced(u, {"bootstrap"})'
      BY <2>2, <2>3 DEF Unraced
    <3> QED BY <2>9, <3>1 DEF IndexStands
  <2> QED BY <2>5, <2>6, <2>8, <2>10 DEF ReaderStands
<1>5. CASE SetFollowingAuthorIDs(u)
  <2>1. load[u] \in LoadRecords /\ load[u] # NoLoad /\ load[u].step = "set"
    BY <1>5, LoadRecord DEF SetFollowingAuthorIDs, At
  <2> DEFINE all == load[u].all
             pull == load[u].pull
             cached == [all |-> all, pull |-> pull]
             next == [load[u] EXCEPT !.step = "list"]
  <2>2. /\ load'[u] = next /\ UNCHANGED <<inbox, snap>>
        /\ \/ known'[u] = cached /\ doubt' = Doubtful(u)
           \/ UNCHANGED <<known, doubt>>
    BY <1>5 DEF SetFollowingAuthorIDs, LoadGoto, FollowTypeOK
  <2>3. next.step = "list" /\ next.raced = load[u].raced /\ next.all = all /\ next.pull = pull
    BY <2>1 DEF LoadRecords
  <2>4. cached.all = all /\ cached.pull = pull
    OBVIOUS
  <2> HIDE DEF next, cached
  <2>5. CallStands(u)'
    BY <1>1, <1>2, <2>1, <2>2, <2>3 DEF ReaderStands, CallStands
  <2>6. AnswerStands(u)'
    BY <2>2, <2>3 DEF AnswerStands, At
  <2>7. Trusted(u)' => Trusted(u) /\ (~load[u].raced \/ UNCHANGED known)
    BY <1>1, <2>2 DEF Trusted, Doubtful
  <2>8. Trusted(u) /\ ~load[u].raced => all = Following(u) /\ pull = Following(u) \cap big
    BY <2>1 DEF ReaderStands, FollowsStand, Unraced
  <2>9. FollowsStand(u)'
    <3>1. ~Unraced(u, {"bootstrap"})'
      BY <2>2, <2>3 DEF Unraced
    <3>2. Trusted(u)' /\ ~next.raced => next.all = Following(u) /\ next.pull = Following(u) \cap big
      BY <2>3, <2>7, <2>8
    <3>3. Trusted(u)' /\ known'[u] # NotCached =>
            known'[u].all = Following(u) /\ known'[u].pull = Following(u) \cap big
      BY <2>2, <2>4, <2>7, <2>8 DEF ReaderStands, FollowsStand
    <3>4. Trusted(u)' => \A v \in inbox'[u] : AuthorOf[v] \in Following(u)
      BY <2>2, <2>7 DEF ReaderStands, FollowsStand
    <3> QED BY <1>1, <1>2, <2>2, <3>1, <3>2, <3>3, <3>4 DEF FollowsStand, Unraced
  <2>10. IndexStands(u)'
    <3>1. ~Unraced(u, {"bootstrap"})'
      BY <2>2, <2>3 DEF Unraced
    <3>2. Trusted(u)' /\ Indexed(u)' => Trusted(u) /\ Indexed(u)
      BY <2>1, <2>2, <2>3, <2>7 DEF Indexed, Unraced
    <3>3. Trusted(u)' /\ Indexed(u)' => Covered(u, inbox[u])'
      BY <1>3, <2>2, <3>2 DEF ReaderStands, IndexStands
    <3> QED BY <3>1, <3>3 DEF IndexStands
  <2> QED BY <2>5, <2>6, <2>9, <2>10 DEF ReaderStands
<1>6. CASE ExpireKnown(u) \/ ExpireSnapshot(u)
  <2>1. /\ UNCHANGED <<inbox, load, doubt>>
        /\ known'[u] \in {known[u], NotCached} /\ snap'[u] \in {snap[u], NotCached}
    BY <1>6 DEF ExpireKnown, ExpireSnapshot, FollowTypeOK
  <2>2. Trusted(u)' <=> Trusted(u)
    BY <1>1, <2>1 DEF Trusted
  <2>3. CallStands(u)' /\ AnswerStands(u)'
    BY <1>1, <1>2, <2>1 DEF ReaderStands, CallStands, AnswerStands, At
  <2>4. FollowsStand(u)'
    BY <1>1, <1>2, <2>1, <2>2 DEF ReaderStands, FollowsStand, Unraced
  <2>5. Indexed(u)' => Indexed(u)
    BY <2>1 DEF Indexed, Unraced
  <2>6. Unraced(u, {"bootstrap"})' => Unraced(u, {"bootstrap"})
    BY <2>1 DEF Unraced
  <2>7. ASSUME Covered(u, inbox[u] \cup load[u].items) PROVE Covered(u, inbox[u] \cup load[u].items)'
    BY <1>1, <1>2, <2>1, <2>7 DEF Covered, Reaches, Holds
  <2>8. IndexStands(u)'
    BY <1>3, <2>1, <2>2, <2>5, <2>6, <2>7 DEF ReaderStands, IndexStands
  <2> QED BY <2>3, <2>4, <2>8 DEF ReaderStands
<1> QED BY <1>4, <1>5, <1>6

----------------------------------------------------------------------------
(* FollowingFeed: the theorems.                                            *)

LEMMA FollowInitial == Init => FollowInv
<1> SUFFICES ASSUME Init PROVE FollowInv
  OBVIOUS
<1>1. FollowTypeOK
  BY FollowTypeInitial
<1>2. ASSUME NEW u \in Readers PROVE ReaderStands(u)
  <2>1. /\ call[u] = NoCall /\ load[u] = NoLoad /\ snap[u] = NotCached /\ known[u] = NotCached
        /\ inbox[u] = {}
    BY ConstantsAssumption DEF Init
  <2> QED BY <2>1 DEF ReaderStands, CallStands, FollowsStand, IndexStands, AnswerStands, Indexed, Unraced, At
<1> QED BY <1>1, <1>2 DEF FollowInv

LEMMA FollowStep == FollowInv /\ [Next]_vars => FollowInv'
<1> SUFFICES ASSUME FollowInv, [Next]_vars PROVE FollowInv'
  OBVIOUS
<1>0. FollowTypeOK /\ \A u \in Readers : ReaderStands(u)
  BY DEF FollowInv
<1>1. ASSUME NEW v \in Videos, Publish(v) \/ Hide(v) \/ CountFollowers(v) \/ ListFollowers(v) \/ FanoutFails(v)
      PROVE  FollowInv'
  <2>1. FollowTypeOK'
    BY <1>0, <1>1, ContentTypes
  <2>2. \A u \in Readers : ReaderStands(u)'
    BY <1>0, <1>1, PublicationStands, FanoutStands
  <2> QED BY <2>1, <2>2 DEF FollowInv
<1>2. ASSUME NEW v \in Videos, CleanInboxes(v) \/ CleanOutboxes(v) \/ AddAuthorOutboxItem(v) \/ AddInboxItems(v)
      PROVE  FollowInv'
  <2>1. FollowTypeOK'
    BY <1>0, <1>2, BoxTypes
  <2>2. \A u \in Readers : ReaderStands(u)'
    BY <1>0, <1>2, CleaningStands, OutboxStands, PushStands
  <2> QED BY <2>1, <2>2 DEF FollowInv
<1>3. ASSUME NEW a \in Authors, Cross(a) PROVE FollowInv'
  <2>1. FollowTypeOK'
    BY <1>3 DEF FollowInv, Cross, FollowTypeOK, redis, content, worker
  <2>2. \A u \in Readers : ReaderStands(u)'
    BY <1>0, <1>3, CrossStands
  <2> QED BY <2>1, <2>2 DEF FollowInv
<1>4. ASSUME NEW u \in Readers, RequestStep(u) PROVE FollowInv'
  <2>1. FollowTypeOK'
    BY <1>0, <1>4, CallTypes DEF RequestStep
  <2>2. ReaderStands(u)'
    BY <1>0, <1>4, RequestStands
  <2>3. ASSUME NEW w \in Readers, w # u PROVE ReaderStands(w)'
    BY <1>0, <1>4, <2>3, RequestElsewhere, ElsewhereStands
  <2> QED BY <2>1, <2>2, <2>3 DEF FollowInv
<1>5. ASSUME NEW u \in Readers, LoadStep(u) PROVE FollowInv'
  <2>1. FollowTypeOK'
    BY <1>0, <1>5, LoadTypes, KeyTypes DEF LoadStep
  <2>2. ReaderStands(u)'
    BY <1>0, <1>5, LoadStands, AnswersStand, KeysStand DEF LoadStep
  <2>3. ASSUME NEW w \in Readers, w # u PROVE ReaderStands(w)'
    BY <1>0, <1>5, <2>3, LoadElsewhere, ElsewhereStands
  <2> QED BY <2>1, <2>2, <2>3 DEF FollowInv
<1>6. CASE UNCHANGED vars
  <2>1. FollowTypeOK'
    BY <1>0, <1>6 DEF FollowTypeOK, vars, redis, content, worker
  <2>2. ASSUME NEW u \in Readers PROVE Elsewhere(u)
    BY <1>6 DEF Elsewhere, Following, vars
  <2> QED BY <1>0, <2>1, <2>2, ElsewhereStands DEF FollowInv
<1> QED BY <1>1, <1>2, <1>3, <1>4, <1>5, <1>6 DEF Next, RequestStep, LoadStep

\* Whatever is published, taken down, followed and cached, an index that is not
\* in doubt has every video of the feed, was cut above it, or will have it.
THEOREM FollowHolds == Spec => []FollowInv
BY FollowInitial, FollowStep, PTL DEF Spec

LEMMA FollowMeans == FollowInv => PagesSkipNothing /\ PagesShowFollowed
BY DEF FollowInv, ReaderStands, AnswerStands, PagesSkipNothing, PagesShowFollowed

\* A page served from an index that is not in doubt leaves out no published
\* video of a followed author above its last item (ListFollowingIndexPage).  A
\* block that ended a follow leaves the index in doubt, for nobody deletes it.
THEOREM NothingSkipped == Spec => []PagesSkipNothing
BY FollowHolds, FollowMeans, PTL

\* And it shows only videos of authors who are followed when it is served.
THEOREM FollowedShown == Spec => []PagesShowFollowed
BY FollowHolds, FollowMeans, PTL

----------------------------------------------------------------------------
(* TimelineWalk: a walk, whatever is published, taken down and cached.     *)

WalkedPage == [items : SUBSET Ids, more : BOOLEAN, rows : SUBSET Ids]

LEMMA LastOfItems ==
  ASSUME NEW items \in SUBSET Ids, items # {}
  PROVE  Last(items) \in items /\ \A v \in items : Last(items) <= v
<1>1. items \in SUBSET Nat
  BY DEF Ids
<1> QED BY <1>1, LeastMember DEF Last

LEMMA WalkInitial == WalkInit => WalkInv
<1> SUFFICES ASSUME WalkInit PROVE WalkInv
  OBVIOUS
<1>0. WalkCount \in Nat /\ Top \in Nat /\ \A v \in Ids : v < Top
  BY WalkAssumption DEF Top, Ids
<1>1. WalkTypeOK
  BY <1>0 DEF WalkInit, WalkTypeOK, NoWalk, Top
<1>2. WalkStands
  BY <1>0 DEF WalkInit, WalkStands, NoWalk, Ids
<1>3. \A c \in 1 .. Top : pages[c] = Uncached
  BY DEF WalkInit
<1> QED BY <1>1, <1>2, <1>3 DEF WalkInv

\* A page that MySQL has given is complete.
LEMMA LoadedIsComplete ==
  ASSUME WalkInv, NEW cursor \in 1 .. Top
  PROVE  LoadedPage(cursor) \in WalkedPage /\ PageComplete(LoadedPage(cursor), cursor)
<1> DEFINE below == Below(cursor)
           items == Newest(below, WalkLimit)
           page  == LoadedPage(cursor)
<1>0. /\ WalkCount \in Nat /\ WalkLimit \in Nat /\ WalkLimit > 0
      /\ below \in SUBSET (1 .. WalkCount) /\ Rows \in SUBSET Ids
  BY WalkAssumption DEF Below, Rows, Ids
<1>1. /\ items \subseteq below /\ IsFiniteSet(below) /\ Cardinality(below) \in Nat
      /\ Cardinality(below) <= WalkLimit => items = below
      /\ \A v \in below \ items : \A w \in items : v < w
      /\ below # {} /\ WalkLimit > 0 => items # {}
  BY <1>0, NewestTaken
<1>2. /\ page.items = items /\ (page.more <=> Cardinality(below) > WalkLimit) /\ page.rows = Rows
      /\ page = [items |-> items, more |-> Cardinality(below) > WalkLimit, rows |-> Rows]
  BY DEF LoadedPage, Newest
<1>3. below = {v \in Rows : v < cursor}
  BY DEF Below
<1> HIDE DEF page, items, below
<1>4. page \in WalkedPage
  BY <1>0, <1>1, <1>2, <1>3 DEF WalkedPage
<1>5. \A v \in page.items : v < cursor
  BY <1>1, <1>2, <1>3
<1>6. page.more => page.items # {}
  <2>1. below = {} => Cardinality(below) = 0
    BY FS_EmptySet
  <2> QED BY <1>0, <1>1, <1>2, <2>1
<1>7. \A v \in page.rows : v < cursor => v \in page.items \/ (page.more /\ \A w \in page.items : v < w)
  BY <1>0, <1>1, <1>2, <1>3
<1>8. page.rows \subseteq Rows
  BY <1>2
<1>9. PageComplete(page, cursor)
  BY <1>5, <1>6, <1>7, <1>8 DEF PageComplete
<1> QED BY <1>4, <1>9 DEF page

\* What a complete page adds to a walk.
LEMMA ShowStands ==
  ASSUME WalkInv, walk.step = "walk", NEW page \in WalkedPage, PageComplete(page, walk.cursor), Show(page)
  PROVE  /\ WalkStands'
         /\ walk' \in [cursor : 1 .. Top, shown : SUBSET Ids, stayed : SUBSET Ids, repeated : BOOLEAN,
                       step : {"walk", "end"}]
<1> DEFINE seen == page.items \cap Rows
<1>0. /\ WalkCount \in Nat /\ walk.cursor \in 1 .. Top /\ walk.shown \in SUBSET Ids
      /\ walk.stayed \in SUBSET Ids /\ walk.repeated \in BOOLEAN /\ ~walk.repeated
      /\ \A v \in walk.shown : v >= walk.cursor
      /\ \A v \in walk.stayed : v >= walk.cursor => v \in walk.shown
      /\ page.items \in SUBSET Ids /\ page.rows \in SUBSET Ids /\ page.more \in BOOLEAN
  BY WalkAssumption DEF WalkInv, WalkTypeOK, WalkStands, WalkedPage
<1>1. /\ walk'.cursor = NextCursor(page) /\ walk'.shown = walk.shown \cup seen
      /\ walk'.stayed = walk.stayed \cap page.rows
      /\ walk'.repeated = (walk.repeated \/ seen \cap walk.shown # {})
      /\ walk'.step = (IF page.more THEN "walk" ELSE "end")
      /\ walk' = [cursor |-> NextCursor(page), shown |-> walk.shown \cup seen,
                  stayed |-> walk.stayed \cap page.rows,
                  repeated |-> walk.repeated \/ seen \cap walk.shown # {},
                  step |-> IF page.more THEN "walk" ELSE "end"]
  BY DEF Show
<1>2. page.items # {} => /\ NextCursor(page) \in page.items
                         /\ \A v \in page.items : NextCursor(page) <= v
  BY <1>0, LastOfItems DEF NextCursor
<1>3. NextCursor(page) \in 1 .. Top
  BY <1>0, <1>2 DEF NextCursor, Top, Ids
<1>4. \A v \in Ids : v \in Int
  BY DEF Ids
<1>5. seen \cap walk.shown = {}
  BY <1>0, <1>4 DEF PageComplete
<1>6. ASSUME page.more
      PROVE  /\ \A v \in walk'.shown : v >= NextCursor(page)
             /\ \A v \in walk'.stayed : v >= NextCursor(page) => v \in walk'.shown
  <2>1. /\ NextCursor(page) \in page.items /\ NextCursor(page) \in Int /\ NextCursor(page) < walk.cursor
        /\ walk.cursor \in Int
    BY <1>0, <1>2, <1>4, <1>6 DEF PageComplete
  <2>2. \A v \in walk'.shown : v >= NextCursor(page)
    BY <1>0, <1>1, <1>2, <1>4, <2>1
  <2>3. ASSUME NEW v \in walk'.stayed, v >= NextCursor(page) PROVE v \in walk'.shown
    <3>1. v \in Int /\ v \in walk.stayed /\ v \in page.rows /\ v \in Rows
      BY <1>0, <1>1, <1>4 DEF PageComplete
    <3>2. CASE v >= walk.cursor
      BY <1>0, <1>1, <3>1, <3>2
    <3>3. CASE v < walk.cursor
      <4>1. v \in page.items \/ v < NextCursor(page)
        BY <2>1, <3>1, <3>3 DEF PageComplete
      <4> QED BY <1>1, <2>1, <2>3, <3>1, <4>1
    <3> QED BY <2>1, <3>1, <3>2, <3>3
  <2> QED BY <2>2, <2>3
<1>7. ASSUME ~page.more PROVE walk'.stayed \subseteq walk'.shown
  <2> SUFFICES ASSUME NEW v \in walk'.stayed PROVE v \in walk'.shown
    OBVIOUS
  <2>1. v \in Int /\ v \in walk.stayed /\ v \in page.rows /\ v \in Rows /\ walk.cursor \in Int
    BY <1>0, <1>1, <1>4 DEF PageComplete
  <2>2. CASE v >= walk.cursor
    BY <1>0, <1>1, <2>1, <2>2
  <2>3. CASE v < walk.cursor
    BY <1>1, <1>7, <2>1, <2>3 DEF PageComplete
  <2> QED BY <2>1, <2>2, <2>3
<1>8. WalkStands'
  BY <1>0, <1>1, <1>5, <1>6, <1>7 DEF WalkStands
<1>9. walk' \in [cursor : 1 .. Top, shown : SUBSET Ids, stayed : SUBSET Ids, repeated : BOOLEAN,
                 step : {"walk", "end"}]
  <2>1. seen \subseteq Ids
    BY <1>0
  <2> HIDE DEF seen
  <2> QED BY <1>0, <1>1, <1>3, <2>1
<1> QED BY <1>8, <1>9

LEMMA InvRead ==
  ASSUME WalkInv, ReadCached \/ ReadLoaded
  PROVE  WalkInv'
<1>0. WalkTypeOK /\ row' = row /\ Rows' = Rows /\ walk.cursor \in 1 .. Top /\ walk.step = "walk"
      /\ \A c \in 1 .. Top : pages[c] # Uncached => PageComplete(pages[c], c)
  BY DEF WalkInv, WalkTypeOK, ReadCached, ReadLoaded, Rows
<1>1. PICK page \in WalkedPage : /\ PageComplete(page, walk.cursor) /\ Show(page)
                           /\ pages' \in {pages, [pages EXCEPT ![walk.cursor] = page]}
  <2>1. CASE ReadCached
    <3>1. pages[walk.cursor] \in WalkedPage /\ PageComplete(pages[walk.cursor], walk.cursor)
      BY <1>0, <2>1 DEF ReadCached, WalkTypeOK, WalkedPage
    <3> QED BY <2>1, <3>1 DEF ReadCached
  <2>2. CASE ReadLoaded
    BY <1>0, <2>2, LoadedIsComplete DEF ReadLoaded
  <2> QED BY <2>1, <2>2
<1>2. /\ WalkStands'
      /\ walk' \in [cursor : 1 .. Top, shown : SUBSET Ids, stayed : SUBSET Ids, repeated : BOOLEAN,
                    step : {"walk", "end"}]
  BY <1>0, <1>1, ShowStands
<1>3. pages' \in [1 .. Top -> {Uncached} \cup WalkedPage]
  BY <1>0, <1>1 DEF WalkTypeOK, WalkedPage
<1>4. WalkTypeOK'
  BY <1>0, <1>2, <1>3 DEF WalkTypeOK, WalkedPage
<1>5. ASSUME NEW c \in 1 .. Top, pages'[c] # Uncached PROVE PageComplete(pages[c], c)'
  <2>1. pages'[c] = pages[c] \/ (c = walk.cursor /\ pages'[c] = page)
    BY <1>0, <1>1 DEF WalkTypeOK
  <2> QED BY <1>0, <1>1, <1>5, <2>1 DEF PageComplete
<1> QED BY <1>2, <1>4, <1>5 DEF WalkInv

\* A row that is taken down no longer counts, in the pages or in the walk.
LEMMA InvHideRow ==
  ASSUME WalkInv, NEW v \in Ids, HideRow(v)
  PROVE  WalkInv'
<1>0. /\ WalkTypeOK /\ WalkStands /\ row \in [Ids -> {"new", "published", "hidden"}]
      /\ row' = [row EXCEPT ![v] = "hidden"]
      /\ pages' = [c \in 1 .. Top |-> IF pages[c] = Uncached THEN Uncached
                                      ELSE [pages[c] EXCEPT !.rows = @ \ {v}]]
      /\ walk' = [walk EXCEPT !.stayed = @ \ {v}]
  BY DEF WalkInv, WalkTypeOK, HideRow
<1>1. row' \in [Ids -> {"new", "published", "hidden"}] /\ Rows' = Rows \ {v}
  BY <1>0 DEF Rows
<1>2. ASSUME NEW c \in 1 .. Top
      PROVE  \/ pages[c] = Uncached /\ pages'[c] = Uncached
             \/ /\ pages[c] # Uncached /\ pages[c] \in WalkedPage /\ pages'[c] \in WalkedPage
                /\ pages'[c].items = pages[c].items /\ pages'[c].more = pages[c].more
                /\ pages'[c].rows = pages[c].rows \ {v}
  <2>1. CASE pages[c] # Uncached
    <3>1. pages[c] \in WalkedPage /\ pages'[c] = [pages[c] EXCEPT !.rows = @ \ {v}]
      BY <1>0, <2>1 DEF WalkTypeOK, WalkedPage
    <3> QED BY <2>1, <3>1 DEF WalkedPage
  <2> QED BY <1>0, <2>1
<1>3. pages' \in [1 .. Top -> {Uncached} \cup WalkedPage]
  <2>1. \A c \in 1 .. Top : pages'[c] \in {Uncached} \cup WalkedPage
    BY <1>2
  <2> QED BY <1>0, <2>1
<1>4. /\ walk'.cursor = walk.cursor /\ walk'.shown = walk.shown /\ walk'.stayed = walk.stayed \ {v}
      /\ walk'.repeated = walk.repeated /\ walk'.step = walk.step
      /\ walk' \in [cursor : 1 .. Top, shown : SUBSET Ids, stayed : SUBSET Ids, repeated : BOOLEAN,
                    step : {"walk", "end"}]
  BY <1>0 DEF WalkTypeOK
<1>5. WalkTypeOK'
  BY <1>1, <1>3, <1>4 DEF WalkTypeOK, WalkedPage
<1>6. WalkStands'
  BY <1>0, <1>4 DEF WalkStands
<1>7. ASSUME NEW c \in 1 .. Top, pages'[c] # Uncached PROVE PageComplete(pages[c], c)'
  <2>1. PageComplete(pages[c], c)
    BY <1>2, <1>7 DEF WalkInv
  <2> QED BY <1>1, <1>2, <1>7, <2>1 DEF PageComplete
<1> QED BY <1>5, <1>6, <1>7 DEF WalkInv

LEMMA InvOther ==
  ASSUME WalkInv,
         \/ \E v \in Ids : PublishRow(v)
         \/ \E c \in 1 .. Top : DropPage(c)
         \/ StartWalk
  PROVE  WalkInv'
<1>0. WalkTypeOK /\ WalkStands /\ WalkCount \in Nat /\ \A c \in 1 .. Top : pages[c] # Uncached => PageComplete(pages[c], c)
  BY WalkAssumption DEF WalkInv
<1>1. CASE \E v \in Ids : PublishRow(v)
  <2>1. /\ row' \in [Ids -> {"new", "published", "hidden"}] /\ Rows \subseteq Rows'
        /\ UNCHANGED <<pages, walk>>
    BY <1>0, <1>1 DEF PublishRow, WalkTypeOK, Rows
  <2> QED BY <1>0, <2>1 DEF WalkInv, WalkTypeOK, WalkStands, PageComplete
<1>2. CASE \E c \in 1 .. Top : DropPage(c)
  <2>1. /\ pages' \in [1 .. Top -> {Uncached} \cup WalkedPage] /\ UNCHANGED <<row, walk>> /\ Rows' = Rows
        /\ \A c \in 1 .. Top : pages'[c] \in {pages[c], Uncached}
    BY <1>0, <1>2 DEF DropPage, WalkTypeOK, Rows, WalkedPage
  <2>2. WalkTypeOK' /\ WalkStands'
    BY <1>0, <2>1 DEF WalkTypeOK, WalkStands, WalkedPage
  <2>3. (\A c \in 1 .. Top : pages[c] # Uncached => PageComplete(pages[c], c))'
    BY <1>0, <2>1 DEF PageComplete
  <2> QED BY <2>2, <2>3 DEF WalkInv
<1>3. CASE StartWalk
  <2>1. walk' = NoWalk /\ UNCHANGED <<row, pages>> /\ Rows' = Rows
    BY <1>3 DEF StartWalk, Rows
  <2>2. /\ NoWalk \in [cursor : 1 .. Top, shown : SUBSET Ids, stayed : SUBSET Ids, repeated : BOOLEAN,
                       step : {"walk", "end"}]
        /\ ~NoWalk.repeated /\ NoWalk.shown = {} /\ NoWalk.step = "walk"
        /\ \A v \in NoWalk.stayed : ~(v >= NoWalk.cursor)
    BY <1>0 DEF NoWalk, Top, Ids
  <2>3. WalkTypeOK' /\ WalkStands'
    BY <1>0, <2>1, <2>2 DEF WalkTypeOK, WalkStands
  <2>4. (\A c \in 1 .. Top : pages[c] # Uncached => PageComplete(pages[c], c))'
    BY <1>0, <2>1 DEF PageComplete
  <2> QED BY <2>3, <2>4 DEF WalkInv
<1> QED BY <1>1, <1>2, <1>3

LEMMA WalkMoves == WalkInv /\ [WalkNext]_walkVars => WalkInv'
<1> SUFFICES ASSUME WalkInv, [WalkNext]_walkVars PROVE WalkInv'
  OBVIOUS
<1>1. CASE UNCHANGED walkVars
  BY <1>1 DEF walkVars, WalkInv, WalkTypeOK, WalkStands, PageComplete, Rows
<1>2. CASE WalkNext
  BY <1>2, InvRead, InvHideRow, InvOther DEF WalkNext
<1> QED BY <1>1, <1>2

\* For every number of videos and every length of a page.
THEOREM WalkHolds == WalkSpec => []WalkInv
<1> QED BY WalkInitial, WalkMoves, PTL DEF WalkSpec

\* ListTimelinePage and its cursor: no video twice, and none left out.
THEOREM EachOnceHolds == WalkSpec => []WalkShowsEachOnce
<1>1. WalkInv => WalkShowsEachOnce
  BY DEF WalkInv, WalkStands, WalkShowsEachOnce
<1> QED BY <1>1, WalkHolds, PTL

----------------------------------------------------------------------------
(* HotWindow: a walk by rank, whatever is scored, merged, trimmed and      *)
(* expired.                                                                *)

HotSteps == {"idle", "union", "trim", "list", "end"}
HotReader == [step : HotSteps, end : 0 .. Minutes, offset : Nat, shown : SUBSET Ranked,
              rebuilt : BOOLEAN, repeated : BOOLEAN]

\* The invariant, reader by reader: what a record says of the window it names.
ReaderHolds(at) ==
  /\ at \in HotReader
  /\ at.step # "idle" \/ at.offset > 0 => at.end > 0
  /\ at.offset = 0 => at.shown = {}
  /\ at.repeated => at.rebuilt

\* A window that is not built anew has the ranks the walk has passed above the offset.
PassedIn(at, w) ==
  at.offset > 0 /\ ~at.rebuilt /\ w # NoWindow =>
    \A v \in at.shown \cap DOMAIN w : Cardinality(Above(w, v)) < at.offset

MinutesHold ==
  /\ minute \in 1 .. Minutes
  /\ DOMAIN bucket = 1 .. Minutes
  /\ \A m \in 1 .. Minutes : DOMAIN bucket[m] \subseteq Ranked /\ bucket[m] \in [DOMAIN bucket[m] -> Int]
  /\ scored \in 0 .. MaxScores

WindowsHold ==
  /\ DOMAIN window = 1 .. Minutes
  /\ \A m \in 1 .. Minutes : window[m] # NoWindow => DOMAIN window[m] \subseteq Ranked

ReadersHold ==
  /\ DOMAIN reader = Clients /\ reader = [r \in Clients |-> reader[r]]
  /\ \A r \in Clients : ReaderHolds(reader[r]) /\ PassedIn(reader[r], window[reader[r].end])

HotState == MinutesHold /\ WindowsHold /\ ReadersHold

LEMMA HotParts == HotState => HotInv
<1> SUFFICES ASSUME HotState PROVE HotInv
  OBVIOUS
<1>0. MinutesHold /\ WindowsHold /\ ReadersHold
  BY DEF HotState
<1>1. reader \in [Clients -> HotReader]
  BY <1>0 DEF ReadersHold, ReaderHolds
<1>2. HotTypeOK
  BY <1>0, <1>1 DEF HotTypeOK, MinutesHold, WindowsHold, HotReader, HotSteps
<1>3. HotWalkRepeatsNothing /\ \A r \in Clients : WalkHasWindow(r)
  BY <1>0 DEF HotWalkRepeatsNothing, WalkHasWindow, ReadersHold, ReaderHolds
<1>4. \A r \in Clients : reader[r].offset > 0 => ShownAbove(r)
  BY <1>0 DEF ShownAbove, ReadersHold, PassedIn
<1> QED BY <1>2, <1>3, <1>4 DEF HotInv

\* The members above one are finitely many, and only fewer where members are left out.
LEMMA AboveFewer ==
  ASSUME NEW w, NEW x, DOMAIN w \subseteq DOMAIN x, DOMAIN x \subseteq Ranked,
         \A v \in DOMAIN w : w[v] = x[v], NEW v \in DOMAIN w
  PROVE  /\ Cardinality(Above(w, v)) \in Nat /\ Cardinality(Above(x, v)) \in Nat
         /\ Cardinality(Above(w, v)) <= Cardinality(Above(x, v))
<1>1. Above(w, v) \subseteq Above(x, v) /\ Above(x, v) \subseteq Ranked
  BY DEF Above
<1>2. IsFiniteSet(Above(x, v))
  BY <1>1, HotAssumption, FS_Subset
<1>3. IsFiniteSet(Above(w, v)) /\ Cardinality(Above(w, v)) <= Cardinality(Above(x, v))
  BY <1>1, <1>2, FS_Subset
<1> QED BY <1>2, <1>3, FS_CardinalityType

\* One reader moves, in the windows that stand.
LEMMA ReaderMoves ==
  ASSUME ReadersHold, NEW r \in Clients, NEW next, ReaderHolds(next), UNCHANGED window,
         PassedIn(next, window[next.end]), reader' = [reader EXCEPT ![r] = next]
  PROVE  ReadersHold'
<1>1. \A q \in Clients : reader'[q] = IF q = r THEN next ELSE reader[q]
  BY DEF ReadersHold
<1>2. DOMAIN reader' = Clients /\ reader' = [q \in Clients |-> reader'[q]]
  BY DEF ReadersHold
<1>3. \A q \in Clients : ReaderHolds(reader'[q]) /\ PassedIn(reader'[q], window'[reader'[q].end])
  BY <1>1 DEF ReadersHold
<1> QED BY <1>2, <1>3 DEF ReadersHold

LEMMA HotInitial == HotInit => HotState
<1> SUFFICES ASSUME HotInit PROVE HotState
  OBVIOUS
<1>1. MinutesHold
  BY HotAssumption DEF HotInit, MinutesHold
<1>2. WindowsHold
  BY DEF HotInit, WindowsHold
<1>3. ReaderHolds(Start) /\ PassedIn(Start, window[Start.end])
  BY HotAssumption DEF Start, ReaderHolds, PassedIn, HotReader, HotSteps
<1>4. ReadersHold
  BY <1>3 DEF HotInit, ReadersHold
<1> QED BY <1>1, <1>2, <1>4 DEF HotState

LEMMA InvScore ==
  ASSUME HotState, NEW v \in Ranked, NEW delta \in Scores, AddHotScore(v, delta) PROVE HotState'
<1>0. MinutesHold /\ WindowsHold /\ ReadersHold
  BY DEF HotState
<1> DEFINE old == bucket[minute]
           new == [w \in DOMAIN old \cup {v} |-> Score(old, w) + IF w = v THEN delta ELSE 0]
<1>1. DOMAIN old \subseteq Ranked /\ old \in [DOMAIN old -> Int] /\ minute \in 1 .. Minutes
  BY <1>0 DEF MinutesHold
<1>2. delta \in Int
  BY HotAssumption
<1>3. new \in [DOMAIN old \cup {v} -> Int]
  <2>1. \A w \in DOMAIN old \cup {v} : Score(old, w) \in Int
    BY <1>1 DEF Score
  <2> QED BY <1>2, <2>1
<1>4. bucket' = [bucket EXCEPT ![minute] = new]
  BY DEF AddHotScore
<1>5. DOMAIN new \subseteq Ranked /\ new \in [DOMAIN new -> Int]
  BY <1>1, <1>3
<1> HIDE DEF new
<1>6. MinutesHold'
  <2>1. \A m \in 1 .. Minutes : bucket'[m] = new \/ bucket'[m] = bucket[m]
    BY <1>0, <1>4 DEF MinutesHold
  <2>2. DOMAIN bucket' = 1 .. Minutes
    BY <1>0, <1>4 DEF MinutesHold
  <2>3. minute' \in 1 .. Minutes /\ scored' \in 0 .. MaxScores
    BY <1>0, HotAssumption DEF AddHotScore, MinutesHold
  <2> QED BY <1>0, <1>5, <2>1, <2>2, <2>3 DEF MinutesHold
<1>7. WindowsHold' /\ ReadersHold'
  BY <1>0 DEF AddHotScore, WindowsHold, ReadersHold
<1> QED BY <1>6, <1>7 DEF HotState

LEMMA InvMinute == ASSUME HotState, NextMinute PROVE HotState'
<1>0. MinutesHold /\ WindowsHold /\ ReadersHold
  BY DEF HotState
<1>1. MinutesHold'
  BY <1>0, HotAssumption DEF NextMinute, MinutesHold
<1>2. WindowsHold' /\ ReadersHold'
  BY <1>0 DEF NextMinute, WindowsHold, ReadersHold
<1> QED BY <1>1, <1>2 DEF HotState

\* The first page takes a window, with nothing shown in it; the others stay in theirs.
LEMMA InvLoadHot == ASSUME HotState, NEW r \in Clients, LoadHot(r) PROVE HotState'
<1>0. MinutesHold /\ WindowsHold /\ ReadersHold
  BY DEF HotState
<1> DEFINE at   == reader[r]
           end  == End(r)
           step == IF window[end] = NoWindow THEN "union" ELSE "list"
           next == [at EXCEPT !.end = end, !.step = step]
<1>1. ReaderHolds(at) /\ PassedIn(at, window[at.end]) /\ at \in HotReader
  BY <1>0 DEF ReadersHold, ReaderHolds
<1>2. /\ end \in 1 .. Minutes /\ (at.offset > 0 => end = at.end)
      /\ step \in HotSteps
  BY <1>0, <1>1 DEF End, MinutesHold, ReaderHolds, HotReader, HotSteps
<1>3. reader' = [reader EXCEPT ![r] = next]
  BY <1>0 DEF LoadHot, ReadersHold
<1> HIDE DEF step, end
<1>4. /\ next.end = end /\ next.step = step /\ next.offset = at.offset /\ next.shown = at.shown
      /\ next.rebuilt = at.rebuilt /\ next.repeated = at.repeated /\ next \in HotReader
  <2>1. end \in 0 .. Minutes
    BY <1>2, HotAssumption
  <2> QED BY <1>1, <1>2, <2>1 DEF HotReader
<1> HIDE DEF next
<1>5. ReaderHolds(next)
  BY <1>1, <1>2, <1>4 DEF ReaderHolds
<1>6. PassedIn(next, window[next.end])
  BY <1>1, <1>2, <1>4 DEF PassedIn
<1>7. ReadersHold'
  BY <1>0, <1>3, <1>5, <1>6, ReaderMoves DEF LoadHot
<1>8. MinutesHold' /\ WindowsHold'
  BY <1>0 DEF LoadHot, MinutesHold, WindowsHold
<1> QED BY <1>7, <1>8 DEF HotState

\* Whoever is under way in the window that is built anew is told so.
LEMMA InvUnion == ASSUME HotState, NEW r \in Clients, ZUnionStore(r) PROVE HotState'
<1>0. MinutesHold /\ WindowsHold /\ ReadersHold
  BY DEF HotState
<1> DEFINE end     == reader[r].end
           told(q) == reader[q].rebuilt \/ (reader[q].offset > 0 /\ reader[q].end = end)
           step(q) == IF q = r THEN "trim" ELSE reader[q].step
           next(q) == [reader[q] EXCEPT !.step = step(q), !.rebuilt = told(q)]
<1>1. end \in 1 .. Minutes
  <2>1. reader[r].step = "union"
    BY Zenon DEF ZUnionStore
  <2> QED BY <1>0, <2>1 DEF ReadersHold, ReaderHolds, HotReader
<1>2. DOMAIN United(end) \subseteq Ranked
  <2>1. DOMAIN United(end) = UNION {DOMAIN bucket[m] : m \in {n \in 1 .. end : n > end - Window}}
    BY Zenon DEF United
  <2>2. {n \in 1 .. end : n > end - Window} \subseteq 1 .. Minutes
    BY <1>1, HotAssumption
  <2> QED BY <1>0, <2>1, <2>2 DEF MinutesHold
<1>3. window' = [window EXCEPT ![end] = Key(United(end))]
  BY DEF ZUnionStore
<1>4. WindowsHold'
  BY <1>0, <1>2, <1>3 DEF WindowsHold, Key
<1>5. ASSUME NEW q \in Clients
      PROVE  ReaderHolds(reader'[q]) /\ PassedIn(reader'[q], window'[reader'[q].end])
  <2>1. ReaderHolds(reader[q]) /\ PassedIn(reader[q], window[reader[q].end]) /\ reader[q] \in HotReader
    BY <1>0 DEF ReadersHold, ReaderHolds
  <2>2. reader'[q] = next(q)
    BY DEF ZUnionStore
  <2>3. step(q) \in HotSteps /\ told(q) \in BOOLEAN
    BY <2>1 DEF HotReader, HotSteps
  <2>4. step(q) # "idle" \/ reader[q].offset > 0 => reader[q].end > 0
    BY <1>1, <2>1 DEF ReaderHolds
  <2>5. /\ reader[q].rebuilt => told(q)
        /\ reader[q].offset > 0 /\ reader[q].end = end => told(q)
    OBVIOUS
  <2> HIDE DEF step, told
  <2>6. /\ next(q) \in HotReader /\ next(q).step = step(q) /\ next(q).rebuilt = told(q)
        /\ next(q).end = reader[q].end /\ next(q).offset = reader[q].offset
        /\ next(q).shown = reader[q].shown /\ next(q).repeated = reader[q].repeated
    BY <2>1, <2>3 DEF HotReader
  <2> HIDE DEF next
  <2>7. ReaderHolds(next(q))
    BY <2>1, <2>4, <2>5, <2>6 DEF ReaderHolds
  <2>8. reader[q].end # end => window'[reader[q].end] = window[reader[q].end]
    BY <1>3, <1>0, <1>1 DEF WindowsHold
  <2>9. PassedIn(next(q), window'[next(q).end])
    BY <2>1, <2>5, <2>6, <2>8 DEF PassedIn
  <2> QED BY <2>2, <2>7, <2>9
<1>6. ReadersHold'
  BY <1>5 DEF ZUnionStore, ReadersHold
<1>7. MinutesHold'
  BY <1>0 DEF ZUnionStore, MinutesHold
<1> QED BY <1>4, <1>6, <1>7 DEF HotState

\* What the trim leaves keeps its scores: nothing that stays falls in rank.
LEMMA InvTrim == ASSUME HotState, NEW r \in Clients, Trim(r) PROVE HotState'
<1>0. MinutesHold /\ WindowsHold /\ ReadersHold
  BY DEF HotState
<1> DEFINE at   == reader[r]
           end  == at.end
           left == IF window[end] = NoWindow THEN NoWindow ELSE Key(Positive(window[end]))
           next == [at EXCEPT !.step = "list"]
<1>1. ReaderHolds(at) /\ PassedIn(at, window[end]) /\ at \in HotReader /\ end \in 1 .. Minutes
  BY <1>0 DEF Trim, ReadersHold, ReaderHolds, HotReader
<1>2. window' = [window EXCEPT ![end] = left] /\ reader' = [reader EXCEPT ![r] = next]
  BY <1>0 DEF Trim, WindowsHold, ReadersHold
<1>3. left # NoWindow => /\ window[end] # NoWindow
                         /\ DOMAIN left \subseteq DOMAIN window[end]
                         /\ \A v \in DOMAIN left : left[v] = window[end][v]
  BY DEF Key, Positive
<1> HIDE DEF left
<1>4. /\ next \in HotReader /\ next.step = "list" /\ next.end = end /\ next.offset = at.offset
      /\ next.shown = at.shown /\ next.rebuilt = at.rebuilt /\ next.repeated = at.repeated
  BY <1>1 DEF HotReader, HotSteps
<1> HIDE DEF next
<1>5. WindowsHold'
  BY <1>0, <1>1, <1>2, <1>3 DEF WindowsHold
<1>6. \A m \in 1 .. Minutes : window'[m] = IF m = end THEN left ELSE window[m]
  BY <1>0, <1>2 DEF WindowsHold
<1>7. \A q \in Clients : reader'[q] = IF q = r THEN next ELSE reader[q]
  BY <1>0, <1>2 DEF ReadersHold
<1>8. ASSUME NEW q \in Clients
      PROVE  ReaderHolds(reader'[q]) /\ PassedIn(reader'[q], window'[reader'[q].end])
  <2>1. ReaderHolds(reader[q]) /\ PassedIn(reader[q], window[reader[q].end]) /\ reader[q] \in HotReader
    BY <1>0 DEF ReadersHold, ReaderHolds
  <2>2. /\ reader'[q].end = reader[q].end /\ reader'[q].offset = reader[q].offset
        /\ reader'[q].shown = reader[q].shown /\ reader'[q].rebuilt = reader[q].rebuilt
    BY <1>4, <1>7
  <2>3. ReaderHolds(reader'[q])
    BY <1>1, <1>4, <1>7, <2>1 DEF ReaderHolds
  <2>4. PassedIn(reader'[q], window'[reader[q].end])
    <3>1. CASE reader[q].end # end
      <4>1. reader[q].offset > 0 => window'[reader[q].end] = window[reader[q].end]
        BY <1>6, <2>1, <3>1 DEF ReaderHolds, HotReader
      <4> QED BY <2>1, <2>2, <4>1 DEF PassedIn
    <3>2. CASE reader[q].end = end
      <4>1. window'[reader[q].end] = left
        BY <1>1, <1>6, <3>2
      <4> SUFFICES ASSUME reader[q].offset > 0, ~reader[q].rebuilt, left # NoWindow,
                          NEW v \in reader[q].shown \cap DOMAIN left
                   PROVE  Cardinality(Above(left, v)) < reader[q].offset
        BY <2>2, <4>1 DEF PassedIn
      <4>2. DOMAIN window[end] \subseteq Ranked
        BY <1>0, <1>1, <1>3 DEF WindowsHold
      <4>3. /\ Cardinality(Above(left, v)) \in Nat /\ Cardinality(Above(window[end], v)) \in Nat
            /\ Cardinality(Above(left, v)) <= Cardinality(Above(window[end], v))
        BY <1>3, <4>2, AboveFewer
      <4>4. Cardinality(Above(window[end], v)) < reader[q].offset
        BY <1>3, <2>1, <3>2 DEF PassedIn
      <4>5. reader[q].offset \in Nat
        BY <2>1 DEF HotReader
      <4> QED BY <4>3, <4>4, <4>5
    <3> QED BY <3>1, <3>2
  <2> QED BY <2>2, <2>3, <2>4
<1>9. ReadersHold'
  BY <1>0, <1>2, <1>8 DEF ReadersHold
<1>10. MinutesHold'
  BY <1>0 DEF Trim, MinutesHold
<1> QED BY <1>5, <1>9, <1>10 DEF HotState

\* A page has the ranks from the offset on, which the walk has not shown.
LEMMA InvListHot == ASSUME HotState, NEW r \in Clients, ListHot(r) PROVE HotState'
<1>0. MinutesHold /\ WindowsHold /\ ReadersHold
  BY DEF HotState
<1> DEFINE at    == reader[r]
           w     == window[at.end]
           items == IF w = NoWindow THEN {} ELSE Ranks(w, at.offset)
           more  == items # {} /\ Cardinality(DOMAIN w) > at.offset + HotLimit
           again == at.repeated \/ items \cap at.shown # {}
           goes  == [at EXCEPT !.step = "idle", !.offset = @ + HotLimit, !.shown = @ \cup items,
                               !.repeated = again]
           ends  == [at EXCEPT !.step = "end", !.repeated = again]
           next  == IF more THEN goes ELSE ends
<1>1. ReaderHolds(at) /\ PassedIn(at, w) /\ at \in HotReader /\ at.end \in 1 .. Minutes
  BY <1>0 DEF ListHot, ReadersHold, ReaderHolds, HotReader
<1>2. HotLimit \in Nat \ {0} /\ at.offset \in Nat /\ at.offset + HotLimit \in Nat /\ at.offset + HotLimit > 0
  BY <1>1, HotAssumption DEF HotReader
<1>3. reader' = [reader EXCEPT ![r] = next] /\ UNCHANGED window
  BY DEF ListHot
<1>4. w # NoWindow => /\ items \subseteq DOMAIN w /\ DOMAIN w \subseteq Ranked
                      /\ \A v \in items : Cardinality(Above(w, v)) \in at.offset .. at.offset + HotLimit - 1
  BY <1>0, <1>1 DEF Ranks, WindowsHold
<1>5. items \subseteq Ranked /\ (w = NoWindow => items = {})
  BY <1>4
<1>6. again \in BOOLEAN /\ (again => at.rebuilt)
  <2>1. CASE at.offset = 0
    BY <1>1, <2>1 DEF ReaderHolds, HotReader
  <2>2. CASE at.offset > 0 /\ ~at.rebuilt
    <3>1. ASSUME NEW v \in items \cap at.shown PROVE FALSE
      <4>1. w # NoWindow /\ v \in DOMAIN w
        BY <1>4, <1>5, <3>1
      <4>2. Cardinality(Above(w, v)) < at.offset
        BY <1>1, <2>2, <3>1, <4>1 DEF PassedIn
      <4>3. Cardinality(Above(w, v)) \in at.offset .. at.offset + HotLimit - 1
        BY <1>4, <3>1, <4>1
      <4> QED BY <1>2, <4>2, <4>3
    <3> QED BY <1>1, <3>1 DEF ReaderHolds, HotReader
  <2>3. CASE at.rebuilt
    BY <1>1, <2>3 DEF HotReader
  <2> QED BY <1>1, <1>2, <2>1, <2>2, <2>3 DEF HotReader
<1> HIDE DEF again, items
<1>7. /\ goes \in HotReader /\ goes.step = "idle" /\ goes.end = at.end
      /\ goes.offset = at.offset + HotLimit /\ goes.shown = at.shown \cup items
      /\ goes.rebuilt = at.rebuilt /\ goes.repeated = again
  BY <1>1, <1>2, <1>5, <1>6 DEF HotReader, HotSteps
<1>8. /\ ends \in HotReader /\ ends.step = "end" /\ ends.end = at.end /\ ends.offset = at.offset
      /\ ends.shown = at.shown /\ ends.rebuilt = at.rebuilt /\ ends.repeated = again
  BY <1>1, <1>6 DEF HotReader, HotSteps
<1> HIDE DEF goes, ends
<1>9. ReaderHolds(goes) /\ ReaderHolds(ends)
  BY <1>1, <1>2, <1>6, <1>7, <1>8 DEF ReaderHolds
<1>10. PassedIn(ends, w)
  BY <1>1, <1>8 DEF PassedIn
<1>11. PassedIn(goes, w)
  <2> SUFFICES ASSUME ~at.rebuilt, w # NoWindow, NEW v \in (at.shown \cup items) \cap DOMAIN w
               PROVE  Cardinality(Above(w, v)) < at.offset + HotLimit
    BY <1>7 DEF PassedIn
  <2>1. CASE v \in items
    <3>1. Cardinality(Above(w, v)) \in at.offset .. at.offset + HotLimit - 1
      BY <1>4, <2>1
    <3> QED BY <1>2, <3>1
  <2>2. CASE v \in at.shown
    <3>1. at.offset > 0
      BY <1>1, <1>2, <2>2 DEF ReaderHolds
    <3>2. Cardinality(Above(w, v)) < at.offset
      BY <1>1, <2>2, <3>1 DEF PassedIn
    <3>3. Cardinality(Above(w, v)) \in Nat
      BY <1>4, AboveFewer
    <3> QED BY <1>2, <3>2, <3>3
  <2> QED BY <2>1, <2>2
<1>12. ReaderHolds(next) /\ PassedIn(next, window[next.end])
  BY <1>7, <1>8, <1>9, <1>10, <1>11
<1> HIDE DEF next
<1>13. ReadersHold'
  BY <1>0, <1>3, <1>12, ReaderMoves
<1>14. MinutesHold' /\ WindowsHold'
  BY <1>0 DEF ListHot, MinutesHold, WindowsHold
<1> QED BY <1>13, <1>14 DEF HotState

LEMMA InvStartAgain == ASSUME HotState, NEW r \in Clients, StartAgain(r) PROVE HotState'
<1>0. MinutesHold /\ WindowsHold /\ ReadersHold
  BY DEF HotState
<1>1. ReaderHolds(Start) /\ PassedIn(Start, window[Start.end])
  BY HotAssumption DEF Start, ReaderHolds, PassedIn, HotReader, HotSteps
<1>2. ReadersHold'
  BY <1>0, <1>1, ReaderMoves DEF StartAgain
<1>3. MinutesHold' /\ WindowsHold'
  BY <1>0 DEF StartAgain, MinutesHold, WindowsHold
<1> QED BY <1>2, <1>3 DEF HotState

\* A key that is gone is built anew before it is read.
LEMMA InvExpire == ASSUME HotState, NEW m \in 1 .. Minutes, ExpireWindow(m) PROVE HotState'
<1>0. MinutesHold /\ WindowsHold /\ ReadersHold
  BY DEF HotState
<1>1. \A n \in 1 .. Minutes : window'[n] = NoWindow \/ window'[n] = window[n]
  BY <1>0 DEF ExpireWindow, WindowsHold
<1>2. WindowsHold'
  BY <1>0, <1>1 DEF ExpireWindow, WindowsHold
<1>3. ASSUME NEW q \in Clients PROVE PassedIn(reader[q], window'[reader[q].end])
  <2>1. ReaderHolds(reader[q]) /\ PassedIn(reader[q], window[reader[q].end]) /\ reader[q] \in HotReader
    BY <1>0 DEF ReadersHold, ReaderHolds
  <2>2. reader[q].offset > 0 => reader[q].end \in 1 .. Minutes
    BY <2>1 DEF ReaderHolds, HotReader
  <2> QED BY <1>1, <2>1, <2>2 DEF PassedIn
<1>4. ReadersHold'
  BY <1>0, <1>3 DEF ExpireWindow, ReadersHold
<1>5. MinutesHold'
  BY <1>0 DEF ExpireWindow, MinutesHold
<1> QED BY <1>2, <1>4, <1>5 DEF HotState

LEMMA HotMoves == HotState /\ [HotNext]_hotVars => HotState'
<1> SUFFICES ASSUME HotState, [HotNext]_hotVars PROVE HotState'
  OBVIOUS
<1>1. CASE UNCHANGED hotVars
  <2>1. MinutesHold' /\ WindowsHold' /\ ReadersHold'
    BY <1>1 DEF HotState, hotVars, MinutesHold, WindowsHold, ReadersHold
  <2> QED BY <2>1 DEF HotState
<1>2. CASE HotNext
  BY <1>2, InvScore, InvMinute, InvLoadHot, InvUnion, InvTrim, InvListHot, InvStartAgain, InvExpire
     DEF HotNext
<1> QED BY <1>1, <1>2

\* A reader knows its window, and what it has shown is above its next rank there, as long as the
\* window is not built anew (HotCandidateSource.Load, ListHotWindowPage).
THEOREM HotHolds == HotSpec => []HotInv
BY HotInitial, HotMoves, HotParts, PTL DEF HotSpec

\* A walk of the hot feed repeats a video only if its window was built anew under it.
THEOREM HotRepeatsNothing == HotSpec => []HotWalkRepeatsNothing
<1>1. HotInv => HotWalkRepeatsNothing
  BY DEF HotInv
<1> QED BY HotHolds, <1>1, PTL
============================================================================
