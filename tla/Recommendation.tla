---------------------------- MODULE Recommendation ----------------------------
(***************************************************************************)
(* The recommender, asked page after page by one user: recall from the hot *)
(* list (a snapshot kept for some seconds), the latest videos and what is  *)
(* the user's own; exclusion of what was exposed or rejected; ranking with *)
(* the interest profile or without it; the page below the cursor, with its *)
(* authors interleaved.  Scores move between the pages.                    *)
(***************************************************************************)
EXTENDS Integers, FiniteSets, SequencesExt

CONSTANTS
  VideoCount,      \* the videos are 1..VideoCount, in the order of publication
  AuthorBy,        \* the author of each video
  Alike,           \* similarity of each video to the profile
  MaxHeat,         \* the part of a score that moves: hot score and freshness
  Overfetch, RecallPerSource, PreRankLimit, RankLimit, PageLimit,
  NoSnapshot,      \* the hot snapshot has expired
  MaxOwn,          \* bound: videos only the user's own sources have
  MaxEvents        \* bound: changes of a score, exposures and rejections

ASSUME RecommendationAssumption ==
  /\ VideoCount \in Nat /\ MaxOwn \in Nat /\ MaxHeat \in Nat /\ MaxEvents \in Nat
  /\ {Overfetch, RecallPerSource, PreRankLimit, RankLimit, PageLimit} \subseteq Nat \ {0}
  /\ Alike \in [1 .. VideoCount -> Int]

VARIABLES
  heat,       \* what hotScoreExpression and freshnessScore give
  exposedTo,  \* exposures of the last seven days
  rejected,   \* [video, kind]: skip or not_interested, hide_author
  snapshot,   \* hotCandidates
  request,    \* the request under way
  walker,     \* the client: its cursor, its page and the scores it was shown
  happened

recommendVars == <<heat, exposedTo, rejected, snapshot, request, walker, happened>>

Candidates == 1 .. VideoCount

\* sortCandidates: score, then time of publication and id.
Ahead(a, b) == a.score > b.score \/ (a.score = b.score /\ a.video > b.video)

Ranked(S) ==
  [i \in 1 .. Cardinality(S) |-> CHOOSE c \in S : Cardinality({d \in S : Ahead(d, c)}) = i - 1]

Best(S, limit) ==
  LET ranked == Ranked(S)
  IN  SubSeq(ranked, 1, IF Len(ranked) < limit THEN Len(ranked) ELSE limit)

\* Each source is asked for more than it may keep, for what will be excluded.
Fetched == Overfetch * RecallPerSource

Scored(video, score, heats) == [video |-> video, score |-> score, heat |-> heats]

NoRequest == [step |-> "idle", hot |-> {}, latest |-> {}, own |-> {}, before |-> {}]
Start == [video |-> 0, score |-> -1]
NewWalk == [cursor |-> Start, page |-> <<>>, shown |-> {}, before |-> {}, rescored |-> TRUE, more |-> TRUE]

RecommendInit ==
  /\ heat \in [Candidates -> 0 .. MaxHeat]
  /\ exposedTo = {} /\ rejected = {}
  /\ snapshot = NoSnapshot
  /\ request = NoRequest /\ walker = NewWalk /\ happened = 0
----------------------------------------------------------------------------
\* ListCandidatesBySource, the hot order.
ListHottest == ToSet(Best({Scored(v, heat[v], heat[v]) : v \in Candidates}, Fetched))

ListLatest ==
  {Scored(v, heat[v], heat[v]) : v \in {w \in Candidates : w + Fetched > VideoCount}}

\* listCandidatesBySource: a snapshot serves until it expires.
HotCandidates == IF snapshot = NoSnapshot THEN ListHottest ELSE snapshot

\* mergeRecallPools: the first pool that has a video gives its candidate.
Merge(first, second) ==
  first \cup {c \in second : \A d \in first : d.video # c.video}

\* ListNegativeCandidateExclusions.
Rejected ==
  {v \in Candidates : \E r \in rejected :
      IF r.kind = "author" THEN AuthorBy[v] = AuthorBy[r.video] ELSE v = r.video}

Excluded == exposedTo \cup Rejected

\* What following, interest, similar and collaborative may find among the published.
OwnCandidates ==
  {{Scored(v, heat[v], heat[v]) : v \in own} : own \in {s \in SUBSET Candidates : Cardinality(s) <= MaxOwn}}

\* recallCandidates: a source that fails adds nothing.
Recall ==
  /\ request.step = "idle" /\ walker.more
  /\ \E hotFails, latestFails \in BOOLEAN, own \in OwnCandidates :
       /\ snapshot' = IF hotFails THEN snapshot ELSE HotCandidates
       /\ request' = [step   |-> "exposures",
                      hot    |-> IF hotFails THEN {} ELSE HotCandidates,
                      latest |-> IF latestFails THEN {} ELSE ListLatest,
                      own    |-> own,
                      before |-> Excluded]
  /\ UNCHANGED <<heat, exposedTo, rejected, walker, happened>>

Without(pool, videos) == {c \in pool : c.video \notin videos}

Filter(step, videos) ==
  request' = [step   |-> step,
              hot    |-> Without(request.hot, videos),
              latest |-> Without(request.latest, videos),
              own    |-> Without(request.own, videos),
              before |-> request.before]

\* filterRecallPools: ListRecentExposures, then ListNegativeCandidateExclusions.
FilterExposed ==
  /\ request.step = "exposures"
  /\ Filter("rejections", exposedTo)
  /\ UNCHANGED <<heat, exposedTo, rejected, snapshot, walker, happened>>

\* Mutant: what the user rejected is recommended until it is exposed.
FilterNothing ==
  /\ request.step = "rejections"
  /\ Filter("rank", {})
  /\ UNCHANGED <<heat, exposedTo, rejected, snapshot, walker, happened>>

FilterRejected ==
  /\ request.step = "rejections"
  /\ Filter("rank", Rejected)
  /\ UNCHANGED <<heat, exposedTo, rejected, snapshot, walker, happened>>

RequestFails ==
  /\ request.step \in {"exposures", "rejections", "rank"}
  /\ request' = NoRequest
  /\ UNCHANGED <<heat, exposedTo, rejected, snapshot, walker, happened>>
----------------------------------------------------------------------------
\* One pass of interleaveByAuthor: a candidate after one of its author is delayed.
Pass(placed, waiting) ==
  FoldLeft(LAMBDA s, c : IF s.placed # <<>> /\ AuthorBy[Last(s.placed).video] = AuthorBy[c.video]
                         THEN [s EXCEPT !.waiting = Append(@, c)]
                         ELSE [s EXCEPT !.placed = Append(@, c)],
           [placed |-> placed, waiting |-> <<>>], waiting)

\* interleaveByAuthor: passes until none places a candidate.
InterleaveByAuthor(page) ==
  LET s == FoldLeft(LAMBDA t, c : Pass(t.placed, t.waiting),
                    [placed |-> <<>>, waiting |-> page], page)
  IN  s.placed \o s.waiting

\* filterByCursor, which keeps the order.
Beyond(ranked, cursor) == Ranked({c \in ToSet(ranked) : cursor = Start \/ Ahead(cursor, c)})

\* rankScore, with the profile or without it.
RankScore(c, profiled) == IF profiled THEN 2 * Alike[c.video] + c.heat ELSE c.heat

Cut(page) == SubSeq(page, 1, IF Len(page) < PageLimit THEN Len(page) ELSE PageLimit)

\* Mutant: the cursor is that of the last item as it is shown.
CursorOfShown(page) ==
  LET shown == InterleaveByAuthor(page) IN [video |-> Last(shown).video, score |-> Last(shown).score]

CursorOf(page) == [video |-> Last(page).video, score |-> Last(page).score]

\* The personalize steps keep what is most alike, or nothing when they fail.
Personalized == SUBSET request.own

\* What is left of each source, cut and merged.
Pool(own) ==
  LET latest == Best({[c EXCEPT !.score = c.video] : c \in request.latest}, RecallPerSource)
  IN  Merge(Merge(ToSet(Best(request.hot, RecallPerSource)), ToSet(latest)), own)

PreRanked(pool) == ToSet(Best({Scored(c.video, c.heat, c.heat) : c \in pool}, PreRankLimit))

\* rankCandidates: a profile that cannot be loaded is left out.
RankCandidates(pool, profiled) ==
  Best({Scored(c.video, RankScore(c, profiled), c.heat) : c \in PreRanked(pool)}, RankLimit)

\* The rest of Recommend.
Recommend ==
  /\ request.step = "rank"
  /\ \E profiled \in BOOLEAN, own \in Personalized :
       LET ranked == RankCandidates(Pool(own), profiled)
           below  == Beyond(ranked, walker.cursor)
           page   == Cut(below)
       IN  walker' = [cursor   |-> IF page = <<>> THEN Start ELSE CursorOf(page),
                      page     |-> InterleaveByAuthor(page),
                      shown    |-> {s \in walker.shown : \A c \in ToSet(page) : c.video # s.video}
                                     \cup {[video |-> c.video, score |-> c.score] : c \in ToSet(page)},
                      before   |-> request.before,
                      rescored |-> \A c \in ToSet(page), s \in walker.shown :
                                      c.video = s.video => c.score < s.score,
                      more     |-> Len(below) > PageLimit]
  /\ request' = NoRequest
  /\ UNCHANGED <<heat, exposedTo, rejected, snapshot, happened>>
----------------------------------------------------------------------------
StartRecommending ==
  /\ request.step = "idle" /\ walker # NewWalk
  /\ walker' = NewWalk
  /\ UNCHANGED <<heat, exposedTo, rejected, snapshot, request, happened>>

ExpireSnapshot ==
  /\ snapshot # NoSnapshot
  /\ snapshot' = NoSnapshot
  /\ UNCHANGED <<heat, exposedTo, rejected, request, walker, happened>>

\* Interactions raise or lower the hot score, time lowers the freshness.
Rescore(v) ==
  /\ happened < MaxEvents
  /\ \E h \in 0 .. MaxHeat \ {heat[v]} : heat' = [heat EXCEPT ![v] = h]
  /\ happened' = happened + 1
  /\ UNCHANGED <<exposedTo, rejected, snapshot, request, walker>>

\* SaveViewEvent or SaveExposures, in the exposures.
Expose(v) ==
  /\ happened < MaxEvents /\ v \notin exposedTo
  /\ exposedTo' = exposedTo \cup {v}
  /\ happened' = happened + 1
  /\ UNCHANGED <<heat, rejected, snapshot, request, walker>>

\* SaveViewEvent of skip or not_interested, and of hide_author.
Reject(v) ==
  /\ happened < MaxEvents
  /\ \E kind \in {"video", "author"} : rejected' = rejected \cup {[video |-> v, kind |-> kind]}
  /\ happened' = happened + 1
  /\ UNCHANGED <<heat, exposedTo, snapshot, request, walker>>

RecommendNext ==
  \/ Recall \/ FilterExposed \/ FilterRejected \/ RequestFails \/ Recommend
  \/ StartRecommending \/ ExpireSnapshot
  \/ \E v \in Candidates : Rescore(v) \/ Expose(v) \/ Reject(v)

RecommendSpec == RecommendInit /\ [][RecommendNext]_recommendVars
----------------------------------------------------------------------------
(* Properties.                                                             *)

Item == [video : Candidates, score : Int, heat : 0 .. MaxHeat]

\* Candidates of a source: each video once.
Pools == {S \in SUBSET Item : \A c, d \in S : c.video = d.video => c = d}

RecommendTypeOK ==
  /\ heat \in [Candidates -> 0 .. MaxHeat]
  /\ snapshot \in Pools \cup {NoSnapshot}
  /\ request \in [step : {"idle", "exposures", "rejections", "rank"}, hot : Pools,
                  latest : Pools, own : Pools, before : SUBSET (exposedTo \cup Rejected)]
  /\ walker.cursor \in [video : Nat, score : Int]
  /\ walker.shown \subseteq [video : Candidates, score : Int]
  /\ walker.more \in BOOLEAN

InHand == request.hot \cup request.latest \cup request.own

\* What was excluded when the page was asked for leaves the pools in two steps.
ExclusionsLeave ==
  /\ request.step = "rejections" => \A c \in InHand : c.video \in request.before => c.video \in Rejected
  /\ request.step = "rank" => \A c \in InHand : c.video \notin request.before

\* While there is more, the cursor is the last of all that was shown.
CursorIsLast ==
  /\ request.step # "idle" => walker.more
  /\ walker.more =>
       IF walker.cursor = Start THEN walker.shown = {}
       ELSE \A s \in walker.shown : s = walker.cursor \/ Ahead(s, walker.cursor)

\* A walk shows a video again only when its score has fallen since it was shown, whatever
\* moves, fails or is interleaved between the pages: the cursor is the lowest of a page.
RepeatedOnlyRescored == walker.rescored

\* A page has nothing that was exposed to the user, or rejected, before it was asked for,
\* the snapshot of the hot list and the moving exclusions notwithstanding.
NothingExcludedShown == \A c \in ToSet(walker.page) : c.video \notin walker.before

\* What was shown and what is excluded together, as an inductive invariant.
RecommendInv ==
  RecommendTypeOK /\ ExclusionsLeave /\ CursorIsLast /\ RepeatedOnlyRescored /\ NothingExcludedShown
============================================================================
