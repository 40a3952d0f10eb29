---------------------------- MODULE RecommendedFeed ----------------------------
(***************************************************************************)
(* A viewer who walks down the recommended feed.  The first page mixes the *)
(* recommender's page with the hot, the newest and the followed videos;    *)
(* the others are the recommender's alone, below the cursor of its last    *)
(* page, which knows nothing of the mix.  What was exposed is left out by  *)
(* the recommender, and by the filter of seen videos when it learns of it. *)
(* The ranking stands still here; Recommendation is about one that moves.  *)
(***************************************************************************)
EXTENDS Integers, FiniteSets, SequencesExt

CONSTANTS
  Offered,     \* the videos as the recommender ranks them; a greater one is newer
  WrittenBy,   \* the author of each video
  MixLimit,    \* items of a page
  MaxExposed   \* bound: videos exposed

ASSUME MixAssumption ==
  /\ Offered \in Seq(Nat) /\ IsInjective(Offered)
  /\ MixLimit \in Nat \ {0} /\ MaxExposed \in Nat

VARIABLES
  shownTo,   \* video_exposures of the viewer
  marked,    \* the filter of seen videos
  mix,       \* the walk: its cursor, a place of the ranking, and the pages each video was on
  recalled   \* the candidates of the request under way

mixVars == <<shownTo, marked, mix, recalled>>

Mixable == ToSet(Offered)
NoCandidates == [items |-> <<>>, next |-> 0, more |-> FALSE, fell |-> FALSE]
NewMix == [step |-> "walk", page |-> 0, place |-> 0, on |-> [v \in Mixable |-> {}],
           cut |-> {}, fell |-> FALSE]

MixInit ==
  /\ shownTo = {} /\ marked = {}
  /\ mix = NewMix /\ recalled = NoCandidates
----------------------------------------------------------------------------
(* The sources.                                                            *)

FirstItems(items) == SubSeq(items, 1, IF Len(items) < MixLimit THEN Len(items) ELSE MixLimit)

NewestFirst(videos) ==
  [n \in 1 .. Cardinality(videos) |->
     CHOOSE v \in videos : Cardinality({w \in videos : w > v}) = n - 1]

NewestOf(videos) == FirstItems(NewestFirst(videos))

\* RecommendCandidateSource: the page below the cursor, its authors interleaved somehow.
PrimaryPages ==
  LET rest == {n \in DOMAIN Offered : n > mix.place /\ Offered[n] \notin shownTo}
      page == {n \in rest : Cardinality({m \in rest : m < n}) < MixLimit}
  IN  {[items |-> s,
        next  |-> IF page = {} THEN 0 ELSE Max(page),
        more  |-> Cardinality(rest) > MixLimit,
        fell  |-> FALSE] : s \in SetToSeqs({Offered[n] : n \in page})}

\* A page of the hot window, whatever it ranks.
HotPages == UNION {SetToSeqs(S) : S \in {T \in SUBSET Mixable : Cardinality(T) <= MixLimit}}

FollowedPages ==
  {NewestOf({v \in Mixable : WrittenBy[v] \in followed}) : followed \in SUBSET ToSet([v \in Mixable |-> WrittenBy[v]])}

\* loadFallback: the first page of another source, without a next one.
FallbackPages ==
  {[items |-> s, next |-> 0, more |-> FALSE, fell |-> TRUE] : s \in HotPages \cup {NewestOf(Mixable)}}

AnyExtras ==
  {hot \o newest \o followed :
     hot \in HotPages, newest \in {<<>>, NewestOf(Mixable)}, followed \in FollowedPages}

\* Mutant: the other sources are asked for every page.
ExtrasOfEveryPage == AnyExtras

\* firstPageOnlySource and optionalCandidateSource: one that fails gives nothing.
Extras == IF mix.place = 0 THEN AnyExtras ELSE {<<>>}

\* DeduplicateFilter: the first of equal items stays.
Deduplicate(items) ==
  FoldLeft(LAMBDA kept, v : IF v \in ToSet(kept) THEN kept ELSE Append(kept, v), <<>>, items)

\* loadCandidatePages, the merge and the first filter.
LoadCandidates ==
  /\ mix.step = "walk"
  /\ \E primary \in PrimaryPages \cup FallbackPages, extras \in Extras :
       recalled' = [primary EXCEPT !.items = Deduplicate(@ \o extras)]
  /\ mix' = [mix EXCEPT !.step = "filter"]
  /\ UNCHANGED <<shownTo, marked>>
----------------------------------------------------------------------------
(* The pipeline.                                                           *)

\* The round of an item, and the place of its author: the first item decides.
Round(items, n) == Cardinality({m \in 1 .. n : WrittenBy[items[m]] = WrittenBy[items[n]]})
AuthorPlace(items, n) == CHOOSE m \in 1 .. n : Round(items, m) = 1 /\ WrittenBy[items[m]] = WrittenBy[items[n]]

InTurn(items, m, n) ==
  \/ Round(items, m) < Round(items, n)
  \/ Round(items, m) = Round(items, n) /\ AuthorPlace(items, m) < AuthorPlace(items, n)

\* AuthorDiversityMixer: one item of each author in turn.
MixAuthors(items) ==
  LET before == [n \in DOMAIN items |-> Cardinality({m \in DOMAIN items : InTurn(items, m, n)})]
  IN  [i \in DOMAIN items |-> items[CHOOSE n \in DOMAIN items : before[n] = i - 1]]

\* SeenFilter: all pass when the filter cannot be read.
Unmarked(items) ==
  FoldLeft(LAMBDA kept, v : IF v \in marked THEN kept ELSE Append(kept, v), <<>>, items)

Unseen(items) == {items, Unmarked(items)}

\* Run and assemblePipelineResult: the cursor is that of the primary page.
ShowMixed ==
  /\ mix.step = "filter"
  /\ \E items \in Unseen(recalled.items) :
       LET shown == ToSet(FirstItems(MixAuthors(items)))
           page  == mix.page + 1
       IN  mix' = [step  |-> IF recalled.more THEN "walk" ELSE "end",
                   page  |-> page,
                   place |-> recalled.next,
                   on    |-> [v \in Mixable |-> mix.on[v] \cup IF v \in shown THEN {page} ELSE {}],
                   cut   |-> IF page = 1 THEN ToSet(items) \ shown ELSE mix.cut,
                   fell  |-> recalled.fell]
  /\ recalled' = NoCandidates
  /\ UNCHANGED <<shownTo, marked>>

\* The primary source rejects its input, or the request ends before its pages are loaded.
FailMixed ==
  /\ mix.step = "filter"
  /\ mix' = [mix EXCEPT !.step = "walk"]
  /\ recalled' = NoCandidates
  /\ UNCHANGED <<shownTo, marked>>

RestartMix ==
  /\ mix.step = "end"
  /\ mix' = NewMix
  /\ UNCHANGED <<shownTo, marked, recalled>>

\* The client reports what it has shown,
ReportShown(v) ==
  /\ mix.on[v] # {} /\ v \notin shownTo /\ Cardinality(shownTo) < MaxExposed
  /\ shownTo' = shownTo \cup {v}
  /\ UNCHANGED <<marked, mix, recalled>>

\* and the filter is told sooner or later; being a Bloom filter, it may take in another.
MarkShown(v) ==
  /\ v \in shownTo /\ v \notin marked
  /\ \E w \in Mixable : marked' = marked \cup {v, w}
  /\ UNCHANGED <<shownTo, mix, recalled>>

MixNext ==
  \/ LoadCandidates \/ ShowMixed \/ FailMixed \/ RestartMix
  \/ \E v \in Mixable : ReportShown(v) \/ MarkShown(v)

MixSpec == MixInit /\ [][MixNext]_mixVars
----------------------------------------------------------------------------
(* Properties.                                                             *)

MixTypeOK ==
  /\ shownTo \subseteq Mixable /\ marked \subseteq Mixable
  /\ mix \in [step : {"walk", "filter", "end"}, page : Nat, place : 0 .. Len(Offered),
              on : [Mixable -> SUBSET (1 .. mix.page)], cut : SUBSET Mixable, fell : BOOLEAN]
  /\ recalled \in [items : Seq(Mixable), next : 0 .. Len(Offered), more : BOOLEAN, fell : BOOLEAN]

\* The places of the ranking the walk has passed: all of them when it has ended.
Passed == IF mix.step = "end" THEN DOMAIN Offered ELSE 1 .. mix.place

\* A video the walk has passed was shown, or there is a reason why not.
PassedSettled ==
  ~mix.fell => \A n \in Passed :
    mix.on[Offered[n]] # {} \/ Offered[n] \in shownTo \cup marked \cup mix.cut

\* A walk that goes on has a cursor behind its first page, and every video of a later page is
\* above it.
WalkGoesOn ==
  mix.step # "end" =>
    /\ ~mix.fell /\ (mix.place = 0 <=> mix.page = 0)
    /\ \A n \in DOMAIN Offered : mix.on[Offered[n]] \ {1} # {} => n <= mix.place

\* Beside the first page and a fallback a video is on one page.
OnceLater ==
  \A v \in Mixable : \A a, b \in mix.on[v] \ {1} :
    a = b \/ (mix.fell /\ mix.page \in {a, b})

\* A page that was loaded has all places up to its last, but those shown before; a later page
\* has no others and is not cut.
RecalledStands ==
  mix.step = "filter" /\ ~recalled.fell =>
    /\ recalled.more => recalled.next > mix.place
    /\ \A n \in DOMAIN Offered : n > mix.place /\ (recalled.more => n <= recalled.next)
          => Offered[n] \in shownTo \cup ToSet(recalled.items)
    /\ mix.place # 0 =>
         /\ Len(recalled.items) <= MixLimit
         /\ \A n \in DOMAIN Offered : Offered[n] \in ToSet(recalled.items)
               => n > mix.place /\ (recalled.more => n <= recalled.next)

\* A fallback page has no next one.
FallbackEnds == mix.step = "filter" /\ recalled.fell => ~recalled.more

MixInv == /\ MixTypeOK /\ PassedSettled /\ WalkGoesOn /\ OnceLater
          /\ RecalledStands /\ FallbackEnds

\* A walk shows a video twice only if the first page had it from another source than the
\* recommender, and never again, a fallback page at its end aside; and a walk that ends with the
\* recommender has shown every video but those that were exposed or taken for seen, and those the
\* mix cut off the first page, which the cursor has passed.
WalkAddsUp ==
  /\ \A v \in Mixable :
       LET on == IF mix.fell THEN mix.on[v] \ {mix.page} ELSE mix.on[v]
       IN  Cardinality(on) <= 2 /\ (Cardinality(on) = 2 => 1 \in on)
  /\ mix.step = "end" /\ ~mix.fell =>
       \A v \in Mixable : mix.on[v] # {} \/ v \in shownTo \cup marked \cup mix.cut
============================================================================
