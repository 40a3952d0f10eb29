---------------------------- MODULE InterestProfile ----------------------------
(***************************************************************************)
(* What one user watches, likes and rejects, and what is derived from it:  *)
(* the exposures, the filter of seen videos and the interest profile.  The *)
(* event of a view reaches two consumers; the profile is computed from the *)
(* signals by the feature worker and by a recommend request that finds no  *)
(* row, in several queries, and saved without a version.                   *)
(***************************************************************************)
EXTENDS Integers, FiniteSets, Sequences

CONSTANTS
  Watchable,   \* published videos, of one author
  RequestIds, NoRequestId,
  NoProfile, NoWork,
  MaxViews,    \* bound: view events recorded
  MaxLikes     \* bound: changes of a like, favorite, comment or follow

ASSUME InterestAssumption ==
  /\ NoRequestId \notin RequestIds
  /\ MaxViews \in Nat /\ MaxLikes \in Nat

VARIABLES
  views,       \* video_view_events
  liked,       \* the videos that active actions, visible comments and follows speak for
  exposures,   \* exposure_count of each video
  due,         \* the events each group has still to handle
  marking,     \* the recorded views whose request has still to mark the video seen
  seen,        \* the Bloom filter of the user
  profile,     \* the row of the user
  computing,   \* the computations under way: the worker's and a request's
  likeChanges,
  forgotten,   \* videos whose mark expired or was given up
  overtaken,   \* the row was written by an older computation, or its refresh given up
  silent       \* videos whose signals changed with no word to the row since it was written

interestVars == <<views, liked, exposures, due, marking, seen, profile, computing,
                  likeChanges, forgotten, overtaken, silent>>

Types == {"exposed", "play", "skip", "hide_author"}
IsNegativeFeedback(type) == type \in {"skip", "hide_author"}
MarksSeen(type) == type = "exposed" \/ IsNegativeFeedback(type)

\* Mutant: negative feedback does not refresh the profile.
AffectsWhenPositive(type) == type = "play"

AffectsInterestProfile(type) == type = "play" \/ IsNegativeFeedback(type)

\* Mutant: the recommendation group takes the event for one of the feature group.
CompensatesPlays(type) == type = "play"

\* applicationrecommendation.EventWorker: the negative marks have no second chance.
Compensates(type) == type = "exposed"

Recorded == 1 .. Len(views)

InterestInit ==
  /\ views = <<>> /\ liked = {} /\ exposures = [v \in Watchable |-> 0]
  /\ due = [g \in {"feature", "recommendation"} |-> {}]
  /\ marking = {} /\ seen = {} /\ profile = NoProfile
  /\ computing = [c \in {"worker", "request"} |-> NoWork]
  /\ likeChanges = 0 /\ forgotten = {} /\ overtaken = FALSE /\ silent = {}
----------------------------------------------------------------------------
(* The signals.                                                            *)

\* applyFeedbackFilter.
Filtered ==
  {v \in Watchable : \E i \in Recorded :
      views[i].type = "hide_author" \/ (views[i].type = "skip" /\ views[i].video = v)}

PositiveViews == {i \in Recorded : views[i].type = "play" /\ views[i].video \notin Filtered}
PositiveLikes == liked \ Filtered

Outdated == [c \in DOMAIN computing |->
               IF computing[c] = NoWork THEN NoWork ELSE [computing[c] EXCEPT !.fresh = FALSE]]

Duplicate(view) == view.request # NoRequestId /\ view \in {views[i] : i \in Recorded}

\* SaveViewEvent: the event, its exposure and its outbox row; a duplicate writes nothing, and
\* its request marks the video again.
RecordView(v) ==
  /\ \E type \in Types, request \in RequestIds \cup {NoRequestId} :
       LET view == [video |-> v, type |-> type, request |-> request]
           n    == Len(views) + 1
       IN  \/ /\ Duplicate(view) /\ MarksSeen(type)
              /\ marking' = marking \cup {i \in Recorded : views[i] = view}
              /\ UNCHANGED <<views, exposures, due, computing>>
           \/ /\ ~Duplicate(view) /\ n <= MaxViews
              /\ views' = Append(views, view)
              /\ exposures' = [exposures EXCEPT ![v] = @ + (IF type = "exposed" THEN 1 ELSE 0)]
              /\ due' = [g \in DOMAIN due |-> due[g] \cup {n}]
              /\ marking' = IF MarksSeen(type) THEN marking \cup {n} ELSE marking
              /\ computing' = Outdated
  /\ UNCHANGED <<liked, seen, profile, likeChanges, forgotten, overtaken, silent>>

\* SaveExposures, the internal path: no event, no mark.
SaveExposure(v) ==
  \E request \in RequestIds :
    LET view == [video |-> v, type |-> "exposed", request |-> request] IN
    /\ ~Duplicate(view) /\ Len(views) < MaxViews
    /\ views' = Append(views, view)
    /\ exposures' = [exposures EXCEPT ![v] = @ + 1]
    /\ forgotten' = forgotten \cup {v}
    /\ UNCHANGED <<liked, due, marking, seen, profile, computing, likeChanges, overtaken, silent>>

ChangeSignal(v) ==
  /\ likeChanges < MaxLikes
  /\ liked' = IF v \in liked THEN liked \ {v} ELSE liked \cup {v}
  /\ computing' = Outdated
  /\ likeChanges' = likeChanges + 1
  /\ UNCHANGED <<views, exposures, due, marking, seen, forgotten>>

\* The user likes, favors, deletes a comment or follows: the row of the profile is deleted in
\* the same transaction (InvalidateUserInterest).
ChangeLike(v) ==
  /\ ChangeSignal(v)
  /\ profile' = NoProfile /\ overtaken' = FALSE /\ silent' = {}

\* A comment is published or taken down, a user is banned, a video of a followed author comes
\* or goes, or a block ends a follow: the governance service changes what the profile is
\* computed from and leaves the row as it is.
ChangeSilently(v) ==
  /\ ChangeSignal(v)
  /\ silent' = silent \cup {v}
  /\ UNCHANGED <<profile, overtaken>>
----------------------------------------------------------------------------
(* The filter of seen videos.                                              *)

\* RecordViewEvent: MarkSeen, whose failure is dropped.
MarkSeen(i) ==
  /\ i \in marking
  /\ marking' = marking \ {i}
  /\ \/ seen' = seen \cup {views[i].video}
     \/ UNCHANGED seen
  /\ UNCHANGED <<views, liked, exposures, due, profile, computing, likeChanges, forgotten, overtaken, silent>>

\* HandleViewEventRecorded of the recommendation group; a delivery may be repeated.
Compensate(i) ==
  /\ i \in due["recommendation"]
  /\ seen' = IF Compensates(views[i].type) THEN seen \cup {views[i].video} ELSE seen
  /\ \/ due' = [due EXCEPT !["recommendation"] = @ \ {i}]
     \/ UNCHANGED due
  /\ UNCHANGED <<views, liked, exposures, marking, profile, computing, likeChanges, forgotten, overtaken, silent>>

\* After its retries an event goes to the dead letters.
GiveUpMark(i) ==
  /\ i \in due["recommendation"]
  /\ due' = [due EXCEPT !["recommendation"] = @ \ {i}]
  /\ forgotten' = forgotten \cup {views[i].video}
  /\ UNCHANGED <<views, liked, exposures, marking, seen, profile, computing, likeChanges, overtaken, silent>>

ExpireSeen ==
  /\ seen # {}
  /\ forgotten' = forgotten \cup seen
  /\ seen' = {}
  /\ UNCHANGED <<views, liked, exposures, due, marking, profile, computing, likeChanges, overtaken, silent>>
----------------------------------------------------------------------------
(* The profile.                                                            *)

\* calculateUserInterestVector, its first query: for an event of the feature group, or for a
\* request that finds no row.
ReadViews(c) ==
  /\ computing[c] = NoWork
  /\ \/ /\ c = "worker"
        /\ \E i \in due["feature"] :
             /\ AffectsInterestProfile(views[i].type)
             /\ computing' = [computing EXCEPT ![c] =
                  [of |-> i, views |-> PositiveViews, likes |-> {}, step |-> "likes", fresh |-> TRUE]]
     \/ /\ c = "request" /\ profile = NoProfile
        /\ computing' = [computing EXCEPT ![c] =
             [of |-> 0, views |-> PositiveViews, likes |-> {}, step |-> "likes", fresh |-> TRUE]]
  /\ UNCHANGED <<views, liked, exposures, due, marking, seen, profile, likeChanges, forgotten, overtaken, silent>>

\* Its queries of actions, comments and follows.
ReadLikes(c) ==
  /\ computing[c] # NoWork /\ computing[c].step = "likes"
  /\ computing' = [computing EXCEPT ![c].likes = PositiveLikes, ![c].step = "save"]
  /\ UNCHANGED <<views, liked, exposures, due, marking, seen, profile, likeChanges, forgotten, overtaken, silent>>

\* saveUserInterestVector: whatever the row holds is overwritten.
SaveProfile(c) ==
  /\ computing[c] # NoWork /\ computing[c].step = "save"
  /\ profile' = [views |-> computing[c].views, likes |-> computing[c].likes]
  /\ overtaken' = ~computing[c].fresh /\ silent' = {}
  /\ computing' = [computing EXCEPT ![c] = NoWork]
  /\ \/ due' = [due EXCEPT !["feature"] = @ \ {computing[c].of}]
     \/ UNCHANGED due
  /\ UNCHANGED <<views, liked, exposures, marking, seen, likeChanges, forgotten>>

\* HandleViewEventRecorded of the feature group, of an event that changes no profile.
PassOver(i) ==
  /\ i \in due["feature"] /\ ~AffectsInterestProfile(views[i].type)
  /\ due' = [due EXCEPT !["feature"] = @ \ {i}]
  /\ UNCHANGED <<views, liked, exposures, marking, seen, profile, computing, likeChanges, forgotten, overtaken, silent>>

\* A computation fails or stops; an event may have used up its retries.
StopComputing(c) ==
  /\ computing[c] # NoWork
  /\ computing' = [computing EXCEPT ![c] = NoWork]
  /\ \/ /\ c = "worker"
        /\ due' = [due EXCEPT !["feature"] = @ \ {computing[c].of}]
        /\ overtaken' = TRUE
     \/ UNCHANGED <<due, overtaken>>
  /\ UNCHANGED <<views, liked, exposures, marking, seen, profile, likeChanges, forgotten, silent>>

SeenSteps ==
  \/ \E v \in Watchable : SaveExposure(v)
  \/ \E i \in Recorded : MarkSeen(i) \/ Compensate(i) \/ GiveUpMark(i)
  \/ ExpireSeen

ProfileSteps ==
  \/ \E v \in Watchable : ChangeLike(v) \/ ChangeSilently(v)
  \/ \E i \in Recorded : PassOver(i)
  \/ \E c \in DOMAIN computing : ReadViews(c) \/ ReadLikes(c) \/ SaveProfile(c) \/ StopComputing(c)

InterestNext == (\E v \in Watchable : RecordView(v)) \/ SeenSteps \/ ProfileSteps

InterestSpec == InterestInit /\ [][InterestNext]_interestVars
----------------------------------------------------------------------------
(* Properties.                                                             *)

\* The row was computed from the views as they are, and from the other signals but for those
\* that changed in silence.
Agrees ==
  /\ profile.views = PositiveViews
  /\ \A v \in Watchable \ silent : v \in profile.likes <=> v \in PositiveLikes

\* A profile is the one of the signals as they are, once every event has been handled, unless
\* a computation that began before the last change wrote it late or a refresh was given up:
\* negative feedback and a like alike have replaced or dropped it.  What moderation, a ban or
\* a block changed is in it only after the next computation (the governance service does not
\* call InvalidateUserInterest), and until then nothing else of it is wrong.
ProfileFollowsSignals ==
  (profile # NoProfile /\ due["feature"] = {} /\ ~overtaken) => Agrees

\* An exposed video is in the filter once the recommendation group is through with its event,
\* though the mark of the request was lost, unless it expired or was given up.
ExposedIsSeen ==
  \A i \in Recorded :
    views[i].type = "exposed" =>
      views[i].video \in seen \cup forgotten \/ i \in due["recommendation"]

View == [video : Watchable, type : Types, request : RequestIds \cup {NoRequestId}]

InterestTypeOK ==
  /\ views \in Seq(View)
  /\ liked \subseteq Watchable
  /\ due \in [{"feature", "recommendation"} -> SUBSET Recorded]
  /\ marking \subseteq Recorded
  /\ silent \subseteq Watchable
  /\ computing \in [{"worker", "request"} ->
       {NoWork} \cup [of : Nat, views : SUBSET Nat, likes : SUBSET Watchable,
                      step : {"likes", "save"}, fresh : BOOLEAN]]

\* A computation that nothing has overtaken has read the signals as they are,
ReadsStand(c) ==
  computing[c] # NoWork /\ computing[c].fresh =>
    /\ computing[c].views = PositiveViews
    /\ computing[c].step = "save" => computing[c].likes = PositiveLikes

\* and so has the row it wrote, until an event that changes the profile is to be handled.
ProfileStands ==
  \/ profile = NoProfile \/ overtaken
  \/ \E i \in due["feature"] : AffectsInterestProfile(views[i].type)
  \/ Agrees

\* Inductive.
InterestInv ==
  /\ InterestTypeOK /\ ExposedIsSeen
  /\ \A c \in {"worker", "request"} : ReadsStand(c)
  /\ ProfileStands
============================================================================
