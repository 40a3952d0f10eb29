----------------------------- MODULE FeedVideos -----------------------------
(***************************************************************************)
(* What the reads of the feed see of the videos: which are published, and  *)
(* the visibility events that the worker has still to handle.              *)
(***************************************************************************)
EXTENDS Naturals

CONSTANTS
  Videos,         \* the videos the readers meet
  Apis,           \* API processes
  Requests,       \* requests that are handled at the same time
  Nothing,        \* no entry in a cache, no load under way
  MaxModerations  \* bound: takedowns and restores

ASSUME FeedVideosAssumption == MaxModerations \in Nat

VARIABLES
  published,   \* videos whose row is published
  due,         \* visibility events of a video that are not yet handled
  apiOf,       \* the process that handles a request
  moderations

videoVars == <<published, due, apiOf, moderations>>

VideosInit ==
  /\ published \in SUBSET Videos
  /\ due = [v \in Videos |-> 0]
  /\ apiOf \in [Requests -> Apis]
  /\ moderations = 0

Hide(v) ==
  /\ v \in published /\ moderations < MaxModerations
  /\ moderations' = moderations + 1
  /\ published' = published \ {v}
  /\ due' = [due EXCEPT ![v] = @ + 1]
  /\ UNCHANGED apiOf

Restore(v) ==
  /\ v \notin published /\ moderations < MaxModerations
  /\ moderations' = moderations + 1
  /\ published' = published \cup {v}
  /\ due' = [due EXCEPT ![v] = @ + 1]
  /\ UNCHANGED apiOf

\* The worker handles a visibility event; the caches it deletes in its own
\* process are not those of an API process.
Invalidate(v) ==
  /\ due[v] > 0
  /\ due' = [due EXCEPT ![v] = @ - 1]
  /\ UNCHANGED <<published, apiOf, moderations>>
============================================================================
