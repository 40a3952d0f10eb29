---------------------------- MODULE MCFeedWalks ----------------------------
(***************************************************************************)
(* Clients that walk down the feeds, page after page: the timeline, the    *)
(* hot feed and the following feed.  The three share no state; a behaviour *)
(* runs one of them, the scene, so that their states add up instead of     *)
(* being multiplied.                                                       *)
(***************************************************************************)
EXTENDS MCFollowingFeed, TimelineWalk, HotWindow

VARIABLE scene

\* What a like adds, and an interaction that is undone.
MCScores == {2, -1}

MCWalksInit ==
  /\ MCInit /\ WalkInit /\ HotInit
  /\ \/ scene \in {"hot", "following"} /\ Rows = {}
     \/ scene = "timeline"

MCWalksNext ==
  /\ UNCHANGED scene
  /\ \/ scene = "timeline" /\ WalkNext /\ UNCHANGED <<vars, hotVars>>
     \/ scene = "hot" /\ HotNext /\ UNCHANGED <<vars, walkVars>>
     \/ scene = "following" /\ Next /\ UNCHANGED <<walkVars, hotVars>>

MCWalksSpec == MCWalksInit /\ [][MCWalksNext]_<<vars, walkVars, hotVars, scene>>
============================================================================
