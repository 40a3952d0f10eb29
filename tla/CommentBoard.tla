---------------------------- MODULE CommentBoard ----------------------------
(***************************************************************************)
(* What the comments of a video look like to its audience: a set of        *)
(* comments, each cleared by a review before it is shown, a counter that   *)
(* is always the size of that set, and comments that never come back once  *)
(* they were removed.                                                      *)
(***************************************************************************)
EXTENDS Naturals, FiniteSets

CONSTANT Comments

VARIABLES shown,    \* the comments the audience sees
          cleared,  \* those a review has let through
          removed,  \* those that were deleted
          count     \* the number shown with the video

board == <<shown, cleared, removed, count>>

BoardInit == /\ shown = {}
             /\ cleared = {}
             /\ removed = {}
             /\ count = 0

\* A review, an appeal or an administrator puts a cleared comment on the board.
Show(m) == /\ m \notin shown \cup removed
           /\ cleared' = cleared \cup {m}
           /\ shown' = shown \cup {m}
           /\ count' = count + 1
           /\ UNCHANGED removed

\* An administrator takes comments off the board.
Hide(S) == /\ S \subseteq shown
           /\ shown' = shown \ S
           /\ count' = Cardinality(shown \ S)
           /\ UNCHANGED <<cleared, removed>>

Remove(m) == /\ removed' = removed \cup {m}
             /\ shown' = shown \ {m}
             /\ count' = Cardinality(shown \ {m})
             /\ UNCHANGED cleared

BoardNext == \/ \E m \in Comments : Show(m) \/ Remove(m)
             \/ \E S \in SUBSET Comments : Hide(S)

BoardSpec == BoardInit /\ [][BoardNext]_board
=============================================================================
