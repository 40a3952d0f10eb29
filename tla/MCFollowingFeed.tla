-------------------------- MODULE MCFollowingFeed --------------------------
(* Small instances of FollowingFeed for TLC.                               *)
EXTENDS FollowingFeed

\* The even videos are of the second author.
MCAuthorOf == [v \in Videos |-> IF v % 2 = 0 THEN "b" ELSE "a"]

\* One video has been published before the caches were built; the second
\* author is a big creator; the reader follows both.
MCInit ==
  /\ Init
  /\ Published = 1 .. 1
  /\ follow = {<<1, "a">>, <<1, "b">>}
  /\ big = {"b"}

MCSpec == MCInit /\ [][Next]_vars
============================================================================
