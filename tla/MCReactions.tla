---------------------------- MODULE MCReactions ----------------------------
(* Small instances of Reactions for TLC.                                   *)
EXTENDS Reactions

CONSTANTS like, undo

\* The users' ids differ modulo the number of shards: a shard for each.
ShardEach == [u \in Users |-> u]

TargetEach == like :> TRUE @@ undo :> FALSE

\* What decides no step that a property looks at is not told apart: the messages, the score of
\* a user of whom a change was lost, the live counters once a user is disturbed, the count read
\* by a request that has used it, and what a request asked for that has only the score to write.
Seen ==
  <<open, calls, redis, topic, stored, unscored, disturbed,
    IF disturbed = {} THEN <<base, shards, touched, drifted>> ELSE <<>>,
    [u \in Users |-> IF u \in unscored THEN 0 ELSE hot[u]],
    [c \in Callers |->
       <<call[c].step, call[c].user, call[c].delta,
         IF call[c].step = "redis" THEN call[c].stat ELSE 0,
         IF call[c].step = "score" THEN <<>> ELSE <<call[c].active, call[c].key>>>>]>>

\* Concurrent requests are interchangeable, and so are users with their shards.
Symmetry == Permutations(Callers) \cup Permutations(Users)
============================================================================
