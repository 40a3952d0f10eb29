------------------------ MODULE MCCommentModeration ------------------------
(* Small instances of CommentModeration for TLC.                           *)
EXTENDS CommentModeration, TLC

CONSTANTS m1, m2, u1, u2

\* Two commenters with a comment each.
OneEach == m1 :> u1 @@ m2 :> u2

\* Concurrent requests are interchangeable.
ClientSymmetry == Permutations(Clients)
============================================================================
