------------------------ MODULE MCVideoModeration ------------------------
(* Small instances of VideoModeration for TLC.                             *)
EXTENDS VideoModeration, TLC

\* The author's requests are interchangeable.
ClientSymmetry == Permutations(Clients)

============================================================================
