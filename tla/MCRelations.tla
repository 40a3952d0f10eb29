---------------------------- MODULE MCRelations ----------------------------
(* Small instances of Relations for TLC.                                   *)
EXTENDS Relations, TLC

\* Concurrent requests are interchangeable.
ClientSymmetry == Permutations(Clients)
============================================================================
