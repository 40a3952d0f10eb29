-------------------------- MODULE MCEventDelivery --------------------------
(* Small instances of EventDelivery for TLC.                               *)
EXTENDS EventDelivery, TLC

\* Worker processes run the same code.
WorkerSymmetry == Permutations(Workers)
============================================================================
