-------------------------- MODULE MCTimelinePages --------------------------
(* A small instance of TimelinePages for TLC.                              *)
EXTENDS TimelinePages

\* The first request comes to the first process; the second may come to another.
MCInit ==
  /\ PagesInit
  /\ apiOf[CHOOSE r \in Requests : TRUE] = CHOOSE a \in Apis : TRUE

MCSpec == MCInit /\ [][PagesNext]_pagesVars /\ PagesFairness
============================================================================
