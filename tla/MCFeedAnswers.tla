--------------------------- MODULE MCFeedAnswers ---------------------------
(***************************************************************************)
(* What must end well around an answer of the feed: the primary source of  *)
(* the recommended feed, which gives the page; the mix of that page with   *)
(* the other sources; the assembly of the items; and the queues that carry *)
(* events to the workers when Kafka is not there.  The four share no       *)
(* state; a behaviour runs one of them, the scene, so that their states    *)
(* add up instead of being multiplied.  None of the fair steps of a scene  *)
(* is enabled in the initial states, so the scenes that rest are fair.     *)
(***************************************************************************)
EXTENDS SourceGovernor, FeedAssembly, RabbitQueues, RecommendedFeed

VARIABLE scene

\* Neither the newest first nor the authors in turn.
MCOffered == <<3, 5, 1, 4, 2>>
MCWrittenBy == [v \in 1 .. 5 |-> IF v \in {2, 5} THEN "nora" ELSE "otto"]

MCInit ==
  /\ GovernorInit /\ AssemblyInit /\ RabbitInit /\ MixInit
  /\ \/ /\ scene \in {"source", "queues", "mix"}
        /\ published = {} /\ apiOf = [r \in Requests |-> CHOOSE a \in Apis : TRUE]
     \/ scene = "assembly"
  /\ scene # "queues" => event = "video_published"

\* Nothing is left in the queues.
QueuesEnd == \A q \in Bound[event], m \in Messages : queue[q][m] \in {"acked", "dropped"}

MCNext ==
  /\ UNCHANGED scene
  /\ \/ scene = "source" /\ GovernorNext /\ UNCHANGED <<cardVars, rabbitVars, mixVars>>
     \/ scene = "assembly" /\ AssemblyNext /\ UNCHANGED <<governorVars, rabbitVars, mixVars>>
     \/ scene = "queues" /\ QueuesEnd /\ UNCHANGED <<rabbitVars, governorVars, cardVars, mixVars>>
     \/ scene = "queues" /\ RabbitNext /\ UNCHANGED <<governorVars, cardVars, mixVars>>
     \/ scene = "mix" /\ MixNext /\ UNCHANGED <<governorVars, cardVars, rabbitVars>>

MCSpec ==
  /\ MCInit /\ [][MCNext]_<<governorVars, cardVars, rabbitVars, mixVars, scene>>
  /\ GovernorFairness /\ AssemblyFairness /\ RabbitFairness
============================================================================
