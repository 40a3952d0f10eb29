-------------------------- MODULE PublicationGate --------------------------
(***************************************************************************)
(* What moderation promises the audience: a video shows either nothing or  *)
(* a content that a human has decided on.  An author may hide or replace a *)
(* video at any time; no content is shown before a human has judged it.    *)
(***************************************************************************)
CONSTANTS Videos, Contents, NoContent

VARIABLES judged,  \* the contents of each video a human has decided on
          shown    \* the content of each video the public sees

gate == <<judged, shown>>

GateInit == /\ judged = [v \in Videos |-> {}]
            /\ shown = [v \in Videos |-> NoContent]

\* A human closes a review; the video may disappear with it.
Judge(v, x) ==
  /\ judged' = [judged EXCEPT ![v] = @ \cup {x}]
  /\ shown' \in {shown, [shown EXCEPT ![v] = NoContent]}

\* A hidden video shows a content a human has judged, at the latest now.
Show(v, x) ==
  /\ shown[v] = NoContent
  /\ \/ UNCHANGED judged
     \/ \E y \in Contents : judged' = [judged EXCEPT ![v] = @ \cup {y}]
  /\ x \in judged'[v]
  /\ shown' = [shown EXCEPT ![v] = x]

\* Some videos disappear: an edit, a deletion, an administrator, a ban.
Hide(S) ==
  /\ shown' = [v \in Videos |-> IF v \in S THEN NoContent ELSE shown[v]]
  /\ UNCHANGED judged

GateNext ==
  \/ \E v \in Videos, x \in Contents : Judge(v, x) \/ Show(v, x)
  \/ \E S \in SUBSET Videos : Hide(S)

GateSpec == GateInit /\ [][GateNext]_gate
============================================================================
