---------------------------- MODULE EventStream ----------------------------
(***************************************************************************)
(* What event delivery promises the consumer groups: every group works     *)
(* through the same log of events, and leaves an event behind only when    *)
(* its handler has run or the event lies in the dead-letter topic.  An     *)
(* event may be in the log, and be handled, more than once.                *)
(***************************************************************************)
EXTENDS Naturals, Sequences

CONSTANTS Events, Groups

VARIABLES log,      \* the events sent to the partition
          settled,  \* how many of them each group has left behind
          handled,  \* the events whose handler has run for a group
          dead      \* the events in the dead-letter topic of a group

stream == <<log, settled, handled, dead>>

StreamInit == /\ log = <<>>
              /\ settled = [g \in Groups |-> 0]
              /\ handled = [g \in Groups |-> {}]
              /\ dead = [g \in Groups |-> {}]

Send(e) == /\ log' = Append(log, e)
           /\ UNCHANGED <<settled, handled, dead>>

Handle(g, e) == /\ \E i \in 1..Len(log) : log[i] = e
                /\ handled' = [handled EXCEPT ![g] = @ \cup {e}]
                /\ UNCHANGED <<log, settled, dead>>

Bury(g, e) == /\ \E i \in 1..Len(log) : log[i] = e
              /\ dead' = [dead EXCEPT ![g] = @ \cup {e}]
              /\ UNCHANGED <<log, settled, handled>>

\* The group leaves the first n events behind, for good.
Settle(g, n) == /\ n >= settled[g]
                /\ \A i \in 1..n : log[i] \in handled[g] \cup dead[g]
                /\ settled' = [settled EXCEPT ![g] = n]
                /\ UNCHANGED <<log, handled, dead>>

StreamNext ==
  \/ \E e \in Events : Send(e)
  \/ \E g \in Groups :
       \/ \E e \in Events : Handle(g, e) \/ Bury(g, e)
       \/ \E n \in 1..Len(log) : Settle(g, n)

StreamSpec == StreamInit /\ [][StreamNext]_stream
============================================================================
