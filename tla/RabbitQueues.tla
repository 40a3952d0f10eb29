------------------------------ MODULE RabbitQueues ------------------------------
(***************************************************************************)
(* The broker used when Kafka is not there: events are published without   *)
(* confirmation to an exchange, which copies them to the bound queues; a   *)
(* consumer acknowledges what it handled, puts back what its handler       *)
(* failed, and ends for good when its connection is lost.                  *)
(***************************************************************************)
EXTENDS Naturals, FiniteSets

CONSTANTS
  Messages,
  MaxRequeues,   \* bound: failures of handlers
  MaxLosses      \* bound: connections lost

ASSUME RabbitAssumption == MaxRequeues \in Nat /\ MaxLosses \in Nat

VARIABLES
  event,     \* what the messages are of; the exchanges share nothing but the connection
  queue,     \* the copy of each message in each queue
  connected, \* the consumers have their connection
  handled,   \* the messages each consumer's handler has done
  requeues, losses

rabbitVars == <<event, queue, connected, handled, requeues, losses>>

\* ensureTopology: the queues bound to the key of each event.
Bound == [action_changed      |-> {"action_changed"},
          video_published     |-> {"video_published", "video_embedding"},
          view_event_recorded |-> {"view_event_recorded"}]

Queues == UNION {Bound[e] : e \in DOMAIN Bound}

RabbitInit ==
  /\ event \in DOMAIN Bound
  /\ queue = [q \in Queues |-> [m \in Messages |-> "unpublished"]]
  /\ connected = TRUE
  /\ handled = [q \in Queues |-> {}]
  /\ requeues = 0 /\ losses = 0

Becomes(q, m, state) == queue' = [queue EXCEPT ![q][m] = state]
----------------------------------------------------------------------------
\* PublishWithContext returns before the broker has the message, and may lose it.
PublishTo(bound, m) ==
  /\ \A q \in bound : queue[q][m] = "unpublished"
  /\ \E state \in {"ready", "broken", "dropped"} :
       queue' = [q \in Queues |-> IF q \in bound THEN [queue[q] EXCEPT ![m] = state] ELSE queue[q]]
  /\ UNCHANGED <<event, connected, handled, requeues, losses>>

PublishActionChanged(m) == event = "action_changed" /\ PublishTo(Bound[event], m)
PublishVideoPublished(m) == event = "video_published" /\ PublishTo(Bound[event], m)
PublishViewEventRecorded(m) == event = "view_event_recorded" /\ PublishTo(Bound[event], m)

\* A body that json.Unmarshal refuses is dropped: Nack without requeue.
DropBroken(q, m) ==
  /\ connected /\ queue[q][m] = "broken"
  /\ Becomes(q, m, "dropped")
  /\ UNCHANGED <<event, connected, handled, requeues, losses>>

\* One message at a time is handled.
Deliver(q, m) ==
  /\ connected /\ queue[q][m] = "ready"
  /\ \A n \in Messages : queue[q][n] \notin {"delivered", "done"}
  /\ Becomes(q, m, "delivered")
  /\ UNCHANGED <<event, connected, handled, requeues, losses>>

HandleMessage(q, m) ==
  /\ queue[q][m] = "delivered"
  /\ Becomes(q, m, "done")
  /\ handled' = [handled EXCEPT ![q] = @ \cup {m}]
  /\ UNCHANGED <<event, connected, requeues, losses>>

\* Mutant: what the handler failed is acknowledged all the same.
AckFailed(q, m) ==
  /\ queue[q][m] = "delivered" /\ requeues < MaxRequeues
  /\ Becomes(q, m, "acked")
  /\ requeues' = requeues + 1
  /\ UNCHANGED <<event, connected, handled, losses>>

\* The handler fails: Nack with requeue.
Requeue(q, m) ==
  /\ queue[q][m] = "delivered" /\ requeues < MaxRequeues
  /\ Becomes(q, m, "ready")
  /\ requeues' = requeues + 1
  /\ UNCHANGED <<event, connected, handled, losses>>

Ack(q, m) ==
  /\ queue[q][m] = "done"
  /\ Becomes(q, m, "acked")
  /\ UNCHANGED <<event, connected, handled, requeues, losses>>

\* What was not acknowledged is ready again; the consuming goroutine ends with its channel.
LoseConnection ==
  /\ losses < MaxLosses
  /\ losses' = losses + 1
  /\ connected' = FALSE
  /\ queue' = [q \in Queues |-> [m \in Messages |->
                 IF queue[q][m] \in {"delivered", "done"} THEN "ready" ELSE queue[q][m]]]
  /\ UNCHANGED <<event, handled, requeues>>

\* NewRabbitMQ in a new process.
RestartWorker ==
  /\ ~connected
  /\ connected' = TRUE
  /\ UNCHANGED <<event, queue, handled, requeues, losses>>

Consume(q, m) == DropBroken(q, m) \/ Deliver(q, m) \/ HandleMessage(q, m) \/ Requeue(q, m) \/ Ack(q, m)

ConsumeActionChanged(m) == Consume("action_changed", m)
ConsumeVideoPublished(m) == Consume("video_published", m)
ConsumeVideoPublishedForEmbedding(m) == Consume("video_embedding", m)
ConsumeViewEventRecorded(m) == Consume("view_event_recorded", m)

RabbitNext ==
  \/ \E m \in Messages :
       \/ PublishActionChanged(m) \/ PublishVideoPublished(m) \/ PublishViewEventRecorded(m)
       \/ ConsumeActionChanged(m) \/ ConsumeViewEventRecorded(m)
       \/ ConsumeVideoPublished(m) \/ ConsumeVideoPublishedForEmbedding(m)
  \/ LoseConnection \/ RestartWorker

\* A consumer goes on with what it is given; nobody restarts a worker that has lost its
\* connection, so its restart is not fair.
RabbitFairness == \A q \in Queues : WF_rabbitVars(\E m \in Messages : Consume(q, m))
----------------------------------------------------------------------------
(* Properties.                                                             *)

\* A message the broker has taken is handled in the end by the consumer of every bound queue,
\* unless its body is refused, however often it was put back or its connection lost, if only the
\* workers are consuming in the end.
EveryQueueHandles ==
  <>[]connected =>
    <>[](\A q \in Queues, m \in Messages :
           queue[q][m] \in {"unpublished", "dropped"} \/ m \in handled[q])
============================================================================
