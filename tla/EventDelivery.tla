--------------------------- MODULE EventDelivery ---------------------------
(***************************************************************************)
(* The transactional outbox and the Kafka consumers.  A business           *)
(* transaction adds a row to outbox_event; the dispatcher of every worker  *)
(* process polls the rows, publishes them and marks them; the consumers of *)
(* the worker processes read the topic in groups, skip what their group    *)
(* has processed, retry a failing handler, give up into the dead-letter    *)
(* topic and commit the offset.  One partition is modelled: events with    *)
(* different partition keys do not meet.                                   *)
(***************************************************************************)
EXTENDS Integers, Sequences, FiniteSets

CONSTANTS
  MaxEvents,    \* bound: events the business transactions add
  Workers,      \* worker processes
  Groups,       \* consumer groups
  NoWorker,     \* no process has been assigned the partition
  BatchLimit,   \* rows fetched in one dispatch (100)
  MaxAttempts,  \* publish attempts before a row is given up (10)
  MaxRetries,   \* handler retries before an event is buried (5)
  MaxFaults     \* bound: crashes, lost assignments and failed updates

ASSUME ConstantsAssumption ==
  /\ MaxEvents \in Nat
  /\ NoWorker \notin Workers
  /\ BatchLimit \in Nat \ {0}
  /\ MaxAttempts \in Nat \ {0}
  /\ MaxRetries \in Nat
  /\ MaxFaults \in Nat

\* Events are numbered in the order in which their rows were created.
Events == 1..MaxEvents

VARIABLES
  outbox,     \* the rows of outbox_event
  disp,       \* the dispatcher of each process
  log,        \* the partition of the topic
  owner,      \* the process each group has assigned the partition to
  committed,  \* the offset each group has committed
  cons,       \* the consumer of each group in each process
  processed,  \* the rows of consumer_event: the events each group has processed
  dlq,        \* the dead-letter topic, by group
  handled,    \* history: the events whose handler has succeeded for the group
  faults      \* the faults so far

vars == <<outbox, disp, log, owner, committed, cons, processed, dlq, handled, faults>>
----------------------------------------------------------------------------
Row == [status : {"absent", "pending", "published", "failed"}, attempts : Nat]

\* step: what the dispatcher does next with the oldest row of its batch;
\* seen: the attempts of the rows when they were fetched.
Dispatcher == [step  : {"idle", "publish", "mark", "fail"},
               batch : SUBSET Events,
               seen  : [Events -> Nat]]

Resting == [step |-> "idle", batch |-> {}, seen |-> [e \in Events |-> 0]]

\* pos: the events of the partition the consumer has gone past.
Consumer == [step  : {"idle", "check", "handle", "mark", "bury", "commit"},
             pos   : Nat,
             tries : 0..MaxRetries]

AtOffset(n) == [step |-> "idle", pos |-> n, tries |-> 0]

\* Rows, dispatchers and consumers are well typed; a dispatcher rests exactly
\* when its batch is empty and no consumer is past the end of the log.
TypeOK ==
  /\ outbox    \in [Events -> Row]
  /\ disp      \in [Workers -> Dispatcher]
  /\ log       \in Seq(Events)
  /\ owner     \in [Groups -> Workers \cup {NoWorker}]
  /\ committed \in [Groups -> 0..Len(log)]
  /\ cons      \in [Groups -> [Workers -> Consumer]]
  /\ processed \in [Groups -> SUBSET Events]
  /\ dlq       \in [Groups -> SUBSET Events]
  /\ handled   \in [Groups -> SUBSET Events]
  /\ faults    \in Nat
  /\ \A w \in Workers : disp[w].step = "idle" <=> disp[w].batch = {}
  /\ \A g \in Groups, w \in Workers :
       IF cons[g][w].step = "idle" THEN cons[g][w].pos <= Len(log)
                                   ELSE cons[g][w].pos < Len(log)

Init ==
  /\ outbox    = [e \in Events |-> [status |-> "absent", attempts |-> 0]]
  /\ disp      = [w \in Workers |-> Resting]
  /\ log       = <<>>
  /\ owner     = [g \in Groups |-> NoWorker]
  /\ committed = [g \in Groups |-> 0]
  /\ cons      = [g \in Groups |-> [w \in Workers |-> AtOffset(0)]]
  /\ processed = [g \in Groups |-> {}]
  /\ dlq       = [g \in Groups |-> {}]
  /\ handled   = [g \in Groups |-> {}]
  /\ faults    = 0

Fault == faults < MaxFaults /\ faults' = faults + 1

topic    == <<log, owner, committed>>
group    == <<owner, committed, cons, processed, dlq, handled>>
producer == <<outbox, disp, log>>
----------------------------------------------------------------------------
(* The outbox.                                                             *)

\* A business transaction commits with the row in it.
Add(e) ==
  /\ outbox[e].status = "absent"
  /\ \A d \in Events : d < e => outbox[d].status # "absent"
  /\ outbox' = [outbox EXCEPT ![e] = [status |-> "pending", attempts |-> 0]]
  /\ UNCHANGED <<disp, log, group, faults>>

Oldest(S) == CHOOSE e \in S : \A d \in S : e <= d

Fetchable(e) == outbox[e].status = "pending"

\* FetchPending: the oldest rows that are due.  A row that has failed before
\* is due after a delay, so any of those may be missing.
Fetch(w) ==
  /\ disp[w].step = "idle"
  /\ \E due \in SUBSET {e \in Events : Fetchable(e)} :
       LET batch == {e \in due : Cardinality({d \in due : d < e}) < BatchLimit}
       IN  /\ \A e \in Events : Fetchable(e) /\ outbox[e].attempts = 0 => e \in due
           /\ batch # {}
           /\ disp' = [disp EXCEPT ![w] =
                         [step |-> "publish", batch |-> batch,
                          seen |-> [e \in Events |-> IF e \in batch
                                                     THEN outbox[e].attempts ELSE 0]]]
  /\ UNCHANGED <<outbox, log, group, faults>>

Current(w) == Oldest(disp[w].batch)

Turn(w, step) ==
  disp' = [disp EXCEPT ![w] = [step |-> step, batch |-> @.batch, seen |-> @.seen]]

\* Mutant: the record is handed to the producer, which may never send it.
PublishAsync(w) ==
  /\ disp[w].step = "publish"
  /\ log' \in {log, Append(log, Current(w))}
  /\ Turn(w, "mark")
  /\ UNCHANGED <<outbox, group, faults>>

Publish(w) ==
  /\ disp[w].step = "publish"
  /\ log' = Append(log, Current(w))
  /\ Turn(w, "mark")
  /\ UNCHANGED <<outbox, group, faults>>

\* Publishing returns an error; the record may have reached the topic.
PublishError(w) ==
  /\ disp[w].step = "publish"
  /\ log' \in {log, Append(log, Current(w))}
  /\ Turn(w, "fail")
  /\ UNCHANGED <<outbox, group, faults>>

\* The dispatcher goes on to the next row of the batch.
NextRow(w) ==
  LET rest == disp[w].batch \ {Current(w)}
  IN  disp' = [disp EXCEPT ![w] =
                 IF rest = {} THEN Resting
                 ELSE [step |-> "publish", batch |-> rest, seen |-> @.seen]]

MarkPublished(w) ==
  /\ disp[w].step = "mark"
  /\ outbox' = [outbox EXCEPT ![Current(w)] =
                  [status |-> "published", attempts |-> @.attempts]]
  /\ NextRow(w)
  /\ UNCHANGED <<log, group, faults>>

\* The row is given up by the attempts it had when it was fetched.
MarkFailed(w) ==
  /\ disp[w].step = "fail"
  /\ outbox' = [outbox EXCEPT ![Current(w)] =
                  [status |-> IF disp[w].seen[Current(w)] + 1 >= MaxAttempts
                              THEN "failed" ELSE "pending",
                   attempts |-> @.attempts + 1]]
  /\ NextRow(w)
  /\ UNCHANGED <<log, group, faults>>

\* The row cannot be marked: the rest of the batch waits for the next poll.
MarkError(w) ==
  /\ disp[w].step \in {"mark", "fail"}
  /\ Fault
  /\ disp' = [disp EXCEPT ![w] = Resting]
  /\ UNCHANGED <<outbox, log, group>>
----------------------------------------------------------------------------
(* The consumers.                                                          *)

Event(g, w) == log[cons[g][w].pos + 1]

Go(g, w, step) ==
  cons' = [cons EXCEPT ![g][w] = [step |-> step, pos |-> @.pos, tries |-> @.tries]]

\* Kafka assigns the partition; the consumer starts at the committed offset.
Assign(g, w) ==
  /\ owner[g] = NoWorker
  /\ cons[g][w].step = "idle"
  /\ owner' = [owner EXCEPT ![g] = w]
  /\ cons' = [cons EXCEPT ![g][w] = AtOffset(committed[g])]
  /\ UNCHANGED <<producer, committed, processed, dlq, handled, faults>>

\* The group gives up on a process that did not come back in time; the
\* process does not notice and goes on with its record.
Expel(g) ==
  /\ owner[g] # NoWorker
  /\ Fault
  /\ owner' = [owner EXCEPT ![g] = NoWorker]
  /\ UNCHANGED <<producer, committed, cons, processed, dlq, handled>>

\* Mutants: the offset is committed when the record is polled; the newest
\* record is not polled until another follows.
PollAndCommit(g, w) ==
  /\ owner[g] = w
  /\ cons[g][w].step = "idle"
  /\ cons[g][w].pos < Len(log)
  /\ cons' = [cons EXCEPT ![g][w] = [step |-> "check", pos |-> @.pos, tries |-> 0]]
  /\ committed' = [committed EXCEPT ![g] = cons[g][w].pos + 1]
  /\ UNCHANGED <<producer, owner, processed, dlq, handled, faults>>
PollAllButLast(g, w) ==
  /\ owner[g] = w
  /\ cons[g][w].step = "idle"
  /\ cons[g][w].pos + 1 < Len(log)
  /\ cons' = [cons EXCEPT ![g][w] = [step |-> "check", pos |-> @.pos, tries |-> 0]]
  /\ UNCHANGED <<producer, owner, committed, processed, dlq, handled, faults>>

Poll(g, w) ==
  /\ owner[g] = w
  /\ cons[g][w].step = "idle"
  /\ cons[g][w].pos < Len(log)
  /\ cons' = [cons EXCEPT ![g][w] = [step |-> "check", pos |-> @.pos, tries |-> 0]]
  /\ UNCHANGED <<producer, owner, committed, processed, dlq, handled, faults>>

\* Mutant: every record goes to the handler.
CheckNothing(g, w) ==
  /\ cons[g][w].step = "check"
  /\ Go(g, w, "handle")
  /\ UNCHANGED <<producer, owner, committed, processed, dlq, handled, faults>>

CheckProcessed(g, w) ==
  /\ cons[g][w].step = "check"
  /\ Go(g, w, IF Event(g, w) \in processed[g] THEN "commit" ELSE "handle")
  /\ UNCHANGED <<producer, owner, committed, processed, dlq, handled, faults>>

RunHandler(g, w) ==
  /\ cons[g][w].step = "handle"
  /\ handled' = [handled EXCEPT ![g] = @ \cup {Event(g, w)}]
  /\ Go(g, w, "mark")
  /\ UNCHANGED <<producer, owner, committed, processed, dlq, faults>>

MarkProcessed(g, w) ==
  /\ cons[g][w].step = "mark"
  /\ processed' = [processed EXCEPT ![g] = @ \cup {Event(g, w)}]
  /\ Go(g, w, "commit")
  /\ UNCHANGED <<producer, owner, committed, dlq, handled, faults>>

\* The check, the handler or the mark returns an error: handleEvent starts
\* again, or the event is buried when the retries are used up.
Retry(g, w) ==
  /\ cons[g][w].step \in {"check", "handle", "mark"}
  /\ IF cons[g][w].tries < MaxRetries
     THEN cons' = [cons EXCEPT ![g][w] = [step |-> "check", pos |-> @.pos,
                                          tries |-> @.tries + 1]]
     ELSE Go(g, w, "bury")
  /\ UNCHANGED <<producer, owner, committed, processed, dlq, handled, faults>>

\* publishDLQUntilSuccess.
Bury(g, w) ==
  /\ cons[g][w].step = "bury"
  /\ dlq' = [dlq EXCEPT ![g] = @ \cup {Event(g, w)}]
  /\ Go(g, w, "commit")
  /\ UNCHANGED <<producer, owner, committed, processed, handled, faults>>

\* The commit counts if Kafka still has the process in the group; its error
\* is ignored and the consumer goes on with the next record.
Commit(g, w) ==
  /\ cons[g][w].step = "commit"
  /\ \/ /\ owner[g] = w
        /\ committed' = [committed EXCEPT ![g] = cons[g][w].pos + 1]
     \/ UNCHANGED committed
  /\ cons' = [cons EXCEPT ![g][w] = AtOffset(@.pos + 1)]
  /\ UNCHANGED <<producer, owner, processed, dlq, handled, faults>>

\* A process crashes, or is stopped: the dispatcher forgets its batch, and
\* a record in work is not committed.
Crash(w) ==
  /\ Fault
  /\ disp' = [disp EXCEPT ![w] = Resting]
  /\ cons' = [g \in Groups |-> [cons[g] EXCEPT ![w] = AtOffset(0)]]
  /\ owner' = [g \in Groups |-> IF owner[g] = w THEN NoWorker ELSE owner[g]]
  /\ UNCHANGED <<outbox, log, committed, processed, dlq, handled>>
----------------------------------------------------------------------------
Dispatch(w) ==
  \/ Fetch(w)
  \/ Publish(w)
  \/ PublishError(w)
  \/ MarkPublished(w)
  \/ MarkFailed(w)

Consume(g, w) ==
  \/ Poll(g, w)
  \/ CheckProcessed(g, w)
  \/ RunHandler(g, w)
  \/ MarkProcessed(g, w)
  \/ Retry(g, w)
  \/ Bury(g, w)
  \/ Commit(g, w)

Next ==
  \/ \E e \in Events : Add(e)
  \/ \E w \in Workers : Dispatch(w) \/ MarkError(w) \/ Crash(w)
  \/ \E g \in Groups : Expel(g)
  \/ \E g \in Groups, w \in Workers : Assign(g, w) \/ Consume(g, w)

Spec == Init /\ [][Next]_vars

\* Dispatchers and consumers run for ever, and Kafka hands the partition of a
\* lost process to another.
FairSpec ==
  /\ Spec
  /\ \A w \in Workers : WF_vars(Dispatch(w))
  /\ \A g \in Groups : WF_vars(\E w \in Workers : Assign(g, w))
  /\ \A g \in Groups, w \in Workers : WF_vars(Consume(g, w))
----------------------------------------------------------------------------
(* Properties.                                                             *)

Logged(e) == \E i \in 1..Len(log) : log[i] = e

\* An event whose transaction committed is never forgotten: it is waiting in
\* the outbox, in the topic, or given up after the last attempt.
EventsAccounted ==
  \A e \in Events :
    \/ outbox[e].status \in {"absent", "pending"}
    \/ outbox[e].status = "published" /\ Logged(e)
    \/ outbox[e].status = "failed" /\ outbox[e].attempts >= MaxAttempts

\* A group commits past an event only when its handler has run or the event
\* can be found in the dead-letter topic, whoever consumes and crashes.
NothingSkipped ==
  \A g \in Groups : \A i \in 1..committed[g] : log[i] \in handled[g] \cup dlq[g]

\* A dispatcher about to mark a row has sent it, and the rows of its batch
\* have been tried at least as often as it has seen.
DispatcherInv(w) ==
  /\ disp[w].step = "mark" => Logged(Current(w))
  /\ \A e \in disp[w].batch :
       outbox[e].status # "absent" /\ disp[w].seen[e] <= outbox[e].attempts

\* A consumer, of the group or expelled from it, leaves an event behind when
\* it has been handled or buried, and the owner is never behind its group.
ConsumerInv(g, w) ==
  /\ \A i \in 1..cons[g][w].pos : log[i] \in handled[g] \cup dlq[g]
  /\ cons[g][w].step = "mark" => Event(g, w) \in handled[g]
  /\ cons[g][w].step = "commit" => Event(g, w) \in handled[g] \cup dlq[g]
  /\ owner[g] = w => committed[g] <= cons[g][w].pos

\* A group has handled whatever it remembers as processed.
ProcessedWereHandled == \A g \in Groups : processed[g] \subseteq handled[g]

\* Delivery holds together as an inductive invariant: what the outbox, the
\* dispatchers, the log and the consumers know of an event never disagrees.
DeliveryInv ==
  /\ TypeOK
  /\ EventsAccounted
  /\ \A w \in Workers : DispatcherInv(w)
  /\ ProcessedWereHandled
  /\ \A g \in Groups, w \in Workers : ConsumerInv(g, w)
  /\ NothingSkipped

HandlerRuns(g, w) == cons[g][w].step = "handle" /\ cons'[g][w].step = "mark"

\* The record of processed events keeps a handler from running again (one
\* process): not when the topic holds the event twice, nor after a crash.
ProcessedNotRepeated ==
  [][\A g \in Groups, w \in Workers :
       HandlerRuns(g, w) => Event(g, w) \notin processed[g]]_vars

\* Every event of a committed transaction reaches every group, as a handled
\* event or a dead letter, unless the outbox gives it up.
EveryGroupSettles ==
  \A e \in Events, g \in Groups :
    (outbox[e].status = "pending") ~>
      (outbox[e].status = "failed" \/ e \in handled[g] \cup dlq[g])

\* Outbox and consumers implement the stream of events.
Stream == INSTANCE EventStream WITH settled <- committed, dead <- dlq

\* No crash, fault or reassignment makes them leave the specification of the
\* stream: the log only grows, offsets only advance, over settled events only.
StreamSpec == Stream!StreamSpec
============================================================================
