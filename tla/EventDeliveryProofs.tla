------------------------ MODULE EventDeliveryProofs ------------------------
(***************************************************************************)
(* Proofs about EventDelivery, for any number of events, workers, groups,  *)
(* attempts, retries and faults: the type invariant, that no event is      *)
(* forgotten by the outbox or skipped by a group, and that outbox and      *)
(* consumers implement EventStream.  All of them rest on DeliveryInv,      *)
(* which is inductive.                                                     *)
(***************************************************************************)
EXTENDS EventDelivery, WellFoundedInduction, TLAPS

----------------------------------------------------------------------------
(* Lemmas about the rows in turn and the log.                              *)

\* A batch with rows in it has an oldest row (FetchPending's order).
LEMMA OldestIsMember ==
  ASSUME NEW S \in SUBSET Events, S # {}
  PROVE  Oldest(S) \in S
<1>1. S \subseteq Nat
  BY ConstantsAssumption DEF Events
<1>2. PICK x \in S : \A y \in S : <<y, x>> \notin OpToRel(<, Nat)
  BY <1>1, NatLessThanWellFounded, WFMin
<1>3. \A y \in S : x <= y
  <2>1. ASSUME NEW y \in S PROVE ~ (y < x)
    BY <1>1, <1>2 DEF OpToRel
  <2> QED BY <1>1, <2>1
<1> QED BY <1>2, <1>3 DEF Oldest

\* A dispatcher that works has a row in turn.
LEMMA CurrentInBatch ==
  ASSUME TypeOK, NEW w \in Workers, disp[w].step # "idle"
  PROVE  /\ Current(w) \in disp[w].batch
         /\ Current(w) \in Events
<1>1. disp[w].batch \in SUBSET Events /\ disp[w].batch # {}
  BY DEF TypeOK, Dispatcher
<1> QED BY <1>1, OldestIsMember DEF Current

\* A consumer that works has an event of the log in hand.
LEMMA EventInLog ==
  ASSUME TypeOK, NEW g \in Groups, NEW w \in Workers, cons[g][w].step # "idle"
  PROVE  /\ cons[g][w].pos + 1 \in 1..Len(log)
         /\ Event(g, w) \in Events
<1>1. cons[g][w].pos \in Nat /\ cons[g][w].pos < Len(log) /\ log \in Seq(Events)
  BY DEF TypeOK, Consumer
<1>2. Len(log) \in Nat
  BY <1>1
<1>3. cons[g][w].pos + 1 \in 1..Len(log)
  BY <1>1, <1>2
<1> QED BY <1>1, <1>3 DEF Event

\* The log only grows: what was logged stays where it was.
LEMMA LogGrows ==
  ASSUME log \in Seq(Events), NEW e \in Events,
         log' \in {log, Append(log, e)}
  PROVE  /\ log' \in Seq(Events)
         /\ Len(log) \in Nat /\ Len(log') \in Nat /\ Len(log) <= Len(log')
         /\ \A i \in 1..Len(log) : log'[i] = log[i]
<1>1. CASE log' = log
  BY <1>1
<1>2. CASE log' = Append(log, e)
  BY <1>2
<1> QED BY <1>1, <1>2
----------------------------------------------------------------------------
(* Type correctness.                                                       *)

\* The initial state is well typed.
LEMMA InitTypeOK == Init => TypeOK
<1> SUFFICES ASSUME Init PROVE TypeOK
  OBVIOUS
<1>1. Resting \in Dispatcher /\ Resting.step = "idle" /\ Resting.batch = {}
  BY DEF Resting, Dispatcher
<1>2. AtOffset(0) \in Consumer /\ AtOffset(0).step = "idle" /\ AtOffset(0).pos = 0
  BY ConstantsAssumption DEF AtOffset, Consumer
<1>3. [status |-> "absent", attempts |-> 0] \in Row
  BY DEF Row
<1>4. log \in Seq(Events) /\ Len(log) = 0
  BY DEF Init
<1> QED BY <1>1, <1>2, <1>3, <1>4 DEF Init, TypeOK

\* Parts of TypeOK, by who changes them.
RowsOK == outbox \in [Events -> Row]
DispOK == /\ disp \in [Workers -> Dispatcher]
          /\ \A w \in Workers : disp[w].step = "idle" <=> disp[w].batch = {}
GroupOK == /\ log \in Seq(Events)
           /\ owner     \in [Groups -> Workers \cup {NoWorker}]
           /\ committed \in [Groups -> 0..Len(log)]
           /\ processed \in [Groups -> SUBSET Events]
           /\ dlq       \in [Groups -> SUBSET Events]
           /\ handled   \in [Groups -> SUBSET Events]
ConsOK == /\ cons \in [Groups -> [Workers -> Consumer]]
          /\ \A g \in Groups, w \in Workers :
               IF cons[g][w].step = "idle" THEN cons[g][w].pos <= Len(log)
                                           ELSE cons[g][w].pos < Len(log)

\* TypeOK is the conjunction of its parts.
LEMMA TypeParts == TypeOK <=> RowsOK /\ DispOK /\ GroupOK /\ ConsOK /\ faults \in Nat
BY DEF TypeOK, RowsOK, DispOK, GroupOK, ConsOK

\* The same of the state after a step.
LEMMA NextTypeParts ==
  TypeOK' <=> RowsOK' /\ DispOK' /\ GroupOK' /\ ConsOK' /\ faults' \in Nat
BY DEF TypeOK, RowsOK, DispOK, GroupOK, ConsOK

\* A dispatcher's own step leaves all dispatchers well typed.
LEMMA DispatcherStep ==
  ASSUME DispOK, NEW w \in Workers, NEW d \in Dispatcher,
         d.step = "idle" <=> d.batch = {},
         disp' = [disp EXCEPT ![w] = d]
  PROVE  DispOK'
BY DEF DispOK

\* So does turning to another step of the same row.
LEMMA TurnType ==
  ASSUME TypeOK, NEW w \in Workers, disp[w].step # "idle",
         NEW step \in {"publish", "mark", "fail"}, Turn(w, step)
  PROVE  DispOK'
<1>1. disp[w] \in Dispatcher /\ disp[w].batch # {} /\ DispOK
  BY DEF TypeOK, DispOK
<1> DEFINE d == [step |-> step, batch |-> disp[w].batch, seen |-> disp[w].seen]
<1>2. d \in Dispatcher /\ d.step # "idle" /\ d.batch # {}
  BY <1>1 DEF Dispatcher
<1>3. disp' = [disp EXCEPT ![w] = d]
  BY DEF Turn
<1> HIDE DEF d
<1> QED BY <1>1, <1>2, <1>3, DispatcherStep

\* And going on to the next row.
LEMMA NextRowType ==
  ASSUME TypeOK, NEW w \in Workers, disp[w].step # "idle", NextRow(w)
  PROVE  DispOK'
<1>1. disp[w] \in Dispatcher /\ DispOK
  BY DEF TypeOK, DispOK
<1> DEFINE rest == disp[w].batch \ {Current(w)}
           d == IF rest = {} THEN Resting
                ELSE [step |-> "publish", batch |-> rest, seen |-> disp[w].seen]
<1>2. rest \in SUBSET Events
  BY <1>1 DEF Dispatcher
<1>3. disp' = [disp EXCEPT ![w] = d]
  BY DEF NextRow
<1> HIDE DEF rest
<1>4. d \in Dispatcher /\ (d.step = "idle" <=> d.batch = {})
  BY <1>1, <1>2 DEF Dispatcher, Resting
<1> HIDE DEF d
<1> QED BY <1>1, <1>3, <1>4, DispatcherStep

\* A consumer's own step, with the log as it is, leaves all consumers well typed.
LEMMA ConsumerStep ==
  ASSUME ConsOK, NEW g \in Groups, NEW w \in Workers, NEW c \in Consumer,
         IF c.step = "idle" THEN c.pos <= Len(log) ELSE c.pos < Len(log),
         cons' = [cons EXCEPT ![g][w] = c], log' = log
  PROVE  ConsOK'
<1>1. cons' \in [Groups -> [Workers -> Consumer]]
  BY DEF ConsOK
<1>2. \A h \in Groups, v \in Workers :
        cons'[h][v] = IF h = g /\ v = w THEN c ELSE cons[h][v]
  BY DEF ConsOK
<1> QED BY <1>1, <1>2 DEF ConsOK

\* So does turning to another step of the same record.
LEMMA GoType ==
  ASSUME TypeOK, NEW g \in Groups, NEW w \in Workers, cons[g][w].step # "idle",
         NEW step \in {"check", "handle", "mark", "bury", "commit"}, Go(g, w, step),
         log' = log
  PROVE  ConsOK'
<1>1. cons[g][w] \in Consumer /\ cons[g][w].pos < Len(log) /\ ConsOK
  BY DEF TypeOK, ConsOK
<1> DEFINE c == [step |-> step, pos |-> cons[g][w].pos, tries |-> cons[g][w].tries]
<1>2. c \in Consumer /\ c.step # "idle" /\ c.pos < Len(log)
  BY <1>1 DEF Consumer
<1>3. cons' = [cons EXCEPT ![g][w] = c]
  BY DEF Go
<1> HIDE DEF c
<1> QED BY <1>1, <1>2, <1>3, ConsumerStep

\* When the log grows, groups and consumers stay well typed.
LEMMA LogGrowsType ==
  ASSUME TypeOK, NEW e \in Events, log' \in {log, Append(log, e)}, UNCHANGED group
  PROVE  GroupOK' /\ ConsOK'
<1>1. /\ log' \in Seq(Events)
      /\ Len(log) \in Nat /\ Len(log') \in Nat /\ Len(log) <= Len(log')
  BY LogGrows DEF TypeOK
<1>2. UNCHANGED <<owner, committed, cons, processed, dlq, handled>>
  BY DEF group
<1>3. committed' \in [Groups -> 0..Len(log')]
  BY <1>1, <1>2 DEF TypeOK
<1>4. GroupOK'
  BY <1>1, <1>2, <1>3 DEF TypeOK, GroupOK
<1>5. \A g \in Groups, w \in Workers : cons[g][w].pos \in Nat
  BY DEF TypeOK, Consumer
<1>6. ConsOK'
  BY <1>1, <1>2, <1>5 DEF TypeOK, ConsOK
<1> QED BY <1>4, <1>6

\* Adding a row keeps every part well typed.
LEMMA AddTypeOK ==
  ASSUME TypeOK, NEW e \in Events, Add(e)
  PROVE  TypeOK'
<1>1. RowsOK /\ DispOK /\ GroupOK /\ ConsOK
  BY TypeParts
<1>2. RowsOK'
  BY <1>1 DEF Add, RowsOK, Row
<1>3. DispOK' /\ GroupOK' /\ ConsOK' /\ faults' = faults
  BY <1>1 DEF Add, group, DispOK, GroupOK, ConsOK
<1>4. faults \in Nat
  BY TypeParts
<1> QED BY <1>2, <1>3, <1>4, NextTypeParts

\* So do the dispatchers' actions.
LEMMA DispatcherTypeOK ==
  ASSUME TypeOK, NEW w \in Workers, Dispatch(w) \/ MarkError(w)
  PROVE  TypeOK'
<1>0. /\ RowsOK /\ DispOK /\ GroupOK /\ ConsOK /\ faults \in Nat
      /\ MaxAttempts \in Nat
  BY TypeParts, ConstantsAssumption
<1>1. ASSUME UNCHANGED <<log, group>> PROVE GroupOK' /\ ConsOK'
  BY <1>0, <1>1 DEF group, GroupOK, ConsOK
<1>2. CASE Fetch(w)
  <2>1. PICK due \in SUBSET {d \in Events : Fetchable(d)} :
          LET batch == {d \in due : Cardinality({c \in due : c < d}) < BatchLimit}
          IN  /\ batch # {}
              /\ disp' = [disp EXCEPT ![w] =
                   [step |-> "publish", batch |-> batch,
                    seen |-> [d \in Events |-> IF d \in batch
                                               THEN outbox[d].attempts ELSE 0]]]
    BY <1>2 DEF Fetch
  <2> DEFINE batch == {d \in due : Cardinality({c \in due : c < d}) < BatchLimit}
             r == [step |-> "publish", batch |-> batch,
                   seen |-> [d \in Events |-> IF d \in batch
                                              THEN outbox[d].attempts ELSE 0]]
  <2>2. batch \in SUBSET Events /\ batch # {}
    BY <2>1
  <2>3. disp' = [disp EXCEPT ![w] = r]
    BY <2>1
  <2>4. \A d \in Events : outbox[d].attempts \in Nat
    BY <1>0 DEF RowsOK, Row
  <2> HIDE DEF batch
  <2>5. r \in Dispatcher /\ r.step # "idle" /\ r.batch # {}
    BY <2>2, <2>4 DEF Dispatcher
  <2> HIDE DEF r
  <2>6. DispOK'
    BY <1>0, <2>3, <2>5, DispatcherStep
  <2>7. RowsOK'
    BY <1>0, <1>2 DEF Fetch, RowsOK
  <2> QED BY <1>0, <1>1, <1>2, <2>6, <2>7, NextTypeParts DEF Fetch
<1>3. CASE Publish(w) \/ PublishError(w)
  <2>1. /\ disp[w].step # "idle" /\ log' \in {log, Append(log, Current(w))}
        /\ Turn(w, "mark") \/ Turn(w, "fail")
        /\ UNCHANGED <<outbox, group, faults>>
    BY <1>3 DEF Publish, PublishError
  <2>2. DispOK'
    BY <2>1, TurnType
  <2>3. GroupOK' /\ ConsOK'
    BY <2>1, CurrentInBatch, LogGrowsType
  <2>4. RowsOK'
    BY <1>0, <2>1 DEF RowsOK
  <2> QED BY <1>0, <2>1, <2>2, <2>3, <2>4, NextTypeParts
<1>4. CASE MarkPublished(w)
  <2>1. disp[w].step # "idle" /\ NextRow(w) /\ UNCHANGED <<log, group, faults>>
    BY <1>4 DEF MarkPublished
  <2>2. Current(w) \in Events
    BY <2>1, CurrentInBatch
  <2>3. [status |-> "published", attempts |-> outbox[Current(w)].attempts] \in Row
    BY <1>0, <2>2 DEF RowsOK, Row
  <2>4. RowsOK'
    BY <1>0, <1>4, <2>3 DEF MarkPublished, RowsOK
  <2> QED BY <1>0, <1>1, <2>1, <2>4, NextRowType, NextTypeParts
<1>5. CASE MarkFailed(w)
  <2>1. disp[w].step # "idle" /\ NextRow(w) /\ UNCHANGED <<log, group, faults>>
    BY <1>5 DEF MarkFailed
  <2>2. Current(w) \in Events
    BY <2>1, CurrentInBatch
  <2> DEFINE s == IF disp[w].seen[Current(w)] + 1 >= MaxAttempts
                  THEN "failed" ELSE "pending"
  <2>3. s \in {"failed", "pending"}
    OBVIOUS
  <2>4. outbox' = [outbox EXCEPT ![Current(w)] =
                     [status |-> s, attempts |-> outbox[Current(w)].attempts + 1]]
    BY <1>5 DEF MarkFailed
  <2> HIDE DEF s
  <2>5. [status |-> s, attempts |-> outbox[Current(w)].attempts + 1] \in Row
    BY <1>0, <2>2, <2>3 DEF RowsOK, Row
  <2>6. RowsOK'
    BY <1>0, <2>4, <2>5 DEF RowsOK
  <2> QED BY <1>0, <1>1, <2>1, <2>6, NextRowType, NextTypeParts
<1>6. CASE MarkError(w)
  <2>1. Resting \in Dispatcher /\ Resting.step = "idle" /\ Resting.batch = {}
    BY DEF Resting, Dispatcher
  <2>2. DispOK'
    BY <1>0, <1>6, <2>1, DispatcherStep DEF MarkError
  <2>3. RowsOK' /\ faults' \in Nat
    BY <1>0, <1>6 DEF MarkError, RowsOK, Fault
  <2> QED BY <1>0, <1>1, <1>6, <2>2, <2>3, NextTypeParts DEF MarkError
<1> QED BY <1>2, <1>3, <1>4, <1>5, <1>6 DEF Dispatch

\* So does expelling a consumer.
LEMMA ExpelTypeOK ==
  ASSUME TypeOK, NEW g \in Groups, Expel(g)
  PROVE  TypeOK'
<1>1. RowsOK /\ DispOK /\ GroupOK /\ ConsOK /\ faults \in Nat
  BY TypeParts
<1>2. RowsOK' /\ DispOK' /\ ConsOK' /\ faults' \in Nat
  BY <1>1 DEF Expel, Fault, producer, RowsOK, DispOK, ConsOK
<1>3. GroupOK'
  BY <1>1 DEF Expel, producer, GroupOK
<1> QED BY <1>2, <1>3, NextTypeParts

\* So do the consumers' actions.
LEMMA ConsumerTypeOK ==
  ASSUME TypeOK, NEW g \in Groups, NEW w \in Workers,
         Assign(g, w) \/ Consume(g, w)
  PROVE  TypeOK'
<1>0. /\ RowsOK /\ DispOK /\ GroupOK /\ ConsOK /\ faults \in Nat
      /\ cons[g][w] \in Consumer /\ Len(log) \in Nat /\ MaxRetries \in Nat
  BY TypeParts, ConstantsAssumption DEF ConsOK, GroupOK
<1>1. ASSUME UNCHANGED producer PROVE RowsOK' /\ DispOK' /\ log' = log
  BY <1>0, <1>1 DEF producer, RowsOK, DispOK
<1>2. CASE Assign(g, w)
  <2>1. /\ committed[g] \in Nat /\ committed[g] <= Len(log)
        /\ AtOffset(committed[g]) \in Consumer
        /\ AtOffset(committed[g]).step = "idle"
        /\ AtOffset(committed[g]).pos = committed[g]
    BY <1>0 DEF GroupOK, AtOffset, Consumer
  <2>2. ConsOK'
    <3> DEFINE c == AtOffset(committed[g])
    <3>1. c \in Consumer /\ c.step = "idle" /\ c.pos <= Len(log)
      BY <2>1
    <3>2. cons' = [cons EXCEPT ![g][w] = c] /\ log' = log
      BY <1>1, <1>2 DEF Assign
    <3> HIDE DEF c
    <3> QED BY <1>0, <3>1, <3>2, ConsumerStep
  <2>3. GroupOK'
    BY <1>0, <1>1, <1>2 DEF Assign, GroupOK
  <2> QED BY <1>0, <1>1, <1>2, <2>2, <2>3, NextTypeParts DEF Assign
<1>3. CASE Poll(g, w)
  <2> DEFINE c == [step |-> "check", pos |-> cons[g][w].pos, tries |-> 0]
  <2>1. c \in Consumer /\ c.step # "idle" /\ c.pos < Len(log)
    BY <1>0, <1>3 DEF Poll, Consumer
  <2>2. cons' = [cons EXCEPT ![g][w] = c]
    BY <1>3 DEF Poll
  <2> HIDE DEF c
  <2>3. ConsOK'
    <3>1. log' = log
      BY <1>1, <1>3 DEF Poll
    <3> QED BY <1>0, <2>1, <2>2, <3>1, ConsumerStep
  <2>4. GroupOK'
    BY <1>0, <1>1, <1>3 DEF Poll, GroupOK
  <2> QED BY <1>0, <1>1, <1>3, <2>3, <2>4, NextTypeParts DEF Poll
<1>4. CASE CheckProcessed(g, w)
  <2>1. cons[g][w].step # "idle" /\ (Go(g, w, "commit") \/ Go(g, w, "handle"))
    BY <1>4 DEF CheckProcessed
  <2>2. ConsOK'
    BY <1>1, <1>4, <2>1, GoType DEF CheckProcessed
  <2>3. GroupOK'
    BY <1>0, <1>1, <1>4 DEF CheckProcessed, GroupOK
  <2> QED BY <1>0, <1>1, <1>4, <2>2, <2>3, NextTypeParts DEF CheckProcessed
<1>5. CASE RunHandler(g, w) \/ MarkProcessed(g, w) \/ Bury(g, w)
  <2>1. /\ cons[g][w].step # "idle"
        /\ Go(g, w, "mark") \/ Go(g, w, "commit")
        /\ UNCHANGED <<producer, owner, committed, faults>>
    BY <1>5 DEF RunHandler, MarkProcessed, Bury
  <2>2. ConsOK'
    BY <1>1, <2>1, GoType
  <2>3. Event(g, w) \in Events
    BY <2>1, EventInLog
  <2>4. /\ processed' \in [Groups -> SUBSET Events]
        /\ dlq'       \in [Groups -> SUBSET Events]
        /\ handled'   \in [Groups -> SUBSET Events]
    <3>1. /\ processed \in [Groups -> SUBSET Events]
          /\ dlq       \in [Groups -> SUBSET Events]
          /\ handled   \in [Groups -> SUBSET Events]
      BY <1>0 DEF GroupOK
    <3>2. CASE RunHandler(g, w)
      BY <2>3, <3>1, <3>2 DEF RunHandler
    <3>3. CASE MarkProcessed(g, w)
      BY <2>3, <3>1, <3>3 DEF MarkProcessed
    <3>4. CASE Bury(g, w)
      BY <2>3, <3>1, <3>4 DEF Bury
    <3> QED BY <1>5, <3>2, <3>3, <3>4
  <2>5. GroupOK'
    BY <1>0, <1>1, <2>1, <2>4 DEF GroupOK
  <2> QED BY <1>0, <1>1, <2>1, <2>2, <2>5, NextTypeParts
<1>6. CASE Retry(g, w)
  <2>1. cons[g][w].step # "idle" /\ cons[g][w].pos < Len(log)
    BY <1>0, <1>6 DEF Retry, ConsOK
  <2>2. ConsOK'
    <3>1. CASE cons[g][w].tries < MaxRetries
      <4> DEFINE c == [step |-> "check", pos |-> cons[g][w].pos,
                       tries |-> cons[g][w].tries + 1]
      <4>1. c \in Consumer /\ c.step # "idle" /\ c.pos < Len(log)
        BY <1>0, <2>1, <3>1 DEF Consumer
      <4>2. cons' = [cons EXCEPT ![g][w] = c]
        BY <1>6, <3>1 DEF Retry
      <4> HIDE DEF c
      <4> QED BY <1>0, <1>1, <1>6, <4>1, <4>2, ConsumerStep DEF Retry
    <3>2. CASE ~ (cons[g][w].tries < MaxRetries)
      BY <1>1, <1>6, <2>1, <3>2, GoType DEF Retry
    <3> QED BY <3>1, <3>2
  <2>3. GroupOK'
    BY <1>0, <1>1, <1>6 DEF Retry, GroupOK
  <2> QED BY <1>0, <1>1, <1>6, <2>2, <2>3, NextTypeParts DEF Retry
<1>7. CASE Commit(g, w)
  <2>1. /\ cons[g][w].pos \in Nat /\ cons[g][w].pos < Len(log)
    BY <1>0, <1>7 DEF Commit, ConsOK, Consumer
  <2>2. ConsOK'
    <3> DEFINE c == AtOffset(cons[g][w].pos + 1)
    <3>1. c \in Consumer /\ c.step = "idle" /\ c.pos <= Len(log)
      BY <1>0, <2>1 DEF AtOffset, Consumer
    <3>2. cons' = [cons EXCEPT ![g][w] = c]
      BY <1>7 DEF Commit
    <3> HIDE DEF c
    <3> QED BY <1>0, <1>1, <1>7, <3>1, <3>2, ConsumerStep DEF Commit
  <2>3. committed' \in [Groups -> 0..Len(log)]
    BY <1>0, <1>7, <2>1 DEF Commit, GroupOK
  <2>4. GroupOK'
    BY <1>0, <1>1, <1>7, <2>3 DEF Commit, GroupOK
  <2> QED BY <1>0, <1>1, <1>7, <2>2, <2>4, NextTypeParts DEF Commit
<1> QED BY <1>2, <1>3, <1>4, <1>5, <1>6, <1>7 DEF Consume

\* And the crash of a process.
LEMMA CrashTypeOK ==
  ASSUME TypeOK, NEW w \in Workers, Crash(w)
  PROVE  TypeOK'
<1>0. RowsOK /\ DispOK /\ GroupOK /\ ConsOK /\ faults \in Nat /\ Len(log) \in Nat
  BY TypeParts DEF GroupOK
<1>1. Resting \in Dispatcher /\ Resting.step = "idle" /\ Resting.batch = {}
  BY DEF Resting, Dispatcher
<1>2. DispOK'
  BY <1>0, <1>1, DispatcherStep DEF Crash
<1>3. AtOffset(0) \in Consumer /\ AtOffset(0).step = "idle" /\ AtOffset(0).pos = 0
  BY ConstantsAssumption DEF AtOffset, Consumer
<1>4. cons' = [g \in Groups |-> [cons[g] EXCEPT ![w] = AtOffset(0)]] /\ log' = log
  BY DEF Crash
<1>5. \A g \in Groups, v \in Workers :
        cons'[g][v] = IF v = w THEN AtOffset(0) ELSE cons[g][v]
  BY <1>0, <1>4 DEF ConsOK
<1>6. cons' \in [Groups -> [Workers -> Consumer]]
  BY <1>0, <1>3, <1>4 DEF ConsOK
<1>7. ConsOK'
  BY <1>0, <1>3, <1>4, <1>5, <1>6 DEF ConsOK
<1>8. GroupOK' /\ RowsOK' /\ faults' \in Nat
  BY <1>0 DEF Crash, Fault, GroupOK, RowsOK
<1> QED BY <1>2, <1>7, <1>8, NextTypeParts

\* A step that changes nothing.
LEMMA StutterTypeOK == TypeOK /\ UNCHANGED vars => TypeOK'
BY DEF TypeOK, vars

\* Every step keeps the types.
LEMMA NextTypeOK == TypeOK /\ [Next]_vars => TypeOK'
<1> SUFFICES ASSUME TypeOK, [Next]_vars PROVE TypeOK'
  OBVIOUS
<1>1. CASE \E e \in Events : Add(e)
  BY <1>1, AddTypeOK
<1>2. CASE \E w \in Workers : Dispatch(w) \/ MarkError(w)
  BY <1>2, DispatcherTypeOK
<1>3. CASE \E w \in Workers : Crash(w)
  BY <1>3, CrashTypeOK
<1>4. CASE \E g \in Groups : Expel(g)
  BY <1>4, ExpelTypeOK
<1>5. CASE \E g \in Groups, w \in Workers : Assign(g, w) \/ Consume(g, w)
  BY <1>5, ConsumerTypeOK
<1>6. CASE UNCHANGED vars
  BY <1>6, StutterTypeOK
<1> QED BY <1>1, <1>2, <1>3, <1>4, <1>5, <1>6 DEF Next
----------------------------------------------------------------------------
(* The outbox: EventsAccounted and DispatcherInv.                          *)

\* What was logged stays logged.
LEMMA LoggedStays ==
  ASSUME log \in Seq(Events), NEW e \in Events, log' \in {log, Append(log, e)}
  PROVE  \A d \in Events : Logged(d) => Logged(d)'
<1>1. /\ Len(log) \in Nat /\ Len(log') \in Nat /\ Len(log) <= Len(log')
      /\ \A i \in 1..Len(log) : log'[i] = log[i]
  BY LogGrows
<1> SUFFICES ASSUME NEW d \in Events, Logged(d) PROVE Logged(d)'
  OBVIOUS
<1>2. PICK i \in 1..Len(log) : log[i] = d
  BY DEF Logged
<1>3. i \in 1..Len(log') /\ log'[i] = d
  BY <1>1, <1>2
<1> QED BY <1>3 DEF Logged

\* What was sent last is logged.
LEMMA SentIsLogged ==
  ASSUME log \in Seq(Events), NEW e \in Events, log' = Append(log, e)
  PROVE  Logged(e)'
<1>1. Len(log') \in 1..Len(log') /\ log'[Len(log')] = e
  OBVIOUS
<1> QED BY <1>1 DEF Logged

\* The rows never get back to absent, and their attempts only grow.
RowsGrow ==
  \A e \in Events :
    outbox[e].status # "absent" =>
      outbox'[e].status # "absent" /\ outbox[e].attempts <= outbox'[e].attempts

LoggedKept == \A e \in Events : Logged(e) => Logged(e)'

\* A dispatcher that does nothing is not disturbed by the others.
LEMMA DispatcherKept ==
  ASSUME TypeOK, TypeOK', NEW w \in Workers, DispatcherInv(w),
         disp'[w] = disp[w], RowsGrow, LoggedKept
  PROVE  DispatcherInv(w)'
<1>1. /\ disp[w].batch \in SUBSET Events
      /\ disp[w].seen \in [Events -> Nat]
      /\ \A e \in Events : outbox[e].attempts \in Nat /\ outbox'[e].attempts \in Nat
  BY DEF TypeOK, Dispatcher, Row
<1>2. Current(w)' = Current(w)
  BY DEF Current
<1>3. disp'[w].step = "mark" => Logged(Current(w))'
  <2> SUFFICES ASSUME disp'[w].step = "mark" PROVE Logged(Current(w))'
    OBVIOUS
  <2>1. Current(w) \in Events
    BY CurrentInBatch
  <2>2. Logged(Current(w))
    BY DEF DispatcherInv
  <2> QED BY <1>2, <2>1, <2>2 DEF LoggedKept, Logged
<1>4. \A e \in disp[w].batch :
        outbox'[e].status # "absent" /\ disp[w].seen[e] <= outbox'[e].attempts
  BY <1>1 DEF DispatcherInv, RowsGrow
<1> QED BY <1>3, <1>4 DEF DispatcherInv

\* A dispatcher that goes on to the next row.
LEMMA NextRowKeeps ==
  ASSUME TypeOK, TypeOK', NEW w \in Workers, DispatcherInv(w), NextRow(w), RowsGrow
  PROVE  DispatcherInv(w)'
<1>1. /\ disp[w].batch \in SUBSET Events
      /\ disp[w].seen \in [Events -> Nat]
      /\ disp \in [Workers -> Dispatcher]
      /\ \A e \in Events : outbox[e].attempts \in Nat /\ outbox'[e].attempts \in Nat
  BY DEF TypeOK, Dispatcher, Row
<1> DEFINE rest == disp[w].batch \ {Current(w)}
<1>2. CASE rest = {}
  <2>1. disp'[w] = Resting
    BY <1>1, <1>2 DEF NextRow
  <2> QED BY <2>1 DEF DispatcherInv, Resting
<1>3. CASE rest # {}
  <2>1. disp'[w] = [step |-> "publish", batch |-> rest, seen |-> disp[w].seen]
    BY <1>1, <1>3 DEF NextRow
  <2>2. /\ disp'[w].step = "publish" /\ disp'[w].batch = rest
        /\ disp'[w].seen = disp[w].seen
    BY <2>1
  <2>3. \A e \in rest :
          outbox'[e].status # "absent" /\ disp[w].seen[e] <= outbox'[e].attempts
    BY <1>1 DEF DispatcherInv, RowsGrow
  <2> HIDE DEF rest
  <2> QED BY <2>2, <2>3 DEF DispatcherInv
<1> QED BY <1>2, <1>3

\* Adding a row keeps the outbox's part of the invariant.
LEMMA AddKeepsOutbox ==
  ASSUME DeliveryInv, TypeOK', NEW e \in Events, Add(e)
  PROVE  EventsAccounted' /\ \A w \in Workers : DispatcherInv(w)'
<1>0. outbox \in [Events -> Row] /\ log' = log /\ disp' = disp
  BY DEF DeliveryInv, TypeOK, Add
<1>1. LoggedKept
  BY <1>0 DEF LoggedKept, Logged
<1>2. RowsGrow
  BY <1>0 DEF Add, RowsGrow, Row
<1>3. EventsAccounted'
  BY <1>0 DEF DeliveryInv, EventsAccounted, Add, Logged
<1> QED BY <1>0, <1>1, <1>2, <1>3, DispatcherKept DEF DeliveryInv

\* So do the dispatchers' actions.
LEMMA DispatchKeepsOutbox ==
  ASSUME DeliveryInv, TypeOK', NEW w \in Workers, Dispatch(w) \/ MarkError(w)
  PROVE  EventsAccounted' /\ \A v \in Workers : DispatcherInv(v)'
<1>0. /\ TypeOK /\ EventsAccounted /\ \A v \in Workers : DispatcherInv(v)
      /\ outbox \in [Events -> Row] /\ log \in Seq(Events)
      /\ disp \in [Workers -> Dispatcher]
      /\ \A e \in Events : outbox[e].attempts \in Nat
      /\ disp[w].seen \in [Events -> Nat]
      /\ MaxAttempts \in Nat
  BY ConstantsAssumption DEF DeliveryInv, TypeOK, Row, Dispatcher
<1>1. ASSUME disp' = [disp EXCEPT ![w] = disp'[w]], RowsGrow, LoggedKept,
             DispatcherInv(w)'
      PROVE  \A v \in Workers : DispatcherInv(v)'
  <2>1. \A v \in Workers \ {w} : disp'[v] = disp[v]
    BY <1>0, <1>1
  <2> QED BY <1>0, <1>1, <2>1, DispatcherKept
<1>2. ASSUME outbox' = outbox PROVE RowsGrow
  BY <1>0, <1>2 DEF RowsGrow
<1>3. ASSUME log' = log PROVE LoggedKept
  BY <1>3 DEF LoggedKept, Logged
<1>4. ASSUME outbox' = outbox, LoggedKept PROVE EventsAccounted'
  BY <1>0, <1>4 DEF EventsAccounted, LoggedKept
<1>5. CASE Fetch(w)
  <2>1. outbox' = outbox /\ log' = log
    BY <1>5 DEF Fetch
  <2>2. PICK due \in SUBSET {d \in Events : Fetchable(d)} :
          LET batch == {d \in due : Cardinality({c \in due : c < d}) < BatchLimit}
          IN  disp' = [disp EXCEPT ![w] =
                   [step |-> "publish", batch |-> batch,
                    seen |-> [d \in Events |-> IF d \in batch
                                               THEN outbox[d].attempts ELSE 0]]]
    BY <1>5 DEF Fetch
  <2> DEFINE batch == {d \in due : Cardinality({c \in due : c < d}) < BatchLimit}
  <2>3. batch \subseteq due
    OBVIOUS
  <2> HIDE DEF batch
  <2>4. disp' = [disp EXCEPT ![w] =
                   [step |-> "publish", batch |-> batch,
                    seen |-> [d \in Events |-> IF d \in batch
                                               THEN outbox[d].attempts ELSE 0]]]
    BY <2>2 DEF batch
  <2>5. /\ disp'[w].step = "publish" /\ disp'[w].batch = batch
        /\ \A d \in batch : disp'[w].seen[d] = outbox[d].attempts
    BY <1>0, <2>3, <2>4
  <2>6. \A d \in batch : outbox[d].status = "pending" /\ outbox[d].attempts \in Nat
    BY <1>0, <2>3 DEF Fetchable
  <2>7. DispatcherInv(w)'
    BY <2>1, <2>5, <2>6 DEF DispatcherInv
  <2>8. disp' = [disp EXCEPT ![w] = disp'[w]]
    BY <1>0, <2>4
  <2> QED BY <1>1, <1>2, <1>3, <1>4, <2>1, <2>7, <2>8
<1>6. CASE Publish(w) \/ PublishError(w)
  <2>1. /\ disp[w].step # "idle" /\ outbox' = outbox
        /\ log' \in {log, Append(log, Current(w))}
    BY <1>6 DEF Publish, PublishError
  <2>2. Current(w) \in Events
    BY <1>0, <2>1, CurrentInBatch
  <2>3. LoggedKept
    BY <1>0, <2>1, <2>2, LoggedStays DEF LoggedKept
  <2>4. PICK step \in {"mark", "fail"} :
          /\ disp' = [disp EXCEPT ![w] = [step |-> step, batch |-> disp[w].batch,
                                          seen |-> disp[w].seen]]
          /\ step = "mark" => log' = Append(log, Current(w))
    BY <1>6 DEF Publish, PublishError, Turn
  <2>5. /\ disp'[w].step = step /\ disp'[w].batch = disp[w].batch
        /\ disp'[w].seen = disp[w].seen
    BY <1>0, <2>4
  <2>6. Current(w)' = Current(w)
    BY <2>5 DEF Current
  <2>7. step = "mark" => Logged(Current(w))'
    BY <1>0, <2>2, <2>4, <2>6, SentIsLogged DEF Logged
  <2>8. DispatcherInv(w)'
    BY <1>0, <2>1, <2>5, <2>7 DEF DispatcherInv
  <2>9. disp' = [disp EXCEPT ![w] = disp'[w]]
    BY <1>0, <2>4
  <2> QED BY <1>1, <1>2, <1>4, <2>1, <2>3, <2>8, <2>9
<1>7. ASSUME NextRow(w) PROVE disp' = [disp EXCEPT ![w] = disp'[w]]
  BY <1>0, <1>7 DEF NextRow
<1>8. CASE MarkPublished(w)
  <2>1. disp[w].step = "mark" /\ NextRow(w) /\ log' = log
    BY <1>8 DEF MarkPublished
  <2>2. Current(w) \in Events /\ Logged(Current(w))
    BY <1>0, <2>1, CurrentInBatch DEF DispatcherInv
  <2>3. /\ outbox'[Current(w)].status = "published"
        /\ outbox'[Current(w)].attempts = outbox[Current(w)].attempts
        /\ \A e \in Events \ {Current(w)} : outbox'[e] = outbox[e]
    BY <1>0, <1>8, <2>2 DEF MarkPublished
  <2>4. RowsGrow
    BY <1>0, <2>2, <2>3 DEF RowsGrow
  <2>5. EventsAccounted'
    BY <1>0, <2>1, <2>2, <2>3 DEF EventsAccounted, Logged
  <2> QED BY <1>0, <1>1, <1>3, <1>7, <2>1, <2>4, <2>5, NextRowKeeps
<1>9. CASE MarkFailed(w)
  <2>1. disp[w].step = "fail" /\ NextRow(w) /\ log' = log
    BY <1>9 DEF MarkFailed
  <2>2. /\ Current(w) \in Events
        /\ disp[w].seen[Current(w)] <= outbox[Current(w)].attempts
        /\ disp[w].seen[Current(w)] \in Nat
    BY <1>0, <2>1, CurrentInBatch DEF DispatcherInv
  <2> DEFINE s == IF disp[w].seen[Current(w)] + 1 >= MaxAttempts
                  THEN "failed" ELSE "pending"
  <2>3. /\ s \in {"failed", "pending"}
        /\ s = "failed" => outbox[Current(w)].attempts + 1 >= MaxAttempts
    BY <1>0, <2>2
  <2>4. outbox' = [outbox EXCEPT ![Current(w)] =
                     [status |-> s, attempts |-> outbox[Current(w)].attempts + 1]]
    BY <1>9 DEF MarkFailed
  <2> HIDE DEF s
  <2>5. /\ outbox'[Current(w)].status = s
        /\ outbox'[Current(w)].attempts = outbox[Current(w)].attempts + 1
        /\ \A e \in Events \ {Current(w)} : outbox'[e] = outbox[e]
    BY <1>0, <2>2, <2>4
  <2>6. RowsGrow
    BY <1>0, <2>2, <2>3, <2>5 DEF RowsGrow
  <2>7. EventsAccounted'
    BY <1>0, <2>1, <2>2, <2>3, <2>5 DEF EventsAccounted, Logged
  <2> QED BY <1>0, <1>1, <1>3, <1>7, <2>1, <2>6, <2>7, NextRowKeeps
<1>10. CASE MarkError(w)
  <2>1. disp' = [disp EXCEPT ![w] = Resting] /\ outbox' = outbox /\ log' = log
    BY <1>10 DEF MarkError
  <2>2. disp'[w] = Resting
    BY <1>0, <2>1
  <2>3. DispatcherInv(w)'
    BY <2>2 DEF DispatcherInv, Resting
  <2> QED BY <1>1, <1>2, <1>3, <1>4, <2>1, <2>2, <2>3
<1> QED BY <1>5, <1>6, <1>8, <1>9, <1>10 DEF Dispatch

\* The consumers' actions and crashes do not touch the rows or the log.
LEMMA OutboxUntouched ==
  ASSUME DeliveryInv, TypeOK', outbox' = outbox, log' = log,
         \A w \in Workers : disp'[w] \in {disp[w], Resting}
  PROVE  EventsAccounted' /\ \A w \in Workers : DispatcherInv(w)'
<1>1. LoggedKept
  BY DEF LoggedKept, Logged
<1>2. RowsGrow
  BY DEF RowsGrow, DeliveryInv, TypeOK, Row
<1>3. EventsAccounted'
  BY <1>1 DEF DeliveryInv, EventsAccounted, LoggedKept
<1>4. ASSUME NEW w \in Workers, disp'[w] = Resting PROVE DispatcherInv(w)'
  BY <1>4 DEF DispatcherInv, Resting
<1> QED BY <1>1, <1>2, <1>3, <1>4, DispatcherKept DEF DeliveryInv
----------------------------------------------------------------------------
(* The consumers: ProcessedWereHandled, ConsumerInv and NothingSkipped.    *)

\* The log keeps its events in place.
PrefixKept == /\ Len(log) \in Nat /\ Len(log') \in Nat /\ Len(log) <= Len(log')
              /\ \A i \in 1..Len(log) : log'[i] = log[i]

\* What a group has handled and buried only grows.
GroupGrows(g) == handled[g] \subseteq handled'[g] /\ dlq[g] \subseteq dlq'[g]

\* A consumer that does nothing is not disturbed by the others.
LEMMA ConsumerKept ==
  ASSUME TypeOK, NEW g \in Groups, NEW w \in Workers, ConsumerInv(g, w),
         cons'[g][w] = cons[g][w], PrefixKept, GroupGrows(g),
         owner'[g] = w => owner[g] = w /\ committed'[g] = committed[g]
  PROVE  ConsumerInv(g, w)'
<1>1. /\ cons[g][w].pos \in Nat
      /\ cons[g][w].step = "idle" => cons[g][w].pos <= Len(log)
      /\ cons[g][w].step # "idle" => cons[g][w].pos < Len(log)
  BY DEF TypeOK, Consumer
<1>2. \A i \in 1..cons[g][w].pos : log'[i] \in handled'[g] \cup dlq'[g]
  BY <1>1 DEF PrefixKept, ConsumerInv, GroupGrows
<1>3. cons[g][w].step # "idle" => Event(g, w)' = Event(g, w)
  BY <1>1 DEF Event, PrefixKept
<1>4. /\ cons'[g][w].step = "mark" => Event(g, w)' \in handled'[g]
      /\ cons'[g][w].step = "commit" => Event(g, w)' \in handled'[g] \cup dlq'[g]
  BY <1>3 DEF ConsumerInv, GroupGrows
<1>5. owner'[g] = w => committed'[g] <= cons'[g][w].pos
  BY DEF ConsumerInv
<1> QED BY <1>2, <1>4, <1>5 DEF ConsumerInv

\* A commit that does not move skips nothing.
LEMMA NothingMoreSkipped ==
  ASSUME TypeOK, NEW g \in Groups, PrefixKept, GroupGrows(g),
         committed'[g] = committed[g],
         \A i \in 1..committed[g] : log[i] \in handled[g] \cup dlq[g]
  PROVE  \A i \in 1..committed'[g] : log'[i] \in handled'[g] \cup dlq'[g]
<1>1. committed[g] \in Nat /\ committed[g] <= Len(log)
  BY DEF TypeOK, PrefixKept
<1> QED BY <1>1 DEF PrefixKept, GroupGrows

\* The outbox's actions add to the log and leave the groups alone.
LEMMA ProducersKeepGroups ==
  ASSUME DeliveryInv, TypeOK', UNCHANGED group,
         log' = log \/ \E e \in Events : log' = Append(log, e)
  PROVE  /\ ProcessedWereHandled'
         /\ \A g \in Groups, w \in Workers : ConsumerInv(g, w)'
         /\ NothingSkipped'
<1>0. UNCHANGED <<owner, committed, cons, processed, dlq, handled>>
  BY DEF group
<1>1. PrefixKept
  <2>1. log \in Seq(Events)
    BY DEF DeliveryInv, TypeOK
  <2>2. CASE log' = log
    BY <2>1, <2>2 DEF PrefixKept
  <2>3. CASE \E e \in Events : log' = Append(log, e)
    BY <2>1, <2>3, LogGrows DEF PrefixKept
  <2> QED BY <2>2, <2>3
<1>2. \A g \in Groups : GroupGrows(g)
  BY <1>0 DEF GroupGrows
<1>3. ProcessedWereHandled'
  BY <1>0 DEF DeliveryInv, ProcessedWereHandled
<1>4. \A g \in Groups, w \in Workers : ConsumerInv(g, w)'
  BY <1>0, <1>1, <1>2, ConsumerKept DEF DeliveryInv
<1>5. NothingSkipped'
  BY <1>0, <1>1, <1>2, NothingMoreSkipped DEF DeliveryInv, NothingSkipped
<1> QED BY <1>3, <1>4, <1>5

\* Assignments, expulsions and crashes only take consumers back.
LEMMA MembershipKeepsGroups ==
  ASSUME DeliveryInv, TypeOK',
         \/ \E g \in Groups : Expel(g)
         \/ \E g \in Groups, w \in Workers : Assign(g, w)
         \/ \E w \in Workers : Crash(w)
  PROVE  /\ ProcessedWereHandled'
         /\ \A g \in Groups, w \in Workers : ConsumerInv(g, w)'
         /\ NothingSkipped'
<1>0. /\ TypeOK /\ log \in Seq(Events)
      /\ UNCHANGED <<log, committed, processed, dlq, handled>>
  BY DEF DeliveryInv, TypeOK, Expel, Assign, Crash, producer
<1>1. PrefixKept /\ \A g \in Groups : GroupGrows(g)
  BY <1>0 DEF PrefixKept, GroupGrows
<1>2. ProcessedWereHandled'
  BY <1>0 DEF DeliveryInv, ProcessedWereHandled
<1>3. NothingSkipped'
  BY <1>0 DEF DeliveryInv, NothingSkipped
<1>4. ASSUME NEW h \in Groups, NEW v \in Workers PROVE ConsumerInv(h, v)'
  <2>0. /\ ConsumerInv(h, v)
        /\ cons \in [Groups -> [Workers -> Consumer]]
        /\ owner \in [Groups -> Workers \cup {NoWorker}] /\ NoWorker \notin Workers
        /\ committed[h] \in Nat
        /\ \A i \in 1..committed[h] : log[i] \in handled[h] \cup dlq[h]
    BY <1>0, ConstantsAssumption DEF DeliveryInv, TypeOK, NothingSkipped
  <2>1. CASE \E g \in Groups : Expel(g)
    BY <1>0, <1>1, <2>0, <2>1, ConsumerKept DEF Expel
  <2>2. ASSUME NEW g \in Groups, NEW w \in Workers, Assign(g, w)
        PROVE  ConsumerInv(h, v)'
    <3>1. CASE h = g /\ v = w
      <4>1. cons'[h][v] = AtOffset(committed[h])
        BY <2>0, <2>2, <3>1 DEF Assign
      <4>2. cons'[h][v].step = "idle" /\ cons'[h][v].pos = committed[h]
        BY <4>1 DEF AtOffset
      <4>3. committed'[h] = committed[h]
        BY <1>0
      <4> QED BY <1>0, <2>0, <4>2, <4>3 DEF ConsumerInv
    <3>2. CASE ~ (h = g /\ v = w)
      BY <1>0, <1>1, <2>0, <2>2, <3>2, ConsumerKept DEF Assign
    <3> QED BY <3>1, <3>2
  <2>3. ASSUME NEW w \in Workers, Crash(w) PROVE ConsumerInv(h, v)'
    <3>1. CASE v = w
      <4>1. cons'[h][v] = AtOffset(0) /\ owner'[h] # v
        BY <2>0, <2>3, <3>1 DEF Crash
      <4>2. cons'[h][v].step = "idle" /\ cons'[h][v].pos = 0
        BY <4>1 DEF AtOffset
      <4> QED BY <4>1, <4>2 DEF ConsumerInv
    <3>2. CASE v # w
      <4>1. cons'[h][v] = cons[h][v] /\ (owner'[h] = v => owner[h] = v)
        BY <2>0, <2>3, <3>2 DEF Crash
      <4> QED BY <1>0, <1>1, <2>0, <4>1, ConsumerKept
    <3> QED BY <3>1, <3>2
  <2> QED BY <2>1, <2>2, <2>3
<1> QED BY <1>2, <1>3, <1>4

\* The consumers' own actions.
LEMMA ConsumeKeepsGroups ==
  ASSUME DeliveryInv, TypeOK', NEW g \in Groups, NEW w \in Workers, Consume(g, w)
  PROVE  /\ ProcessedWereHandled'
         /\ \A h \in Groups, v \in Workers : ConsumerInv(h, v)'
         /\ NothingSkipped'
<1>0. /\ TypeOK /\ ConsumerInv(g, w) /\ NothingSkipped /\ ProcessedWereHandled
      /\ \A h \in Groups, v \in Workers : ConsumerInv(h, v)
      /\ cons \in [Groups -> [Workers -> Consumer]]
      /\ committed \in [Groups -> 0..Len(log)]
      /\ processed \in [Groups -> SUBSET Events]
      /\ dlq       \in [Groups -> SUBSET Events]
      /\ handled   \in [Groups -> SUBSET Events]
      /\ log \in Seq(Events) /\ Len(log) \in Nat
      /\ cons[g][w].pos \in Nat
  BY DEF DeliveryInv, TypeOK, Consumer
<1>1. UNCHANGED <<log, owner>>
  BY DEF Consume, Poll, CheckProcessed, RunHandler, MarkProcessed, Retry, Bury,
         Commit, producer
<1>2. PrefixKept
  BY <1>0, <1>1 DEF PrefixKept
<1>3. \A h \in Groups : GroupGrows(h)
  BY <1>0 DEF Consume, Poll, CheckProcessed, RunHandler, MarkProcessed, Retry, Bury,
              Commit, GroupGrows
<1>4. \A h \in Groups, v \in Workers : ~ (h = g /\ v = w) => cons'[h][v] = cons[h][v]
  BY <1>0 DEF Consume, Poll, CheckProcessed, RunHandler, MarkProcessed, Retry, Bury,
              Commit, Go
\* It is enough to look at the consumer that moves.
<1>5. ASSUME ConsumerInv(g, w)', committed' = committed
      PROVE  /\ \A h \in Groups, v \in Workers : ConsumerInv(h, v)'
             /\ NothingSkipped'
  <2>1. \A h \in Groups, v \in Workers : ~ (h = g /\ v = w) => ConsumerInv(h, v)'
    BY <1>0, <1>1, <1>2, <1>3, <1>4, <1>5, ConsumerKept
  <2>2. NothingSkipped'
    BY <1>0, <1>2, <1>3, <1>5, NothingMoreSkipped DEF NothingSkipped
  <2> QED BY <1>5, <2>1, <2>2
\* A consumer that stays at its record.
<1>6. ASSUME committed' = committed,
             NEW step \in {"check", "handle", "mark", "bury", "commit"},
             cons'[g][w].step = step, cons'[g][w].pos = cons[g][w].pos,
             step = "mark" => Event(g, w) \in handled'[g],
             step = "commit" => Event(g, w) \in handled'[g] \cup dlq'[g]
      PROVE  /\ \A h \in Groups, v \in Workers : ConsumerInv(h, v)'
             /\ NothingSkipped'
  <2>1. Event(g, w)' = Event(g, w)
    BY <1>1, <1>6 DEF Event
  <2>2. \A i \in 1..cons[g][w].pos : log[i] \in handled'[g] \cup dlq'[g]
    BY <1>0, <1>3 DEF ConsumerInv, GroupGrows
  <2>3. owner'[g] = w => committed'[g] <= cons'[g][w].pos
    BY <1>0, <1>1, <1>6 DEF ConsumerInv
  <2>4. ConsumerInv(g, w)'
    BY <1>1, <1>6, <2>1, <2>2, <2>3 DEF ConsumerInv
  <2> QED BY <1>5, <1>6, <2>4
<1>7. ASSUME NEW step, Go(g, w, step)
      PROVE  cons'[g][w].step = step /\ cons'[g][w].pos = cons[g][w].pos
  <2>1. cons'[g][w] = [step |-> step, pos |-> cons[g][w].pos,
                       tries |-> cons[g][w].tries]
    BY <1>0, <1>7 DEF Go
  <2> QED BY <2>1
<1>8. CASE Poll(g, w) \/ CheckProcessed(g, w) \/ Retry(g, w)
  <2>1. /\ committed' = committed
        /\ UNCHANGED <<processed, dlq, handled>>
    BY <1>8 DEF Poll, CheckProcessed, Retry
  <2>2. ProcessedWereHandled'
    BY <1>0, <2>1 DEF ProcessedWereHandled
  <2>3. CASE Poll(g, w)
    <3>1. cons'[g][w] = [step |-> "check", pos |-> cons[g][w].pos, tries |-> 0]
      BY <1>0, <2>3 DEF Poll
    <3>2. cons'[g][w].step = "check" /\ cons'[g][w].pos = cons[g][w].pos
      BY <3>1
    <3> QED BY <1>6, <2>1, <2>2, <3>2
  <2>4. CASE CheckProcessed(g, w)
    <3>1. CASE Event(g, w) \in processed[g]
      <4>1. Go(g, w, "commit")
        BY <2>4, <3>1 DEF CheckProcessed
      <4>2. Event(g, w) \in handled'[g]
        BY <1>0, <2>1, <3>1 DEF ProcessedWereHandled
      <4> QED BY <1>6, <1>7, <2>1, <2>2, <4>1, <4>2
    <3>2. CASE Event(g, w) \notin processed[g]
      <4>1. Go(g, w, "handle")
        BY <2>4, <3>2 DEF CheckProcessed
      <4> QED BY <1>6, <1>7, <2>1, <2>2, <4>1
    <3> QED BY <3>1, <3>2
  <2>5. CASE Retry(g, w)
    <3>1. CASE cons[g][w].tries < MaxRetries
      <4>1. cons'[g][w] = [step |-> "check", pos |-> cons[g][w].pos,
                           tries |-> cons[g][w].tries + 1]
        BY <1>0, <2>5, <3>1 DEF Retry
      <4>2. cons'[g][w].step = "check" /\ cons'[g][w].pos = cons[g][w].pos
        BY <4>1
      <4> QED BY <1>6, <2>1, <2>2, <4>2
    <3>2. CASE ~ (cons[g][w].tries < MaxRetries)
      <4>1. Go(g, w, "bury")
        BY <2>5, <3>2 DEF Retry
      <4> QED BY <1>6, <1>7, <2>1, <2>2, <4>1
    <3> QED BY <3>1, <3>2
  <2> QED BY <1>8, <2>3, <2>4, <2>5
<1>9. CASE RunHandler(g, w)
  <2>1. /\ Go(g, w, "mark") /\ committed' = committed
        /\ Event(g, w) \in handled'[g]
    BY <1>0, <1>9 DEF RunHandler
  <2>2. ProcessedWereHandled'
    BY <1>0, <1>3, <1>9 DEF RunHandler, ProcessedWereHandled, GroupGrows
  <2> QED BY <1>6, <1>7, <2>1, <2>2
<1>10. CASE MarkProcessed(g, w)
  <2>1. /\ Go(g, w, "commit") /\ committed' = committed /\ handled' = handled
        /\ cons[g][w].step = "mark"
    BY <1>10 DEF MarkProcessed
  <2>2. Event(g, w) \in handled'[g]
    BY <1>0, <2>1 DEF ConsumerInv
  <2>3. ProcessedWereHandled'
    BY <1>0, <1>10, <2>2 DEF MarkProcessed, ProcessedWereHandled
  <2> QED BY <1>6, <1>7, <2>1, <2>2, <2>3
<1>11. CASE Bury(g, w)
  <2>1. /\ Go(g, w, "commit") /\ committed' = committed
        /\ Event(g, w) \in dlq'[g]
    BY <1>0, <1>11 DEF Bury
  <2>2. ProcessedWereHandled'
    BY <1>0, <1>11 DEF Bury, ProcessedWereHandled
  <2> QED BY <1>6, <1>7, <2>1, <2>2
<1>12. CASE Commit(g, w)
  <2>1. /\ cons[g][w].step = "commit"
        /\ UNCHANGED <<processed, dlq, handled>>
        /\ \/ owner[g] = w /\ committed' = [committed EXCEPT ![g] = cons[g][w].pos + 1]
           \/ committed' = committed
    BY <1>12 DEF Commit
  <2>2. cons'[g][w] = AtOffset(cons[g][w].pos + 1)
    BY <1>0, <1>12 DEF Commit
  <2>3. cons'[g][w].step = "idle" /\ cons'[g][w].pos = cons[g][w].pos + 1
    BY <2>2 DEF AtOffset
  <2>4. Event(g, w) = log[cons[g][w].pos + 1]
    BY DEF Event
  <2>5. \A i \in 1..(cons[g][w].pos + 1) : log[i] \in handled[g] \cup dlq[g]
    BY <1>0, <2>1, <2>4 DEF ConsumerInv
  <2>6. /\ committed[g] \in Nat
        /\ owner[g] = w => committed'[g] <= cons[g][w].pos + 1
    BY <1>0, <2>1 DEF ConsumerInv
  <2>7. ConsumerInv(g, w)'
    BY <1>1, <2>1, <2>3, <2>5, <2>6 DEF ConsumerInv
  <2>8. ASSUME NEW h \in Groups, NEW v \in Workers, ~ (h = g /\ v = w)
        PROVE  ConsumerInv(h, v)'
    <3>1. owner'[h] = v => owner[h] = v /\ committed'[h] = committed[h]
      BY <1>0, <1>1, <2>1, <2>8
    <3> QED BY <1>0, <1>2, <1>3, <1>4, <2>8, <3>1, ConsumerKept
  <2>9. NothingSkipped'
    <3>1. \A i \in 1..committed'[g] : log[i] \in handled[g] \cup dlq[g]
      BY <1>0, <2>1, <2>5 DEF NothingSkipped
    <3>2. \A h \in Groups \ {g} : committed'[h] = committed[h]
      BY <1>0, <2>1
    <3> QED BY <1>0, <1>1, <2>1, <3>1, <3>2 DEF NothingSkipped
  <2>10. ProcessedWereHandled'
    BY <1>0, <2>1 DEF ProcessedWereHandled
  <2> QED BY <2>7, <2>8, <2>9, <2>10
<1> QED BY <1>8, <1>9, <1>10, <1>11, <1>12 DEF Consume
----------------------------------------------------------------------------
(* The invariant and what follows from it.                                 *)

\* Initially nothing has been added, sent or read.
LEMMA InitDeliveryInv == Init => DeliveryInv
<1> SUFFICES ASSUME Init PROVE DeliveryInv
  OBVIOUS
<1>1. TypeOK
  BY InitTypeOK
<1>2. EventsAccounted
  BY DEF Init, EventsAccounted
<1>3. ASSUME NEW w \in Workers PROVE DispatcherInv(w)
  <2>1. disp[w].step = "idle" /\ disp[w].batch = {}
    BY DEF Init, Resting
  <2> QED BY <2>1 DEF DispatcherInv
<1>4. ProcessedWereHandled
  BY DEF Init, ProcessedWereHandled
<1>5. ASSUME NEW g \in Groups, NEW w \in Workers PROVE ConsumerInv(g, w)
  <2>1. cons[g][w].step = "idle" /\ cons[g][w].pos = 0 /\ owner[g] # w
    BY ConstantsAssumption DEF Init, AtOffset
  <2> QED BY <2>1 DEF ConsumerInv
<1>6. NothingSkipped
  BY DEF Init, NothingSkipped
<1> QED BY <1>1, <1>2, <1>3, <1>4, <1>5, <1>6 DEF DeliveryInv

\* Every step keeps the invariant.
LEMMA NextDeliveryInv == DeliveryInv /\ [Next]_vars => DeliveryInv'
<1> SUFFICES ASSUME DeliveryInv, [Next]_vars PROVE DeliveryInv'
  OBVIOUS
<1>1. TypeOK'
  BY NextTypeOK DEF DeliveryInv
<1>2. CASE \E e \in Events : Add(e)
  <2>1. EventsAccounted' /\ \A w \in Workers : DispatcherInv(w)'
    BY <1>1, <1>2, AddKeepsOutbox
  <2>2. UNCHANGED group /\ log' = log
    BY <1>2 DEF Add
  <2> QED BY <1>1, <2>1, <2>2, ProducersKeepGroups DEF DeliveryInv
<1>3. CASE \E w \in Workers : Dispatch(w) \/ MarkError(w)
  <2>1. EventsAccounted' /\ \A w \in Workers : DispatcherInv(w)'
    BY <1>1, <1>3, DispatchKeepsOutbox
  <2>2. PICK w \in Workers : Dispatch(w) \/ MarkError(w)
    BY <1>3
  <2>3. UNCHANGED group
    BY <2>2 DEF Dispatch, Fetch, Publish, PublishError, MarkPublished, MarkFailed,
                MarkError
  <2>4. log' = log \/ \E e \in Events : log' = Append(log, e)
    <3>1. CASE Publish(w) \/ PublishError(w)
      <4>1. Current(w) \in Events
        BY <3>1, CurrentInBatch DEF Publish, PublishError, DeliveryInv
      <4> QED BY <3>1, <4>1 DEF Publish, PublishError
    <3>2. CASE ~ (Publish(w) \/ PublishError(w))
      BY <2>2, <3>2 DEF Dispatch, Fetch, MarkPublished, MarkFailed, MarkError
    <3> QED BY <3>1, <3>2
  <2> QED BY <1>1, <2>1, <2>3, <2>4, ProducersKeepGroups DEF DeliveryInv
<1>4. CASE \/ \E g \in Groups : Expel(g)
           \/ \E g \in Groups, w \in Workers : Assign(g, w)
           \/ \E w \in Workers : Crash(w)
  <2>1. outbox' = outbox /\ log' = log
    BY <1>4 DEF Expel, Assign, Crash, producer
  <2>2. \A w \in Workers : disp'[w] \in {disp[w], Resting}
    BY <1>4 DEF Expel, Assign, Crash, producer, DeliveryInv, TypeOK
  <2>3. EventsAccounted' /\ \A w \in Workers : DispatcherInv(w)'
    BY <1>1, <2>1, <2>2, OutboxUntouched
  <2> QED BY <1>1, <1>4, <2>3, MembershipKeepsGroups DEF DeliveryInv
<1>5. CASE \E g \in Groups, w \in Workers : Consume(g, w)
  <2>1. UNCHANGED producer
    BY <1>5 DEF Consume, Poll, CheckProcessed, RunHandler, MarkProcessed, Retry,
                Bury, Commit
  <2>2. EventsAccounted' /\ \A w \in Workers : DispatcherInv(w)'
    BY <1>1, <2>1, OutboxUntouched DEF producer
  <2> QED BY <1>1, <1>5, <2>2, ConsumeKeepsGroups DEF DeliveryInv
<1>6. CASE UNCHANGED vars
  <2>1. outbox' = outbox /\ log' = log /\ disp' = disp /\ UNCHANGED group
    BY <1>6 DEF vars, group
  <2>2. EventsAccounted' /\ \A w \in Workers : DispatcherInv(w)'
    BY <1>1, <2>1, OutboxUntouched
  <2> QED BY <1>1, <2>1, <2>2, ProducersKeepGroups DEF DeliveryInv
<1> QED BY <1>2, <1>3, <1>4, <1>5, <1>6 DEF Next

\* The rows, the dispatchers, the log and the consumers never disagree about
\* an event, in any execution of outbox and consumers.
THEOREM DeliveryHolds == Spec => []DeliveryInv
BY InitDeliveryInv, NextDeliveryInv, PTL DEF Spec

\* Outbox, dispatchers and consumers stay well typed; in particular no
\* consumer and no group gets past the end of the log.
THEOREM DeliveryTypeCorrect == Spec => []TypeOK
<1>1. DeliveryInv => TypeOK
  BY DEF DeliveryInv
<1> QED BY <1>1, DeliveryHolds, PTL

\* The outbox forgets no event, however many dispatchers race over a row and
\* whenever they stop: it is waiting, in the topic, or given up after the last
\* attempt.
THEOREM NoEventForgotten == Spec => []EventsAccounted
<1>1. DeliveryInv => EventsAccounted
  BY DEF DeliveryInv
<1> QED BY <1>1, DeliveryHolds, PTL

\* No group commits past an event that was neither handled nor buried, also
\* when an expelled consumer goes on with its record.
THEOREM NoEventSkipped == Spec => []NothingSkipped
<1>1. DeliveryInv => NothingSkipped
  BY DEF DeliveryInv
<1> QED BY <1>1, DeliveryHolds, PTL
----------------------------------------------------------------------------
(* One process.                                                            *)

OneProcess == \A v, w \in Workers : v = w

\* A consumer at its handler has an event its group does not remember.
FreshInHand ==
  \A g \in Groups, w \in Workers :
    cons[g][w].step = "handle" => Event(g, w) \notin processed[g]

\* A consumer that was at its handler before, or is not there now, still has a
\* fresh event if its group remembers nothing new.
LEMMA FreshKept ==
  ASSUME TypeOK, FreshInHand, PrefixKept, NEW g \in Groups, NEW w \in Workers,
         processed'[g] = processed[g],
         cons'[g][w] = cons[g][w] \/ cons'[g][w].step # "handle"
  PROVE  cons'[g][w].step = "handle" => Event(g, w)' \notin processed'[g]
<1> SUFFICES ASSUME cons'[g][w].step = "handle"
             PROVE  Event(g, w)' \notin processed'[g]
  OBVIOUS
<1>1. cons'[g][w] = cons[g][w] /\ cons[g][w].step = "handle"
  OBVIOUS
<1>2. cons[g][w].pos + 1 \in 1..Len(log)
  BY <1>1, EventInLog
<1>3. Event(g, w)' = Event(g, w)
  BY <1>1, <1>2 DEF Event, PrefixKept
<1> QED BY <1>1, <1>3 DEF FreshInHand

\* Only marking adds to what a group remembers, and with one process no other
\* consumer of the group is at its handler then.
LEMMA NextFresh ==
  ASSUME OneProcess, DeliveryInv, FreshInHand, [Next]_vars
  PROVE  FreshInHand'
<1>0. /\ TypeOK
      /\ cons \in [Groups -> [Workers -> Consumer]]
      /\ processed \in [Groups -> SUBSET Events]
      /\ log \in Seq(Events)
  BY DEF DeliveryInv, TypeOK
<1>1. CASE UNCHANGED vars \/ (\E e \in Events : Add(e))
           \/ (\E w \in Workers : Dispatch(w) \/ MarkError(w))
           \/ (\E g \in Groups : Expel(g))
  <2>1. UNCHANGED <<cons, processed>>
    BY <1>1 DEF vars, group, Add, Dispatch, Fetch, Publish, PublishError,
                MarkPublished, MarkFailed, MarkError, Expel
  <2>2. PrefixKept
    <3>1. CASE log' = log
      BY <1>0, <3>1 DEF PrefixKept
    <3>2. CASE \E w \in Workers : Publish(w) \/ PublishError(w)
      <4>1. PICK w \in Workers : Publish(w) \/ PublishError(w)
        BY <3>2
      <4>2. Current(w) \in Events /\ log' \in {log, Append(log, Current(w))}
        BY <1>0, <4>1, CurrentInBatch DEF Publish, PublishError
      <4> QED BY <1>0, <4>2, LogGrows DEF PrefixKept
    <3> QED BY <1>1, <3>1, <3>2
            DEF vars, producer, Add, Dispatch, Fetch, MarkPublished, MarkFailed, MarkError, Expel
  <2> QED BY <1>0, <2>1, <2>2, FreshKept DEF FreshInHand
<1>2. CASE \E w \in Workers : Crash(w)
  <2>1. UNCHANGED <<processed, log>>
    BY <1>2 DEF Crash
  <2>2. \A g \in Groups, w \in Workers :
          cons'[g][w] = cons[g][w] \/ cons'[g][w] = AtOffset(0)
    BY <1>0, <1>2 DEF Crash
  <2>3. AtOffset(0).step # "handle"
    BY DEF AtOffset
  <2>4. PrefixKept
    BY <1>0, <2>1 DEF PrefixKept
  <2> QED BY <1>0, <2>1, <2>2, <2>3, <2>4, FreshKept DEF FreshInHand
<1>3. CASE \E g \in Groups, w \in Workers : Assign(g, w) \/ Consume(g, w)
  <2>1. PICK g \in Groups, w \in Workers : Assign(g, w) \/ Consume(g, w)
    BY <1>3
  <2>2. log' = log
    BY <2>1 DEF Assign, Consume, Poll, CheckProcessed, RunHandler, MarkProcessed,
                Retry, Bury, Commit, producer
  <2>3. PrefixKept
    BY <1>0, <2>2 DEF PrefixKept
  <2>4. \A h \in Groups, v \in Workers : h # g => cons'[h][v] = cons[h][v]
    BY <1>0, <2>1 DEF Assign, Consume, Poll, CheckProcessed, RunHandler,
                      MarkProcessed, Retry, Bury, Commit, Go
  <2>5. \A h \in Groups : h # g => processed'[h] = processed[h]
    BY <1>0, <2>1 DEF Assign, Consume, Poll, CheckProcessed, RunHandler,
                      MarkProcessed, Retry, Bury, Commit
  <2>6. SUFFICES cons'[g][w].step = "handle" => Event(g, w)' \notin processed'[g]
    BY <1>0, <2>3, <2>4, <2>5, FreshKept DEF FreshInHand, OneProcess
  <2>7. ASSUME NEW step, Go(g, w, step)
        PROVE  cons'[g][w].step = step /\ cons'[g][w].pos = cons[g][w].pos
    <3>1. cons'[g][w] = [step |-> step, pos |-> cons[g][w].pos,
                         tries |-> cons[g][w].tries]
      BY <1>0, <2>7 DEF Go
    <3> QED BY <3>1
  <2>8. CASE CheckProcessed(g, w)
    <3>1. UNCHANGED processed
      BY <2>8 DEF CheckProcessed
    <3>2. CASE Event(g, w) \in processed[g]
      <4>1. Go(g, w, "commit")
        BY <2>8, <3>2 DEF CheckProcessed
      <4> QED BY <2>7, <4>1
    <3>3. CASE Event(g, w) \notin processed[g]
      <4>1. Go(g, w, "handle")
        BY <2>8, <3>3 DEF CheckProcessed
      <4>2. Event(g, w)' = Event(g, w)
        BY <2>2, <2>7, <4>1 DEF Event
      <4> QED BY <3>1, <3>3, <4>2
    <3> QED BY <3>2, <3>3
  <2>9. CASE RunHandler(g, w) \/ MarkProcessed(g, w) \/ Bury(g, w)
    <3>1. Go(g, w, "mark") \/ Go(g, w, "commit")
      BY <2>9 DEF RunHandler, MarkProcessed, Bury
    <3> QED BY <2>7, <3>1
  <2>10. CASE Assign(g, w) \/ Poll(g, w) \/ Commit(g, w)
    <3>1. \/ cons'[g][w] = AtOffset(committed[g])
          \/ cons'[g][w] = [step |-> "check", pos |-> cons[g][w].pos, tries |-> 0]
          \/ cons'[g][w] = AtOffset(cons[g][w].pos + 1)
      BY <1>0, <2>10 DEF Assign, Poll, Commit
    <3> QED BY <3>1 DEF AtOffset
  <2>11. CASE Retry(g, w)
    <3>1. CASE cons[g][w].tries < MaxRetries
      <4>1. cons'[g][w] = [step |-> "check", pos |-> cons[g][w].pos,
                           tries |-> cons[g][w].tries + 1]
        BY <1>0, <2>11, <3>1 DEF Retry
      <4> QED BY <4>1
    <3>2. CASE ~ (cons[g][w].tries < MaxRetries)
      <4>1. Go(g, w, "bury")
        BY <2>11, <3>2 DEF Retry
      <4> QED BY <2>7, <4>1
    <3> QED BY <3>1, <3>2
  <2> QED BY <2>1, <2>8, <2>9, <2>10, <2>11 DEF Consume
<1> QED BY <1>1, <1>2, <1>3 DEF Next

\* With one worker process a handler never runs again for an event that its
\* group remembers, neither for a copy in the topic nor after a crash: the
\* check and the handler have nobody between them.
THEOREM NoHandlerRepeated ==
  ASSUME OneProcess
  PROVE  Spec => ProcessedNotRepeated
<1>1. Init => FreshInHand
  <2> SUFFICES ASSUME Init PROVE FreshInHand
    OBVIOUS
  <2>1. \A g \in Groups, w \in Workers : cons[g][w] = AtOffset(0)
    BY DEF Init
  <2> QED BY <2>1 DEF FreshInHand, AtOffset
<1>2. DeliveryInv /\ FreshInHand /\ [Next]_vars => FreshInHand'
  BY NextFresh
<1>3. FreshInHand => [\A g \in Groups, w \in Workers :
                        HandlerRuns(g, w) => Event(g, w) \notin processed[g]]_vars
  BY DEF FreshInHand, HandlerRuns
<1> QED BY <1>1, <1>2, <1>3, DeliveryHolds, PTL DEF Spec, ProcessedNotRepeated
----------------------------------------------------------------------------
(* Refinement.                                                             *)

\* What the stream sees of a step that neither sends, handles, buries nor
\* commits.
LEMMA StreamStutter ==
  ASSUME UNCHANGED <<log, committed, handled, dlq>>
  PROVE  [Stream!StreamNext]_(Stream!stream)
BY DEF Stream!stream

\* Sending a row sends its event.
LEMMA DispatcherStreams ==
  ASSUME DeliveryInv, NEW w \in Workers, Dispatch(w) \/ MarkError(w)
  PROVE  [Stream!StreamNext]_(Stream!stream)
<1>1. CASE Publish(w) \/ PublishError(w)
  <2>1. Current(w) \in Events
    BY <1>1, CurrentInBatch DEF Publish, PublishError, DeliveryInv
  <2>2. /\ log' = log \/ log' = Append(log, Current(w))
        /\ UNCHANGED <<committed, handled, dlq>>
    BY <1>1 DEF Publish, PublishError, group
  <2>3. CASE log' = Append(log, Current(w))
    <3>1. Stream!Send(Current(w))
      BY <2>2, <2>3 DEF Stream!Send
    <3> QED BY <2>1, <3>1 DEF Stream!StreamNext
  <2> QED BY <2>2, <2>3, StreamStutter
<1>2. CASE ~ (Publish(w) \/ PublishError(w))
  <2>1. UNCHANGED <<log, group>>
    BY <1>2 DEF Dispatch, Fetch, MarkPublished, MarkFailed, MarkError
  <2> QED BY <2>1, StreamStutter DEF group
<1> QED BY <1>1, <1>2

\* Running a handler, burying an event and committing are the stream's steps.
LEMMA ConsumerStreams ==
  ASSUME DeliveryInv, NEW g \in Groups, NEW w \in Workers, Consume(g, w)
  PROVE  [Stream!StreamNext]_(Stream!stream)
<1>0. /\ log \in Seq(Events) /\ Len(log) \in Nat
      /\ committed \in [Groups -> 0..Len(log)]
      /\ cons[g][w].pos \in Nat
      /\ TypeOK /\ ConsumerInv(g, w)
  BY DEF DeliveryInv, TypeOK, Consumer
<1>1. ASSUME cons[g][w].step # "idle"
      PROVE  /\ Event(g, w) \in Events
             /\ \E i \in 1..Len(log) : log[i] = Event(g, w)
  BY <1>0, <1>1, EventInLog DEF Event
<1>2. CASE RunHandler(g, w)
  <2>1. Event(g, w) \in Events /\ Stream!Handle(g, Event(g, w))
    BY <1>1, <1>2 DEF RunHandler, producer, Stream!Handle
  <2> QED BY <2>1 DEF Stream!StreamNext
<1>3. CASE Bury(g, w)
  <2>1. Event(g, w) \in Events /\ Stream!Bury(g, Event(g, w))
    BY <1>1, <1>3 DEF Bury, producer, Stream!Bury
  <2> QED BY <2>1 DEF Stream!StreamNext
<1>4. CASE Commit(g, w)
  <2> DEFINE n == cons[g][w].pos + 1
  <2>1. cons[g][w].step = "commit" /\ UNCHANGED <<log, handled, dlq>>
    BY <1>4 DEF Commit, producer
  <2>2. n \in 1..Len(log)
    BY <1>0, <2>1, EventInLog
  <2>3. CASE owner[g] = w /\ committed' = [committed EXCEPT ![g] = n]
    <3>1. committed[g] \in Nat /\ n >= committed[g]
      BY <1>0, <2>3 DEF ConsumerInv
    <3>2. \A i \in 1..n : log[i] \in handled[g] \cup dlq[g]
      <4>1. log[n] \in handled[g] \cup dlq[g]
        BY <1>0, <2>1 DEF ConsumerInv, Event
      <4>2. \A i \in 1..cons[g][w].pos : log[i] \in handled[g] \cup dlq[g]
        BY <1>0 DEF ConsumerInv
      <4>3. \A i \in 1..n : i = n \/ i \in 1..cons[g][w].pos
        BY <1>0
      <4> QED BY <4>1, <4>2, <4>3
    <3>3. Stream!Settle(g, n)
      BY <2>1, <2>3, <3>1, <3>2 DEF Stream!Settle
    <3> QED BY <2>2, <3>3 DEF Stream!StreamNext
  <2>4. CASE committed' = committed
    BY <2>1, <2>4, StreamStutter
  <2> QED BY <1>4, <2>3, <2>4 DEF Commit
<1>5. CASE Poll(g, w) \/ CheckProcessed(g, w) \/ MarkProcessed(g, w) \/ Retry(g, w)
  <2>1. UNCHANGED <<log, committed, handled, dlq>>
    BY <1>5 DEF Poll, CheckProcessed, MarkProcessed, Retry, producer
  <2> QED BY <2>1, StreamStutter
<1> QED BY <1>2, <1>3, <1>4, <1>5 DEF Consume

\* Every step of outbox and consumers is a step of the stream, or none.
LEMMA NextStreams == DeliveryInv /\ [Next]_vars => [Stream!StreamNext]_(Stream!stream)
<1> SUFFICES ASSUME DeliveryInv, [Next]_vars
             PROVE  [Stream!StreamNext]_(Stream!stream)
  OBVIOUS
<1>1. CASE \E w \in Workers : Dispatch(w) \/ MarkError(w)
  BY <1>1, DispatcherStreams
<1>2. CASE \E g \in Groups, w \in Workers : Consume(g, w)
  BY <1>2, ConsumerStreams
<1>3. CASE \/ \E e \in Events : Add(e)
           \/ \E g \in Groups : Expel(g)
           \/ \E g \in Groups, w \in Workers : Assign(g, w)
           \/ \E w \in Workers : Crash(w)
           \/ UNCHANGED vars
  <2>1. UNCHANGED <<log, committed, handled, dlq>>
    BY <1>3 DEF Add, Expel, Assign, Crash, group, producer, vars
  <2> QED BY <2>1, StreamStutter
<1> QED BY <1>1, <1>2, <1>3 DEF Next

\* Initially the stream is empty.
LEMMA InitStreams == Init => Stream!StreamInit
BY DEF Init, Stream!StreamInit

\* Outbox, dispatchers and consumers implement the stream of events: a group
\* leaves an event behind only for good, and only handled or buried.
THEOREM ImplementsStream == Spec => StreamSpec
BY DeliveryHolds, InitStreams, NextStreams, PTL
   DEF Spec, StreamSpec, Stream!StreamSpec
============================================================================
