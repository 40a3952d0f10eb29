----------------------------- MODULE Reactions -----------------------------
(***************************************************************************)
(* The likes (or the favorites) of one video.  A request writes the state  *)
(* and the live counters in Redis, publishes an event and answers; the     *)
(* counter worker applies the events to MySQL in the order of the topic,   *)
(* which is keyed by the video.  When publishing fails the request writes  *)
(* MySQL itself.  The hot rank and the author's message come last, apart   *)
(* from the rest, and their errors are discarded.                          *)
(***************************************************************************)
EXTENDS Integers, FiniteSets, Sequences, Folds, SequencesExt

CONSTANTS
  Users,     \* the accounts that react to the video
  Callers,   \* the slots of concurrently running requests
  Keys,      \* the values of the Idempotency-Key header
  NoKey,     \* the header is missing
  NoUser,    \* the slot is free
  Shard,     \* the counter shard of each user: user_id % 16
  Target,    \* what the request of each key asks for: TRUE to react
  MaxCalls   \* bound: requests made

ASSUME ConstantsAssumption ==
  /\ IsFiniteSet(Users) /\ IsFiniteSet(Callers)
  /\ NoKey \notin Keys /\ NoUser \notin Users
  /\ Target \in [Keys -> BOOLEAN]
  /\ MaxCalls \in Nat

VARIABLES
  open,      \* the video is published
  call,      \* the requests in flight
  calls,     \* requests made so far
  redis,     \* interaction:action:v1, by user
  base,      \* video:stat:counter:v1:base, like_count; -1 is no key
  shards,    \* the deltas of video:stat:counter:v1:shard, by shard
  touched,   \* the live shards, the one written last at the end
  topic,     \* the events of the video not yet committed by the worker
  rows,      \* interaction_action, by user
  likes,     \* video_stat.like_count
  hot,       \* what the reactions of each user add to the hot rank
  noticed,   \* the users of whose like the author has a message
  disturbed, \* history: users whose events were lost, reordered or overtaken
  unscored,  \* history: users of whom the hot rank missed a change, or Redis the state
  drifted    \* history: a live counter expired before the others, or early

vars == <<open, call, calls, redis, base, shards, touched, topic, rows, likes,
          hot, noticed, disturbed, unscored, drifted>>
live   == <<redis, base, shards, touched>>
stored == <<rows, likes>>
ranked == <<hot, noticed, unscored>>
----------------------------------------------------------------------------
State  == [status : {"absent", "active", "canceled"}, key : Keys \cup {NoKey}]
Absent == [status |-> "absent", key |-> NoKey]
Event  == [user : Users, active : BOOLEAN, key : Keys \cup {NoKey}]
Call   == [step   : {"idle", "redis", "publish", "sync", "score"},
           user   : Users \cup {NoUser},
           active : BOOLEAN,
           key    : Keys \cup {NoKey},
           stat   : Nat,
           delta  : {-1, 0, 1}]
Idle   == [step |-> "idle", user |-> NoUser, active |-> FALSE, key |-> NoKey,
           stat |-> 0, delta |-> 0]

ShardSet == {Shard[u] : u \in Users}

\* Every variable has its type; a request in flight has its user.
TypeOK ==
  /\ open \in BOOLEAN
  /\ call \in [Callers -> Call]
  /\ calls \in Nat
  /\ redis \in [Users -> State]
  /\ base \in Nat \cup {-1}
  /\ shards \in [ShardSet -> Int]
  /\ touched \in Seq(ShardSet)
  /\ topic \in Seq(Event)
  /\ rows \in [Users -> State]
  /\ likes \in Nat
  /\ hot \in [Users -> Int]
  /\ noticed \subseteq Users
  /\ disturbed \subseteq Users
  /\ unscored \subseteq Users
  /\ drifted \in BOOLEAN
  /\ \A c \in Callers : call[c].step # "idle" => call[c].user \in Users

Init ==
  /\ open = TRUE
  /\ call = [c \in Callers |-> Idle]
  /\ calls = 0
  /\ redis = [u \in Users |-> Absent]
  /\ base = -1
  /\ shards = [s \in ShardSet |-> 0]
  /\ touched = <<>>
  /\ topic = <<>>
  /\ rows = [u \in Users |-> Absent]
  /\ likes = 0
  /\ hot = [u \in Users |-> 0]
  /\ noticed = {}
  /\ disturbed = {}
  /\ unscored = {}
  /\ drifted = FALSE
----------------------------------------------------------------------------
(* A state and what a request makes of it, the same in Redis and in MySQL. *)

Active(state) == state.status = "active"

\* A request with the key stored last is a retry: nothing changes.
Applied(state, active, key) ==
  IF key # NoKey /\ state.key = key
  THEN state
  ELSE [status |-> IF active THEN "active" ELSE "canceled", key |-> key]

Delta(old, new) ==
  CASE Active(new) /\ ~Active(old) -> 1
    [] Active(old) /\ ~Active(new) -> -1
    [] Active(old) <=> Active(new) -> 0

Clamped(n) == IF n < 0 THEN 0 ELSE n

EventOf(c) == [user |-> call[c].user, active |-> call[c].active, key |-> call[c].key]

Pending(u) == \E i \in 1..Len(topic) : topic[i].user = u

\* Mutant: an undone reaction leaves the count alone.
StoreWithoutUndo(u, active, key) ==
  LET new == Applied(rows[u], active, key)
  IN  /\ rows' = [rows EXCEPT ![u] = new]
      /\ likes' = IF active THEN Clamped(likes + Delta(rows[u], new)) ELSE likes

\* Repository.SetAction: the row and the counter change in one transaction,
\* under the lock of the published video.
Store(u, active, key) ==
  LET new == Applied(rows[u], active, key)
  IN  /\ rows' = [rows EXCEPT ![u] = new]
      /\ likes' = Clamped(likes + Delta(rows[u], new))

\* notifyLike: one message per user and video, whatever the user does later.
Notice(u, delta) == IF delta = 1 /\ open THEN noticed \cup {u} ELSE noticed

Return(c) == call' = [call EXCEPT ![c] = Idle]

Disturb(us) == disturbed' = disturbed \cup us

Miss(us) == unscored' = unscored \cup us
----------------------------------------------------------------------------
(* Requests.                                                               *)

\* The video must be published; its counters are read from MySQL first.
Start(c, u, active, key) ==
  /\ call[c].step = "idle"
  /\ calls < MaxCalls
  /\ key # NoKey => Target[key] = active
  /\ open
  /\ call' = [call EXCEPT ![c] =
                [step |-> "redis", user |-> u, active |-> active, key |-> key,
                 stat |-> likes, delta |-> 0]]
  /\ calls' = calls + 1
  /\ UNCHANGED <<open, live, topic, stored, ranked, disturbed, drifted>>

Touch(s) == Append(RemoveFirst(touched, s), s)

\* Mutant: every request writes the base.
BaseAnew(stat) == stat

\* HSETNX: the base is what MySQL counted when its key was missing.
BaseInit(stat) == IF base = -1 THEN stat ELSE base

Goto(c, step, delta) ==
  call' = [call EXCEPT ![c] =
             [step |-> step, user |-> call[c].user, active |-> call[c].active,
              key |-> call[c].key, stat |-> call[c].stat, delta |-> delta]]

Unsettled(c) == call[c].step \in {"publish", "sync"}

\* FeedCache.SetActionState: one Redis transaction, watching the user's state.
SetState(c) ==
  LET u     == call[c].user
      new   == Applied(redis[u], call[c].active, call[c].key)
      delta == Delta(redis[u], new)
      s     == Shard[u]
  IN  /\ call[c].step = "redis"
      /\ redis' = [redis EXCEPT ![u] = new]
      /\ base' = BaseInit(call[c].stat)
      /\ shards' = [shards EXCEPT ![s] = @ + delta]
      /\ touched' = Touch(s)
      /\ IF delta = 0
         THEN Return(c) /\ UNCHANGED disturbed
         ELSE /\ Goto(c, "publish", delta)
              /\ Disturb({v \in {u} : \E d \in Callers \ {c} :
                            call[d].user = u /\ Unsettled(d)})
      /\ UNCHANGED <<open, calls, topic, stored, ranked, drifted>>

\* The event is published.
Publish(c) ==
  /\ call[c].step = "publish"
  /\ topic' = Append(topic, EventOf(c))
  /\ Goto(c, "score", call[c].delta)
  /\ UNCHANGED <<open, calls, live, stored, ranked, disturbed, drifted>>

\* Publishing reports an error, and the broker may have taken the event all the
\* same: setActionSync is next.
PublishFails(c) ==
  /\ call[c].step = "publish"
  /\ topic' \in {topic, Append(topic, EventOf(c))}
  /\ Goto(c, "sync", call[c].delta)
  /\ UNCHANGED <<open, calls, live, stored, ranked, disturbed, drifted>>

\* The synchronous write overtakes the user's events still in the topic.  What it
\* changes goes to the hot rank: less than Redis was told when the worker has
\* applied the event that was reported as failed, or not yet an earlier one.
SetActionSync(c) ==
  LET u == call[c].user
      d == Delta(rows[u], Applied(rows[u], call[c].active, call[c].key))
  IN  /\ call[c].step = "sync"
      /\ open
      /\ Store(u, call[c].active, call[c].key)
      /\ IF d = 0 THEN Return(c) ELSE Goto(c, "score", d)
      /\ Disturb({v \in {u} : Pending(u)})
      /\ Miss({v \in {u} : d # call[c].delta})
      /\ UNCHANGED <<open, calls, live, topic, hot, noticed, drifted>>

\* AddHotScore, then the message to the author: each may fail, or the process end
\* between them, and the request answers all the same.
Score(c) ==
  LET u == call[c].user
  IN  /\ call[c].step = "score"
      /\ \/ hot' = [hot EXCEPT ![u] = @ + call[c].delta] /\ UNCHANGED unscored
         \/ Miss({u}) /\ UNCHANGED hot
      /\ noticed' \in {noticed, Notice(u, call[c].delta)}
      /\ Return(c)
      /\ UNCHANGED <<open, calls, live, topic, stored, disturbed, drifted>>

\* An error, a deadline or the end of the process ends the request: what Redis
\* was told is not undone.
Abort(c) ==
  /\ call[c].step # "idle"
  /\ Disturb({v \in {call[c].user} : Unsettled(c)})
  /\ Miss({v \in {call[c].user} : call[c].step # "redis"})
  /\ Return(c)
  /\ UNCHANGED <<open, calls, live, topic, stored, hot, noticed, drifted>>
----------------------------------------------------------------------------
(* The counter worker.                                                     *)

\* Mutant: the events are applied newest first.
ConsumeLast ==
  LET e == topic[Len(topic)]
  IN  /\ topic # <<>>
      /\ open
      /\ Store(e.user, e.active, e.key)
      /\ topic' = Front(topic)
      /\ UNCHANGED <<open, call, calls, live, ranked, disturbed, drifted>>

\* The event is applied, and committed or left to be delivered again; the worker
\* does not write the hot rank.
Consume ==
  LET e == Head(topic)
  IN  /\ topic # <<>>
      /\ open
      /\ Store(e.user, e.active, e.key)
      /\ topic' \in {topic, Tail(topic)}
      /\ UNCHANGED <<open, call, calls, live, ranked, disturbed, drifted>>

\* Its retries used up, as when the video is hidden, the event is put aside.
DeadLetter ==
  /\ topic # <<>>
  /\ topic' = Tail(topic)
  /\ Disturb({Head(topic).user})
  /\ UNCHANGED <<open, call, calls, live, stored, ranked, drifted>>
----------------------------------------------------------------------------
(* Time, and the moderation of the video.                                  *)

\* The state of a user expires 30 days after it was written.
ExpireState(u) ==
  /\ redis[u] # Absent
  /\ redis' = [redis EXCEPT ![u] = Absent]
  /\ Disturb({v \in {u} : Active(redis[u])})
  /\ Miss({v \in {u} : Active(redis[u])})
  /\ UNCHANGED <<open, call, calls, base, shards, touched, topic, stored, hot,
                 noticed, drifted>>

\* A live counter expires a day after it was written: a shard while requests of
\* other shards keep the base alive, the last shard together with the base, and
\* then the count starts anew from MySQL, which may be behind.
ExpireCounter ==
  /\ touched # <<>>
  /\ shards' = [shards EXCEPT ![Head(touched)] = 0]
  /\ touched' = Tail(touched)
  /\ IF Len(touched) = 1
     THEN /\ base' = -1
          /\ drifted' = (topic # <<>> \/ \E c \in Callers : call[c].step # "idle")
     ELSE /\ drifted' = TRUE
          /\ UNCHANGED base
  /\ UNCHANGED <<open, call, calls, redis, topic, stored, ranked, disturbed>>

SetVideo ==
  /\ open' = ~open
  /\ UNCHANGED <<call, calls, live, topic, stored, ranked, disturbed, drifted>>
----------------------------------------------------------------------------
RequestStep(c) ==
  \/ \E u \in Users, active \in BOOLEAN, key \in Keys \cup {NoKey} :
       Start(c, u, active, key)
  \/ SetState(c)
  \/ Publish(c)
  \/ PublishFails(c)
  \/ SetActionSync(c)
  \/ Score(c)
  \/ Abort(c)

Next ==
  \/ \E c \in Callers : RequestStep(c)
  \/ Consume
  \/ DeadLetter
  \/ \E u \in Users : ExpireState(u)
  \/ ExpireCounter
  \/ SetVideo

Spec == Init /\ [][Next]_vars
----------------------------------------------------------------------------
(* Properties.                                                             *)

Reacting == {u \in Users : Active(rows[u])}

\* like_count, changed by events applied twice, late or put aside and by the
\* writes that overtake them, is always the number of active rows.
CountIsExact == likes = Cardinality(Reacting)

\* Inductive: what MySQL is asked to store, by events and by requests, is of a user.
CountInv ==
  /\ rows \in [Users -> State] /\ likes \in Nat
  /\ topic \in Seq(Event)
  /\ call \in [Callers -> Call]
  /\ \A c \in Callers : call[c].step # "idle" => call[c].user \in Users
  /\ CountIsExact

UnsettledOf(u) == {c \in Callers : Unsettled(c) /\ call[c].user = u}

\* What MySQL will hold of u once the events on their way are applied, one by one.
Upcoming(u) ==
  FoldLeft(LAMBDA state, e : IF e.user = u THEN Applied(state, e.active, e.key) ELSE state,
           rows[u], topic \o SetToSeq({EventOf(c) : c \in UnsettledOf(u)}))

\* What a request of u has told Redis and not yet, or never will, the hot rank.
Owing(u) ==
  [c \in Callers |->
     IF call[c].user = u /\ call[c].step \in {"publish", "sync", "score"} THEN call[c].delta ELSE 0]

\* Unless its events were lost or overtaken, a user's state in Redis, which the
\* answers show, is what MySQL will hold when the topic is drained.  And unless a
\* change of the score was lost, by its error, the end of the process, a publish
\* reported as failed whose event arrived or a state that expired, the hot rank counts
\* the active user once, whatever requests run beside each other.
StatesConverge ==
  /\ \A u \in Users \ disturbed : Active(Upcoming(u)) <=> Active(redis[u])
  /\ \A u \in Users \ unscored :
       (\A c \in Callers : Owing(u)[c] = 0) => hot[u] = IF Active(redis[u]) THEN 1 ELSE 0

LiveCount == base + SumFunction(shards)

\* The count shown is the number of users whose state is active, unless one
\* shard expired alone: a reaction counted in the base, which is what MySQL held
\* when the key was missing, is never counted in a shard as well.
LiveCountExact ==
  base # -1 /\ ~drifted /\ disturbed = {} =>
    LiveCount = Cardinality({u \in Users : Active(redis[u])})
----------------------------------------------------------------------------
(* The invariant that the properties follow from.                          *)

\* A key always asks for the same, so the state it was stored with is the one it asks for.
KeyTells(state) ==
  state.key # NoKey => state.status = IF Target[state.key] THEN "active" ELSE "canceled"

KeysTell ==
  /\ \A u \in Users : KeyTells(rows[u]) /\ KeyTells(redis[u])
  /\ \A i \in 1 .. Len(topic) : topic[i].key # NoKey => topic[i].active = Target[topic[i].key]
  /\ \A c \in Callers :
       call[c].step # "idle" /\ call[c].key # NoKey => call[c].active = Target[call[c].key]

\* Whether MySQL will hold a reaction of u once the topic is drained: its last event tells.
Settled(u) ==
  IF Pending(u)
  THEN \E i \in 1 .. Len(topic) :
         topic[i].user = u /\ topic[i].active /\ \A j \in 1 .. Len(topic) : topic[j].user = u => j <= i
  ELSE Active(rows[u])

\* A user whose events were neither lost nor overtaken has one request at most that is not
\* settled, and it asks for what Redis has; without one, the topic leaves what Redis has.
UserStands(u) ==
  /\ \A c, d \in UnsettledOf(u) : c = d
  /\ \A c \in UnsettledOf(u) : Active(redis[u]) <=> call[c].active
  /\ UnsettledOf(u) = {} => (Settled(u) <=> Active(redis[u]))

\* What the hot rank has of a user and will have from the requests under way is one for an
\* active state.
ScoreStands(u) == hot[u] + SumFunction(Owing(u)) = IF Active(redis[u]) THEN 1 ELSE 0

\* A shard without a key is zero; and while the base is missing, MySQL has counted what Redis
\* has, as every request under way has read it.
LiveStands ==
  /\ base = -1 => touched = <<>>
  /\ \A s \in ShardSet : shards[s] # 0 => \E i \in 1 .. Len(touched) : touched[i] = s
  /\ base = -1 /\ ~drifted /\ disturbed = {} =>
       /\ topic = <<>>
       /\ \A c \in Callers : ~Unsettled(c) /\ (call[c].step = "redis" => call[c].stat = likes)

ReactionsInv ==
  /\ TypeOK /\ CountIsExact /\ KeysTell
  /\ \A u \in Users \ disturbed : UserStands(u)
  /\ \A u \in Users \ unscored : ScoreStands(u)
  /\ LiveStands /\ LiveCountExact
============================================================================
