----------------------------- MODULE Relations -----------------------------
(***************************************************************************)
(* Who follows and who blocks whom: the follow rows, the two counters of   *)
(* every account and the outbox events written with them, and the blocks   *)
(* of the governance service, which end follows on their own.  A follow    *)
(* request checks the blocks, then opens a transaction that locks the row  *)
(* of the follower's account before that of the other account.             *)
(***************************************************************************)
EXTENDS Integers, FiniteSets

CONSTANTS
  Users,      \* the accounts
  Clients,    \* the slots of concurrently running requests
  Keys,       \* the values of the Idempotency-Key header
  NoKey,      \* the header is missing
  NoClient,   \* nobody holds the lock
  MaxCalls,   \* bound: follow and unfollow requests made
  MaxMeasures  \* bound: blocks set and accounts banned

ASSUME ConstantsAssumption ==
  /\ IsFiniteSet(Users)
  /\ NoKey \notin Keys /\ NoClient \notin Clients
  /\ MaxCalls \in Nat /\ MaxMeasures \in Nat

VARIABLES
  normal,     \* account.status is normal
  follow,     \* user_follow, by follower and followed
  following,  \* user_relation_stat.following_count
  followers,  \* user_relation_stat.follower_count
  told,       \* what the last outbox event of a follow row says
  blocks,     \* user_block: who blocks whom
  locks,      \* the request whose transaction has locked an account row
  req,        \* the requests in flight
  noticed,    \* the pairs whose followed account has a message
  calls,      \* requests made so far
  measures,   \* blocks set and accounts banned so far
  cut,        \* history: follows of each account that blocks ended
  lost,       \* history: followers of each account that blocks ended
  raced       \* history: pairs blocked while a follow request was past the check

vars == <<normal, follow, following, followers, told, blocks, locks, req,
          noticed, calls, measures, cut, lost, raced>>
rows == <<follow, following, followers, told>>
----------------------------------------------------------------------------
Pairs == {p \in Users \X Users : p[1] # p[2]}
Back(p) == <<p[2], p[1]>>

Row     == [status : {"absent", "active", "canceled"}, key : Keys \cup {NoKey}]
Request == [step   : {"lock_user", "lock_target", "write", "answer"},
            pair   : Pairs,
            active : BOOLEAN,
            key    : Keys \cup {NoKey}]
Idle    == [step |-> "idle"]

\* The request has passed the check of the blocks and has not yet written.
Writing(c) == req[c].step \in {"lock_user", "lock_target", "write"}

\* Every variable has its type.
TypeOK ==
  /\ normal \in [Users -> BOOLEAN]
  /\ follow \in [Pairs -> Row]
  /\ following \in [Users -> Nat]
  /\ followers \in [Users -> Nat]
  /\ told \in [Pairs -> {"nothing", "followed", "unfollowed"}]
  /\ blocks \subseteq Pairs
  /\ locks \in [Users -> Clients \cup {NoClient}]
  /\ req \in [Clients -> Request \cup {Idle}]
  /\ noticed \subseteq Pairs
  /\ calls \in Nat /\ measures \in Nat
  /\ cut \in [Users -> Nat] /\ lost \in [Users -> Nat]
  /\ raced \subseteq Pairs

Init ==
  /\ normal = [u \in Users |-> TRUE]
  /\ follow = [p \in Pairs |-> [status |-> "absent", key |-> NoKey]]
  /\ following = [u \in Users |-> 0]
  /\ followers = [u \in Users |-> 0]
  /\ told = [p \in Pairs |-> "nothing"]
  /\ blocks = {}
  /\ locks = [u \in Users |-> NoClient]
  /\ req = [c \in Clients |-> Idle]
  /\ noticed = {}
  /\ calls = 0
  /\ measures = 0
  /\ cut = [u \in Users |-> 0]
  /\ lost = [u \in Users |-> 0]
  /\ raced = {}
----------------------------------------------------------------------------
(* Requests to follow and to unfollow.                                     *)

Active(row) == row.status = "active"

Blocked(p) == p \in blocks \/ Back(p) \in blocks

Goto(c, step) ==
  req' = [req EXCEPT ![c] = [step |-> step, pair |-> req[c].pair,
                             active |-> req[c].active, key |-> req[c].key]]

Return(c) == req' = [req EXCEPT ![c] = Idle]

\* The transaction of c commits or is rolled back.
Unlock(c) ==
  locks' = [u \in Users |-> IF locks[u] = c THEN NoClient ELSE locks[u]]

\* setFollow: between accounts of which one blocks the other only unfollowing
\* is allowed.
Call(c, p, active, key) ==
  /\ req[c] = Idle
  /\ calls < MaxCalls
  /\ calls' = calls + 1
  /\ active => ~Blocked(p)
  /\ req' = [req EXCEPT ![c] = [step |-> "lock_user", pair |-> p,
                                active |-> active, key |-> key]]
  /\ UNCHANGED <<normal, rows, blocks, locks, noticed, measures, cut, lost, raced>>

\* lockNormalUser waits for the lock; an account that is not normal ends the
\* transaction.
LockNormalUser(c, u, next) ==
  /\ locks[u] = NoClient
  /\ \/ /\ normal[u]
        /\ locks' = [locks EXCEPT ![u] = c]
        /\ Goto(c, next)
     \/ /\ ~normal[u]
        /\ Unlock(c)
        /\ Return(c)
  /\ UNCHANGED <<normal, rows, blocks, noticed, calls, measures, cut, lost, raced>>

LockUser(c) ==
  req[c].step = "lock_user" /\ LockNormalUser(c, req[c].pair[1], "lock_target")

LockTarget(c) ==
  req[c].step = "lock_target" /\ LockNormalUser(c, req[c].pair[2], "write")

Waiting(c, d) ==
  req[c].step = "lock_target" /\ locks[req[c].pair[2]] = d

\* Mutant: nobody notices a deadlock.
DeadlockUnnoticed(c) == UNCHANGED vars

\* The database rolls back one of two transactions that wait for each other.
Deadlock(c) ==
  /\ \E d \in Clients : Waiting(c, d) /\ Waiting(d, c)
  /\ Unlock(c)
  /\ Return(c)
  /\ UNCHANGED <<normal, rows, blocks, noticed, calls, measures, cut, lost, raced>>

\* The row as the request leaves it; a repeated key changes nothing.
Applied(row, active, key) ==
  IF key # NoKey /\ row.key = key
  THEN row
  ELSE [status |-> IF active THEN "active" ELSE "canceled", key |-> key]

Delta(old, new) ==
  IF Active(old) = Active(new) THEN 0 ELSE IF Active(new) THEN 1 ELSE -1

Clamped(n) == IF n < 0 THEN 0 ELSE n

\* Mutant: the follower's counter follows the request, not the row.
CountRequest(p, delta, active) ==
  /\ following' = [following EXCEPT ![p[1]] = Clamped(@ + IF active THEN 1 ELSE -1)]
  /\ followers' = [followers EXCEPT ![p[2]] = Clamped(@ + delta)]

\* updateStat, for both accounts.
Count(p, delta, active) ==
  /\ following' = [following EXCEPT ![p[1]] = Clamped(@ + delta)]
  /\ followers' = [followers EXCEPT ![p[2]] = Clamped(@ + delta)]

\* Mutant: an event only for what changes the counters, not for a new row.
TellFollows(p, new) ==
  told' = [told EXCEPT ![p] =
             IF Active(new) THEN "followed" ELSE @]

\* The event is added to the outbox whenever the row is written.
Tell(p, new) ==
  told' = [told EXCEPT ![p] =
             IF new = follow[p] THEN @
             ELSE IF Active(new) THEN "followed" ELSE "unfollowed"]

\* Repository.SetFollow, once both accounts are locked, and its commit.
SetFollow(c) ==
  LET p   == req[c].pair
      new == Applied(follow[p], req[c].active, req[c].key)
  IN  /\ req[c].step = "write"
      /\ follow' = [follow EXCEPT ![p] = new]
      /\ Count(p, Delta(follow[p], new), req[c].active)
      /\ Tell(p, new)
      /\ Unlock(c)
      /\ IF req[c].active /\ Active(new) THEN Goto(c, "answer") ELSE Return(c)
      /\ UNCHANGED <<normal, blocks, noticed, calls, measures, cut, lost, raced>>

\* The followed account is told once; the message's key is the pair.
NotifyFollow(c) ==
  /\ req[c].step = "answer"
  /\ noticed' = noticed \cup {req[c].pair}
  /\ Return(c)
  /\ UNCHANGED <<normal, rows, blocks, locks, calls, measures, cut, lost, raced>>

\* An error or the end of the process ends the request and its transaction.
Abort(c) ==
  /\ req[c] # Idle
  /\ Unlock(c)
  /\ Return(c)
  /\ UNCHANGED <<normal, rows, blocks, noticed, calls, measures, cut, lost, raced>>
----------------------------------------------------------------------------
(* Blocks and bans.                                                        *)

\* Mutant: only the blocker's own follow ends.
EndedOneWay(p) == {p} \cap {q \in Pairs : Active(follow[q])}

\* The follows that a block of p ends.
Ended(p) == {p, Back(p)} \cap {q \in Pairs : Active(follow[q])}

\* SetBlock(true): the follows of both directions end, with no event and no
\* change of the counters.
Block(p) ==
  LET gone == Ended(p)
  IN  /\ measures < MaxMeasures
      /\ measures' = measures + 1
      /\ blocks' = blocks \cup {p}
      /\ follow' = [q \in Pairs |->
                      IF q \in gone THEN [status |-> "canceled", key |-> follow[q].key]
                                    ELSE follow[q]]
      /\ cut' = [u \in Users |-> IF \E q \in gone : q[1] = u THEN cut[u] + 1 ELSE cut[u]]
      /\ lost' = [u \in Users |-> IF \E q \in gone : q[2] = u THEN lost[u] + 1 ELSE lost[u]]
      /\ raced' = raced \cup {q \in {p, Back(p)} :
                    \E c \in Clients : Writing(c) /\ req[c].pair = q /\ req[c].active}
      /\ UNCHANGED <<normal, following, followers, told, locks, req, noticed, calls>>

Unblock(p) ==
  /\ blocks' = blocks \ {p}
  /\ UNCHANGED <<normal, rows, locks, req, noticed, calls, measures, cut, lost, raced>>

\* SetUserBanned waits for the account's row; the follows stay as they are.
SetUserBanned(u) ==
  /\ locks[u] = NoClient
  /\ normal' = [normal EXCEPT ![u] = ~@]
  /\ normal[u] => measures < MaxMeasures
  /\ measures' = IF normal[u] THEN measures + 1 ELSE measures
  /\ UNCHANGED <<rows, blocks, locks, req, noticed, calls, cut, lost, raced>>
----------------------------------------------------------------------------
RequestStep(c) ==
  \/ LockUser(c)
  \/ LockTarget(c)
  \/ Deadlock(c)
  \/ SetFollow(c)
  \/ NotifyFollow(c)

Next ==
  \/ \E c \in Clients : RequestStep(c) \/ Abort(c)
  \/ \E c \in Clients, p \in Pairs, active \in BOOLEAN, key \in Keys \cup {NoKey} :
       Call(c, p, active, key)
  \/ \E p \in Pairs : Block(p) \/ Unblock(p)
  \/ \E u \in Users : SetUserBanned(u)

Spec == Init /\ [][Next]_vars

\* Row locks are granted in the order they are asked for, deadlocks are broken,
\* and the requests run on.
FairSpec == Spec /\ \A c \in Clients : SF_vars(RequestStep(c))
----------------------------------------------------------------------------
(* Properties.                                                             *)

Followed(u) == {t \in Users \ {u} : Active(follow[<<u, t>>])}
FollowedBy(u) == {t \in Users \ {u} : Active(follow[<<t, u>>])}

\* The counters, kept by clamped increments while follows, unfollows, retries
\* and blocks of both sides interleave, are off by exactly the follows that
\* blocks have ended.
CountsOffByBlocks ==
  \A u \in Users :
    /\ following[u] = Cardinality(Followed(u)) + cut[u]
    /\ followers[u] = Cardinality(FollowedBy(u)) + lost[u]

\* A follow stands across a block only if its request had passed the check
\* before the block was set.
BlocksEndFollows ==
  \A p \in Pairs : Active(follow[p]) /\ Blocked(p) => p \in raced

\* The last event in the outbox tells the state of its row, but for the follows
\* that a block has ended.
EventsTellRows ==
  \A p \in Pairs :
    /\ Active(follow[p]) => told[p] = "followed"
    /\ told[p] = "followed" /\ ~Active(follow[p]) => cut[p[1]] > 0

\* Inductive: a follow request that is past the check has passed it rightly, or is one of those
\* a block overtook; and the counters have their types, so that no decrement is clamped.
RelationsInv ==
  /\ TypeOK /\ CountsOffByBlocks /\ BlocksEndFollows /\ EventsTellRows
  /\ \A c \in Clients :
       Writing(c) /\ req[c].active /\ Blocked(req[c].pair) => req[c].pair \in raced

\* Every request ends, also those of accounts that follow each other, which lock
\* the two rows in opposite orders.
EveryRequestEnds ==
  \A c \in Clients : req[c].step \in {"lock_user", "lock_target"} ~> req[c] = Idle

============================================================================
