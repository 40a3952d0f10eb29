--------------------------- MODULE RelationsProofs ---------------------------
(***************************************************************************)
(* Proofs about Relations, for any number of accounts, of concurrent       *)
(* requests and of blocks: the counters are off by the follows that blocks *)
(* have ended, no follow stands across a block unless the block overtook   *)
(* its request, and the events in the outbox tell the rows.                *)
(***************************************************************************)
EXTENDS Relations, FiniteSetTheorems, TLAPS

----------------------------------------------------------------------------
(* Lemmas about pairs and about the sets that are counted.                 *)

\* A pair is made of its two accounts.
LEMMA PairParts ==
  ASSUME NEW p \in Pairs
  PROVE  /\ p = <<p[1], p[2]>> /\ p[1] \in Users /\ p[2] \in Users /\ p[1] # p[2]
         /\ Back(p) \in Pairs /\ Back(p)[1] = p[2] /\ Back(p)[2] = p[1] /\ Back(p) # p
BY DEF Pairs, Back

\* Two accounts make a pair.
LEMMA PairOf ==
  ASSUME NEW u \in Users, NEW t \in Users, u # t
  PROVE  <<u, t>> \in Pairs
BY DEF Pairs

\* Whom an account follows, and who follows it, are finite sets of accounts.
LEMMA FollowsFinite ==
  ASSUME NEW u \in Users
  PROVE  /\ IsFiniteSet(Followed(u)) /\ Cardinality(Followed(u)) \in Nat
         /\ IsFiniteSet(FollowedBy(u)) /\ Cardinality(FollowedBy(u)) \in Nat
<1>1. Followed(u) \in SUBSET Users /\ FollowedBy(u) \in SUBSET Users
  BY DEF Followed, FollowedBy
<1>2. IsFiniteSet(Followed(u)) /\ IsFiniteSet(FollowedBy(u))
  BY <1>1, FS_Subset, ConstantsAssumption
<1> QED BY <1>2, FS_CardinalityType

\* A set that gains an element, unless it has it, grows by Delta of the element's row.
LEMMA DeltaAdds ==
  ASSUME NEW S, NEW t, NEW old, NEW new, IsFiniteSet(S),
         Active(old) <=> t \in S, Active(new)
  PROVE  Cardinality(S \cup {t}) \in Nat /\ Cardinality(S \cup {t}) = Cardinality(S) + Delta(old, new)
<1>1. Cardinality(S) \in Nat
  BY FS_CardinalityType
<1>2. CASE t \in S
  <2>1. S \cup {t} = S
    BY <1>2
  <2>2. Delta(old, new) = 0
    BY <1>2 DEF Delta, Active
  <2> QED BY <1>1, <2>1, <2>2
<1>3. CASE t \notin S
  <2>1. Cardinality(S \cup {t}) = Cardinality(S) + 1
    BY <1>3, FS_AddElement
  <2>2. Delta(old, new) = 1
    BY <1>3 DEF Delta, Active
  <2> QED BY <1>1, <2>1, <2>2
<1> QED BY <1>2, <1>3

\* A set that loses an element, if it has it, shrinks by Delta of the element's row.
LEMMA DeltaRemoves ==
  ASSUME NEW S, NEW t, NEW old, NEW new, IsFiniteSet(S),
         Active(old) <=> t \in S, ~Active(new)
  PROVE  Cardinality(S \ {t}) \in Nat /\ Cardinality(S \ {t}) = Cardinality(S) + Delta(old, new)
<1>1. Cardinality(S) \in Nat
  BY FS_CardinalityType
<1>2. CASE t \in S
  <2>1. IsFiniteSet(S \ {t}) /\ Cardinality(S \ {t}) = Cardinality(S) - 1
    BY <1>2, FS_RemoveElement
  <2>2. Cardinality(S \ {t}) \in Nat
    BY <2>1, FS_CardinalityType
  <2>3. Delta(old, new) = -1
    BY <1>2 DEF Delta, Active
  <2> QED BY <1>1, <2>1, <2>2, <2>3
<1>3. CASE t \notin S
  <2>1. S \ {t} = S
    BY <1>3
  <2>2. Delta(old, new) = 0
    BY <1>3 DEF Delta, Active
  <2>3. Cardinality(S \ {t}) = Cardinality(S)
    BY <2>1
  <2> QED BY <1>1, <2>2, <2>3
<1> QED BY <1>2, <1>3

\* A finite set without one of its elements.
LEMMA OneLess ==
  ASSUME NEW S, NEW t, IsFiniteSet(S), t \in S
  PROVE  Cardinality(S \ {t}) = Cardinality(S) - 1
BY FS_RemoveElement

\* What one row's change does to the sets: the two accounts of the pair alone are concerned.
LEMMA OneRowChanges ==
  ASSUME follow \in [Pairs -> Row], NEW p \in Pairs, NEW new \in Row,
         follow' = [follow EXCEPT ![p] = new]
  PROVE  /\ \A u \in Users : u # p[1] => Followed(u)' = Followed(u)
         /\ \A u \in Users : u # p[2] => FollowedBy(u)' = FollowedBy(u)
         /\ Followed(p[1])' = IF Active(new) THEN Followed(p[1]) \cup {p[2]} ELSE Followed(p[1]) \ {p[2]}
         /\ FollowedBy(p[2])' = IF Active(new) THEN FollowedBy(p[2]) \cup {p[1]} ELSE FollowedBy(p[2]) \ {p[1]}
         /\ Active(follow[p]) <=> p[2] \in Followed(p[1])
         /\ Active(follow[p]) <=> p[1] \in FollowedBy(p[2])
<1>0. p = <<p[1], p[2]>> /\ p[1] \in Users /\ p[2] \in Users /\ p[1] # p[2]
  BY PairParts
<1>1. \A q \in Pairs : follow'[q] = IF q = p THEN new ELSE follow[q]
  OBVIOUS
<1>2. ASSUME NEW u \in Users, NEW t \in Users, u # t
      PROVE  follow'[<<u, t>>] = IF u = p[1] /\ t = p[2] THEN new ELSE follow[<<u, t>>]
  BY <1>0, <1>1, <1>2, PairOf
<1>3. \A u \in Users : u # p[1] => Followed(u)' = Followed(u)
  BY <1>2 DEF Followed
<1>4. \A u \in Users : u # p[2] => FollowedBy(u)' = FollowedBy(u)
  BY <1>2 DEF FollowedBy
<1>5. Followed(p[1])' = IF Active(new) THEN Followed(p[1]) \cup {p[2]} ELSE Followed(p[1]) \ {p[2]}
  BY <1>0, <1>2 DEF Followed
<1>6. FollowedBy(p[2])' = IF Active(new) THEN FollowedBy(p[2]) \cup {p[1]} ELSE FollowedBy(p[2]) \ {p[1]}
  BY <1>0, <1>2 DEF FollowedBy
<1>7. Active(follow[p]) <=> p[2] \in Followed(p[1])
  BY <1>0 DEF Followed
<1>8. Active(follow[p]) <=> p[1] \in FollowedBy(p[2])
  BY <1>0 DEF FollowedBy
<1> QED BY <1>3, <1>4, <1>5, <1>6, <1>7, <1>8
----------------------------------------------------------------------------
(* The inductive invariant, action by action.                              *)

\* It holds before the first request.
LEMMA InvInit == Init => RelationsInv
<1> SUFFICES ASSUME Init PROVE RelationsInv
  OBVIOUS
<1>1. TypeOK
  BY ConstantsAssumption DEF Init, TypeOK, Row
<1>2. \A u \in Users : Followed(u) = {} /\ FollowedBy(u) = {}
  <2>1. \A p \in Pairs : ~Active(follow[p])
    BY DEF Init, Active
  <2>2. ASSUME NEW u \in Users, NEW t \in Users \ {u}
        PROVE  ~Active(follow[<<u, t>>]) /\ ~Active(follow[<<t, u>>])
    BY <2>1, PairOf
  <2> QED BY <2>2 DEF Followed, FollowedBy
<1>3. CountsOffByBlocks
  BY <1>2, FS_EmptySet DEF Init, CountsOffByBlocks
<1>4. BlocksEndFollows /\ EventsTellRows
  BY DEF Init, BlocksEndFollows, EventsTellRows, Active
<1>5. \A c \in Clients : ~Writing(c)
  BY DEF Init, Writing, Idle
<1> QED BY <1>1, <1>3, <1>4, <1>5 DEF RelationsInv

\* A request that is under way has its parts.
LEMMA RequestParts ==
  ASSUME TypeOK, NEW c \in Clients, req[c] # Idle
  PROVE  /\ req[c] \in Request
         /\ req[c].pair \in Pairs /\ req[c].active \in BOOLEAN /\ req[c].key \in Keys \cup {NoKey}
BY DEF TypeOK, Request

\* Requests that move on or end, with the rows and the blocks as they are, change nothing.
LEMMA QuietStep ==
  ASSUME RelationsInv, TypeOK', UNCHANGED <<rows, blocks, cut, lost, raced>>,
         \A c \in Clients : \/ ~Writing(c)'
                            \/ Writing(c) /\ req'[c].pair = req[c].pair /\ req'[c].active = req[c].active
  PROVE  RelationsInv'
<1>1. UNCHANGED <<follow, following, followers, told>>
  BY DEF rows
<1>2. CountsOffByBlocks'
  BY <1>1 DEF RelationsInv, CountsOffByBlocks, Followed, FollowedBy
<1>3. BlocksEndFollows' /\ EventsTellRows'
  BY <1>1 DEF RelationsInv, BlocksEndFollows, EventsTellRows, Blocked
<1>4. ASSUME NEW c \in Clients, (Writing(c) /\ req[c].active /\ Blocked(req[c].pair))'
      PROVE  (req[c].pair \in raced)'
  <2>1. Writing(c) /\ req'[c].pair = req[c].pair /\ req'[c].active = req[c].active
    BY <1>4
  <2> QED BY <1>4, <2>1 DEF RelationsInv, Blocked
<1> QED BY <1>2, <1>3, <1>4 DEF RelationsInv

\* A request waits for a lock, gets it, or ends at an account that is not normal.
LEMMA InvLock ==
  ASSUME RelationsInv, NEW c \in Clients, LockUser(c) \/ LockTarget(c)
  PROVE  RelationsInv'
<1> DEFINE next == IF req[c].step = "lock_user" THEN "lock_target" ELSE "write"
<1>1. req[c] # Idle /\ Writing(c)
  BY DEF LockUser, LockTarget, Writing, Idle
<1>2. req[c].pair \in Pairs /\ req[c].active \in BOOLEAN /\ req[c].key \in Keys \cup {NoKey}
  BY <1>1, RequestParts DEF RelationsInv
<1>3. PICK u \in Users : LockNormalUser(c, u, next)
  BY <1>2, PairParts DEF LockUser, LockTarget
<1>4. /\ \/ Goto(c, next) /\ locks' = [locks EXCEPT ![u] = c]
         \/ Return(c) /\ Unlock(c)
      /\ UNCHANGED <<normal, rows, blocks, noticed, calls, measures, cut, lost, raced>>
  BY <1>3 DEF LockNormalUser
<1>5. req' \in [Clients -> Request \cup {Idle}]
  BY <1>2, <1>4 DEF RelationsInv, TypeOK, Goto, Return, Request
<1>6. locks' \in [Users -> Clients \cup {NoClient}]
  BY <1>4 DEF RelationsInv, TypeOK, Unlock
<1>7. TypeOK'
  BY <1>4, <1>5, <1>6 DEF RelationsInv, TypeOK, rows
<1>8. \A d \in Clients : \/ ~Writing(d)'
                         \/ Writing(d) /\ req'[d].pair = req[d].pair /\ req'[d].active = req[d].active
  BY <1>1, <1>4 DEF RelationsInv, TypeOK, Goto, Return, Writing, Idle
<1> QED BY <1>4, <1>7, <1>8, QuietStep

\* A request ends: a deadlock, the message, an error.
LEMMA InvEnd ==
  ASSUME RelationsInv, NEW c \in Clients, Deadlock(c) \/ NotifyFollow(c) \/ Abort(c)
  PROVE  RelationsInv'
<1>1. /\ Return(c) /\ (Unlock(c) \/ UNCHANGED locks)
      /\ UNCHANGED <<normal, rows, blocks, calls, measures, cut, lost, raced>>
  BY DEF Deadlock, NotifyFollow, Abort
<1>2. noticed' \subseteq Pairs
  <2>1. CASE UNCHANGED noticed
    BY <2>1 DEF RelationsInv, TypeOK
  <2>2. CASE NotifyFollow(c)
    <3>1. req[c] # Idle
      BY <2>2 DEF NotifyFollow, Idle
    <3>2. req[c].pair \in Pairs
      BY <3>1, RequestParts DEF RelationsInv
    <3> QED BY <2>2, <3>2 DEF NotifyFollow, RelationsInv, TypeOK
  <2> QED BY <2>1, <2>2 DEF Deadlock, Abort
<1>3. req' \in [Clients -> Request \cup {Idle}] /\ locks' \in [Users -> Clients \cup {NoClient}]
  BY <1>1 DEF RelationsInv, TypeOK, Return, Unlock
<1>4. TypeOK'
  BY <1>1, <1>2, <1>3 DEF RelationsInv, TypeOK, rows
<1>5. \A d \in Clients : \/ ~Writing(d)'
                         \/ Writing(d) /\ req'[d].pair = req[d].pair /\ req'[d].active = req[d].active
  BY <1>1 DEF RelationsInv, TypeOK, Return, Writing, Idle
<1> QED BY <1>1, <1>4, <1>5, QuietStep

\* A follow request comes in: it passes the check only when nobody blocks.
LEMMA InvCall ==
  ASSUME RelationsInv, NEW c \in Clients, NEW p \in Pairs, NEW active \in BOOLEAN,
         NEW key \in Keys \cup {NoKey}, Call(c, p, active, key)
  PROVE  RelationsInv'
<1> DEFINE r == [step |-> "lock_user", pair |-> p, active |-> active, key |-> key]
<1>1. /\ req' = [req EXCEPT ![c] = r] /\ r \in Request /\ (active => ~Blocked(p))
      /\ calls' = calls + 1
      /\ UNCHANGED <<normal, follow, following, followers, told, blocks, locks, noticed, measures, cut, lost, raced>>
  BY DEF Call, rows, Request
<1>2. TypeOK'
  BY <1>1 DEF RelationsInv, TypeOK
<1>3. CountsOffByBlocks'
  BY <1>1 DEF RelationsInv, CountsOffByBlocks, Followed, FollowedBy
<1>4. BlocksEndFollows' /\ EventsTellRows'
  BY <1>1 DEF RelationsInv, BlocksEndFollows, EventsTellRows, Blocked
<1>5. ASSUME NEW d \in Clients, (Writing(d) /\ req[d].active /\ Blocked(req[d].pair))'
      PROVE  (req[d].pair \in raced)'
  <2>1. CASE d = c
    BY <1>1, <1>5, <2>1 DEF RelationsInv, TypeOK, Blocked
  <2>2. CASE d # c
    BY <1>1, <1>5, <2>2 DEF RelationsInv, TypeOK, Writing, Blocked
  <2> QED BY <2>1, <2>2
<1> QED BY <1>2, <1>3, <1>4, <1>5 DEF RelationsInv
\* What SetFollow makes of a row is a row, active only if it was or if that is asked for.
LEMMA AppliedRow ==
  ASSUME NEW row \in Row, NEW active \in BOOLEAN, NEW key \in Keys \cup {NoKey}
  PROVE  /\ Applied(row, active, key) \in Row
         /\ Active(Applied(row, active, key)) => Active(row) \/ active
BY DEF Applied, Row, Active

\* The clamp does not change a number that is none below zero.
LEMMA ClampedCount ==
  ASSUME NEW n \in Nat
  PROVE  Clamped(n) = n
BY DEF Clamped

\* The counters follow the set when one row changes.
LEMMA OneRowCounts ==
  ASSUME TypeOK, CountsOffByBlocks, NEW p \in Pairs, NEW new \in Row,
         follow' = [follow EXCEPT ![p] = new],
         following' = [following EXCEPT ![p[1]] = Clamped(@ + Delta(follow[p], new))],
         followers' = [followers EXCEPT ![p[2]] = Clamped(@ + Delta(follow[p], new))],
         UNCHANGED <<cut, lost>>
  PROVE  CountsOffByBlocks' /\ following' \in [Users -> Nat] /\ followers' \in [Users -> Nat]
<1> DEFINE d == Delta(follow[p], new)
           F == IF Active(new) THEN Followed(p[1]) \cup {p[2]} ELSE Followed(p[1]) \ {p[2]}
           B == IF Active(new) THEN FollowedBy(p[2]) \cup {p[1]} ELSE FollowedBy(p[2]) \ {p[1]}
<1>0. follow \in [Pairs -> Row] /\ p[1] \in Users /\ p[2] \in Users
  BY PairParts DEF TypeOK
<1>1. /\ \A u \in Users : u # p[1] => Followed(u)' = Followed(u)
      /\ \A u \in Users : u # p[2] => FollowedBy(u)' = FollowedBy(u)
      /\ Followed(p[1])' = F /\ FollowedBy(p[2])' = B
      /\ Active(follow[p]) <=> p[2] \in Followed(p[1])
      /\ Active(follow[p]) <=> p[1] \in FollowedBy(p[2])
  BY <1>0, OneRowChanges
<1>2. Cardinality(F) \in Nat /\ Cardinality(F) = Cardinality(Followed(p[1])) + d
  <2>1. IsFiniteSet(Followed(p[1]))
    BY <1>0, FollowsFinite
  <2>2. CASE Active(new)
    <3>1. F = Followed(p[1]) \cup {p[2]}
      BY <2>2
    <3> QED BY <1>1, <2>1, <2>2, <3>1, DeltaAdds
  <2>3. CASE ~Active(new)
    <3>1. F = Followed(p[1]) \ {p[2]}
      BY <2>3
    <3> QED BY <1>1, <2>1, <2>3, <3>1, DeltaRemoves
  <2> QED BY <2>2, <2>3
<1>3. Cardinality(B) \in Nat /\ Cardinality(B) = Cardinality(FollowedBy(p[2])) + d
  <2>1. IsFiniteSet(FollowedBy(p[2]))
    BY <1>0, FollowsFinite
  <2>2. CASE Active(new)
    <3>1. B = FollowedBy(p[2]) \cup {p[1]}
      BY <2>2
    <3> QED BY <1>1, <2>1, <2>2, <3>1, DeltaAdds
  <2>3. CASE ~Active(new)
    <3>1. B = FollowedBy(p[2]) \ {p[1]}
      BY <2>3
    <3> QED BY <1>1, <2>1, <2>3, <3>1, DeltaRemoves
  <2> QED BY <2>2, <2>3
<1>4. d \in Int
  BY DEF Delta
<1>5. \A u \in Users : /\ following[u] \in Nat /\ followers[u] \in Nat /\ cut[u] \in Nat /\ lost[u] \in Nat
                       /\ Cardinality(Followed(u)) \in Nat /\ Cardinality(FollowedBy(u)) \in Nat
                       /\ following[u] = Cardinality(Followed(u)) + cut[u]
                       /\ followers[u] = Cardinality(FollowedBy(u)) + lost[u]
  BY FollowsFinite DEF TypeOK, CountsOffByBlocks
<1> HIDE DEF d, F, B
<1>6. following[p[1]] + d = Cardinality(F) + cut[p[1]] /\ followers[p[2]] + d = Cardinality(B) + lost[p[2]]
  BY <1>0, <1>2, <1>3, <1>4, <1>5
<1>7. Cardinality(F) + cut[p[1]] \in Nat /\ Cardinality(B) + lost[p[2]] \in Nat
  BY <1>0, <1>2, <1>3, <1>5
<1>8. /\ Clamped(following[p[1]] + d) = Cardinality(F) + cut[p[1]]
      /\ Clamped(followers[p[2]] + d) = Cardinality(B) + lost[p[2]]
  BY <1>6, <1>7, ClampedCount
<1>9. /\ following' = [following EXCEPT ![p[1]] = Cardinality(F) + cut[p[1]]]
      /\ followers' = [followers EXCEPT ![p[2]] = Cardinality(B) + lost[p[2]]]
  BY <1>8 DEF d
<1>10. following \in [Users -> Nat] /\ followers \in [Users -> Nat]
  BY DEF TypeOK
<1>11. following' \in [Users -> Nat] /\ followers' \in [Users -> Nat]
  BY <1>7, <1>9, <1>10
<1>12. ASSUME NEW u \in Users
       PROVE  following'[u] = Cardinality(Followed(u)') + cut'[u]
  <2>1. CASE u = p[1]
    BY <1>0, <1>1, <1>9, <1>10, <2>1
  <2>2. CASE u # p[1]
    BY <1>1, <1>5, <1>9, <1>10, <2>2
  <2> QED BY <2>1, <2>2
<1>13. ASSUME NEW u \in Users
       PROVE  followers'[u] = Cardinality(FollowedBy(u)') + lost'[u]
  <2>1. CASE u = p[2]
    BY <1>0, <1>1, <1>9, <1>10, <2>1
  <2>2. CASE u # p[2]
    BY <1>1, <1>5, <1>9, <1>10, <2>2
  <2> QED BY <2>1, <2>2
<1> QED BY <1>11, <1>12, <1>13 DEF CountsOffByBlocks

\* A request writes its row, the counters and the event, and commits.
LEMMA InvSetFollow ==
  ASSUME RelationsInv, NEW c \in Clients, SetFollow(c)
  PROVE  RelationsInv'
<1>1. req[c] # Idle /\ Writing(c)
  BY DEF SetFollow, Writing, Idle
<1>2. /\ req[c].pair \in Pairs /\ req[c].active \in BOOLEAN /\ req[c].key \in Keys \cup {NoKey}
      /\ TypeOK /\ follow \in [Pairs -> Row]
  BY <1>1, RequestParts DEF RelationsInv, TypeOK
<1>3. PICK p \in Pairs : p = req[c].pair
  BY <1>2
<1>4. follow \in [Pairs -> Row] /\ follow[p] \in Row
  BY <1>2
<1>5. PICK new \in Row : /\ new = Applied(follow[p], req[c].active, req[c].key)
                         /\ Active(new) => Active(follow[p]) \/ req[c].active
  BY <1>2, <1>4, AppliedRow
<1>6. /\ follow' = [follow EXCEPT ![p] = new]
      /\ following' = [following EXCEPT ![p[1]] = Clamped(@ + Delta(follow[p], new))]
      /\ followers' = [followers EXCEPT ![p[2]] = Clamped(@ + Delta(follow[p], new))]
      /\ told' = [told EXCEPT ![p] =
                    IF new = follow[p] THEN @ ELSE IF Active(new) THEN "followed" ELSE "unfollowed"]
      /\ Unlock(c) /\ (Goto(c, "answer") \/ Return(c))
      /\ UNCHANGED <<normal, blocks, noticed, calls, measures, cut, lost, raced>>
  BY <1>3, <1>5 DEF SetFollow, Count, Tell
<1>7. CountsOffByBlocks' /\ following' \in [Users -> Nat] /\ followers' \in [Users -> Nat]
  BY <1>6, OneRowCounts DEF RelationsInv
<1>8. req' \in [Clients -> Request \cup {Idle}] /\ locks' \in [Users -> Clients \cup {NoClient}]
  BY <1>2, <1>6 DEF RelationsInv, TypeOK, Goto, Return, Unlock, Request
<1>9. told' \in [Pairs -> {"nothing", "followed", "unfollowed"}]
  BY <1>2, <1>6 DEF RelationsInv, TypeOK
<1>10. TypeOK'
  BY <1>4, <1>5, <1>6, <1>7, <1>8, <1>9 DEF RelationsInv, TypeOK
<1>11. BlocksEndFollows'
  <2>1. ASSUME NEW q \in Pairs, Active(follow'[q]), Blocked(q)
        PROVE  q \in raced
    <3>1. CASE Active(follow[q])
      BY <2>1, <3>1 DEF RelationsInv, BlocksEndFollows
    <3>2. CASE ~Active(follow[q])
      <4>1. q = p /\ req[c].active
        BY <1>4, <1>5, <1>6, <2>1, <3>2
      <4> QED BY <1>1, <1>3, <2>1, <4>1 DEF RelationsInv
    <3> QED BY <3>1, <3>2
  <2> QED BY <1>6, <2>1 DEF BlocksEndFollows, Blocked
<1>12. EventsTellRows'
  <2>1. ASSUME NEW q \in Pairs
        PROVE  /\ Active(follow'[q]) => told'[q] = "followed"
               /\ told'[q] = "followed" /\ ~Active(follow'[q]) => cut[q[1]] > 0
    <3>1. told \in [Pairs -> {"nothing", "followed", "unfollowed"}]
      BY DEF RelationsInv, TypeOK
    <3>2. /\ Active(follow[q]) => told[q] = "followed"
          /\ told[q] = "followed" /\ ~Active(follow[q]) => cut[q[1]] > 0
      BY DEF RelationsInv, EventsTellRows
    <3>3. CASE q = p /\ new # follow[p]
      BY <1>4, <1>6, <3>1, <3>3
    <3>4. CASE q # p \/ new = follow[p]
      BY <1>4, <1>6, <3>1, <3>2, <3>4
    <3> QED BY <3>3, <3>4
  <2> QED BY <1>6, <2>1 DEF EventsTellRows
<1>13. ASSUME NEW d \in Clients, (Writing(d) /\ req[d].active /\ Blocked(req[d].pair))'
       PROVE  (req[d].pair \in raced)'
  <2>1. d # c /\ req'[d] = req[d]
    BY <1>6, <1>13 DEF RelationsInv, TypeOK, Goto, Return, Writing, Idle
  <2> QED BY <1>6, <1>13, <2>1 DEF RelationsInv, Writing, Blocked
<1> QED BY <1>7, <1>10, <1>11, <1>12, <1>13 DEF RelationsInv
----------------------------------------------------------------------------
\* The rows as a block of p leaves them.
LEMMA BlockedRows ==
  ASSUME follow \in [Pairs -> Row], NEW p \in Pairs, NEW gone, gone = Ended(p),
         follow' = [q \in Pairs |->
                      IF q \in gone THEN [status |-> "canceled", key |-> follow[q].key] ELSE follow[q]]
  PROVE  /\ follow' \in [Pairs -> Row]
         /\ gone \subseteq Pairs
         /\ \A q \in gone : q \in {p, Back(p)} /\ Active(follow[q])
         /\ \A q \in Pairs : Active(follow'[q]) <=> Active(follow[q]) /\ q \notin gone
         /\ p \notin gone => ~Active(follow[p])
         /\ Back(p) \notin gone => ~Active(follow[Back(p)])
<1>1. p \in Pairs /\ Back(p) \in Pairs
  BY PairParts
<1>2. gone \subseteq Pairs /\ \A q \in gone : q \in {p, Back(p)} /\ Active(follow[q])
  BY DEF Ended
<1>3. \A q \in {p, Back(p)} : q \notin gone => ~Active(follow[q])
  BY <1>1 DEF Ended
<1>4. follow' \in [Pairs -> Row]
  BY DEF Row
<1>5. \A q \in Pairs : Active(follow'[q]) <=> Active(follow[q]) /\ q \notin gone
  BY DEF Active
<1> QED BY <1>1, <1>2, <1>3, <1>4, <1>5

\* A block takes from the followed of an account at most one, and then cut counts it.
LEMMA BlockCutsOne ==
  ASSUME follow \in [Pairs -> Row], NEW p \in Pairs, NEW u \in Users, NEW gone,
         \A q \in gone : q \in {p, Back(p)} /\ Active(follow[q]),
         \A q \in Pairs : Active(follow'[q]) <=> Active(follow[q]) /\ q \notin gone
  PROVE  /\ (\E q \in gone : q[1] = u) => Cardinality(Followed(u)') = Cardinality(Followed(u)) - 1
         /\ ~(\E q \in gone : q[1] = u) => Followed(u)' = Followed(u)
<1>1. \A t \in Users \ {u} : <<u, t>> \in Pairs /\ <<u, t>>[1] = u
  BY PairOf
<1>2. Followed(u)' = {t \in Users \ {u} : Active(follow[<<u, t>>]) /\ <<u, t>> \notin gone}
  BY <1>1 DEF Followed
<1>3. ASSUME NEW q \in gone, q[1] = u
      PROVE  Cardinality(Followed(u)') = Cardinality(Followed(u)) - 1
  <2>1. q \in Pairs /\ q \in {p, Back(p)} /\ Active(follow[q])
    BY PairParts
  <2>2. q = <<u, q[2]>> /\ q[2] \in Users \ {u}
    BY <1>3, <2>1, PairParts
  <2>3. \A t \in Users \ {u} : <<u, t>> \in gone <=> t = q[2]
    <3>1. p[1] # p[2] /\ Back(p)[1] = p[2] /\ Back(p)[2] = p[1]
      BY PairParts
    <3>2. ASSUME NEW t \in Users \ {u}, <<u, t>> \in gone
          PROVE  <<u, t>> = q
      BY <1>3, <2>1, <3>1, <3>2
    <3> QED BY <2>2, <3>2
  <2>4. Followed(u)' = Followed(u) \ {q[2]}
    BY <1>2, <2>3 DEF Followed
  <2>5. q[2] \in Followed(u)
    BY <2>1, <2>2 DEF Followed
  <2>6. IsFiniteSet(Followed(u))
    BY FollowsFinite
  <2>7. Cardinality(Followed(u) \ {q[2]}) = Cardinality(Followed(u)) - 1
    BY <2>5, <2>6, OneLess
  <2> QED BY <2>4, <2>7
<1>4. ASSUME ~(\E q \in gone : q[1] = u)
      PROVE  Followed(u)' = Followed(u)
  BY <1>1, <1>2, <1>4 DEF Followed
<1> QED BY <1>3, <1>4

\* A block takes from the followers of an account at most one, and then lost counts it.
LEMMA BlockLosesOne ==
  ASSUME follow \in [Pairs -> Row], NEW p \in Pairs, NEW u \in Users, NEW gone,
         \A q \in gone : q \in {p, Back(p)} /\ Active(follow[q]),
         \A q \in Pairs : Active(follow'[q]) <=> Active(follow[q]) /\ q \notin gone
  PROVE  /\ (\E q \in gone : q[2] = u) => Cardinality(FollowedBy(u)') = Cardinality(FollowedBy(u)) - 1
         /\ ~(\E q \in gone : q[2] = u) => FollowedBy(u)' = FollowedBy(u)
<1>1. \A t \in Users \ {u} : <<t, u>> \in Pairs /\ <<t, u>>[2] = u
  BY PairOf
<1>2. FollowedBy(u)' = {t \in Users \ {u} : Active(follow[<<t, u>>]) /\ <<t, u>> \notin gone}
  BY <1>1 DEF FollowedBy
<1>3. ASSUME NEW q \in gone, q[2] = u
      PROVE  Cardinality(FollowedBy(u)') = Cardinality(FollowedBy(u)) - 1
  <2>1. q \in Pairs /\ q \in {p, Back(p)} /\ Active(follow[q])
    BY PairParts
  <2>2. q = <<q[1], u>> /\ q[1] \in Users \ {u}
    BY <1>3, <2>1, PairParts
  <2>3. \A t \in Users \ {u} : <<t, u>> \in gone <=> t = q[1]
    <3>1. p[1] # p[2] /\ Back(p)[1] = p[2] /\ Back(p)[2] = p[1]
      BY PairParts
    <3>2. ASSUME NEW t \in Users \ {u}, <<t, u>> \in gone
          PROVE  <<t, u>> = q
      BY <1>3, <2>1, <3>1, <3>2
    <3> QED BY <2>2, <3>2
  <2>4. FollowedBy(u)' = FollowedBy(u) \ {q[1]}
    BY <1>2, <2>3 DEF FollowedBy
  <2>5. q[1] \in FollowedBy(u)
    BY <2>1, <2>2 DEF FollowedBy
  <2>6. IsFiniteSet(FollowedBy(u))
    BY FollowsFinite
  <2>7. Cardinality(FollowedBy(u) \ {q[1]}) = Cardinality(FollowedBy(u)) - 1
    BY <2>5, <2>6, OneLess
  <2> QED BY <2>4, <2>7
<1>4. ASSUME ~(\E q \in gone : q[2] = u)
      PROVE  FollowedBy(u)' = FollowedBy(u)
  BY <1>1, <1>2, <1>4 DEF FollowedBy
<1> QED BY <1>3, <1>4

\* A block ends the follows of both directions and leaves the counters.
LEMMA InvBlock ==
  ASSUME RelationsInv, NEW p \in Pairs, Block(p)
  PROVE  RelationsInv'
<1>1. PICK gone : gone = Ended(p)
  OBVIOUS
<1>2. /\ measures' = measures + 1 /\ blocks' = blocks \cup {p}
      /\ follow' = [q \in Pairs |->
           IF q \in gone THEN [status |-> "canceled", key |-> follow[q].key] ELSE follow[q]]
      /\ cut' = [u \in Users |-> IF \E q \in gone : q[1] = u THEN cut[u] + 1 ELSE cut[u]]
      /\ lost' = [u \in Users |-> IF \E q \in gone : q[2] = u THEN lost[u] + 1 ELSE lost[u]]
      /\ raced' = raced \cup {q \in {p, Back(p)} :
                    \E c \in Clients : Writing(c) /\ req[c].pair = q /\ req[c].active}
      /\ UNCHANGED <<normal, following, followers, told, locks, req, noticed, calls>>
  BY <1>1 DEF Block
<1>3. follow \in [Pairs -> Row]
  BY DEF RelationsInv, TypeOK
<1>4. /\ follow' \in [Pairs -> Row]
      /\ gone \subseteq Pairs
      /\ \A q \in gone : q \in {p, Back(p)} /\ Active(follow[q])
      /\ \A q \in Pairs : Active(follow'[q]) <=> Active(follow[q]) /\ q \notin gone
      /\ p \notin gone => ~Active(follow[p])
      /\ Back(p) \notin gone => ~Active(follow[Back(p)])
  BY <1>1, <1>2, <1>3, BlockedRows
<1>5. Back(p) \in Pairs /\ Back(Back(p)) = p
  BY PairParts DEF Back
<1>6. cut' \in [Users -> Nat] /\ lost' \in [Users -> Nat]
  BY <1>2 DEF RelationsInv, TypeOK
<1>7. TypeOK'
  BY <1>2, <1>4, <1>5, <1>6 DEF RelationsInv, TypeOK
<1>8. CountsOffByBlocks'
  <2>1. ASSUME NEW u \in Users
        PROVE  /\ following'[u] = Cardinality(Followed(u)') + cut'[u]
               /\ followers'[u] = Cardinality(FollowedBy(u)') + lost'[u]
    <3>1. /\ cut[u] \in Nat /\ lost[u] \in Nat
          /\ Cardinality(Followed(u)) \in Nat /\ Cardinality(FollowedBy(u)) \in Nat
          /\ following[u] = Cardinality(Followed(u)) + cut[u]
          /\ followers[u] = Cardinality(FollowedBy(u)) + lost[u]
      BY FollowsFinite DEF RelationsInv, TypeOK, CountsOffByBlocks
    <3>2. /\ (\E q \in gone : q[1] = u) => Cardinality(Followed(u)') = Cardinality(Followed(u)) - 1
          /\ ~(\E q \in gone : q[1] = u) => Followed(u)' = Followed(u)
      BY <1>3, <1>4, BlockCutsOne
    <3>3. /\ (\E q \in gone : q[2] = u) => Cardinality(FollowedBy(u)') = Cardinality(FollowedBy(u)) - 1
          /\ ~(\E q \in gone : q[2] = u) => FollowedBy(u)' = FollowedBy(u)
      BY <1>3, <1>4, BlockLosesOne
    <3>4. following'[u] = following[u] /\ followers'[u] = followers[u]
      BY <1>2
    <3>5. following'[u] = Cardinality(Followed(u)') + cut'[u]
      BY <1>2, <3>1, <3>2, <3>4
    <3>6. followers'[u] = Cardinality(FollowedBy(u)') + lost'[u]
      BY <1>2, <3>1, <3>3, <3>4
    <3> QED BY <3>5, <3>6
  <2> QED BY <2>1 DEF CountsOffByBlocks
<1>9. BlocksEndFollows'
  <2>1. ASSUME NEW q \in Pairs, Active(follow'[q]), Blocked(q)'
        PROVE  q \in raced'
    <3>1. Active(follow[q]) /\ q \notin gone
      BY <1>4, <2>1
    <3>2. q # p /\ q # Back(p)
      BY <1>4, <3>1
    <3>3. Back(q) # p
      BY <1>5, <2>1, <3>2, PairParts DEF Back, Pairs
    <3>4. Blocked(q)
      BY <1>2, <2>1, <3>2, <3>3 DEF Blocked
    <3> QED BY <1>2, <3>1, <3>4 DEF RelationsInv, BlocksEndFollows
  <2> QED BY <2>1 DEF BlocksEndFollows
<1>10. EventsTellRows'
  <2>1. ASSUME NEW q \in Pairs
        PROVE  /\ Active(follow'[q]) => told'[q] = "followed"
               /\ told'[q] = "followed" /\ ~Active(follow'[q]) => cut'[q[1]] > 0
    <3>1. /\ Active(follow[q]) => told[q] = "followed"
          /\ told[q] = "followed" /\ ~Active(follow[q]) => cut[q[1]] > 0
      BY DEF RelationsInv, EventsTellRows
    <3>2. q[1] \in Users /\ cut[q[1]] \in Nat
      BY PairParts DEF RelationsInv, TypeOK
    <3>3. cut'[q[1]] = IF \E r \in gone : r[1] = q[1] THEN cut[q[1]] + 1 ELSE cut[q[1]]
      BY <1>2, <3>2
    <3>4. CASE q \in gone
      <4>1. cut'[q[1]] = cut[q[1]] + 1
        BY <3>3, <3>4
      <4> QED BY <1>4, <3>2, <3>4, <4>1
    <3>5. CASE q \notin gone
      <4>1. cut[q[1]] > 0 => cut'[q[1]] > 0
        BY <3>2, <3>3
      <4> QED BY <1>2, <1>4, <3>1, <3>5, <4>1
    <3> QED BY <3>4, <3>5
  <2> QED BY <2>1 DEF EventsTellRows
<1>11. ASSUME NEW d \in Clients, (Writing(d) /\ req[d].active /\ Blocked(req[d].pair))'
       PROVE  (req[d].pair \in raced)'
  <2>1. Writing(d) /\ req[d].active /\ req'[d] = req[d]
    BY <1>2, <1>11 DEF Writing
  <2>2. PICK q \in Pairs : q = req[d].pair
    <3>1. req[d] # Idle
      BY <2>1 DEF Writing, Idle
    <3> QED BY <3>1, RequestParts DEF RelationsInv
  <2>3. CASE q \in {p, Back(p)}
    BY <1>2, <2>1, <2>2, <2>3
  <2>4. CASE q \notin {p, Back(p)}
    <3>1. Back(q) # p
      BY <2>4, PairParts DEF Back, Pairs
    <3>2. Blocked(q)
      BY <1>2, <1>11, <2>1, <2>2, <2>4, <3>1 DEF Blocked
    <3> QED BY <1>2, <2>1, <2>2, <3>2 DEF RelationsInv
  <2> QED BY <2>3, <2>4
<1> QED BY <1>7, <1>8, <1>9, <1>10, <1>11 DEF RelationsInv

\* Lifting a block leaves the follows and the counters.
LEMMA InvUnblock ==
  ASSUME RelationsInv, NEW p \in Pairs, Unblock(p)
  PROVE  RelationsInv'
<1>1. /\ blocks' \subseteq blocks
      /\ UNCHANGED <<normal, follow, following, followers, told, locks, req, noticed, calls, measures, cut, lost, raced>>
  BY DEF Unblock, rows
<1>2. TypeOK'
  BY <1>1 DEF RelationsInv, TypeOK
<1>3. CountsOffByBlocks'
  BY <1>1 DEF RelationsInv, CountsOffByBlocks, Followed, FollowedBy
<1>4. BlocksEndFollows' /\ EventsTellRows'
  BY <1>1 DEF RelationsInv, BlocksEndFollows, EventsTellRows, Blocked
<1>5. ASSUME NEW d \in Clients, (Writing(d) /\ req[d].active /\ Blocked(req[d].pair))'
      PROVE  (req[d].pair \in raced)'
  BY <1>1, <1>5 DEF RelationsInv, Writing, Blocked
<1> QED BY <1>2, <1>3, <1>4, <1>5 DEF RelationsInv

\* A ban leaves the follows, and so does a step that changes nothing.
LEMMA InvRest ==
  ASSUME RelationsInv, (\E u \in Users : SetUserBanned(u)) \/ UNCHANGED vars
  PROVE  RelationsInv'
<1>1. UNCHANGED <<rows, blocks, locks, req, noticed, calls, cut, lost, raced>>
  BY DEF SetUserBanned, vars, rows
<1>2. normal' \in [Users -> BOOLEAN] /\ measures' \in Nat
  <2>1. normal \in [Users -> BOOLEAN] /\ measures \in Nat
    BY DEF RelationsInv, TypeOK
  <2>2. ASSUME NEW u \in Users, SetUserBanned(u)
        PROVE  normal' \in [Users -> BOOLEAN] /\ measures' \in Nat
    <3>1. normal' = [normal EXCEPT ![u] = ~normal[u]]
      BY <2>2 DEF SetUserBanned
    <3>2. measures' = measures \/ measures' = measures + 1
      BY <2>2 DEF SetUserBanned
    <3> QED BY <2>1, <3>1, <3>2
  <2> QED BY <2>1, <2>2 DEF vars
<1>3. TypeOK'
  BY <1>1, <1>2 DEF RelationsInv, TypeOK, rows
<1>4. \A c \in Clients : \/ ~Writing(c)'
                         \/ Writing(c) /\ req'[c].pair = req[c].pair /\ req'[c].active = req[c].active
  BY <1>1 DEF Writing
<1> QED BY <1>1, <1>3, <1>4, QuietStep

\* Every step keeps the invariant.
LEMMA InvStep == RelationsInv /\ [Next]_vars => RelationsInv'
<1> SUFFICES ASSUME RelationsInv, [Next]_vars PROVE RelationsInv'
  OBVIOUS
<1>1. ASSUME NEW c \in Clients, RequestStep(c) \/ Abort(c) PROVE RelationsInv'
  BY <1>1, InvLock, InvEnd, InvSetFollow DEF RequestStep
<1>2. ASSUME NEW c \in Clients, NEW p \in Pairs, NEW active \in BOOLEAN, NEW key \in Keys \cup {NoKey},
             Call(c, p, active, key)
      PROVE  RelationsInv'
  BY <1>2, InvCall
<1>3. ASSUME NEW p \in Pairs, Block(p) \/ Unblock(p) PROVE RelationsInv'
  BY <1>3, InvBlock, InvUnblock
<1> QED BY <1>1, <1>2, <1>3, InvRest DEF Next
----------------------------------------------------------------------------
(* Theorems.                                                               *)

\* The inductive invariant holds for any number of accounts and of concurrent requests.
THEOREM RelationsHold == Spec => []RelationsInv
<1> QED BY InvInit, InvStep, PTL DEF Spec

\* updateStat and SetBlock: the counters are off by exactly the follows that blocks have ended.
THEOREM CountsHold == Spec => []CountsOffByBlocks
<1>1. RelationsInv => CountsOffByBlocks
  BY DEF RelationsInv
<1> QED BY RelationsHold, <1>1, PTL

\* setFollow and SetBlock: a follow that stands across a block had passed the check before it.
THEOREM BlocksHold == Spec => []BlocksEndFollows
<1>1. RelationsInv => BlocksEndFollows
  BY DEF RelationsInv
<1> QED BY RelationsHold, <1>1, PTL

\* Repository.SetFollow: the last event of a row tells its state, but for what a block has ended.
THEOREM EventsHold == Spec => []EventsTellRows
<1>1. RelationsInv => EventsTellRows
  BY DEF RelationsInv
<1> QED BY RelationsHold, <1>1, PTL
============================================================================
