--------------------------- MODULE ReactionsProofs ---------------------------
(***************************************************************************)
(* Proofs about Reactions, for any number of accounts, shards, keys and    *)
(* concurrent requests: like_count is the number of active rows, whatever  *)
(* the events that are applied twice, late, out of order or never; a user  *)
(* whose events were neither lost nor overtaken is shown what MySQL will   *)
(* hold; and the live count is the number of the states that are shown.    *)
(***************************************************************************)
EXTENDS Reactions, FiniteSetTheorems, SequenceTheorems, WellFoundedInduction, TLAPS

----------------------------------------------------------------------------
(* Lemmas about numbers, finite sets and what is computed over them.       *)

\* A set of numbers has a least member.
LEMMA LeastMember ==
  ASSUME NEW S \in SUBSET Nat, S # {}
  PROVE  \E x \in S : \A y \in S : x <= y
<1>1. PICK x \in S : \A y \in S : <<y, x>> \notin OpToRel(<, Nat)
  BY NatLessThanWellFounded, WFMin
<1>2. \A y \in S : ~(y < x)
  BY <1>1 DEF OpToRel
<1> QED BY <1>2

\* Of a set of subsets of a finite set, one has the fewest members.
LEMMA SmallestSubset ==
  ASSUME NEW D, IsFiniteSet(D), NEW B \in SUBSET SUBSET D, B # {}
  PROVE  \E s \in B : /\ IsFiniteSet(s)
                      /\ \A x \in s : s \ {x} \notin B
<1> DEFINE counts == {Cardinality(s) : s \in B}
<1>1. \A s \in B : IsFiniteSet(s) /\ Cardinality(s) \in Nat
  BY FS_Subset, FS_CardinalityType
<1>2. counts \in SUBSET Nat /\ counts # {}
  BY <1>1
<1>3. PICK n \in counts : \A m \in counts : n <= m
  BY <1>2, LeastMember
<1>4. PICK s \in B : n = Cardinality(s)
  OBVIOUS
<1>5. ASSUME NEW x \in s, s \ {x} \in B PROVE FALSE
  <2>1. Cardinality(s \ {x}) = Cardinality(s) - 1
    BY <1>1, FS_RemoveElement
  <2>2. n <= Cardinality(s \ {x})
    BY <1>3, <1>5
  <2> QED BY <1>1, <1>4, <2>1, <2>2
<1> QED BY <1>1, <1>5

\* Max is the greatest of some indices.
LEMMA GreatestIndex ==
  ASSUME NEW n \in Nat, NEW S \in SUBSET (1 .. n), S # {}
  PROVE  Max(S) \in S /\ \A y \in S : y <= Max(S)
<1>1. \A y \in S : y \in 1 .. n
  OBVIOUS
<1>2. \A y \in S : y \in Nat /\ n - y \in Nat
  BY <1>1
<1> DEFINE T == {n - y : y \in S}
<1>3. T \in SUBSET Nat /\ T # {}
  BY <1>2
<1>4. PICK t \in T : \A u \in T : t <= u
  BY <1>3, LeastMember
<1>5. PICK x \in S : t = n - x
  OBVIOUS
<1>6. \A y \in S : x >= y
  <2>1. \A y \in S : n - x <= n - y
    BY <1>4, <1>5
  <2> QED BY <1>2, <2>1
<1>7. Max(S) \in S /\ \A y \in S : Max(S) >= y
  BY <1>6 DEF Max
<1> QED BY <1>2, <1>7

\* Min is the least of some indices.
LEMMA LeastIndex ==
  ASSUME NEW n \in Nat, NEW S \in SUBSET (1 .. n), S # {}
  PROVE  Min(S) \in S /\ \A y \in S : Min(S) <= y
<1>1. S \in SUBSET Nat
  OBVIOUS
<1>2. PICK x \in S : \A y \in S : x <= y
  BY <1>1, LeastMember
<1> QED BY <1>2 DEF Min

\* The index taken next.
Pick(s) == CHOOSE x \in s : TRUE

\* g sums up f over each set of indices, one index after the other.
Sums(g, D, f) == g = [s \in SUBSET D |-> IF s = {} THEN 0 ELSE f[Pick(s)] + g[s \ {Pick(s)}]]

\* There are such sums: those of n + 1 indices follow from those of n.
LEMMA SumsExist ==
  ASSUME NEW D, IsFiniteSet(D), NEW f \in [D -> Int]
  PROVE  \E g : Sums(g, D, f)
<1> DEFINE Level(n) == {s \in SUBSET D : Cardinality(s) <= n}
           Good(n)  == \E g : \A s \in Level(n) :
                         g[s] = IF s = {} THEN 0 ELSE f[Pick(s)] + g[s \ {Pick(s)}]
           bad      == {n \in Nat : ~Good(n)}
<1>1. \A s \in SUBSET D : IsFiniteSet(s) /\ Cardinality(s) \in Nat
  BY FS_Subset, FS_CardinalityType
<1>2. \A s \in SUBSET D : s # {} => Pick(s) \in s /\ Cardinality(s \ {Pick(s)}) = Cardinality(s) - 1
  <2> SUFFICES ASSUME NEW s \in SUBSET D, s # {}
               PROVE  Pick(s) \in s /\ Cardinality(s \ {Pick(s)}) = Cardinality(s) - 1
    OBVIOUS
  <2>1. Pick(s) \in s
    BY DEF Pick
  <2> QED BY <1>1, <2>1, FS_RemoveElement
<1>3. \A s \in SUBSET D : Cardinality(s) = 0 => s = {}
  BY <1>1, FS_EmptySet
<1>4. ASSUME bad # {} PROVE FALSE
  <2>1. PICK n \in bad : \A m \in bad : n <= m
    BY <1>4, LeastMember
  <2>2. CASE n = 0
    <3> DEFINE g == [s \in SUBSET D |-> 0]
    <3>1. \A s \in Level(0) : s = {} /\ g[s] = 0
      BY <1>1, <1>3
    <3>2. Good(0)
      BY <3>1
    <3> QED BY <2>1, <2>2, <3>2
  <2>3. CASE n # 0
    <3>1. n - 1 \in Nat /\ Good(n - 1)
      <4>1. n \in Nat /\ n - 1 \in Nat /\ n - 1 < n
        BY <2>1, <2>3
      <4>2. n - 1 \notin bad
        <5> HIDE DEF bad
        <5> QED BY <2>1, <4>1
      <4> HIDE DEF Good
      <4> QED BY <4>1, <4>2
    <3>2. PICK g : \A s \in Level(n - 1) :
                     g[s] = IF s = {} THEN 0 ELSE f[Pick(s)] + g[s \ {Pick(s)}]
      BY <3>1
    <3> DEFINE h == [s \in SUBSET D |-> IF s = {} THEN 0 ELSE f[Pick(s)] + g[s \ {Pick(s)}]]
    <3>3. \A s \in Level(n - 1) : h[s] = g[s]
      BY <3>2
    <3>4. \A s \in Level(n) : s # {} => s \ {Pick(s)} \in Level(n - 1)
      BY <1>1, <1>2, <3>1
    <3>5. \A s \in Level(n) : h[s] = IF s = {} THEN 0 ELSE f[Pick(s)] + h[s \ {Pick(s)}]
      BY <3>3, <3>4
    <3>6. Good(n)
      BY <3>5
    <3> QED BY <2>1, <3>6
  <2> QED BY <2>2, <2>3
<1>5. Cardinality(D) \in Nat /\ \A s \in SUBSET D : Cardinality(s) <= Cardinality(D)
  BY FS_Subset, FS_CardinalityType
<1>6. Good(Cardinality(D))
  BY <1>4, <1>5
<1>7. PICK g : \A s \in Level(Cardinality(D)) :
                 g[s] = IF s = {} THEN 0 ELSE f[Pick(s)] + g[s \ {Pick(s)}]
  BY <1>6
<1>8. \A s \in SUBSET D : s \in Level(Cardinality(D)) /\ (s # {} => s \ {Pick(s)} \in SUBSET D)
  BY <1>5
<1> DEFINE h == [s \in SUBSET D |-> g[s]]
<1>9. h = [s \in SUBSET D |-> IF s = {} THEN 0 ELSE f[Pick(s)] + h[s \ {Pick(s)}]]
  <2>1. \A s \in SUBSET D : g[s] = IF s = {} THEN 0 ELSE f[Pick(s)] + h[s \ {Pick(s)}]
    BY <1>7, <1>8
  <2> QED BY <2>1
<1>10. Sums(h, D, f)
  BY <1>9 DEF Sums
<1> QED BY <1>10

\* The sums, a set without the index picked from it and the set, and they are numbers.
SumsUp(g, D, f) ==
  /\ g[{}] = 0
  /\ \A s \in SUBSET D : s # {} => /\ Pick(s) \in s /\ f[Pick(s)] \in Int
                                    /\ g[s] = f[Pick(s)] + g[s \ {Pick(s)}]
  /\ \A s \in SUBSET D : g[s] \in Int

\* SumFunction is one of them.
LEMMA SumOfFunction ==
  ASSUME NEW D, IsFiniteSet(D), NEW f \in [D -> Int]
  PROVE  \E g : SumFunction(f) = g[D] /\ SumsUp(g, D, f)
<1> DEFINE g == CHOOSE h : Sums(h, D, f)
<1>1. Sums(g, D, f)
  BY SumsExist
<1>2. DOMAIN f = D
  OBVIOUS
<1>3. SumFunction(f) = (CHOOSE h : h = [s \in SUBSET D |-> IF s = {} THEN 0 ELSE f[CHOOSE x \in s : TRUE] + h[s \ {CHOOSE x \in s : TRUE}]])[D]
  BY <1>2, Zenon DEF SumFunction, SumFunctionOnSet, FoldFunctionOnSet, MapThenFoldSet
<1>4. SumFunction(f) = g[D]
  BY <1>3, Zenon DEF Sums, Pick
<1> HIDE DEF g
<1>5. \A s \in SUBSET D : g[s] = IF s = {} THEN 0 ELSE f[Pick(s)] + g[s \ {Pick(s)}]
  BY <1>1, Zenon DEF Sums
<1>6. \A s \in SUBSET D : s # {} => Pick(s) \in s /\ f[Pick(s)] \in Int
  BY DEF Pick
<1> DEFINE bad == {s \in SUBSET D : g[s] \notin Int}
<1>7. ASSUME bad # {} PROVE FALSE
  <2>1. PICK s \in bad : \A x \in s : s \ {x} \notin bad
    BY <1>7, SmallestSubset
  <2>2. s # {}
    <3>1. g[{}] = 0
      BY <1>5
    <3>2. g[s] \notin Int
      BY <2>1
    <3> QED BY <3>1, <3>2
  <2>3. g[s \ {Pick(s)}] \in Int
    BY <1>6, <2>1, <2>2
  <2> QED BY <1>5, <1>6, <2>1, <2>2, <2>3
<1>8. SumsUp(g, D, f)
  BY <1>5, <1>6, <1>7 DEF SumsUp
<1> QED BY <1>4, <1>8

\* One value changes by as much as the sum.
LEMMA SumChanges ==
  ASSUME NEW D, IsFiniteSet(D), NEW f \in [D -> Int], NEW k \in D, NEW d \in Int,
         NEW e, e = [f EXCEPT ![k] = @ + d]
  PROVE  /\ SumFunction(f) \in Int
         /\ SumFunction(e) = SumFunction(f) + d
<1>1. e \in [D -> Int] /\ e[k] = f[k] + d /\ \A x \in D : x # k => e[x] = f[x]
  OBVIOUS
<1>2. PICK g : SumFunction(f) = g[D] /\ SumsUp(g, D, f)
  BY SumOfFunction, Zenon
<1>3. PICK h : SumFunction(e) = h[D] /\ SumsUp(h, D, e)
  BY <1>1, SumOfFunction, Zenon
<1> DEFINE bad == {s \in SUBSET D : h[s] # g[s] + IF k \in s THEN d ELSE 0}
<1>4. ASSUME bad # {} PROVE FALSE
  <2>1. PICK s \in bad : \A x \in s : s \ {x} \notin bad
    BY <1>4, SmallestSubset
  <2>2. s # {} /\ s \in SUBSET D
    <3>1. g[{}] = 0 /\ h[{}] = 0
      BY <1>2, <1>3 DEF SumsUp
    <3>2. s \in SUBSET D /\ h[s] # g[s] + IF k \in s THEN d ELSE 0
      BY <2>1
    <3> QED BY <3>1, <3>2
  <2> DEFINE x == Pick(s)
             t == s \ {x}
  <2>3. x \in s /\ t \in SUBSET D /\ f[x] \in Int /\ g[s] = f[x] + g[t] /\ h[s] = e[x] + h[t]
    BY <1>2, <1>3, <2>2 DEF SumsUp
  <2>4. h[t] = g[t] + IF k \in t THEN d ELSE 0
    BY <2>1, <2>3
  <2>5. g[t] \in Int /\ x \in D /\ t = s \ {x}
    BY <1>2, <2>3 DEF SumsUp
  <2>6. h[s] # g[s] + IF k \in s THEN d ELSE 0
    BY <2>1
  <2> HIDE DEF x, t
  <2>7. CASE x = k
    BY <1>1, <2>3, <2>4, <2>5, <2>6, <2>7
  <2>8. CASE x # k
    BY <1>1, <2>3, <2>4, <2>5, <2>6, <2>8
  <2> QED BY <2>7, <2>8
<1>5. D \in SUBSET D /\ h[D] = g[D] + d
  BY <1>4
<1> QED BY <1>2, <1>3, <1>5 DEF SumsUp

\* A function that is zero everywhere sums up to zero.
LEMMA SumOfZeros ==
  ASSUME NEW D, IsFiniteSet(D), NEW f \in [D -> Int], \A x \in D : f[x] = 0
  PROVE  SumFunction(f) = 0
<1>1. PICK g : SumFunction(f) = g[D] /\ SumsUp(g, D, f)
  BY SumOfFunction, Zenon
<1> DEFINE bad == {s \in SUBSET D : g[s] # 0}
<1>2. ASSUME bad # {} PROVE FALSE
  <2>1. PICK s \in bad : \A x \in s : s \ {x} \notin bad
    BY <1>2, SmallestSubset
  <2>2. s # {} /\ s \in SUBSET D
    <3>1. g[{}] = 0
      BY <1>1 DEF SumsUp
    <3>2. s \in SUBSET D /\ g[s] # 0
      BY <2>1
    <3> QED BY <3>1, <3>2
  <2>3. Pick(s) \in s /\ s \ {Pick(s)} \in SUBSET D /\ f[Pick(s)] = 0
    BY <1>1, <2>2 DEF SumsUp
  <2>4. g[s \ {Pick(s)}] = 0
    BY <2>1, <2>3
  <2>5. g[s] = f[Pick(s)] + g[s \ {Pick(s)}]
    BY <1>1, <2>2 DEF SumsUp
  <2> QED BY <2>1, <2>3, <2>4, <2>5
<1> QED BY <1>1, <1>2 DEF SumsUp
----------------------------------------------------------------------------
(* Lemmas about rows and about the set that is counted.                    *)

\* What a request makes of a state is a state.
LEMMA AppliedState ==
  ASSUME NEW state \in State, NEW active \in BOOLEAN, NEW key \in Keys \cup {NoKey}
  PROVE  Applied(state, active, key) \in State
BY DEF Applied, State

\* The users whose row is active are finitely many.
LEMMA ReactingFinite == IsFiniteSet(Reacting) /\ Cardinality(Reacting) \in Nat
<1>1. Reacting \in SUBSET Users
  BY DEF Reacting
<1>2. IsFiniteSet(Reacting)
  BY <1>1, FS_Subset, ConstantsAssumption
<1> QED BY <1>2, FS_CardinalityType

\* The clamp does not change a number that is none below zero.
LEMMA ClampedCount ==
  ASSUME NEW n \in Nat
  PROVE  Clamped(n) = n
BY DEF Clamped

\* One row's change and the counter's: the clamp never hides a decrement.
LEMMA StoreCounts ==
  ASSUME rows \in [Users -> State], likes \in Nat, CountIsExact,
         NEW u \in Users, NEW active \in BOOLEAN, NEW key \in Keys \cup {NoKey},
         Store(u, active, key)
  PROVE  rows' \in [Users -> State] /\ likes' \in Nat /\ CountIsExact'
<1>1. PICK new \in State : new = Applied(rows[u], active, key)
  BY AppliedState
<1>2. rows' = [rows EXCEPT ![u] = new] /\ likes' = Clamped(likes + Delta(rows[u], new))
  BY <1>1 DEF Store
<1>3. rows' \in [Users -> State] /\ rows'[u] = new /\ \A v \in Users : v # u => rows'[v] = rows[v]
  BY <1>2
<1>4. Active(rows[u]) <=> u \in Reacting
  BY DEF Reacting
<1>5. likes = Cardinality(Reacting) /\ IsFiniteSet(Reacting) /\ Cardinality(Reacting) \in Nat
  BY ReactingFinite DEF CountIsExact
<1>6. CASE Active(new) /\ ~Active(rows[u])
  <2>1. Reacting' = Reacting \cup {u}
    BY <1>3, <1>6 DEF Reacting
  <2>2. Cardinality(Reacting') = likes + 1
    BY <1>4, <1>5, <1>6, <2>1, FS_AddElement
  <2>3. Delta(rows[u], new) = 1
    BY <1>6 DEF Delta, Active
  <2>4. likes' = likes + 1
    BY <1>2, <2>3, ClampedCount
  <2> QED BY <1>3, <2>2, <2>4 DEF CountIsExact
<1>7. CASE ~Active(new) /\ Active(rows[u])
  <2>1. Reacting' = Reacting \ {u}
    BY <1>3, <1>7 DEF Reacting
  <2>2. IsFiniteSet(Reacting \ {u}) /\ Cardinality(Reacting \ {u}) = likes - 1
    BY <1>4, <1>5, <1>7, FS_RemoveElement
  <2>3. likes - 1 \in Nat
    BY <2>2, FS_CardinalityType
  <2>4. Delta(rows[u], new) = -1
    BY <1>7 DEF Delta, Active
  <2>5. likes' = likes - 1
    BY <1>2, <2>3, <2>4, ClampedCount
  <2> QED BY <1>3, <2>1, <2>2, <2>3, <2>5 DEF CountIsExact
<1>8. CASE Active(new) <=> Active(rows[u])
  <2>1. Reacting' = Reacting
    BY <1>3, <1>8 DEF Reacting
  <2>2. Delta(rows[u], new) = 0
    BY <1>8 DEF Delta, Active
  <2>3. likes' = likes
    BY <1>2, <2>2, ClampedCount
  <2> QED BY <1>3, <1>5, <2>1, <2>3 DEF CountIsExact
<1> QED BY <1>6, <1>7, <1>8
----------------------------------------------------------------------------
(* The inductive invariant.                                                *)

\* It holds before the first request.
LEMMA CountInit == Init => CountInv
<1> SUFFICES ASSUME Init PROVE CountInv
  OBVIOUS
<1>1. Reacting = {}
  BY DEF Init, Reacting, Active, Absent
<1>2. CountIsExact
  BY <1>1, FS_EmptySet DEF Init, CountIsExact
<1>3. rows \in [Users -> State] /\ likes \in Nat /\ topic \in Seq(Event)
  BY DEF Init, State, Absent
<1>4. call \in [Callers -> Call] /\ \A c \in Callers : call[c].step = "idle"
  BY DEF Init, Idle, Call
<1> QED BY <1>2, <1>3, <1>4 DEF CountInv

\* The event of a request that is under way.
LEMMA EventOfCall ==
  ASSUME CountInv, NEW c \in Callers, call[c].step # "idle"
  PROVE  /\ EventOf(c) \in Event
         /\ call[c].user \in Users /\ call[c].active \in BOOLEAN /\ call[c].key \in Keys \cup {NoKey}
BY DEF CountInv, EventOf, Event, Call

\* A step of a request: the rows stay or Store changes them.
LEMMA RequestKeeps ==
  ASSUME CountInv, NEW c \in Callers, RequestStep(c)
  PROVE  CountInv'
<1>0. /\ rows \in [Users -> State] /\ likes \in Nat /\ topic \in Seq(Event)
      /\ call \in [Callers -> Call] /\ CountIsExact
      /\ \A d \in Callers : call[d].step # "idle" => call[d].user \in Users
  BY DEF CountInv
<1>1. ASSUME NEW d \in Call, d.step # "idle" => d.user \in Users, call' = [call EXCEPT ![c] = d]
      PROVE  /\ call' \in [Callers -> Call]
             /\ \A e \in Callers : call'[e].step # "idle" => call'[e].user \in Users
  BY <1>0, <1>1
<1>2. Return(c) => /\ call' \in [Callers -> Call]
                   /\ \A e \in Callers : call'[e].step # "idle" => call'[e].user \in Users
  <2>1. Idle \in Call /\ Idle.step = "idle"
    BY DEF Idle, Call
  <2> QED BY <1>1, <2>1 DEF Return
<1>3. ASSUME NEW step \in {"publish", "sync", "score"}, NEW delta \in {-1, 0, 1}, call[c].step # "idle",
             Goto(c, step, delta)
      PROVE  /\ call' \in [Callers -> Call]
             /\ \A e \in Callers : call'[e].step # "idle" => call'[e].user \in Users
  <2>1. call[c] \in Call /\ call[c].user \in Users
    BY <1>0, <1>3
  <2> DEFINE d == [step |-> step, user |-> call[c].user, active |-> call[c].active,
                   key |-> call[c].key, stat |-> call[c].stat, delta |-> delta]
  <2>2. d \in Call /\ (d.step # "idle" => d.user \in Users)
    BY <2>1 DEF Call
  <2>3. call' = [call EXCEPT ![c] = d]
    BY <1>3 DEF Goto
  <2> HIDE DEF d
  <2> QED BY <1>1, <2>2, <2>3
<1>4. ASSUME UNCHANGED stored
      PROVE  rows' \in [Users -> State] /\ likes' \in Nat /\ CountIsExact'
  BY <1>0, <1>4 DEF stored, CountIsExact, Reacting
<1>5. ASSUME NEW u \in Users, NEW active \in BOOLEAN, NEW key \in Keys \cup {NoKey},
             Start(c, u, active, key)
      PROVE  CountInv'
  <2> DEFINE d == [step |-> "redis", user |-> u, active |-> active, key |-> key,
                   stat |-> likes, delta |-> 0]
  <2>1. d \in Call /\ (d.step # "idle" => d.user \in Users)
    BY <1>0 DEF Call
  <2>2. call' = [call EXCEPT ![c] = d] /\ UNCHANGED <<stored, topic>>
    BY <1>5 DEF Start
  <2> HIDE DEF d
  <2> QED BY <1>0, <1>1, <1>4, <2>1, <2>2 DEF CountInv
<1>6. CASE SetState(c)
  <2>1. PICK delta : delta = Delta(redis[call[c].user], Applied(redis[call[c].user], call[c].active, call[c].key))
    OBVIOUS
  <2>2. delta \in {-1, 0, 1}
    BY <2>1 DEF Delta
  <2>3. call[c].step # "idle" /\ UNCHANGED <<stored, topic>> /\ (Return(c) \/ Goto(c, "publish", delta))
    BY <1>6, <2>1 DEF SetState
  <2> QED BY <1>0, <1>2, <1>3, <1>4, <2>2, <2>3 DEF CountInv
<1>7. CASE Publish(c) \/ PublishFails(c)
  <2>1. /\ call[c].step # "idle" /\ UNCHANGED stored
        /\ topic' \in {topic, Append(topic, EventOf(c))}
        /\ Goto(c, "score", call[c].delta) \/ Goto(c, "sync", call[c].delta)
    BY <1>7 DEF Publish, PublishFails
  <2>2. EventOf(c) \in Event
    BY <2>1, EventOfCall
  <2>3. topic' \in Seq(Event)
    BY <1>0, <2>1, <2>2
  <2>4. call[c].delta \in {-1, 0, 1}
    BY <1>0 DEF Call
  <2> QED BY <1>3, <1>4, <2>1, <2>3, <2>4 DEF CountInv
<1>8. CASE SetActionSync(c)
  <2>1. PICK delta : delta = Delta(rows[call[c].user], Applied(rows[call[c].user], call[c].active, call[c].key))
    OBVIOUS
  <2>2. delta \in {-1, 0, 1}
    BY <2>1 DEF Delta
  <2>3. /\ call[c].step # "idle" /\ UNCHANGED topic
        /\ Return(c) \/ Goto(c, "score", delta)
        /\ Store(call[c].user, call[c].active, call[c].key)
    BY <1>8, <2>1 DEF SetActionSync
  <2>4. PICK u \in Users, active \in BOOLEAN, key \in Keys \cup {NoKey} : Store(u, active, key)
    BY <2>3, EventOfCall
  <2>5. rows' \in [Users -> State] /\ likes' \in Nat /\ CountIsExact'
    BY <1>0, <2>4, StoreCounts
  <2> QED BY <1>0, <1>2, <1>3, <2>2, <2>3, <2>5 DEF CountInv
<1>9. CASE Score(c) \/ Abort(c)
  <2>1. Return(c) /\ UNCHANGED <<stored, topic>>
    BY <1>9 DEF Score, Abort
  <2> QED BY <1>0, <1>2, <1>4, <2>1 DEF CountInv
<1> QED BY <1>5, <1>6, <1>7, <1>8, <1>9 DEF RequestStep

\* The worker applies the first event, commits it or gets it again.
LEMMA ConsumeKeeps ==
  ASSUME CountInv, Consume
  PROVE  CountInv'
<1>0. /\ rows \in [Users -> State] /\ likes \in Nat /\ topic \in Seq(Event)
      /\ call \in [Callers -> Call] /\ CountIsExact
      /\ \A d \in Callers : call[d].step # "idle" => call[d].user \in Users
  BY DEF CountInv
<1>1. /\ topic # <<>> /\ UNCHANGED call /\ topic' \in {topic, Tail(topic)}
      /\ Store(Head(topic).user, Head(topic).active, Head(topic).key)
  BY DEF Consume
<1>2. Head(topic) \in Event /\ topic' \in Seq(Event)
  BY <1>0, <1>1
<1>3. PICK u \in Users, active \in BOOLEAN, key \in Keys \cup {NoKey} : Store(u, active, key)
  BY <1>1, <1>2 DEF Event
<1>4. rows' \in [Users -> State] /\ likes' \in Nat /\ CountIsExact'
  BY <1>0, <1>3, StoreCounts
<1> QED BY <1>0, <1>1, <1>2, <1>4 DEF CountInv

\* The other steps leave the rows, the counter and the requests.
LEMMA OthersKeep ==
  ASSUME CountInv,
         \/ DeadLetter \/ ExpireCounter \/ SetVideo \/ UNCHANGED vars
         \/ \E u \in Users : ExpireState(u)
  PROVE  CountInv'
<1>1. UNCHANGED <<call, rows, likes>>
  BY DEF DeadLetter, ExpireCounter, SetVideo, ExpireState, vars, stored
<1>2. topic' \in Seq(Event)
  <2>1. topic \in Seq(Event)
    BY DEF CountInv
  <2>2. topic' = topic \/ (topic # <<>> /\ topic' = Tail(topic))
    BY DEF DeadLetter, ExpireCounter, SetVideo, ExpireState, vars
  <2> QED BY <2>1, <2>2
<1> QED BY <1>1, <1>2 DEF CountInv, CountIsExact, Reacting

\* Every step keeps the invariant.
LEMMA CountStep == CountInv /\ [Next]_vars => CountInv'
<1> SUFFICES ASSUME CountInv, [Next]_vars PROVE CountInv'
  OBVIOUS
<1> QED BY RequestKeeps, ConsumeKeeps, OthersKeep DEF Next
----------------------------------------------------------------------------
(* Lemmas about states, events and the topic.                              *)

\* A request with a key asks for what the key always asks for.
Asks(active, key) == key # NoKey => active = Target[key]

\* What a request makes of a state is what it asks for: a retry asks for what is stored.
LEMMA AppliedAsks ==
  ASSUME NEW state \in State, KeyTells(state),
         NEW active \in BOOLEAN, NEW key \in Keys \cup {NoKey}, Asks(active, key)
  PROVE  /\ Applied(state, active, key) \in State
         /\ KeyTells(Applied(state, active, key))
         /\ Applied(state, active, key) = [status |-> IF active THEN "active" ELSE "canceled", key |-> key]
         /\ Active(Applied(state, active, key)) <=> active
<1> DEFINE asked == [status |-> IF active THEN "active" ELSE "canceled", key |-> key]
<1>1. asked \in State /\ asked.key = key /\ asked.status = IF active THEN "active" ELSE "canceled"
  BY DEF State
<1>2. KeyTells(asked) /\ (Active(asked) <=> active)
  BY <1>1 DEF KeyTells, Active, Asks
<1>3. CASE key # NoKey /\ state.key = key
  <2>1. state.status = asked.status /\ state.key = asked.key
    BY <1>1, <1>3 DEF KeyTells, Asks
  <2>2. state = asked
    BY <1>1, <2>1 DEF State
  <2>3. Applied(state, active, key) = state
    BY <1>3 DEF Applied
  <2> QED BY <1>1, <1>2, <2>2, <2>3
<1>4. CASE ~(key # NoKey /\ state.key = key)
  <2>1. Applied(state, active, key) = asked
    BY <1>4 DEF Applied
  <2> QED BY <1>1, <1>2, <2>1
<1> QED BY <1>3, <1>4

\* One event, as the fold applies it.
Applies(u, state, e) == IF e.user = u THEN Applied(state, e.active, e.key) ELSE state

\* g holds the state of u after the events of each set of indices, applied in their order.
After(g, u, from, events) ==
  g = [s \in SUBSET DOMAIN events |->
         IF s = {} THEN from ELSE Applies(u, g[s \ {Max(s)}], events[Max(s)])]

Own(u, events, s) == {i \in s : events[i].user = u}

LastOwn(u, events, s) == Max(Own(u, events, s))

Stored(e) == [status |-> IF e.active THEN "active" ELSE "canceled", key |-> e.key]

\* The last event of the user tells.
Told(u, from, events, s) ==
  IF Own(u, events, s) = {} THEN from ELSE Stored(events[LastOwn(u, events, s)])

\* One event more: the greatest index is applied last.
LEMMA ToldStep ==
  ASSUME NEW u \in Users, NEW from \in State, KeyTells(from), NEW events \in Seq(Event),
         \A i \in 1 .. Len(events) : Asks(events[i].active, events[i].key),
         NEW s \in SUBSET (1 .. Len(events)), s # {}
  PROVE  /\ Max(s) \in s
         /\ Told(u, from, events, s) = Applies(u, Told(u, from, events, s \ {Max(s)}), events[Max(s)])
<1>0. Len(events) \in Nat /\ \A i \in 1 .. Len(events) : events[i] \in Event
  OBVIOUS
<1> DEFINE m == Max(s)
           t == s \ {m}
           n == Len(events)
<1>1. m \in s /\ \A y \in s : y <= m
  BY <1>0, GreatestIndex
<1>2. \A w \in SUBSET (1 .. n) : Told(u, from, events, w) \in State /\ KeyTells(Told(u, from, events, w))
  <2> SUFFICES ASSUME NEW w \in SUBSET (1 .. n), Own(u, events, w) # {}
               PROVE  Told(u, from, events, w) \in State /\ KeyTells(Told(u, from, events, w))
    BY DEF Told
  <2>1. Own(u, events, w) \in SUBSET (1 .. n)
    BY DEF Own
  <2>2. LastOwn(u, events, w) \in 1 .. n
    BY <1>0, <2>1, GreatestIndex DEF LastOwn
  <2>3. PICK e \in Event : e = events[LastOwn(u, events, w)] /\ Asks(e.active, e.key)
    BY <1>0, <2>2
  <2>4. e.active \in BOOLEAN /\ e.key \in Keys \cup {NoKey}
    BY DEF Event
  <2>5. Stored(e) \in State /\ KeyTells(Stored(e))
    BY <2>3, <2>4 DEF Stored, State, KeyTells, Asks
  <2> QED BY <2>3, <2>5 DEF Told
<1>3. t \in SUBSET (1 .. n)
  BY <1>1
<1>4. CASE events[m].user = u
  <2>1. Own(u, events, s) \in SUBSET (1 .. n) /\ m \in Own(u, events, s)
    BY <1>1, <1>4 DEF Own
  <2>2. \A y \in Own(u, events, s) : y <= m
    BY <1>1 DEF Own
  <2>3. LastOwn(u, events, s) = m
    <3>1. /\ Max(Own(u, events, s)) \in Own(u, events, s)
          /\ \A y \in Own(u, events, s) : y <= Max(Own(u, events, s))
      BY <1>0, <2>1, GreatestIndex
    <3> HIDE DEF m
    <3> QED BY <2>1, <2>2, <3>1, <1>0 DEF LastOwn
  <2>4. Told(u, from, events, s) = Stored(events[m])
    BY <2>1, <2>3 DEF Told
  <2>5. PICK e \in Event : e = events[m] /\ Asks(e.active, e.key)
    BY <1>0, <1>1
  <2>6. e.active \in BOOLEAN /\ e.key \in Keys \cup {NoKey}
    BY DEF Event
  <2>7. Applied(Told(u, from, events, t), e.active, e.key) = Stored(e)
    BY <1>2, <1>3, <2>5, <2>6, AppliedAsks DEF Stored
  <2> HIDE DEF m, t
  <2>8. Told(u, from, events, s) = Applies(u, Told(u, from, events, t), events[m])
    BY <1>4, <2>4, <2>5, <2>7 DEF Applies
  <2> QED BY <1>1, <2>8 DEF m, t
<1>5. CASE events[m].user # u
  <2>1. Own(u, events, s) = Own(u, events, t)
    BY <1>1, <1>5 DEF Own
  <2>2. Told(u, from, events, s) = Told(u, from, events, t)
    BY <2>1 DEF Told, LastOwn
  <2> QED BY <1>1, <1>5, <2>2 DEF Applies
<1> QED BY <1>4, <1>5

\* The fold over the events is what the last event of the user tells.
LEMMA FoldTells ==
  ASSUME NEW u \in Users, NEW from \in State, KeyTells(from), NEW events \in Seq(Event),
         \A i \in 1 .. Len(events) : Asks(events[i].active, events[i].key)
  PROVE  FoldLeft(LAMBDA state, e : IF e.user = u THEN Applied(state, e.active, e.key) ELSE state, from, events)
           = Told(u, from, events, 1 .. Len(events))
<1> DEFINE D == 1 .. Len(events)
           h == [s \in SUBSET D |-> Told(u, from, events, s)]
           g == CHOOSE f : After(f, u, from, events)
<1>0. DOMAIN events = D /\ Len(events) \in Nat
  OBVIOUS
<1>1. \A s \in SUBSET D : s # {} => Max(s) \in s /\ s \ {Max(s)} \in SUBSET D
  BY ToldStep
<1>2. Told(u, from, events, {}) = from
  BY DEF Told, Own
<1>3. h = [s \in SUBSET D |-> IF s = {} THEN from ELSE Applies(u, h[s \ {Max(s)}], events[Max(s)])]
  <2>1. \A s \in SUBSET D :
          Told(u, from, events, s) = IF s = {} THEN from ELSE Applies(u, h[s \ {Max(s)}], events[Max(s)])
    BY <1>1, <1>2, ToldStep
  <2> QED BY <2>1
<1>4. After(g, u, from, events)
  <2>1. After(h, u, from, events)
    BY <1>0, <1>3, Zenon DEF After
  <2> QED BY <2>1, Zenon
<1> HIDE DEF h
<1>5. FoldLeft(LAMBDA state, e : IF e.user = u THEN Applied(state, e.active, e.key) ELSE state, from, events) = g[D]
  <2>1. FoldLeft(LAMBDA state, e : IF e.user = u THEN Applied(state, e.active, e.key) ELSE state, from, events)
          = (CHOOSE f : f = [s \in SUBSET DOMAIN events |->
                IF s = {} THEN from
                ELSE IF events[Max(s)].user = u
                     THEN Applied(f[s \ {Max(s)}], events[Max(s)].active, events[Max(s)].key)
                     ELSE f[s \ {Max(s)}]])[DOMAIN events]
    BY Zenon DEF FoldLeft, MapThenFoldSet
  <2> QED BY <1>0, <2>1, Zenon DEF After, Applies
<1> HIDE DEF g
<1>6. \A s \in SUBSET D : g[s] = IF s = {} THEN from ELSE Applies(u, g[s \ {Max(s)}], events[Max(s)])
  BY <1>0, <1>4, Zenon DEF After
<1> DEFINE bad == {s \in SUBSET D : g[s] # Told(u, from, events, s)}
<1>7. ASSUME bad # {} PROVE FALSE
  <2>1. IsFiniteSet(D)
    BY <1>0, FS_Interval
  <2>2. PICK s \in bad : \A x \in s : s \ {x} \notin bad
    BY <1>7, <2>1, SmallestSubset
  <2>3. s \in SUBSET D /\ g[s] # Told(u, from, events, s) /\ s # {}
    BY <1>2, <1>6, <2>2
  <2>4. Max(s) \in s /\ s \ {Max(s)} \in SUBSET D
    BY <1>1, <2>3
  <2>5. g[s \ {Max(s)}] = Told(u, from, events, s \ {Max(s)})
    BY <2>2, <2>4
  <2>6. Told(u, from, events, s) = Applies(u, Told(u, from, events, s \ {Max(s)}), events[Max(s)])
    BY <2>3, ToldStep
  <2>7. g[s] = Applies(u, g[s \ {Max(s)}], events[Max(s)])
    BY <1>6, <2>3
  <2> QED BY <2>3, <2>5, <2>6, <2>7
<1>8. D \in SUBSET D /\ D \notin bad
  BY <1>7
<1>9. g[D] = Told(u, from, events, D)
  BY <1>8
<1> QED BY <1>5, <1>9

\* The sequence of no events is empty.
LEMMA EmptyToSeq == SetToSeq({}) = <<>>
<1>1. Cardinality({}) = 0
  BY FS_EmptySet
<1>2. \A f \in [1 .. 0 -> {}] : f = <<>>
  OBVIOUS
<1>3. <<>> \in [1 .. 0 -> {}] /\ IsInjective(<<>>)
  BY DEF IsInjective
<1> QED BY <1>1, <1>2, <1>3, Zenon DEF SetToSeq

\* The sequence of one event.
LEMMA OneToSeq ==
  ASSUME NEW e
  PROVE  SetToSeq({e}) = <<e>>
<1>1. Cardinality({e}) = 1
  BY FS_Singleton
<1>2. \A f \in [1 .. 1 -> {e}] : f = <<e>>
  OBVIOUS
<1>3. <<e>> \in [1 .. 1 -> {e}]
  OBVIOUS
<1>4. IsInjective(<<e>>)
  BY DEF IsInjective
<1> QED BY <1>1, <1>2, <1>3, <1>4, Zenon DEF SetToSeq

\* Settled is what the events of the topic tell.
LEMMA SettledTold ==
  ASSUME TypeOK, NEW u \in Users
  PROVE  Active(Told(u, rows[u], topic, 1 .. Len(topic))) <=> Settled(u)
<1> DEFINE n == Len(topic)
           own == Own(u, topic, 1 .. n)
           m == LastOwn(u, topic, 1 .. n)
<1>0. topic \in Seq(Event) /\ n \in Nat
  BY DEF TypeOK
<1>1. CASE Pending(u)
  <2>1. own # {} /\ own \in SUBSET (1 .. n)
    BY <1>1 DEF Own, Pending
  <2>2. m \in own /\ \A y \in own : y <= m
    BY <1>0, <2>1, GreatestIndex DEF LastOwn
  <2>3. m \in 1 .. n /\ topic[m].user = u /\ \A j \in 1 .. n : topic[j].user = u => j <= m
    BY <2>2 DEF Own
  <2> HIDE DEF m
  <2>4. \A i \in 1 .. n : topic[i].user = u /\ (\A j \in 1 .. n : topic[j].user = u => j <= i) => i = m
    BY <1>0, <2>3
  <2>5. Settled(u) <=> topic[m].active
    BY <1>1, <2>3, <2>4 DEF Settled
  <2>6. topic[m].active \in BOOLEAN
    <3>1. topic[m] \in Event
      BY <1>0, <2>3
    <3> QED BY <3>1 DEF Event
  <2>7. Told(u, rows[u], topic, 1 .. n) = Stored(topic[m])
    BY <2>1 DEF Told, m
  <2> QED BY <2>5, <2>6, <2>7 DEF Stored, Active
<1>2. CASE ~Pending(u)
  <2>1. own = {}
    BY <1>2 DEF Own, Pending
  <2> QED BY <1>2, <2>1 DEF Told, Settled
<1> QED BY <1>1, <1>2

\* What MySQL will hold of u is what the request that is not settled asks for, and else what
\* the topic leaves.
LEMMA UpcomingTells ==
  ASSUME TypeOK, KeysTell, NEW u \in Users, \A c, d \in UnsettledOf(u) : c = d
  PROVE  /\ UnsettledOf(u) = {} => (Active(Upcoming(u)) <=> Settled(u))
         /\ \A c \in UnsettledOf(u) : Active(Upcoming(u)) <=> call[c].active
<1>0. /\ topic \in Seq(Event) /\ rows[u] \in State /\ KeyTells(rows[u])
      /\ \A i \in 1 .. Len(topic) : Asks(topic[i].active, topic[i].key)
  BY DEF TypeOK, KeysTell, Asks
<1>1. ASSUME UnsettledOf(u) = {} PROVE Active(Upcoming(u)) <=> Settled(u)
  <2>1. {EventOf(c) : c \in UnsettledOf(u)} = {}
    BY <1>1
  <2>2. topic \o SetToSeq({EventOf(c) : c \in UnsettledOf(u)}) = topic
    BY <1>0, <2>1, EmptyToSeq, ConcatEmptySeq
  <2>3. Upcoming(u) = Told(u, rows[u], topic, 1 .. Len(topic))
    <3>1. FoldLeft(LAMBDA state, e : IF e.user = u THEN Applied(state, e.active, e.key) ELSE state, rows[u], topic)
            = Told(u, rows[u], topic, 1 .. Len(topic))
      BY <1>0, FoldTells
    <3> QED BY <2>2, <3>1, Zenon DEF Upcoming
  <2> QED BY <2>3, SettledTold
<1>2. ASSUME NEW c \in UnsettledOf(u) PROVE Active(Upcoming(u)) <=> call[c].active
  <2>1. /\ c \in Callers /\ call[c].user = u /\ call[c].step # "idle"
        /\ call[c] \in Call
    BY <1>2 DEF UnsettledOf, Unsettled, TypeOK
  <2> DEFINE e == EventOf(c)
             events == Append(topic, e)
             n == Len(topic)
  <2>2. e \in Event /\ e.user = u /\ e.active = call[c].active /\ e.key = call[c].key
    BY <2>1 DEF EventOf, Event, Call
  <2>3. Asks(e.active, e.key)
    BY <2>1, <2>2 DEF KeysTell, Asks
  <2>4. {EventOf(d) : d \in UnsettledOf(u)} = {e}
    BY <1>2
  <2> HIDE DEF e, events
  <2>5. topic \o SetToSeq({EventOf(d) : d \in UnsettledOf(u)}) = events
    <3>1. events = topic \o <<e>>
      BY <1>0, <2>2, AppendIsConcat DEF events
    <3>2. SetToSeq({EventOf(d) : d \in UnsettledOf(u)}) = <<e>>
      BY <2>4, OneToSeq, Zenon
    <3> QED BY <3>1, <3>2, Zenon
  <2>6. /\ events \in Seq(Event) /\ Len(events) = n + 1 /\ n \in Nat /\ events[n + 1] = e
        /\ \A i \in 1 .. n : events[i] = topic[i]
    BY <1>0, <2>2 DEF events
  <2>7. \A i \in 1 .. Len(events) : Asks(events[i].active, events[i].key)
    BY <1>0, <2>3, <2>6
  <2>8. Upcoming(u) = Told(u, rows[u], events, 1 .. Len(events))
    <3>1. FoldLeft(LAMBDA state, f : IF f.user = u THEN Applied(state, f.active, f.key) ELSE state, rows[u], events)
            = Told(u, rows[u], events, 1 .. Len(events))
      BY <1>0, <2>6, <2>7, FoldTells
    <3> QED BY <2>5, <3>1, Zenon DEF Upcoming
  <2> DEFINE own == Own(u, events, 1 .. Len(events))
  <2>9. n + 1 \in own /\ own \in SUBSET (1 .. n + 1)
    BY <2>2, <2>6 DEF Own
  <2>10. Max(own) \in own /\ \A y \in own : y <= Max(own)
    <3>1. n + 1 \in Nat
      BY <2>6
    <3> HIDE DEF own
    <3> QED BY <2>9, <3>1, GreatestIndex
  <2> HIDE DEF own
  <2>11. Max(own) = n + 1
    <3>1. PICK m : m = Max(own)
      OBVIOUS
    <3>2. m \in 1 .. n + 1 /\ n + 1 <= m
      BY <2>9, <2>10, <3>1
    <3> QED BY <2>6, <3>1, <3>2
  <2>12. Upcoming(u) = Stored(e)
    BY <2>6, <2>8, <2>9, <2>11 DEF Told, LastOwn, own
  <2>13. e.active \in BOOLEAN
    BY <2>2 DEF Event
  <2> QED BY <2>2, <2>12, <2>13 DEF Stored, Active
<1> QED BY <1>1, <1>2

\* What the requests of a user owe to the hot rank are numbers.
LEMMA OwingTyped ==
  ASSUME TypeOK, NEW u
  PROVE  Owing(u) \in [Callers -> Int]
<1>1. \A c \in Callers : call[c].delta \in Int
  <2>1. \A c \in Callers : call[c] \in Call
    BY DEF TypeOK
  <2> QED BY <2>1 DEF Call
<1> QED BY <1>1 DEF Owing

\* What the answers show is what MySQL will hold, and what the hot rank counts.
LEMMA StandsConverges ==
  ASSUME TypeOK, KeysTell, \A u \in Users \ disturbed : UserStands(u), \A u \in Users \ unscored : ScoreStands(u)
  PROVE  StatesConverge
<1>1. ASSUME NEW u \in Users \ disturbed
      PROVE  Active(Upcoming(u)) <=> Active(redis[u])
  <2>1. /\ UnsettledOf(u) = {} => (Active(Upcoming(u)) <=> Settled(u))
        /\ \A c \in UnsettledOf(u) : Active(Upcoming(u)) <=> call[c].active
    BY UpcomingTells DEF UserStands
  <2>2. CASE UnsettledOf(u) = {}
    BY <2>1, <2>2, Zenon DEF UserStands
  <2>3. CASE UnsettledOf(u) # {}
    BY <2>1, <2>3, Zenon DEF UserStands
  <2> QED BY <2>2, <2>3
<1>2. ASSUME NEW u \in Users \ unscored, \A c \in Callers : Owing(u)[c] = 0
      PROVE  hot[u] = IF Active(redis[u]) THEN 1 ELSE 0
  <2>1. Owing(u) \in [Callers -> Int] /\ IsFiniteSet(Callers)
    BY OwingTyped, ConstantsAssumption
  <2>2. SumFunction(Owing(u)) = 0
    <3>1. PICK f : f = Owing(u)
      OBVIOUS
    <3>2. f \in [Callers -> Int] /\ \A c \in Callers : f[c] = 0
      BY <1>2, <2>1, <3>1
    <3>3. SumFunction(f) = 0
      BY <2>1, <3>2, SumOfZeros
    <3> QED BY <3>1, <3>3
  <2>3. hot[u] \in Int
    BY DEF TypeOK
  <2>4. hot[u] + 0 = IF Active(redis[u]) THEN 1 ELSE 0
    BY <2>2 DEF ScoreStands
  <2> QED BY <2>3, <2>4
<1> QED BY <1>1, <1>2 DEF StatesConverge

\* Touching a shard keeps the others that have a key.
LEMMA TouchKeeps ==
  ASSUME TypeOK, NEW s \in ShardSet
  PROVE  /\ Touch(s) \in Seq(ShardSet) /\ Touch(s) # <<>>
         /\ \E i \in 1 .. Len(Touch(s)) : Touch(s)[i] = s
         /\ \A t \in ShardSet : (\E i \in 1 .. Len(touched) : touched[i] = t)
                                  => \E i \in 1 .. Len(Touch(s)) : Touch(s)[i] = t
<1> DEFINE n == Len(touched)
           r == RemoveFirst(touched, s)
<1>0. touched \in Seq(ShardSet) /\ n \in Nat
  BY DEF TypeOK
<1>1. /\ r \in Seq(ShardSet)
      /\ \A t \in ShardSet : t # s /\ (\E i \in 1 .. n : touched[i] = t) => \E i \in 1 .. Len(r) : r[i] = t
  <2>1. CASE ~\E i \in 1 .. n : touched[i] = s
    <3>1. r = touched
      BY <2>1 DEF RemoveFirst
    <3> QED BY <1>0, <3>1
  <2>2. CASE \E i \in 1 .. n : touched[i] = s
    <3> DEFINE S == {i \in 1 .. n : touched[i] = s}
               k == Min(S)
    <3>1. r = SubSeq(touched, 1, k - 1) \o SubSeq(touched, k + 1, n)
      BY <2>2, Zenon DEF RemoveFirst, RemoveAt, SelectInSeq
    <3>2. S \in SUBSET (1 .. n) /\ S # {}
      BY <2>2
    <3>3. k \in S
      BY <1>0, <3>2, LeastIndex
    <3>4. k \in 1 .. n /\ touched[k] = s
      BY <3>3
    <3> HIDE DEF k, r
    <3> DEFINE p == SubSeq(touched, 1, k - 1)
               q == SubSeq(touched, k + 1, n)
    <3>5. /\ p \in Seq(ShardSet) /\ Len(p) = k - 1 /\ \A i \in 1 .. k - 1 : p[i] = touched[i]
      BY <1>0, <3>4
    <3>6. q \in Seq(ShardSet) /\ Len(q) = n - k /\ \A i \in 1 .. n - k : q[i] = touched[k + i]
      BY <1>0, <3>4
    <3> HIDE DEF p, q
    <3>7. /\ r \in Seq(ShardSet) /\ Len(r) = n - 1
          /\ \A i \in 1 .. n - 1 : r[i] = IF i < k THEN p[i] ELSE q[i - (k - 1)]
      <4>1. r = p \o q
        BY <3>1 DEF p, q
      <4>2. n - 1 = Len(p) + Len(q)
        BY <1>0, <3>4, <3>5, <3>6
      <4>3. /\ r \in Seq(ShardSet) /\ Len(r) = Len(p) + Len(q)
            /\ \A i \in 1 .. Len(p) + Len(q) : r[i] = IF i <= Len(p) THEN p[i] ELSE q[i - Len(p)]
        BY <3>5, <3>6, <4>1, ConcatProperties
      <4> QED BY <1>0, <3>4, <3>5, <4>2, <4>3
    <3>8. ASSUME NEW i \in 1 .. n, i # k PROVE \E j \in 1 .. Len(r) : r[j] = touched[i]
      <4>1. CASE i < k
        <5>1. i \in 1 .. n - 1 /\ i \in 1 .. k - 1
          BY <1>0, <3>4, <4>1
        <5> QED BY <3>5, <3>7, <4>1, <5>1
      <4>2. CASE i > k
        <5>1. i - 1 \in 1 .. n - 1 /\ i - k \in 1 .. n - k /\ ~(i - 1 < k) /\ (i - 1) - (k - 1) = i - k /\ k + (i - k) = i
          BY <1>0, <3>4, <4>2
        <5> QED BY <3>6, <3>7, <5>1
      <4> QED BY <1>0, <3>4, <3>8, <4>1, <4>2
    <3> QED BY <3>4, <3>7, <3>8
  <2> QED BY <2>1, <2>2
<1> HIDE DEF r
<1>2. /\ Touch(s) \in Seq(ShardSet) /\ Len(Touch(s)) = Len(r) + 1 /\ Len(r) \in Nat
      /\ Touch(s)[Len(r) + 1] = s /\ \A i \in 1 .. Len(r) : Touch(s)[i] = r[i]
  BY <1>1 DEF Touch, r
<1> QED BY <1>1, <1>2
----------------------------------------------------------------------------
(* The invariant, step by step: types and keys.                            *)

\* A request under way has its user, and its fields have their types.
LEMMA CallTyped ==
  ASSUME TypeOK, NEW c \in Callers, call[c].step # "idle"
  PROVE  /\ call[c] \in Call
         /\ call[c].user \in Users /\ call[c].active \in BOOLEAN /\ call[c].key \in Keys \cup {NoKey}
         /\ call[c].stat \in Nat /\ call[c].delta \in {-1, 0, 1}
         /\ Shard[call[c].user] \in ShardSet
<1>1. call[c] \in Call /\ call[c].user \in Users
  BY DEF TypeOK
<1>2. /\ call[c].active \in BOOLEAN /\ call[c].key \in Keys \cup {NoKey}
      /\ call[c].stat \in Nat /\ call[c].delta \in {-1, 0, 1}
  BY <1>1 DEF Call
<1> QED BY <1>1, <1>2 DEF ShardSet

\* A reaction counts one more, one less or as before.
LEMMA DeltaRange ==
  ASSUME NEW old, NEW new
  PROVE  Delta(old, new) \in {-1, 0, 1}
BY DEF Delta

\* Every step keeps the types.
LEMMA TypeStep ==
  ASSUME TypeOK, CountIsExact, [Next]_vars
  PROVE  TypeOK'
<1>1. CountInv
  BY DEF TypeOK, CountInv
<1>2. CountInv'
  BY <1>1, CountStep
<1>3. /\ rows' \in [Users -> State] /\ likes' \in Nat /\ topic' \in Seq(Event)
      /\ call' \in [Callers -> Call]
      /\ \A c \in Callers : call'[c].step # "idle" => call'[c].user \in Users
  BY <1>2 DEF CountInv
<1>4. ASSUME open' \in BOOLEAN, calls' \in Nat, redis' \in [Users -> State], base' \in Nat \cup {-1},
             shards' \in [ShardSet -> Int], touched' \in Seq(ShardSet), hot' \in [Users -> Int],
             noticed' \subseteq Users, disturbed' \subseteq Users, unscored' \subseteq Users,
             drifted' \in BOOLEAN
      PROVE  TypeOK'
  BY <1>3, <1>4 DEF TypeOK
<1>0. /\ open \in BOOLEAN /\ calls \in Nat /\ redis \in [Users -> State] /\ base \in Nat \cup {-1}
      /\ shards \in [ShardSet -> Int] /\ touched \in Seq(ShardSet) /\ hot \in [Users -> Int]
      /\ noticed \subseteq Users /\ disturbed \subseteq Users /\ unscored \subseteq Users /\ drifted \in BOOLEAN
      /\ likes \in Nat
  BY DEF TypeOK
<1>5. ASSUME NEW us \in SUBSET Users, Disturb(us) PROVE disturbed' \subseteq Users
  BY <1>0, <1>5 DEF Disturb
<1>6. ASSUME NEW us \in SUBSET Users, Miss(us) PROVE unscored' \subseteq Users
  BY <1>0, <1>6 DEF Miss
<1>7. ASSUME NEW c \in Callers, RequestStep(c) PROVE TypeOK'
  <2>1. ASSUME NEW u \in Users, NEW active \in BOOLEAN, NEW key \in Keys \cup {NoKey}, Start(c, u, active, key)
        PROVE  TypeOK'
    <3>1. calls' \in Nat /\ UNCHANGED <<open, live, hot, noticed, disturbed, unscored, drifted>>
      BY <1>0, <2>1 DEF Start, ranked
    <3> QED BY <1>0, <1>4, <3>1 DEF live
  <2>2. CASE SetState(c)
    <3> DEFINE u == call[c].user
               new == Applied(redis[u], call[c].active, call[c].key)
               delta == Delta(redis[u], new)
               s == Shard[u]
    <3>1. /\ call[c].step = "redis"
          /\ redis' = [redis EXCEPT ![u] = new]
          /\ base' = BaseInit(call[c].stat)
          /\ shards' = [shards EXCEPT ![s] = @ + delta]
          /\ touched' = Touch(s)
          /\ UNCHANGED <<open, calls, hot, noticed, unscored, drifted>>
          /\ \/ UNCHANGED disturbed
             \/ Disturb({v \in {u} : \E d \in Callers \ {c} : call[d].user = u /\ Unsettled(d)})
      BY <2>2 DEF SetState, ranked
    <3>2. /\ u \in Users /\ call[c].active \in BOOLEAN /\ call[c].key \in Keys \cup {NoKey}
          /\ call[c].stat \in Nat /\ s \in ShardSet
      BY <3>1, CallTyped
    <3>3. new \in State /\ delta \in {-1, 0, 1}
      BY <1>0, <3>2, AppliedState, DeltaRange
    <3>4. touched' \in Seq(ShardSet)
      BY <3>1, <3>2, TouchKeeps
    <3> HIDE DEF u, new, delta, s
    <3>5. redis' \in [Users -> State] /\ shards' \in [ShardSet -> Int]
      BY <1>0, <3>1, <3>2, <3>3
    <3>6. base' \in Nat \cup {-1}
      BY <1>0, <3>1, <3>2 DEF BaseInit
    <3>7. disturbed' \subseteq Users
      BY <1>0, <1>5, <3>1, <3>2
    <3> QED BY <1>0, <1>4, <3>1, <3>4, <3>5, <3>6, <3>7
  <2>3. CASE Publish(c) \/ PublishFails(c)
    BY <1>0, <1>4, <2>3 DEF Publish, PublishFails, live, ranked
  <2>4. CASE SetActionSync(c)
    <3>1. /\ call[c].step # "idle" /\ UNCHANGED <<open, calls, live, hot, noticed, drifted>>
          /\ Disturb({v \in {call[c].user} : Pending(call[c].user)})
          /\ \E d : Miss({v \in {call[c].user} : d # call[c].delta})
      BY <2>4 DEF SetActionSync
    <3>2. call[c].user \in Users
      BY <3>1, CallTyped
    <3>3. disturbed' \subseteq Users /\ unscored' \subseteq Users
      BY <1>5, <1>6, <3>1, <3>2
    <3> QED BY <1>0, <1>4, <3>1, <3>3 DEF live
  <2>5. CASE Score(c)
    <3>1. /\ call[c].step # "idle" /\ UNCHANGED <<open, calls, live, disturbed, drifted>>
          /\ \/ hot' = [hot EXCEPT ![call[c].user] = @ + call[c].delta] /\ UNCHANGED unscored
             \/ Miss({call[c].user}) /\ UNCHANGED hot
          /\ noticed' \in {noticed, Notice(call[c].user, call[c].delta)}
      BY <2>5 DEF Score
    <3>2. call[c].user \in Users /\ call[c].delta \in Int
      BY <3>1, CallTyped
    <3>3. hot' \in [Users -> Int]
      BY <1>0, <3>1, <3>2
    <3>4. unscored' \subseteq Users
      BY <1>0, <1>6, <3>1, <3>2
    <3>5. noticed' \subseteq Users
      BY <1>0, <3>1, <3>2 DEF Notice
    <3> QED BY <1>0, <1>4, <3>1, <3>3, <3>4, <3>5 DEF live
  <2>6. CASE Abort(c)
    <3>1. /\ call[c].step # "idle" /\ UNCHANGED <<open, calls, live, hot, noticed, drifted>>
          /\ Disturb({v \in {call[c].user} : Unsettled(c)})
          /\ Miss({v \in {call[c].user} : call[c].step # "redis"})
      BY <2>6 DEF Abort
    <3>2. disturbed' \subseteq Users /\ unscored' \subseteq Users
      BY <1>5, <1>6, <3>1, CallTyped
    <3> QED BY <1>0, <1>4, <3>1, <3>2 DEF live
  <2> QED BY <1>7, <2>1, <2>2, <2>3, <2>4, <2>5, <2>6 DEF RequestStep
<1>8. CASE Consume
  BY <1>0, <1>4, <1>8 DEF Consume, live, ranked
<1>9. CASE DeadLetter
  <2>1. topic \in Seq(Event) /\ topic # <<>>
    BY <1>9 DEF DeadLetter, TypeOK
  <2>2. Head(topic).user \in Users
    <3>1. Head(topic) \in Event
      BY <2>1
    <3> QED BY <3>1 DEF Event
  <2>3. disturbed' \subseteq Users
    BY <1>5, <1>9, <2>2 DEF DeadLetter
  <2> QED BY <1>0, <1>4, <1>9, <2>3 DEF DeadLetter, live, ranked
<1>10. ASSUME NEW u \in Users, ExpireState(u) PROVE TypeOK'
  <2>1. Absent \in State
    BY DEF Absent, State
  <2>2. redis' \in [Users -> State]
    BY <1>0, <1>10, <2>1 DEF ExpireState
  <2>3. disturbed' \subseteq Users /\ unscored' \subseteq Users
    BY <1>5, <1>6, <1>10 DEF ExpireState
  <2> QED BY <1>0, <1>4, <1>10, <2>2, <2>3 DEF ExpireState
<1>11. CASE ExpireCounter
  <2>1. shards' \in [ShardSet -> Int] /\ touched' \in Seq(ShardSet)
    BY <1>0, <1>11 DEF ExpireCounter
  <2>2. base' \in Nat \cup {-1} /\ drifted' \in BOOLEAN
    BY <1>0, <1>11 DEF ExpireCounter
  <2> QED BY <1>0, <1>4, <1>11, <2>1, <2>2 DEF ExpireCounter, ranked
<1>12. CASE SetVideo
  BY <1>0, <1>4, <1>12 DEF SetVideo, live, ranked
<1>13. CASE UNCHANGED vars
  BY <1>0, <1>4, <1>13 DEF vars
<1> QED BY <1>7, <1>8, <1>9, <1>10, <1>11, <1>12, <1>13 DEF Next

\* What a row or a Redis state holds under a key is what the key asks for.
LEMMA KeysStep ==
  ASSUME TypeOK, KeysTell, [Next]_vars
  PROVE  KeysTell'
<1>0. /\ \A u \in Users : rows[u] \in State /\ redis[u] \in State /\ KeyTells(rows[u]) /\ KeyTells(redis[u])
      /\ topic \in Seq(Event) /\ \A i \in 1 .. Len(topic) : Asks(topic[i].active, topic[i].key)
      /\ \A c \in Callers : call[c].step # "idle" => Asks(call[c].active, call[c].key)
      /\ rows \in [Users -> State] /\ redis \in [Users -> State] /\ call \in [Callers -> Call]
  BY DEF TypeOK, KeysTell, Asks
<1>1. ASSUME \A u \in Users : KeyTells(rows'[u]) /\ KeyTells(redis'[u]),
             \A i \in 1 .. Len(topic') : Asks(topic'[i].active, topic'[i].key),
             \A c \in Callers : call'[c].step # "idle" => Asks(call'[c].active, call'[c].key)
      PROVE  KeysTell'
  BY <1>1 DEF KeysTell, KeyTells, Asks
<1>2. ASSUME NEW c \in Callers, NEW d, call' = [call EXCEPT ![c] = d],
             d.step # "idle" => Asks(d.active, d.key)
      PROVE  \A e \in Callers : call'[e].step # "idle" => Asks(call'[e].active, call'[e].key)
  BY <1>0, <1>2
<1>3. ASSUME NEW c \in Callers, Return(c)
      PROVE  \A e \in Callers : call'[e].step # "idle" => Asks(call'[e].active, call'[e].key)
  BY <1>2, <1>3 DEF Return, Idle
<1>4. ASSUME NEW c \in Callers, call[c].step # "idle", NEW step, NEW delta, Goto(c, step, delta)
      PROVE  \A e \in Callers : call'[e].step # "idle" => Asks(call'[e].active, call'[e].key)
  <2> DEFINE d == [step |-> step, user |-> call[c].user, active |-> call[c].active,
                   key |-> call[c].key, stat |-> call[c].stat, delta |-> delta]
  <2>1. call' = [call EXCEPT ![c] = d]
    BY <1>4 DEF Goto
  <2>2. Asks(d.active, d.key)
    BY <1>0, <1>4
  <2> HIDE DEF d
  <2> QED BY <1>2, <2>1, <2>2
<1>5. ASSUME NEW u \in Users, NEW active \in BOOLEAN, NEW key \in Keys \cup {NoKey}, Asks(active, key),
             Store(u, active, key)
      PROVE  \A v \in Users : KeyTells(rows'[v])
  <2>1. KeyTells(Applied(rows[u], active, key))
    BY <1>0, <1>5, AppliedAsks
  <2>2. rows' = [rows EXCEPT ![u] = Applied(rows[u], active, key)]
    BY <1>5 DEF Store
  <2> QED BY <1>0, <2>1, <2>2
<1>6. ASSUME NEW c \in Callers, RequestStep(c) PROVE KeysTell'
  <2>1. ASSUME NEW u \in Users, NEW active \in BOOLEAN, NEW key \in Keys \cup {NoKey}, Start(c, u, active, key)
        PROVE  KeysTell'
    <3> DEFINE d == [step |-> "redis", user |-> u, active |-> active, key |-> key, stat |-> likes, delta |-> 0]
    <3>1. call' = [call EXCEPT ![c] = d] /\ UNCHANGED <<rows, redis, topic>> /\ Asks(active, key)
      BY <2>1 DEF Start, live, stored, Asks
    <3>2. Asks(d.active, d.key)
      BY <3>1
    <3> HIDE DEF d
    <3> QED BY <1>0, <1>1, <1>2, <3>1, <3>2
  <2>2. CASE SetState(c)
    <3> DEFINE u == call[c].user
               new == Applied(redis[u], call[c].active, call[c].key)
               delta == Delta(redis[u], new)
    <3>1. /\ call[c].step # "idle"
          /\ redis' = [redis EXCEPT ![u] = new] /\ UNCHANGED <<rows, topic>>
          /\ Return(c) \/ Goto(c, "publish", delta)
      BY <2>2 DEF SetState, stored
    <3>2. KeyTells(new)
      BY <1>0, <3>1, CallTyped, AppliedAsks
    <3> HIDE DEF u, new, delta
    <3>3. \A v \in Users : KeyTells(redis'[v])
      BY <1>0, <3>1, <3>2
    <3> QED BY <1>0, <1>1, <1>3, <1>4, <3>1, <3>3
  <2>3. CASE Publish(c) \/ PublishFails(c)
    <3>1. /\ call[c].step # "idle" /\ topic' \in {topic, Append(topic, EventOf(c))} /\ UNCHANGED <<rows, redis>>
          /\ \E step : Goto(c, step, call[c].delta)
      BY <2>3 DEF Publish, PublishFails, live, stored
    <3>2. EventOf(c) \in Event
      BY <3>1, CallTyped DEF EventOf, Event
    <3>3. Asks(EventOf(c).active, EventOf(c).key)
      BY <1>0, <3>1 DEF EventOf
    <3>4. \A i \in 1 .. Len(topic') : Asks(topic'[i].active, topic'[i].key)
      BY <1>0, <3>1, <3>2, <3>3
    <3> QED BY <1>0, <1>1, <1>4, <3>1, <3>4
  <2>4. CASE SetActionSync(c)
    <3>1. /\ call[c].step # "idle" /\ UNCHANGED <<redis, topic>>
          /\ Return(c) \/ \E d : Goto(c, "score", d)
          /\ Store(call[c].user, call[c].active, call[c].key)
      BY <2>4 DEF SetActionSync, live
    <3>2. \A v \in Users : KeyTells(rows'[v])
      BY <1>0, <1>5, <3>1, CallTyped
    <3> QED BY <1>0, <1>1, <1>3, <1>4, <3>1, <3>2
  <2>5. CASE Score(c) \/ Abort(c)
    <3>1. Return(c) /\ UNCHANGED <<rows, redis, topic>>
      BY <2>5 DEF Score, Abort, live, stored
    <3> QED BY <1>0, <1>1, <1>3, <3>1
  <2> QED BY <1>6, <2>1, <2>2, <2>3, <2>4, <2>5 DEF RequestStep
<1>7. ASSUME topic # <<>>, topic' \in {topic, Tail(topic)}
      PROVE  \A i \in 1 .. Len(topic') : Asks(topic'[i].active, topic'[i].key)
  <2>1. CASE topic' = topic
    BY <1>0, <2>1
  <2>2. CASE topic' = Tail(topic)
    <3>1. Len(topic) \in Nat /\ Len(topic') = Len(topic) - 1 /\ \A i \in 1 .. Len(topic') : topic'[i] = topic[i + 1]
      BY <1>0, <1>7, <2>2
    <3>2. \A i \in 1 .. Len(topic') : i + 1 \in 1 .. Len(topic)
      BY <3>1
    <3> QED BY <1>0, <3>1, <3>2
  <2> QED BY <1>7, <2>1, <2>2
<1>8. CASE Consume
  <2> DEFINE e == Head(topic)
  <2>1. topic # <<>> /\ topic' \in {topic, Tail(topic)} /\ Store(e.user, e.active, e.key) /\ UNCHANGED <<call, redis>>
    BY <1>8 DEF Consume, live
  <2>2. e \in Event /\ e = topic[1] /\ 1 \in 1 .. Len(topic)
    BY <1>0, <2>1
  <2>3. e.user \in Users /\ e.active \in BOOLEAN /\ e.key \in Keys \cup {NoKey} /\ Asks(e.active, e.key)
    <3>1. Asks(e.active, e.key)
      BY <1>0, <2>2
    <3> QED BY <2>2, <3>1 DEF Event
  <2> HIDE DEF e
  <2>4. \A v \in Users : KeyTells(rows'[v])
    BY <1>5, <2>1, <2>3
  <2>5. \A i \in 1 .. Len(topic') : Asks(topic'[i].active, topic'[i].key)
    BY <1>7, <2>1
  <2> QED BY <1>0, <1>1, <2>1, <2>4, <2>5
<1>9. CASE DeadLetter
  <2>1. topic # <<>> /\ topic' = Tail(topic) /\ UNCHANGED <<call, rows, redis>>
    BY <1>9 DEF DeadLetter, live, stored
  <2> QED BY <1>0, <1>1, <1>7, <2>1
<1>10. ASSUME NEW u \in Users, ExpireState(u) PROVE KeysTell'
  <2>1. redis' = [redis EXCEPT ![u] = Absent] /\ UNCHANGED <<call, rows, topic>>
    BY <1>10 DEF ExpireState, stored
  <2>2. KeyTells(Absent)
    BY DEF KeyTells, Absent
  <2>3. \A v \in Users : KeyTells(redis'[v])
    BY <1>0, <2>1, <2>2
  <2> QED BY <1>0, <1>1, <2>1, <2>3
<1>11. CASE ExpireCounter
  BY <1>0, <1>1, <1>11 DEF ExpireCounter, stored
<1>12. CASE SetVideo
  BY <1>0, <1>1, <1>12 DEF SetVideo, live, stored
<1>13. CASE UNCHANGED vars
  BY <1>0, <1>1, <1>13 DEF vars
<1> QED BY <1>6, <1>8, <1>9, <1>10, <1>11, <1>12, <1>13 DEF Next
----------------------------------------------------------------------------
(* What the topic leaves of a user.                                        *)

\* What the topic leaves depends on the row only while no event of the user is in it.
LEMMA SettledSame ==
  ASSUME NEW u \in Users, topic' = topic, rows'[u] = rows[u] \/ Pending(u)
  PROVE  (Pending(u)' <=> Pending(u)) /\ (Settled(u)' <=> Settled(u))
<1>1. Pending(u)' <=> Pending(u)
  BY DEF Pending
<1>2. CASE Pending(u)
  BY <1>1, <1>2 DEF Settled
<1>3. CASE ~Pending(u)
  BY <1>1, <1>3 DEF Settled, Active
<1> QED BY <1>1, <1>2, <1>3

\* A new event at the end tells of its user and of no other.
LEMMA SettledAppend ==
  ASSUME TypeOK, NEW e \in Event, topic' = Append(topic, e), rows' = rows, NEW u \in Users
  PROVE  /\ e.user = u => (Settled(u)' <=> e.active)
         /\ e.user # u => (Settled(u)' <=> Settled(u))
<1> DEFINE n == Len(topic)
<1>1. topic \in Seq(Event) /\ n \in Nat
  BY DEF TypeOK
<1>2. Len(topic') = n + 1 /\ topic'[n + 1] = e /\ \A i \in 1 .. n : topic'[i] = topic[i]
  BY <1>1
<1>3. e.active \in BOOLEAN
  BY DEF Event
<1>4. \A i \in 1 .. n + 1 : i \in 1 .. n \/ i = n + 1
  BY <1>1
<1> HIDE DEF n
<1>5. ASSUME e.user = u PROVE Settled(u)' <=> e.active
  <2>1. Pending(u)'
    BY <1>1, <1>2, <1>5 DEF Pending
  <2>2. \A i \in 1 .. n + 1 :
          topic'[i].user = u /\ (\A j \in 1 .. n + 1 : topic'[j].user = u => j <= i) <=> i = n + 1
    BY <1>1, <1>2, <1>5
  <2>3. n + 1 \in 1 .. n + 1
    BY <1>1
  <2>4. Settled(u)' <=> \E i \in 1 .. n + 1 :
          topic'[i].user = u /\ topic'[i].active /\ \A j \in 1 .. n + 1 : topic'[j].user = u => j <= i
    BY <1>2, <2>1 DEF Settled
  <2> QED BY <1>2, <1>3, <2>2, <2>3, <2>4
<1>6. ASSUME e.user # u PROVE Settled(u)' <=> Settled(u)
  <2>1. \A i \in 1 .. n + 1 : topic'[i].user = u <=> i \in 1 .. n /\ topic[i].user = u
    BY <1>1, <1>2, <1>4, <1>6
  <2>2. \A i \in 1 .. n : i \in 1 .. n + 1 /\ topic'[i] = topic[i]
    BY <1>1, <1>2
  <2>3. Pending(u)' <=> Pending(u)
    BY <1>2, <2>1, <2>2 DEF Pending, n
  <2>4. CASE Pending(u)
    <3>1. Settled(u)' <=> \E i \in 1 .. n + 1 :
            topic'[i].user = u /\ topic'[i].active /\ \A j \in 1 .. n + 1 : topic'[j].user = u => j <= i
      BY <1>2, <2>3, <2>4 DEF Settled
    <3>2. Settled(u) <=> \E i \in 1 .. n :
            topic[i].user = u /\ topic[i].active /\ \A j \in 1 .. n : topic[j].user = u => j <= i
      BY <2>4 DEF Settled, n
    <3> QED BY <2>1, <2>2, <3>1, <3>2
  <2>5. CASE ~Pending(u)
    BY <2>3, <2>5 DEF Settled, Active
  <2> QED BY <2>4, <2>5
<1> QED BY <1>5, <1>6

\* The first event leaves the topic: another tells, or the row now holds what it told.
LEMMA SettledTail ==
  ASSUME TypeOK, topic # <<>>, topic' = Tail(topic), NEW u \in Users,
         IF Head(topic).user = u THEN Active(rows'[u]) <=> Head(topic).active ELSE rows'[u] = rows[u]
  PROVE  Settled(u)' <=> Settled(u)
<1> DEFINE n == Len(topic)
           e == Head(topic)
<1>1. topic \in Seq(Event) /\ n \in Nat /\ n >= 1 /\ e = topic[1] /\ e \in Event
  BY DEF TypeOK
<1>2. Len(topic') = n - 1 /\ \A i \in 1 .. n - 1 : topic'[i] = topic[i + 1]
  BY <1>1
<1>3. e.active \in BOOLEAN
  BY <1>1 DEF Event
<1> HIDE DEF n, e
<1>4. \A i \in 1 .. n - 1 : i + 1 \in 1 .. n /\ i + 1 # 1
  BY <1>1
<1>5. \A i \in 1 .. n : i # 1 => i - 1 \in 1 .. n - 1 /\ (i - 1) + 1 = i
  BY <1>1
<1>6. CASE Pending(u)'
  <2>1. Settled(u)' <=> \E i \in 1 .. n - 1 :
          topic'[i].user = u /\ topic'[i].active /\ \A j \in 1 .. n - 1 : topic'[j].user = u => j <= i
    BY <1>2, <1>6 DEF Settled
  <2>2. PICK k \in 1 .. n - 1 : topic[k + 1].user = u
    BY <1>2, <1>6 DEF Pending
  <2>3. Pending(u)
    BY <1>4, <2>2 DEF Pending, n
  <2>4. Settled(u) <=> \E i \in 1 .. n :
          topic[i].user = u /\ topic[i].active /\ \A j \in 1 .. n : topic[j].user = u => j <= i
    BY <2>3 DEF Settled, n
  <2>5. ASSUME NEW i \in 1 .. n - 1
        PROVE  (\A j \in 1 .. n - 1 : topic'[j].user = u => j <= i)
                 <=> (\A j \in 1 .. n : topic[j].user = u => j <= i + 1)
    <3>1. ASSUME \A j \in 1 .. n - 1 : topic'[j].user = u => j <= i, NEW j \in 1 .. n, topic[j].user = u
          PROVE  j <= i + 1
      <4>1. CASE j = 1
        BY <4>1
      <4>2. CASE j # 1
        <5>1. j - 1 \in 1 .. n - 1 /\ topic'[j - 1] = topic[j]
          BY <1>2, <1>5, <4>2
        <5>2. j - 1 <= i
          BY <3>1, <5>1
        <5> QED BY <1>1, <5>2
      <4> QED BY <4>1, <4>2
    <3>2. ASSUME \A j \in 1 .. n : topic[j].user = u => j <= i + 1, NEW j \in 1 .. n - 1, topic'[j].user = u
          PROVE  j <= i
      <4>1. j + 1 \in 1 .. n /\ topic[j + 1].user = u
        BY <1>2, <1>4, <3>2
      <4>2. j + 1 <= i + 1
        BY <3>2, <4>1
      <4> QED BY <1>1, <4>2
    <3> QED BY <3>1, <3>2
  <2>6. ASSUME NEW i \in 1 .. n, \A j \in 1 .. n : topic[j].user = u => j <= i
        PROVE  i # 1
    <3>1. k + 1 \in 1 .. n /\ k + 1 <= i
      BY <1>4, <2>2, <2>6
    <3> QED BY <1>1, <3>1
  <2>7. ASSUME Settled(u)' PROVE Settled(u)
    <3>1. PICK i \in 1 .. n - 1 :
            topic'[i].user = u /\ topic'[i].active /\ \A j \in 1 .. n - 1 : topic'[j].user = u => j <= i
      BY <2>1, <2>7
    <3>2. i + 1 \in 1 .. n /\ topic[i + 1] = topic'[i]
      BY <1>2, <1>4
    <3>3. \A j \in 1 .. n : topic[j].user = u => j <= i + 1
      BY <2>5, <3>1
    <3> QED BY <2>4, <3>1, <3>2, <3>3
  <2>8. ASSUME Settled(u) PROVE Settled(u)'
    <3>1. PICK i \in 1 .. n :
            topic[i].user = u /\ topic[i].active /\ \A j \in 1 .. n : topic[j].user = u => j <= i
      BY <2>4, <2>8
    <3>2. PICK m \in 1 .. n - 1 : m + 1 = i /\ topic'[m] = topic[i]
      BY <1>2, <1>5, <2>6, <3>1
    <3>3. \A j \in 1 .. n - 1 : topic'[j].user = u => j <= m
      BY <2>5, <3>1, <3>2
    <3> QED BY <2>1, <3>1, <3>2, <3>3
  <2> QED BY <2>7, <2>8
<1>7. CASE ~Pending(u)'
  <2>1. Settled(u)' <=> Active(rows'[u])
    BY <1>7 DEF Settled, Active
  <2>2. \A i \in 1 .. n : i # 1 => topic[i].user # u
    <3> SUFFICES ASSUME NEW i \in 1 .. n, i # 1, topic[i].user = u PROVE FALSE
      OBVIOUS
    <3>1. i - 1 \in 1 .. n - 1 /\ topic'[i - 1] = topic[i]
      BY <1>2, <1>5
    <3> QED BY <1>2, <1>7, <3>1 DEF Pending
  <2>3. CASE e.user = u
    <3>1. 1 \in 1 .. n /\ topic[1].user = u /\ topic[1].active = e.active
      BY <1>1, <2>3
    <3>2. Pending(u)
      BY <3>1 DEF Pending, n
    <3>3. \A j \in 1 .. n : topic[j].user = u => j <= 1
      BY <1>1, <2>2
    <3>4. Settled(u) <=> \E i \in 1 .. n :
            topic[i].user = u /\ topic[i].active /\ \A j \in 1 .. n : topic[j].user = u => j <= i
      BY <3>2 DEF Settled, n
    <3>5. Settled(u) <=> e.active
      BY <1>3, <2>2, <3>1, <3>3, <3>4
    <3> QED BY <1>3, <2>1, <2>3, <3>5 DEF e
  <2>4. CASE e.user # u
    <3>1. ~Pending(u)
      BY <1>1, <2>2, <2>4 DEF Pending, n
    <3> QED BY <2>1, <2>4, <3>1 DEF Settled, e
  <2> QED BY <2>3, <2>4
<1> QED BY <1>6, <1>7
----------------------------------------------------------------------------
(* A user stands.                                                          *)

\* A user of whom nothing changes that counts stands as before.
LEMMA UserSame ==
  ASSUME NEW u, UserStands(u), UnsettledOf(u)' = UnsettledOf(u),
         \A c \in UnsettledOf(u) : call'[c].active = call[c].active,
         Active(redis'[u]) <=> Active(redis[u]), Settled(u)' <=> Settled(u)
  PROVE  UserStands(u)'
<1>1. \A c, d \in UnsettledOf(u)' : c = d
  BY DEF UserStands
<1>2. ASSUME NEW c \in UnsettledOf(u)'
      PROVE  Active(redis'[u]) <=> call'[c].active
  <2>1. Active(redis[u]) <=> call[c].active
    BY <1>2, Zenon DEF UserStands
  <2>2. call'[c].active = call[c].active
    BY <1>2
  <2> QED BY <2>1, <2>2, Zenon
<1>3. UnsettledOf(u)' = {} => (Settled(u)' <=> Active(redis'[u]))
  BY Zenon DEF UserStands
<1> QED BY <1>1, <1>2, <1>3, Zenon DEF UserStands, Active

\* The requests of a user that are not settled, when one request changes.
LEMMA UnsettledWhen ==
  ASSUME TypeOK, NEW c \in Callers, NEW d, call' = [call EXCEPT ![c] = d], NEW u
  PROVE  /\ c \in UnsettledOf(u)' <=> d.step \in {"publish", "sync"} /\ d.user = u
         /\ \A e \in Callers \ {c} : call'[e] = call[e] /\ (e \in UnsettledOf(u)' <=> e \in UnsettledOf(u))
         /\ UnsettledOf(u)' \subseteq Callers
<1>1. call \in [Callers -> Call]
  BY DEF TypeOK
<1>2. call'[c] = d /\ \A e \in Callers \ {c} : call'[e] = call[e]
  BY <1>1
<1> QED BY <1>2 DEF UnsettledOf, Unsettled

\* The request of the caller has nothing left to tell MySQL, and the others' stay.
Settles(c) ==
  /\ call'[c].step \notin {"publish", "sync"}
  /\ \A e \in Callers \ {c} : call'[e] = call[e]

\* A request that returns, or has only the score to write, is settled.
LEMMA ReturnSettles ==
  ASSUME TypeOK, NEW c \in Callers, Return(c) \/ \E d : Goto(c, "score", d)
  PROVE  Settles(c)
<1>1. call \in [Callers -> Call]
  BY DEF TypeOK
<1>2. CASE Return(c)
  <2>1. call'[c] = Idle /\ Idle.step = "idle" /\ \A e \in Callers \ {c} : call'[e] = call[e]
    BY <1>1, <1>2 DEF Return, Idle
  <2> QED BY <2>1 DEF Settles
<1>3. CASE \E d : Goto(c, "score", d)
  <2>1. call'[c].step = "score" /\ \A e \in Callers \ {c} : call'[e] = call[e]
    BY <1>1, <1>3 DEF Goto
  <2> QED BY <2>1 DEF Settles
<1> QED BY <1>2, <1>3

\* The unsettled requests of a user are without it from then on.
LEMMA UnsettledReturn ==
  ASSUME NEW c \in Callers, Settles(c), NEW u
  PROVE  UnsettledOf(u)' = UnsettledOf(u) \ {c}
BY DEF Settles, UnsettledOf, Unsettled

\* The others' requests stay, and so do those of a user of whom the request is none.
LEMMA UnsettledSame ==
  ASSUME TypeOK, NEW c \in Callers, NEW u, c \notin UnsettledOf(u), c \notin UnsettledOf(u)',
         \A e \in Callers \ {c} : call'[e] = call[e]
  PROVE  /\ UnsettledOf(u)' = UnsettledOf(u)
         /\ \A e \in UnsettledOf(u) : call'[e].active = call[e].active
BY DEF UnsettledOf, Unsettled

\* A request that starts has told nobody yet.
LEMMA StartStands ==
  ASSUME TypeOK, NEW u \in Users, UserStands(u), NEW c \in Callers,
         NEW v \in Users, NEW active \in BOOLEAN, NEW key \in Keys \cup {NoKey}, Start(c, v, active, key)
  PROVE  UserStands(u)'
<1> DEFINE d == [step |-> "redis", user |-> v, active |-> active, key |-> key, stat |-> likes, delta |-> 0]
<1>1. call' = [call EXCEPT ![c] = d] /\ call[c].step = "idle" /\ UNCHANGED <<topic, rows, redis>>
  BY DEF Start, live, stored
<1>2. d.step = "redis"
  OBVIOUS
<1> HIDE DEF d
<1>3. c \notin UnsettledOf(u) /\ c \notin UnsettledOf(u)'
  BY <1>1, <1>2, UnsettledWhen DEF UnsettledOf, Unsettled
<1>4. UnsettledOf(u) \subseteq Callers
  BY DEF UnsettledOf
<1>5. /\ UnsettledOf(u)' = UnsettledOf(u)
      /\ \A e \in UnsettledOf(u) : call'[e].active = call[e].active
  <2>1. \A e \in Callers \ {c} : call'[e] = call[e]
    BY <1>1 DEF TypeOK
  <2> QED BY <1>3, <2>1, UnsettledSame
<1>6. Settled(u)' <=> Settled(u)
  BY <1>1, SettledSame
<1>7. Active(redis'[u]) <=> Active(redis[u])
  BY <1>1
<1> QED BY <1>1, <1>5, <1>6, <1>7, UserSame

\* The first request that changes what Redis holds of a user is the one that is not settled.
LEMMA SetStateStands ==
  ASSUME TypeOK, NEW u \in Users, u \notin disturbed', UserStands(u), NEW c \in Callers, SetState(c)
  PROVE  UserStands(u)'
<1> DEFINE v == call[c].user
           new == Applied(redis[v], call[c].active, call[c].key)
           delta == Delta(redis[v], new)
<1>1. /\ call[c].step = "redis"
      /\ redis' = [redis EXCEPT ![v] = new]
      /\ UNCHANGED <<topic, rows>>
      /\ IF delta = 0
         THEN Return(c)
         ELSE /\ Goto(c, "publish", delta)
              /\ Disturb({w \in {v} : \E d \in Callers \ {c} : call[d].user = v /\ Unsettled(d)})
  BY DEF SetState, stored
<1>2. /\ v \in Users /\ call[c].active \in BOOLEAN /\ call[c].key \in Keys \cup {NoKey}
      /\ redis \in [Users -> State]
  BY <1>1, CallTyped DEF TypeOK
<1>3. c \notin UnsettledOf(u) /\ UnsettledOf(u) \subseteq Callers
  BY <1>1 DEF UnsettledOf, Unsettled
<1>4. Settled(u)' <=> Settled(u)
  BY <1>1, SettledSame
<1>6. redis'[v] = new /\ \A w \in Users : w # v => redis'[w] = redis[w]
  BY <1>1, <1>2
<1>7. CASE delta = 0
  <2>1. Active(new) <=> Active(redis[v])
    BY <1>7 DEF Delta, Active
  <2>2. Active(redis'[u]) <=> Active(redis[u])
    BY <1>6, <2>1, Zenon
  <2>3. Settles(c)
    BY <1>1, <1>7, ReturnSettles
  <2>4. /\ UnsettledOf(u)' = UnsettledOf(u)
        /\ \A e \in UnsettledOf(u) : call'[e].active = call[e].active
    BY <1>3, <2>3, UnsettledReturn DEF Settles, UnsettledOf
  <2> QED BY <1>4, <2>2, <2>4, UserSame
<1>8. CASE delta # 0
  <2> DEFINE d == [step |-> "publish", user |-> v, active |-> call[c].active,
                   key |-> call[c].key, stat |-> call[c].stat, delta |-> delta]
  <2>1. call' = [call EXCEPT ![c] = d]
    BY <1>1, <1>8 DEF Goto
  <2>2. d.step = "publish" /\ d.user = v /\ d.active = call[c].active /\ d.delta = delta
    OBVIOUS
  <2> HIDE DEF d, delta
  <2>3. CASE u # v
    <3>1. c \notin UnsettledOf(u)'
      BY <2>1, <2>2, <2>3, UnsettledWhen
    <3>2. /\ UnsettledOf(u)' = UnsettledOf(u)
          /\ \A e \in UnsettledOf(u) : call'[e].active = call[e].active
      <4>1. \A e \in Callers \ {c} : call'[e] = call[e]
        BY <2>1 DEF TypeOK
      <4> QED BY <1>3, <3>1, <4>1, UnsettledSame
    <3>3. Active(redis'[u]) <=> Active(redis[u])
      BY <1>6, <2>3
    <3> QED BY <1>4, <3>2, <3>3, UserSame
  <2>4. CASE u = v
    <3>1. \A e \in Callers \ {c} : ~(call[e].user = u /\ Unsettled(e))
      BY <1>1, <1>8, <2>4 DEF Disturb
    <3>2. UnsettledOf(u) = {}
      BY <1>3, <3>1 DEF UnsettledOf
    <3>3. UnsettledOf(u)' = {c}
      <4>1. call'[c] = d /\ \A e \in Callers \ {c} : call'[e] = call[e]
        BY <2>1 DEF TypeOK
      <4> QED BY <2>2, <2>4, <3>2, <4>1 DEF UnsettledOf, Unsettled
    <3>4. call'[c].active = call[c].active
      BY <2>1, <2>2 DEF TypeOK
    <3>5. Active(new) <=> call[c].active
      <4>1. new # redis[u]
        BY <1>8, <2>4 DEF delta, Delta, Active
      <4>2. new = [status |-> IF call[c].active THEN "active" ELSE "canceled", key |-> call[c].key]
        BY <2>4, <4>1 DEF Applied
      <4> QED BY <1>2, <4>2 DEF Active
    <3>6. Active(redis'[u]) <=> call'[c].active
      BY <1>6, <2>4, <3>4, <3>5, Zenon
    <3> HIDE DEF v, new
    <3> QED BY <3>3, <3>6, Zenon DEF UserStands, Active
  <2> QED BY <2>3, <2>4
<1> QED BY <1>7, <1>8

\* What a request that settles leaves is what it asks for.
LEMMA SettlesStands ==
  ASSUME NEW u \in Users, NEW c \in UnsettledOf(u), UserStands(u), Settles(c),
         redis' = redis, Settled(u)' <=> call[c].active
  PROVE  UserStands(u)'
<1>1. UnsettledOf(u) = {c} /\ c \in Callers
  BY DEF UserStands, UnsettledOf
<1>2. UnsettledOf(u)' = {}
  BY <1>1, UnsettledReturn
<1>3. Active(redis[u]) <=> call[c].active
  BY Zenon DEF UserStands
<1>4. Settled(u)' <=> Active(redis'[u])
  BY <1>3, Zenon
<1> QED BY <1>2, <1>4, Zenon DEF UserStands, Active

\* The request of another user settles, or one that has nothing to settle.
LEMMA OtherSettles ==
  ASSUME TypeOK, NEW u \in Users, UserStands(u), NEW c \in Callers, c \notin UnsettledOf(u), Settles(c),
         redis' = redis, Settled(u)' <=> Settled(u)
  PROVE  UserStands(u)'
<1>1. c \notin UnsettledOf(u)' /\ \A e \in Callers \ {c} : call'[e] = call[e]
  BY UnsettledReturn DEF Settles
<1>2. /\ UnsettledOf(u)' = UnsettledOf(u)
      /\ \A e \in UnsettledOf(u) : call'[e].active = call[e].active
  BY <1>1, UnsettledSame
<1>3. Active(redis'[u]) <=> Active(redis[u])
  OBVIOUS
<1> QED BY <1>2, <1>3, UserSame

\* The event that is published tells what Redis holds.
LEMMA PublishStands ==
  ASSUME TypeOK, NEW u \in Users, UserStands(u), NEW c \in Callers, Publish(c)
  PROVE  UserStands(u)'
<1> DEFINE v == call[c].user
           e == EventOf(c)
<1>1. /\ call[c].step = "publish" /\ topic' = Append(topic, e) /\ Settles(c)
      /\ redis' = redis /\ rows' = rows
  BY ReturnSettles DEF Publish, live, stored
<1>2. v \in Users /\ e \in Event /\ e.user = v /\ e.active = call[c].active
  BY <1>1, CallTyped DEF EventOf, Event
<1>3. /\ v = u => (Settled(u)' <=> call[c].active)
      /\ v # u => (Settled(u)' <=> Settled(u))
  <2> HIDE DEF e
  <2> QED BY <1>1, <1>2, SettledAppend
<1>4. CASE v = u
  <2>1. c \in UnsettledOf(u)
    BY <1>1, <1>4 DEF UnsettledOf, Unsettled
  <2> QED BY <1>1, <1>3, <1>4, <2>1, SettlesStands
<1>5. CASE v # u
  <2>1. c \notin UnsettledOf(u)
    BY <1>5 DEF UnsettledOf
  <2> QED BY <1>1, <1>3, <1>5, <2>1, OtherSettles
<1> QED BY <1>4, <1>5

\* A request whose publish reports an error is as unsettled as before, wherever its event is.
LEMMA PublishFailsStands ==
  ASSUME TypeOK, NEW u \in Users, UserStands(u), NEW c \in Callers, PublishFails(c)
  PROVE  UserStands(u)'
<1> DEFINE d == [step |-> "sync", user |-> call[c].user, active |-> call[c].active,
                 key |-> call[c].key, stat |-> call[c].stat, delta |-> call[c].delta]
           e == EventOf(c)
<1>1. /\ call[c].step = "publish" /\ call' = [call EXCEPT ![c] = d] /\ UNCHANGED <<rows, redis>>
      /\ topic' \in {topic, Append(topic, e)}
  BY DEF PublishFails, Goto, live, stored
<1>2. /\ call'[c].step = "sync" /\ call'[c].user = call[c].user /\ call'[c].active = call[c].active
      /\ \A f \in Callers \ {c} : call'[f] = call[f]
  BY <1>1 DEF TypeOK
<1>3. UnsettledOf(u)' = UnsettledOf(u)
  BY <1>1, <1>2 DEF UnsettledOf, Unsettled
<1>4. \A f \in UnsettledOf(u) : call'[f].active = call[f].active
  BY <1>2 DEF UnsettledOf
<1>5. Active(redis'[u]) <=> Active(redis[u])
  BY <1>1
<1>6. CASE call[c].user = u
  <2>1. c \in UnsettledOf(u) /\ UnsettledOf(u) # {}
    BY <1>1, <1>6 DEF UnsettledOf, Unsettled
  <2>2. \A f, g \in UnsettledOf(u)' : f = g
    BY <1>3 DEF UserStands
  <2>3. ASSUME NEW f \in UnsettledOf(u)' PROVE Active(redis'[u]) <=> call'[f].active
    <3>1. Active(redis[u]) <=> call[f].active
      BY <1>3, <2>3, Zenon DEF UserStands
    <3> QED BY <1>3, <1>4, <1>5, <3>1, Zenon
  <2> QED BY <1>3, <2>1, <2>2, <2>3, Zenon DEF UserStands, Active
<1>7. CASE call[c].user # u
  <2>1. e \in Event /\ e.user # u
    BY <1>1, <1>7, CallTyped DEF EventOf, Event
  <2>2. Settled(u)' <=> Settled(u)
    <3> HIDE DEF e
    <3>1. CASE topic' = topic
      BY <1>1, <3>1, SettledSame
    <3>2. CASE topic' = Append(topic, e)
      BY <1>1, <2>1, <3>2, SettledAppend
    <3> QED BY <1>1, <3>1, <3>2
  <2> QED BY <1>3, <1>4, <1>5, <2>2, UserSame
<1> QED BY <1>6, <1>7

\* The synchronous write settles a user of whom no event is on its way.
LEMMA SyncStands ==
  ASSUME TypeOK, KeysTell, NEW u \in Users, u \notin disturbed', UserStands(u), NEW c \in Callers, SetActionSync(c)
  PROVE  UserStands(u)'
<1> DEFINE v == call[c].user
           new == Applied(rows[v], call[c].active, call[c].key)
<1>1. /\ call[c].step = "sync"
      /\ rows' = [rows EXCEPT ![v] = new]
      /\ Disturb({w \in {v} : Pending(v)})
      /\ redis' = redis /\ topic' = topic
  BY DEF SetActionSync, Store, live
<1>2. Settles(c)
  <2>1. Return(c) \/ \E d : Goto(c, "score", d)
    BY Zenon DEF SetActionSync
  <2> QED BY <2>1, ReturnSettles
<1>3. /\ v \in Users /\ call[c].active \in BOOLEAN /\ call[c].key \in Keys \cup {NoKey}
      /\ rows \in [Users -> State]
  BY <1>1, CallTyped DEF TypeOK
<1>4. CASE v = u
  <2>1. c \in UnsettledOf(u)
    BY <1>1, <1>4 DEF UnsettledOf, Unsettled
  <2>2. ~Pending(u)
    BY <1>1, <1>4 DEF Disturb
  <2>3. Active(new) <=> call[c].active
    <3>1. rows[v] \in State /\ KeyTells(rows[v]) /\ Asks(call[c].active, call[c].key)
      BY <1>1, <1>3 DEF KeysTell, Asks
    <3> QED BY <1>3, <3>1, AppliedAsks
  <2> HIDE DEF new
  <2>4. Settled(u)' <=> call[c].active
    <3>1. rows'[u] = new
      BY <1>1, <1>3, <1>4
    <3>2. ~Pending(u)'
      BY <1>1, <2>2 DEF Pending
    <3> QED BY <2>3, <3>1, <3>2 DEF Settled, Active
  <2> QED BY <1>1, <1>2, <2>1, <2>4, SettlesStands
<1>5. CASE v # u
  <2> HIDE DEF new
  <2>1. c \notin UnsettledOf(u)
    BY <1>5 DEF UnsettledOf
  <2>2. rows'[u] = rows[u]
    BY <1>1, <1>3, <1>5
  <2>3. Settled(u)' <=> Settled(u)
    BY <1>1, <2>2, SettledSame
  <2> QED BY <1>1, <1>2, <2>1, <2>3, OtherSettles
<1> QED BY <1>4, <1>5

\* A request that has only the score to write is settled; one that ends early disturbs its user,
\* or has told nobody yet.
LEMMA EndStands ==
  ASSUME TypeOK, NEW u \in Users, u \notin disturbed', UserStands(u), NEW c \in Callers, Score(c) \/ Abort(c)
  PROVE  UserStands(u)'
<1>1. Return(c) /\ UNCHANGED <<topic, rows, redis>>
  BY DEF Score, Abort, live, stored
<1>2. c \notin UnsettledOf(u)
  BY DEF Score, Abort, Disturb, UnsettledOf, Unsettled
<1>3. Settled(u)' <=> Settled(u)
  BY <1>1, SettledSame
<1>4. Settles(c)
  BY <1>1, ReturnSettles
<1> QED BY <1>1, <1>2, <1>3, <1>4, OtherSettles

\* Nothing changes of the requests and of Redis.
LEMMA QuietStands ==
  ASSUME NEW u \in Users, UserStands(u), UNCHANGED call,
         Active(redis'[u]) <=> Active(redis[u]), Settled(u)' <=> Settled(u)
  PROVE  UserStands(u)'
<1>1. UnsettledOf(u)' = UnsettledOf(u)
  BY DEF UnsettledOf, Unsettled
<1>2. \A e \in UnsettledOf(u) : call'[e].active = call[e].active
  OBVIOUS
<1> QED BY <1>1, <1>2, UserSame

\* The event that the worker applies is told by the topic before and by the row after.
LEMMA ConsumeStands ==
  ASSUME TypeOK, KeysTell, NEW u \in Users, UserStands(u), Consume
  PROVE  UserStands(u)'
<1> DEFINE e == Head(topic)
           new == Applied(rows[e.user], e.active, e.key)
<1>1. /\ topic # <<>> /\ topic' \in {topic, Tail(topic)} /\ UNCHANGED <<call, redis>>
      /\ rows' = [rows EXCEPT ![e.user] = new]
  BY DEF Consume, Store, live
<1>2. /\ topic \in Seq(Event) /\ rows \in [Users -> State]
      /\ e \in Event /\ e = topic[1] /\ 1 \in 1 .. Len(topic)
  BY <1>1 DEF TypeOK
<1> HIDE DEF e
<1>3. e.user \in Users /\ e.active \in BOOLEAN /\ e.key \in Keys \cup {NoKey}
  BY <1>2 DEF Event
<1>4. Active(new) <=> e.active
  <2>1. rows[e.user] \in State /\ KeyTells(rows[e.user]) /\ Asks(e.active, e.key)
    BY <1>2, <1>3 DEF KeysTell, Asks
  <2> QED BY <1>3, <2>1, AppliedAsks
<1> HIDE DEF new
<1>5. IF e.user = u THEN rows'[u] = new ELSE rows'[u] = rows[u]
  BY <1>1, <1>2, <1>3
<1>6. Settled(u)' <=> Settled(u)
  <2>1. CASE topic' = topic
    <3>1. e.user = u => Pending(u)
      BY <1>2 DEF Pending
    <3> QED BY <1>5, <2>1, <3>1, SettledSame
  <2>2. CASE topic' = Tail(topic)
    <3>1. IF Head(topic).user = u THEN Active(rows'[u]) <=> Head(topic).active ELSE rows'[u] = rows[u]
      BY <1>4, <1>5, Zenon DEF e
    <3> QED BY <1>1, <2>2, <3>1, SettledTail
  <2> QED BY <1>1, <2>1, <2>2
<1>7. Active(redis'[u]) <=> Active(redis[u])
  BY <1>1
<1> QED BY <1>1, <1>6, <1>7, QuietStands

\* Every step keeps the users that it does not disturb.
LEMMA UsersStep ==
  ASSUME TypeOK, KeysTell, \A u \in Users \ disturbed : UserStands(u), [Next]_vars
  PROVE  \A u \in Users \ disturbed' : UserStands(u)'
<1> SUFFICES ASSUME NEW u \in Users, u \notin disturbed' PROVE UserStands(u)'
  OBVIOUS
<1>1. u \notin disturbed
  BY DEF Next, RequestStep, Start, SetState, Publish, PublishFails, SetActionSync, Score, Abort, Consume, DeadLetter,
         ExpireState, ExpireCounter, SetVideo, Disturb, vars
<1>2. UserStands(u)
  BY <1>1
<1>3. ASSUME NEW c \in Callers, RequestStep(c) PROVE UserStands(u)'
  BY <1>2, <1>3, StartStands, SetStateStands, PublishStands, PublishFailsStands, SyncStands, EndStands
  DEF RequestStep
<1>4. CASE Consume
  BY <1>2, <1>4, ConsumeStands
<1>5. CASE DeadLetter
  <2>1. /\ topic # <<>> /\ topic' = Tail(topic) /\ UNCHANGED <<call, rows, redis>>
        /\ Head(topic).user # u
    BY <1>5 DEF DeadLetter, Disturb, live, stored
  <2>2. Settled(u)' <=> Settled(u)
    BY <2>1, SettledTail
  <2> QED BY <1>2, <2>1, <2>2, QuietStands
<1>6. ASSUME NEW v \in Users, ExpireState(v) PROVE UserStands(u)'
  <2>1. /\ redis' = [redis EXCEPT ![v] = Absent] /\ UNCHANGED <<call, topic, rows>>
        /\ v = u => ~Active(redis[u])
    BY <1>6 DEF ExpireState, Disturb, stored
  <2>2. ~Active(Absent) /\ redis \in [Users -> State]
    BY DEF Active, Absent, TypeOK
  <2>3. Active(redis'[u]) <=> Active(redis[u])
    <3>1. CASE v = u
      <4>1. redis'[u] = Absent
        BY <2>1, <2>2, <3>1
      <4> QED BY <2>1, <2>2, <3>1, <4>1
    <3>2. CASE v # u
      BY <2>1, <2>2, <3>2
    <3> QED BY <3>1, <3>2
  <2>4. Settled(u)' <=> Settled(u)
    BY <2>1, SettledSame
  <2> QED BY <1>2, <2>1, <2>3, <2>4, QuietStands
<1>7. ASSUME UNCHANGED <<call, topic, rows, redis>> PROVE UserStands(u)'
  <2>1. Settled(u)' <=> Settled(u)
    BY <1>7, SettledSame
  <2>2. Active(redis'[u]) <=> Active(redis[u])
    BY <1>7
  <2> QED BY <1>2, <1>7, <2>1, <2>2, QuietStands
<1>8. ExpireCounter \/ SetVideo \/ UNCHANGED vars => UNCHANGED <<call, topic, rows, redis>>
  BY DEF ExpireCounter, SetVideo, vars, live, stored
<1> QED BY <1>3, <1>4, <1>5, <1>6, <1>7, <1>8 DEF Next
----------------------------------------------------------------------------
(* The hot rank.                                                           *)

\* Nothing changes of what the requests owe, of the hot rank and of Redis.
LEMMA ScoreSame ==
  ASSUME NEW u, ScoreStands(u), Owing(u)' = Owing(u), hot'[u] = hot[u], Active(redis'[u]) <=> Active(redis[u])
  PROVE  ScoreStands(u)'
<1>1. SumFunction(Owing(u))' = SumFunction(Owing(u)')
  OBVIOUS
<1> QED BY <1>1, Zenon DEF ScoreStands, Active

\* One request owes more or less.
LEMMA OneOwes ==
  ASSUME NEW f \in [Callers -> Int], NEW c \in Callers, NEW n \in Int
  PROVE  /\ SumFunction(f) \in Int
         /\ SumFunction([f EXCEPT ![c] = @ + n]) = SumFunction(f) + n
<1> DEFINE e == [f EXCEPT ![c] = @ + n]
<1>1. IsFiniteSet(Callers) /\ f \in [Callers -> Int] /\ c \in Callers /\ n \in Int
  BY ConstantsAssumption
<1>2. SumFunction(f) \in Int /\ SumFunction(e) = SumFunction(f) + n
  BY <1>1, SumChanges
<1> QED BY <1>2

\* Redis or the hot rank is told by as much as a request owes more or less.
LEMMA ScoreMoves ==
  ASSUME TypeOK, NEW u \in Users, ScoreStands(u), NEW c \in Callers, NEW d \in Int,
         Owing(u)' = [Owing(u) EXCEPT ![c] = @ + d],
         hot'[u] + d + (IF Active(redis[u]) THEN 1 ELSE 0) = hot[u] + IF Active(redis'[u]) THEN 1 ELSE 0,
         hot'[u] \in Int
  PROVE  ScoreStands(u)'
<1>1. Owing(u) \in [Callers -> Int] /\ IsFiniteSet(Callers) /\ hot[u] \in Int
  BY OwingTyped, ConstantsAssumption DEF TypeOK
<1>2. SumFunction(Owing(u)) \in Int /\ SumFunction(Owing(u)') = SumFunction(Owing(u)) + d
  <2>1. PICK f : f = Owing(u)
    OBVIOUS
  <2> DEFINE e == [f EXCEPT ![c] = @ + d]
  <2>2. f \in [Callers -> Int] /\ Owing(u)' = e
    BY <1>1, <2>1
  <2>3. SumFunction(f) \in Int /\ SumFunction(e) = SumFunction(f) + d
    BY <2>2, OneOwes
  <2> HIDE DEF e
  <2> QED BY <2>1, <2>2, <2>3, Zenon
<1>3. PICK now, next \in {0, 1} :
        /\ now = IF Active(redis[u]) THEN 1 ELSE 0
        /\ next = IF Active(redis'[u]) THEN 1 ELSE 0
  OBVIOUS
<1>4. hot[u] + SumFunction(Owing(u)) = now
  BY <1>3 DEF ScoreStands
<1>5. hot'[u] + d + now = hot[u] + next
  BY <1>3
<1>6. hot'[u] + SumFunction(Owing(u)') = next
  BY <1>1, <1>2, <1>4, <1>5
<1>7. SumFunction(Owing(u))' = SumFunction(Owing(u)')
  OBVIOUS
<1> QED BY <1>3, <1>6, <1>7 DEF ScoreStands, Active

Owes(d, u) == IF d.user = u /\ d.step \in {"publish", "sync", "score"} THEN d.delta ELSE 0

\* What is owed when one request changes.
LEMMA OwingWhen ==
  ASSUME TypeOK, NEW c \in Callers, NEW d, call' = [call EXCEPT ![c] = d], NEW u, Owes(d, u) \in Int
  PROVE  /\ Owes(call[c], u) \in Int
         /\ Owing(u)' = [Owing(u) EXCEPT ![c] = @ + (Owes(d, u) - Owes(call[c], u))]
<1>1. call'[c] = d /\ \A e \in Callers \ {c} : call'[e] = call[e]
  BY DEF TypeOK
<1>2. Owing(u)[c] = Owes(call[c], u) /\ Owing(u)[c] \in Int
  BY OwingTyped DEF Owing, Owes
<1>3. Owing(u)'[c] = Owes(d, u) /\ \A e \in Callers \ {c} : Owing(u)'[e] = Owing(u)[e]
  BY <1>1 DEF Owing, Owes
<1>4. DOMAIN Owing(u) = Callers /\ DOMAIN Owing(u)' = Callers /\ Owing(u)' = [e \in Callers |-> Owing(u)'[e]]
  BY DEF Owing
<1>5. Owing(u)[c] + (Owes(d, u) - Owes(call[c], u)) = Owes(d, u)
  BY <1>2
<1> QED BY <1>2, <1>3, <1>4, <1>5

\* A request moves on and owes as much as before.
LEMMA OwingKept ==
  ASSUME TypeOK, NEW c \in Callers, NEW d, call' = [call EXCEPT ![c] = d], NEW u, Owes(d, u) = Owes(call[c], u)
  PROVE  Owing(u)' = Owing(u)
<1>1. call'[c] = d /\ \A e \in Callers \ {c} : call'[e] = call[e]
  BY DEF TypeOK
<1>2. \A e \in Callers : Owes(call'[e], u) = Owes(call[e], u)
  BY <1>1
<1>3. Owing(u) = [e \in Callers |-> Owes(call[e], u)] /\ Owing(u)' = [e \in Callers |-> Owes(call'[e], u)]
  BY DEF Owing, Owes
<1> QED BY <1>2, <1>3

\* A request of another user owes nothing, nor does one that returns.
LEMMA OwesNothing ==
  ASSUME NEW u
  PROVE  /\ Owes(Idle, u) = 0
         /\ \A d : d.user # u => Owes(d, u) = 0
         /\ \A d : d.step = "redis" \/ d.step = "idle" => Owes(d, u) = 0
BY DEF Owes, Idle

\* A request tells Redis, and owes the hot rank what has changed there.
LEMMA SetStateScores ==
  ASSUME TypeOK, NEW u \in Users, ScoreStands(u), NEW c \in Callers, SetState(c)
  PROVE  ScoreStands(u)'
<1> DEFINE v == call[c].user
           new == Applied(redis[v], call[c].active, call[c].key)
           delta == Delta(redis[v], new)
           d == [step |-> "publish", user |-> v, active |-> call[c].active,
                 key |-> call[c].key, stat |-> call[c].stat, delta |-> delta]
<1>1. /\ call[c].step = "redis" /\ redis' = [redis EXCEPT ![v] = new] /\ hot' = hot
      /\ call' = [call EXCEPT ![c] = IF delta = 0 THEN Idle ELSE d]
  BY DEF SetState, Goto, Return, ranked
<1>2. v \in Users /\ redis \in [Users -> State] /\ hot[u] \in Int /\ delta \in {-1, 0, 1}
  BY <1>1, CallTyped, DeltaRange DEF TypeOK
<1>3. redis'[v] = new /\ \A w \in Users : w # v => redis'[w] = redis[w]
  BY <1>1, <1>2
<1>4. Owes(call[c], u) = 0
  BY <1>1, OwesNothing
<1>5. d.user = v /\ d.step = "publish" /\ d.delta = delta
  OBVIOUS
<1>6. delta = (IF Active(new) THEN 1 ELSE 0) - (IF Active(redis[v]) THEN 1 ELSE 0)
  BY DEF Delta, Active
<1>7. PICK f : f = IF delta = 0 THEN Idle ELSE d
  OBVIOUS
<1> HIDE DEF delta, new, d
<1>8. Owes(f, u) = IF v = u THEN delta ELSE 0
  BY <1>5, <1>7, OwesNothing DEF Owes
<1>9. CASE v = u
  <2>1. Owing(u)' = [Owing(u) EXCEPT ![c] = @ + delta]
    <3>1. Owes(f, u) = delta /\ delta - Owes(call[c], u) = delta /\ Owes(f, u) \in Int
      BY <1>2, <1>4, <1>8, <1>9
    <3>2. Owing(u)' = [Owing(u) EXCEPT ![c] = @ + (Owes(f, u) - Owes(call[c], u))]
      BY <1>1, <1>7, <3>1, OwingWhen
    <3> QED BY <3>1, <3>2
  <2>2. hot'[u] + delta + (IF Active(redis[u]) THEN 1 ELSE 0) = hot[u] + IF Active(redis'[u]) THEN 1 ELSE 0
    BY <1>1, <1>2, <1>3, <1>6, <1>9
  <2> QED BY <1>1, <1>2, <2>1, <2>2, ScoreMoves
<1>10. CASE v # u
  <2>1. Owing(u)' = Owing(u)
    BY <1>1, <1>4, <1>7, <1>8, <1>10, OwingKept
  <2>2. Active(redis'[u]) <=> Active(redis[u])
    BY <1>3, <1>10
  <2> QED BY <1>1, <2>1, <2>2, ScoreSame
<1> QED BY <1>9, <1>10

\* The synchronous write owes what it changed, or the hot rank misses a change.
LEMMA SyncScores ==
  ASSUME TypeOK, NEW u \in Users, u \notin unscored', ScoreStands(u), NEW c \in Callers, SetActionSync(c)
  PROVE  ScoreStands(u)'
<1> DEFINE v == call[c].user
           delta == Delta(rows[v], Applied(rows[v], call[c].active, call[c].key))
           d == [step |-> "score", user |-> v, active |-> call[c].active,
                 key |-> call[c].key, stat |-> call[c].stat, delta |-> delta]
<1>1. /\ call[c].step = "sync" /\ UNCHANGED <<redis, hot>>
      /\ call' = [call EXCEPT ![c] = IF delta = 0 THEN Idle ELSE d]
      /\ Miss({w \in {v} : delta # call[c].delta})
  BY DEF SetActionSync, Goto, Return, live
<1>2. d.user = v /\ d.step = "score" /\ d.delta = delta
  OBVIOUS
<1>3. v = u => delta = call[c].delta
  BY <1>1 DEF Miss
<1>4. PICK f : f = IF delta = 0 THEN Idle ELSE d
  OBVIOUS
<1> HIDE DEF delta, d
<1>5. Owes(f, u) = IF v = u THEN delta ELSE 0
  BY <1>2, <1>4, OwesNothing DEF Owes
<1>6. Owes(call[c], u) = IF v = u THEN call[c].delta ELSE 0
  BY <1>1 DEF Owes
<1>7. Owing(u)' = Owing(u)
  BY <1>1, <1>3, <1>4, <1>5, <1>6, OwingKept
<1>8. Active(redis'[u]) <=> Active(redis[u])
  BY <1>1
<1> QED BY <1>1, <1>7, <1>8, ScoreSame

\* The score is written, or the hot rank misses a change.
LEMMA ScoreScores ==
  ASSUME TypeOK, NEW u \in Users, u \notin unscored', ScoreStands(u), NEW c \in Callers, Score(c)
  PROVE  ScoreStands(u)'
<1> DEFINE v == call[c].user
<1>1. /\ call[c].step = "score" /\ redis' = redis
      /\ call' = [call EXCEPT ![c] = Idle]
      /\ hot' = [hot EXCEPT ![v] = @ + call[c].delta] \/ (Miss({v}) /\ hot' = hot)
  BY DEF Score, Return, live
<1>2. v \in Users /\ hot \in [Users -> Int] /\ call[c].delta \in {-1, 0, 1}
  BY <1>1, CallTyped DEF TypeOK
<1>3. Active(redis'[u]) <=> Active(redis[u])
  BY <1>1
<1>4. PICK f : f = Idle
  OBVIOUS
<1>5. Owes(f, u) = 0
  BY <1>4, OwesNothing
<1>6. CASE v = u
  <2>1. hot'[u] = hot[u] + call[c].delta
    BY <1>1, <1>2, <1>6 DEF Miss
  <2>2. Owes(call[c], u) = call[c].delta
    BY <1>1, <1>6 DEF Owes
  <2>3. PICK d \in Int : d = 0 - call[c].delta
    BY <1>2
  <2>4. Owing(u)' = [Owing(u) EXCEPT ![c] = @ + d]
    <3>1. Owing(u)' = [Owing(u) EXCEPT ![c] = @ + (Owes(f, u) - Owes(call[c], u))]
      <4>1. call' = [call EXCEPT ![c] = f] /\ Owes(f, u) \in Int
        BY <1>1, <1>4, <1>5
      <4> QED BY <4>1, OwingWhen
    <3>2. Owes(f, u) - Owes(call[c], u) = d
      BY <1>2, <1>5, <2>2, <2>3
    <3> QED BY <3>1, <3>2, Zenon
  <2>5. hot'[u] + d = hot[u] /\ hot'[u] \in Int
    BY <1>2, <2>1, <2>3
  <2>6. hot'[u] + d + (IF Active(redis[u]) THEN 1 ELSE 0) = hot[u] + IF Active(redis'[u]) THEN 1 ELSE 0
    BY <1>3, <2>5
  <2> QED BY <2>4, <2>5, <2>6, ScoreMoves
<1>7. CASE v # u
  <2>1. hot'[u] = hot[u]
    BY <1>1, <1>2, <1>7
  <2>2. Owes(call[c], u) = 0
    BY <1>7, OwesNothing
  <2>3. Owing(u)' = Owing(u)
    BY <1>1, <1>4, <1>5, <2>2, OwingKept
  <2> QED BY <1>3, <2>1, <2>3, ScoreSame
<1> QED BY <1>6, <1>7

\* A request that starts, publishes or ends early owes as much as before, or the hot rank misses it.
LEMMA OtherScores ==
  ASSUME TypeOK, NEW u \in Users, u \notin unscored', ScoreStands(u), NEW c \in Callers,
         \/ \E v \in Users, active \in BOOLEAN, key \in Keys \cup {NoKey} : Start(c, v, active, key)
         \/ Publish(c) \/ PublishFails(c) \/ Abort(c)
  PROVE  ScoreStands(u)'
<1>1. UNCHANGED <<redis, hot>>
  BY DEF Start, Publish, PublishFails, Abort, live, ranked
<1>2. \E f : call' = [call EXCEPT ![c] = f] /\ Owes(f, u) = Owes(call[c], u)
  <2>1. ASSUME NEW v \in Users, NEW active \in BOOLEAN, NEW key \in Keys \cup {NoKey}, Start(c, v, active, key)
        PROVE  \E f : call' = [call EXCEPT ![c] = f] /\ Owes(f, u) = Owes(call[c], u)
    <3> DEFINE d == [step |-> "redis", user |-> v, active |-> active, key |-> key, stat |-> likes, delta |-> 0]
    <3>1. call' = [call EXCEPT ![c] = d] /\ call[c].step = "idle" /\ d.step = "redis"
      BY <2>1 DEF Start
    <3> HIDE DEF d
    <3>2. Owes(d, u) = 0 /\ Owes(call[c], u) = 0
      BY <3>1, OwesNothing
    <3> QED BY <3>1, <3>2
  <2>2. ASSUME NEW step \in {"sync", "score"}, call[c].step = "publish", Goto(c, step, call[c].delta)
        PROVE  \E f : call' = [call EXCEPT ![c] = f] /\ Owes(f, u) = Owes(call[c], u)
    <3> DEFINE d == [step |-> step, user |-> call[c].user, active |-> call[c].active,
                     key |-> call[c].key, stat |-> call[c].stat, delta |-> call[c].delta]
    <3>1. call' = [call EXCEPT ![c] = d] /\ d.step = step /\ d.user = call[c].user /\ d.delta = call[c].delta
      BY <2>2 DEF Goto
    <3> HIDE DEF d
    <3>2. Owes(d, u) = Owes(call[c], u)
      BY <2>2, <3>1 DEF Owes
    <3> QED BY <3>1, <3>2
  <2>3. ASSUME Abort(c)
        PROVE  \E f : call' = [call EXCEPT ![c] = f] /\ Owes(f, u) = Owes(call[c], u)
    <3>1. /\ call' = [call EXCEPT ![c] = Idle]
          /\ Miss({v \in {call[c].user} : call[c].step # "redis"})
      BY <2>3 DEF Abort, Return
    <3>2. call[c].step = "redis" \/ call[c].user # u
      BY <3>1 DEF Miss
    <3>3. Owes(Idle, u) = 0 /\ Owes(call[c], u) = 0
      BY <3>2, OwesNothing
    <3> QED BY <3>1, <3>3
  <2> QED BY <2>1, <2>2, <2>3 DEF Publish, PublishFails
<1>3. PICK f : call' = [call EXCEPT ![c] = f] /\ Owes(f, u) = Owes(call[c], u)
  BY <1>2
<1>4. Owing(u)' = Owing(u)
  BY <1>3, OwingKept
<1>5. Active(redis'[u]) <=> Active(redis[u])
  BY <1>1
<1> QED BY <1>1, <1>4, <1>5, ScoreSame

\* Every step keeps the users of whom the hot rank misses nothing.
LEMMA ScoresStep ==
  ASSUME TypeOK, \A u \in Users \ unscored : ScoreStands(u), [Next]_vars
  PROVE  \A u \in Users \ unscored' : ScoreStands(u)'
<1> SUFFICES ASSUME NEW u \in Users, u \notin unscored' PROVE ScoreStands(u)'
  OBVIOUS
<1>1. u \notin unscored
  BY DEF Next, RequestStep, Start, SetState, Publish, PublishFails, SetActionSync, Score, Abort, Consume, DeadLetter,
         ExpireState, ExpireCounter, SetVideo, Miss, ranked, vars
<1>2. ScoreStands(u)
  BY <1>1
<1>3. ASSUME NEW c \in Callers, RequestStep(c) PROVE ScoreStands(u)'
  BY <1>2, <1>3, SetStateScores, SyncScores, ScoreScores, OtherScores DEF RequestStep
<1>4. ASSUME UNCHANGED <<call, hot>>, Active(redis'[u]) <=> Active(redis[u]) PROVE ScoreStands(u)'
  <2>1. Owing(u)' = Owing(u)
    BY <1>4 DEF Owing
  <2> QED BY <1>2, <1>4, <2>1, ScoreSame
<1>5. ASSUME NEW v \in Users, ExpireState(v) PROVE ScoreStands(u)'
  <2>1. redis' = [redis EXCEPT ![v] = Absent] /\ UNCHANGED <<call, hot>> /\ (v = u => ~Active(redis[u]))
    BY <1>5 DEF ExpireState, Miss
  <2>2. ~Active(Absent) /\ redis \in [Users -> State]
    BY DEF Active, Absent, TypeOK
  <2>3. Active(redis'[u]) <=> Active(redis[u])
    <3>1. CASE v = u
      <4>1. redis'[u] = Absent
        BY <2>1, <2>2, <3>1
      <4> QED BY <2>1, <2>2, <3>1, <4>1
    <3>2. CASE v # u
      BY <2>1, <2>2, <3>2
    <3> QED BY <3>1, <3>2
  <2> QED BY <1>4, <2>1, <2>3
<1>6. CASE Consume \/ DeadLetter \/ ExpireCounter \/ SetVideo \/ UNCHANGED vars
  <2>1. UNCHANGED <<call, hot, redis>>
    BY <1>6 DEF Consume, DeadLetter, ExpireCounter, SetVideo, live, ranked, vars
  <2> QED BY <1>4, <2>1
<1> QED BY <1>3, <1>5, <1>6 DEF Next
----------------------------------------------------------------------------
(* The live counters.                                                      *)

\* No step takes a user back from the disturbed.
LEMMA DisturbedGrows ==
  ASSUME [Next]_vars
  PROVE  disturbed \subseteq disturbed'
BY DEF Next, RequestStep, Start, SetState, Publish, PublishFails, SetActionSync, Score, Abort, Consume, DeadLetter,
       ExpireState, ExpireCounter, SetVideo, Disturb, vars

\* Redis counts a reaction of the user where the base was missing from then on.
LEMMA SetStateLive ==
  ASSUME TypeOK, NEW c \in Callers, SetState(c)
  PROVE  base' # -1 /\ base' = BaseInit(call[c].stat) /\ call[c].stat \in Nat
<1>1. call[c].step = "redis" /\ base' = BaseInit(call[c].stat)
  BY DEF SetState
<1>2. call[c].stat \in Nat
  BY <1>1, CallTyped
<1> QED BY <1>1, <1>2 DEF BaseInit

\* What the worker and the requests change of the counters.
LEMMA LiveStep ==
  ASSUME TypeOK, LiveStands, [Next]_vars
  PROVE  LiveStands'
<1>0. /\ base = -1 => touched = <<>>
      /\ \A s \in ShardSet : shards[s] # 0 => \E i \in 1 .. Len(touched) : touched[i] = s
      /\ base = -1 /\ ~drifted /\ disturbed = {} =>
           /\ topic = <<>>
           /\ \A c \in Callers : ~Unsettled(c) /\ (call[c].step = "redis" => call[c].stat = likes)
      /\ call \in [Callers -> Call] /\ shards \in [ShardSet -> Int] /\ touched \in Seq(ShardSet)
  BY DEF LiveStands, TypeOK
<1>1. disturbed' = {} => disturbed = {}
  BY DisturbedGrows
<1>2. ASSUME UNCHANGED <<base, touched, shards>>,
             base = -1 /\ ~drifted' /\ disturbed' = {} =>
               /\ topic' = <<>>
               /\ \A c \in Callers : ~(call'[c].step \in {"publish", "sync"})
                                     /\ (call'[c].step = "redis" => call'[c].stat = likes')
      PROVE  LiveStands'
  <2>1. base' = -1 => touched' = <<>>
    BY <1>0, <1>2
  <2>2. \A s \in ShardSet : shards'[s] # 0 => \E i \in 1 .. Len(touched') : touched'[i] = s
    BY <1>0, <1>2
  <2> QED BY <1>2, <2>1, <2>2 DEF LiveStands, Unsettled, ShardSet
<1>3. ASSUME UNCHANGED <<base, touched, shards, drifted, topic, call, likes>>
      PROVE  LiveStands'
  BY <1>0, <1>1, <1>2, <1>3 DEF Unsettled
<1>4. ASSUME NEW c \in Callers, RequestStep(c) PROVE LiveStands'
  <2>1. ASSUME NEW u \in Users, NEW active \in BOOLEAN, NEW key \in Keys \cup {NoKey}, Start(c, u, active, key)
        PROVE  LiveStands'
    <3>1. /\ UNCHANGED <<base, touched, shards, drifted, topic, likes>>
          /\ call' = [call EXCEPT ![c] =
               [step |-> "redis", user |-> u, active |-> active, key |-> key, stat |-> likes, delta |-> 0]]
      BY <2>1 DEF Start, live, stored
    <3>2. call'[c].step = "redis" /\ call'[c].stat = likes /\ \A e \in Callers \ {c} : call'[e] = call[e]
      BY <1>0, <3>1
    <3> QED BY <1>0, <1>1, <1>2, <3>1, <3>2 DEF Unsettled
  <2>2. CASE SetState(c)
    <3> DEFINE u == call[c].user
               new == Applied(redis[u], call[c].active, call[c].key)
               delta == Delta(redis[u], new)
               s == Shard[u]
    <3>1. /\ call[c].step = "redis"
          /\ shards' = [shards EXCEPT ![s] = @ + delta] /\ touched' = Touch(s)
      BY <2>2 DEF SetState
    <3>2. s \in ShardSet
      BY <3>1, CallTyped
    <3> HIDE DEF u, new, delta, s
    <3>3. \E i \in 1 .. Len(touched') : touched'[i] = s
      BY <3>1, <3>2, TouchKeeps
    <3>4. \A t \in ShardSet : (\E i \in 1 .. Len(touched) : touched[i] = t)
                                => \E i \in 1 .. Len(touched') : touched'[i] = t
      BY <3>1, <3>2, TouchKeeps
    <3>5. \A t \in ShardSet : shards'[t] # 0 => \E i \in 1 .. Len(touched') : touched'[i] = t
      BY <1>0, <3>1, <3>2, <3>3, <3>4
    <3>6. base' # -1
      BY <2>2, SetStateLive
    <3> QED BY <3>5, <3>6 DEF LiveStands, ShardSet
  <2>3. ASSUME Unsettled(c), UNCHANGED <<base, touched, shards, drifted>> PROVE LiveStands'
    BY <1>0, <1>1, <1>2, <2>3
  <2>4. CASE Publish(c) \/ PublishFails(c) \/ SetActionSync(c)
    BY <2>3, <2>4 DEF Publish, PublishFails, SetActionSync, Unsettled, live
  <2>5. CASE Score(c) \/ Abort(c)
    <3>1. UNCHANGED <<base, touched, shards, drifted, topic, likes>> /\ Return(c)
      BY <2>5 DEF Score, Abort, live, stored
    <3>2. call'[c] = Idle /\ Idle.step = "idle" /\ \A e \in Callers \ {c} : call'[e] = call[e]
      BY <1>0, <3>1 DEF Return, Idle
    <3> QED BY <1>0, <1>1, <1>2, <3>1, <3>2 DEF Unsettled
  <2> QED BY <1>4, <2>1, <2>2, <2>4, <2>5 DEF RequestStep
<1>5. CASE Consume
  <2>1. topic # <<>> /\ UNCHANGED <<base, touched, shards, drifted>>
    BY <1>5 DEF Consume, live
  <2> QED BY <1>0, <1>1, <1>2, <2>1
<1>6. CASE DeadLetter
  <2>1. topic # <<>> /\ UNCHANGED <<base, touched, shards, drifted>>
    BY <1>6 DEF DeadLetter, live
  <2> QED BY <1>0, <1>1, <1>2, <2>1
<1>7. ASSUME NEW u \in Users, ExpireState(u) PROVE LiveStands'
  BY <1>3, <1>7 DEF ExpireState, stored
<1>8. CASE ExpireCounter
  <2>1. /\ touched # <<>> /\ shards' = [shards EXCEPT ![Head(touched)] = 0] /\ touched' = Tail(touched)
        /\ IF Len(touched) = 1
           THEN base' = -1 /\ drifted' = (topic # <<>> \/ \E c \in Callers : call[c].step # "idle")
           ELSE drifted' = TRUE /\ base' = base
        /\ UNCHANGED <<call, topic, likes>>
    BY <1>8 DEF ExpireCounter, stored
  <2>2. /\ Head(touched) \in ShardSet /\ Head(touched) = touched[1] /\ Len(touched) \in Nat /\ Len(touched) >= 1
        /\ Len(touched') = Len(touched) - 1 /\ \A i \in 1 .. Len(touched') : touched'[i] = touched[i + 1]
    BY <1>0, <2>1
  <2>3. \A s \in ShardSet : shards'[s] # 0 => \E i \in 1 .. Len(touched') : touched'[i] = s
    <3> SUFFICES ASSUME NEW s \in ShardSet, shards'[s] # 0
                 PROVE  \E i \in 1 .. Len(touched') : touched'[i] = s
      OBVIOUS
    <3>1. s # Head(touched) /\ shards[s] # 0
      BY <1>0, <2>1, <2>2
    <3>2. PICK i \in 1 .. Len(touched) : touched[i] = s
      BY <1>0, <3>1
    <3>3. i # 1
      BY <2>2, <3>1, <3>2
    <3>4. i - 1 \in 1 .. Len(touched') /\ (i - 1) + 1 = i
      BY <2>2, <3>3
    <3> QED BY <2>2, <3>2, <3>4
  <2>4. base' = -1 => touched' = <<>>
    <3>1. CASE Len(touched) = 1
      BY <1>0, <2>1, <2>2, <3>1
    <3>2. CASE Len(touched) # 1
      BY <1>0, <2>1, <3>2
    <3> QED BY <3>1, <3>2
  <2>5. ~drifted' => topic' = <<>> /\ \A c \in Callers : call'[c].step = "idle"
    BY <2>1
  <2> QED BY <2>3, <2>4, <2>5 DEF LiveStands, Unsettled, ShardSet
<1>9. CASE SetVideo
  BY <1>3, <1>9 DEF SetVideo, live, stored
<1>10. CASE UNCHANGED vars
  BY <1>3, <1>10 DEF vars
<1> QED BY <1>4, <1>5, <1>6, <1>7, <1>8, <1>9, <1>10 DEF Next

\* The users whose state in Redis is active.
Likers == {u \in Users : Active(redis[u])}

\* One more or one less user likes the video, or as many, as the delta says.
LEMMA LikersChange ==
  ASSUME TypeOK, NEW u \in Users, NEW new, redis' = [redis EXCEPT ![u] = new]
  PROVE  /\ Cardinality(Likers) \in Nat
         /\ Cardinality(Likers') = Cardinality(Likers) + Delta(redis[u], new)
<1>1. redis'[u] = new /\ \A v \in Users : v # u => redis'[v] = redis[v]
  BY DEF TypeOK
<1>2. IsFiniteSet(Likers) /\ Cardinality(Likers) \in Nat
  <2>1. Likers \in SUBSET Users
    BY DEF Likers
  <2>2. IsFiniteSet(Likers)
    BY <2>1, FS_Subset, ConstantsAssumption
  <2> QED BY <2>2, FS_CardinalityType
<1>3. Active(redis[u]) <=> u \in Likers
  BY DEF Likers
<1>4. CASE Active(new) /\ ~Active(redis[u])
  <2>1. Likers' = Likers \cup {u}
    BY <1>1, <1>4 DEF Likers
  <2>2. Cardinality(Likers') = Cardinality(Likers) + 1
    BY <1>2, <1>3, <1>4, <2>1, FS_AddElement
  <2>3. Delta(redis[u], new) = 1
    BY <1>4 DEF Delta, Active
  <2> QED BY <1>2, <2>2, <2>3
<1>5. CASE ~Active(new) /\ Active(redis[u])
  <2>1. Likers' = Likers \ {u}
    BY <1>1, <1>5 DEF Likers
  <2>2. Cardinality(Likers') = Cardinality(Likers) - 1
    BY <1>2, <1>3, <1>5, <2>1, FS_RemoveElement
  <2>3. Delta(redis[u], new) = -1
    BY <1>5 DEF Delta, Active
  <2> QED BY <1>2, <2>2, <2>3
<1>6. CASE Active(new) <=> Active(redis[u])
  <2>1. Likers' = Likers
    BY <1>1, <1>6 DEF Likers
  <2>2. Delta(redis[u], new) = 0
    BY <1>6 DEF Delta, Active
  <2> QED BY <1>2, <2>1, <2>2
<1> QED BY <1>4, <1>5, <1>6

\* The shards in use are no more than the users.
LEMMA ShardsFinite == IsFiniteSet(ShardSet)
<1> DEFINE f == [u \in Users |-> Shard[u]]
<1>1. f \in Surjection(Users, ShardSet)
  BY DEF Surjection, ShardSet
<1> HIDE DEF f
<1> QED BY <1>1, ConstantsAssumption, FS_Surjection

\* While the base is missing, MySQL has counted the users whom Redis holds.
LEMMA MissingBase ==
  ASSUME TypeOK, CountIsExact, LiveStands, \A u \in Users \ disturbed : UserStands(u),
         base = -1, ~drifted, disturbed = {}
  PROVE  SumFunction(shards) = 0 /\ likes = Cardinality(Likers)
<1>1. touched = <<>> /\ topic = <<>> /\ \A c \in Callers : ~Unsettled(c)
  BY DEF LiveStands
<1>2. SumFunction(shards) = 0
  <2>1. \A s \in ShardSet : shards[s] = 0
    BY <1>1 DEF LiveStands
  <2>2. IsFiniteSet(ShardSet)
    BY ShardsFinite
  <2>3. shards \in [ShardSet -> Int]
    BY DEF TypeOK
  <2> QED BY <2>1, <2>2, <2>3, SumOfZeros
<1>3. \A u \in Users : Active(rows[u]) <=> Active(redis[u])
  <2> TAKE u \in Users
  <2>1. UserStands(u) /\ UnsettledOf(u) = {}
    BY <1>1 DEF UnsettledOf
  <2>2. Settled(u) <=> Active(redis[u])
    BY <2>1, Zenon DEF UserStands
  <2>3. ~Pending(u)
    BY <1>1 DEF Pending
  <2> QED BY <2>2, <2>3 DEF Settled
<1>4. Reacting = Likers
  BY <1>3 DEF Reacting, Likers
<1> QED BY <1>2, <1>4 DEF CountIsExact

\* The count shown follows the states that are shown.
LEMMA LiveCountStep ==
  ASSUME TypeOK, CountIsExact, LiveStands, \A u \in Users \ disturbed : UserStands(u), LiveCountExact, [Next]_vars
  PROVE  LiveCountExact'
<1>0. base # -1 /\ ~drifted /\ disturbed = {} => base + SumFunction(shards) = Cardinality(Likers)
  BY DEF LiveCountExact, LiveCount, Likers
<1>1. disturbed' = {} => disturbed = {}
  BY DisturbedGrows
<1>2. ASSUME base' # -1 /\ ~drifted' /\ disturbed' = {} => base' + SumFunction(shards') = Cardinality(Likers')
      PROVE  LiveCountExact'
  BY <1>2 DEF LiveCountExact, LiveCount, Likers
<1>3. ASSUME UNCHANGED <<base, shards, drifted, redis>> PROVE LiveCountExact'
  <2>1. Likers' = Likers
    BY <1>3 DEF Likers, Active
  <2> QED BY <1>0, <1>1, <1>2, <1>3, <2>1
<1>4. ASSUME NEW c \in Callers, SetState(c) PROVE LiveCountExact'
  <2> SUFFICES ASSUME ~drifted, disturbed = {}
               PROVE  base' + SumFunction(shards') = Cardinality(Likers')
    BY <1>1, <1>2, <1>4 DEF SetState
  <2> DEFINE u == call[c].user
             new == Applied(redis[u], call[c].active, call[c].key)
             delta == Delta(redis[u], new)
             s == Shard[u]
  <2>1. /\ call[c].step = "redis" /\ redis' = [redis EXCEPT ![u] = new]
        /\ shards' = [shards EXCEPT ![s] = @ + delta]
    BY <1>4 DEF SetState
  <2>2. u \in Users /\ s \in ShardSet /\ delta \in {-1, 0, 1} /\ call[c].stat \in Nat
    BY <2>1, CallTyped, DeltaRange
  <2>3. base' = BaseInit(call[c].stat) /\ base \in Nat \cup {-1} /\ shards \in [ShardSet -> Int]
    BY <1>4, SetStateLive DEF TypeOK
  <2>4. IsFiniteSet(ShardSet)
    BY ShardsFinite
  <2> HIDE DEF s
  <2>5. Cardinality(Likers) \in Nat /\ Cardinality(Likers') = Cardinality(Likers) + delta
    BY <2>1, <2>2, LikersChange
  <2> HIDE DEF u, new, delta
  <2>6. SumFunction(shards) \in Int /\ SumFunction(shards') = SumFunction(shards) + delta
    <3>1. delta \in Int
      BY <2>2
    <3>2. PICK f : f = shards
      OBVIOUS
    <3> DEFINE e == [f EXCEPT ![s] = @ + delta]
    <3>3. f \in [ShardSet -> Int] /\ shards' = e
      BY <2>1, <2>3, <3>2
    <3>4. SumFunction(f) \in Int /\ SumFunction(e) = SumFunction(f) + delta
      BY <2>2, <2>4, <3>1, <3>3, SumChanges
    <3> HIDE DEF e
    <3> QED BY <3>2, <3>3, <3>4, Zenon
  <2>7. BaseInit(call[c].stat) + SumFunction(shards) = Cardinality(Likers)
    <3>1. CASE base # -1
      BY <1>0, <3>1 DEF BaseInit
    <3>2. CASE base = -1
      <4>1. SumFunction(shards) = 0 /\ likes = Cardinality(Likers)
        BY <3>2, MissingBase
      <4>2. call[c].stat = likes
        BY <2>1, <3>2 DEF LiveStands
      <4> QED BY <2>5, <3>2, <4>1, <4>2 DEF BaseInit
    <3> QED BY <3>1, <3>2
  <2>8. BaseInit(call[c].stat) \in Int
    BY <2>2, <2>3 DEF BaseInit
  <2> QED BY <2>2, <2>3, <2>5, <2>6, <2>7, <2>8
<1>5. ASSUME NEW c \in Callers, RequestStep(c) PROVE LiveCountExact'
  <2>1. ASSUME NEW u \in Users, NEW active \in BOOLEAN, NEW key \in Keys \cup {NoKey}, Start(c, u, active, key)
        PROVE  LiveCountExact'
    BY <1>3, <2>1 DEF Start, live
  <2>2. CASE Publish(c) \/ PublishFails(c) \/ SetActionSync(c) \/ Score(c) \/ Abort(c)
    BY <1>3, <2>2 DEF Publish, PublishFails, SetActionSync, Score, Abort, live
  <2> QED BY <1>4, <1>5, <2>1, <2>2 DEF RequestStep
<1>6. CASE Consume \/ DeadLetter \/ SetVideo \/ UNCHANGED vars
  BY <1>3, <1>6 DEF Consume, DeadLetter, SetVideo, live, vars
<1>7. ASSUME NEW u \in Users, ExpireState(u) PROVE LiveCountExact'
  <2>1. redis' = [redis EXCEPT ![u] = Absent] /\ UNCHANGED <<base, shards, drifted>>
    BY <1>7 DEF ExpireState
  <2>2. CASE Active(redis[u])
    <3>1. u \in disturbed'
      BY <1>7, <2>2 DEF ExpireState, Disturb
    <3> QED BY <1>2, <3>1
  <2>3. CASE ~Active(redis[u])
    <3>1. Delta(redis[u], Absent) = 0
      BY <2>3 DEF Delta, Active, Absent
    <3>2. Cardinality(Likers') = Cardinality(Likers) /\ Cardinality(Likers) \in Nat
      <4>1. PICK new : new = Absent
        OBVIOUS
      <4>2. Cardinality(Likers) \in Nat /\ Cardinality(Likers') = Cardinality(Likers) + Delta(redis[u], new)
        BY <2>1, <4>1, LikersChange
      <4> QED BY <3>1, <4>1, <4>2
    <3> QED BY <1>0, <1>1, <1>2, <2>1, <3>2
  <2> QED BY <2>2, <2>3
<1>8. CASE ExpireCounter
  <2>1. base' = -1 \/ drifted'
    BY <1>8 DEF ExpireCounter
  <2> QED BY <1>2, <2>1
<1> QED BY <1>5, <1>6, <1>7, <1>8 DEF Next

\* The invariant holds before the first request.
LEMMA ReactionsInit == Init => ReactionsInv
<1> SUFFICES ASSUME Init PROVE ReactionsInv
  OBVIOUS
<1>1. Absent \in State /\ ~Active(Absent) /\ KeyTells(Absent)
  BY DEF Absent, State, Active, KeyTells
<1>2. /\ \A u \in Users : rows[u] = Absent /\ redis[u] = Absent /\ hot[u] = 0
      /\ topic = <<>> /\ touched = <<>> /\ base = -1 /\ \A s \in ShardSet : shards[s] = 0
      /\ \A c \in Callers : call[c].step = "idle"
  BY DEF Init, Idle
<1>3. CountInv
  BY CountInit
<1>4. TypeOK
  <2>1. /\ open \in BOOLEAN /\ calls \in Nat /\ redis \in [Users -> State] /\ base \in Nat \cup {-1}
        /\ noticed \subseteq Users /\ disturbed \subseteq Users /\ unscored \subseteq Users
        /\ drifted \in BOOLEAN
    BY <1>1 DEF Init
  <2>2. shards \in [ShardSet -> Int] /\ touched \in Seq(ShardSet) /\ hot \in [Users -> Int]
    BY DEF Init
  <2> QED BY <1>3, <2>1, <2>2 DEF TypeOK, CountInv
<1>5. KeysTell
  BY <1>1, <1>2 DEF KeysTell
<1>6. \A u \in Users : UserStands(u)
  <2> TAKE u \in Users
  <2>1. UnsettledOf(u) = {}
    BY <1>2 DEF UnsettledOf, Unsettled
  <2>2. ~Settled(u) /\ ~Active(redis[u])
    BY <1>1, <1>2 DEF Settled, Pending
  <2> QED BY <2>1, <2>2 DEF UserStands
<1>9. \A u \in Users : ScoreStands(u)
  <2> TAKE u \in Users
  <2>1. Owing(u) \in [Callers -> Int] /\ IsFiniteSet(Callers)
    BY <1>4, OwingTyped, ConstantsAssumption
  <2>2. \A c \in Callers : Owing(u)[c] = 0
    BY <1>2 DEF Owing
  <2>3. SumFunction(Owing(u)) = 0
    <3>1. PICK f : f = Owing(u)
      OBVIOUS
    <3>2. SumFunction(f) = 0
      BY <2>1, <2>2, <3>1, SumOfZeros
    <3> QED BY <3>1, <3>2
  <2> QED BY <1>1, <1>2, <2>3 DEF ScoreStands
<1>7. LiveStands
  BY <1>2 DEF LiveStands, Unsettled
<1>8. LiveCountExact
  BY <1>2 DEF LiveCountExact
<1> QED BY <1>3, <1>4, <1>5, <1>6, <1>7, <1>8, <1>9 DEF ReactionsInv, CountInv

\* Every step keeps the invariant.
LEMMA ReactionsStep == ReactionsInv /\ [Next]_vars => ReactionsInv'
<1> SUFFICES ASSUME ReactionsInv, [Next]_vars PROVE ReactionsInv'
  OBVIOUS
<1>1. /\ TypeOK /\ CountIsExact /\ KeysTell /\ LiveStands /\ LiveCountExact
      /\ \A u \in Users \ disturbed : UserStands(u)
      /\ \A u \in Users \ unscored : ScoreStands(u)
  BY DEF ReactionsInv
<1>2. CountIsExact'
  <2>1. CountInv
    BY <1>1 DEF TypeOK, CountInv
  <2> QED BY <2>1, CountStep DEF CountInv
<1>3. TypeOK'
  BY <1>1, TypeStep
<1>4. KeysTell'
  BY <1>1, KeysStep
<1>5. \A u \in Users \ disturbed' : UserStands(u)'
  BY <1>1, UsersStep
<1>8. \A u \in Users \ unscored' : ScoreStands(u)'
  BY <1>1, ScoresStep
<1>6. LiveStands'
  BY <1>1, LiveStep
<1>7. LiveCountExact'
  BY <1>1, LiveCountStep
<1> QED BY <1>2, <1>3, <1>4, <1>5, <1>6, <1>7, <1>8 DEF ReactionsInv

----------------------------------------------------------------------------
(* Theorems.                                                               *)

\* Repository.SetAction: like_count is the number of active rows, whatever is applied twice, late
\* or out of order.
THEOREM CountHolds == Spec => []CountIsExact
<1>1. CountInv => CountIsExact
  BY DEF CountInv
<1> QED BY <1>1, CountInit, CountStep, PTL DEF Spec

\* Of every behaviour: the types, the count, the keys, the users that are not disturbed and the
\* live counters.
THEOREM ReactionsHold == Spec => []ReactionsInv
BY ReactionsInit, ReactionsStep, PTL DEF Spec

\* FeedCache.SetActionState and the counter worker: the state that the answers show is what MySQL
\* will hold once the topic is drained, and the hot rank counts the user once, unless events of
\* the user were lost, reordered or overtaken.
THEOREM StatesAgree == Spec => []StatesConverge
<1>1. ReactionsInv => StatesConverge
  BY StandsConverges DEF ReactionsInv
<1> QED BY <1>1, ReactionsHold, PTL

\* FeedCache.SetActionState: base and shards add up to the users whose state is active: none is
\* counted in the base and in a shard as well, whenever the base was read and the shards expired.
THEOREM LiveCountHolds == Spec => []LiveCountExact
<1>1. ReactionsInv => LiveCountExact
  BY DEF ReactionsInv
<1> QED BY <1>1, ReactionsHold, PTL
============================================================================
