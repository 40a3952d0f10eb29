------------------------ MODULE FeedAnswersProofs ------------------------
(* Theorems about an answer of the feed: the governor of the primary       *)
(* source, for every number of calls, of slots, of retries and every       *)
(* threshold; the assembly of the items, for every number of requests and  *)
(* videos; and the recommender's pages, mixed with other sources or moving *)
(* as scores do, for every ranking and size of a page.                     *)
EXTENDS SourceGovernor, FeedAssembly, RecommendedFeed, Recommendation,
        FiniteSetTheorems, WellFoundedInduction, TLAPS

Steps == {"idle", "allow", "primary", "release", "fallback", "return"}

\* The parts of the invariant that are about the calls and the circuit.
NoSlotFallback == \A c \in Calls : CallAt(c, "fallback") => ~call[c].acquired
Alone == circuit = "halfOpen" =>
           \A c, d \in Calls : CallAt(c, "primary") /\ CallAt(d, "primary") => c = d
Quiet == circuit = "open" /\ ~cooling => \A c \in Calls : ~CallAt(c, "primary")

LEMMA InvParts ==
  GovernorInv <=> GovernorTypeOK /\ SlotsMatchCalls /\ NoSlotFallback /\ Alone /\ Quiet
BY DEF GovernorInv, NoSlotFallback, Alone, Quiet

LEMMA GotoMoves ==
  ASSUME GovernorTypeOK, NEW c \in Calls, NEW step \in Steps, NEW acquired \in BOOLEAN,
         CallGoto(c, step, acquired)
  PROVE  /\ call'[c].step = step /\ call'[c].acquired = acquired
         /\ \A d \in Calls \ {c} : call'[d] = call[d]
         /\ call' \in [Calls -> [step : Steps, attempt : 0 .. MaxRetries, acquired : BOOLEAN]]
<1>1. call \in [Calls -> [step : Steps, attempt : 0 .. MaxRetries, acquired : BOOLEAN]]
  BY DEF GovernorTypeOK, Steps
<1> QED BY <1>1 DEF CallGoto

----------------------------------------------------------------------------
(* Slots.                                                                  *)

LEMMA HoldersFinite == IsFiniteSet(Holders) /\ IsFiniteSet(Holders') /\ Cardinality(Holders) \in Nat
<1>1. Holders \subseteq Calls /\ Holders' \subseteq Calls
  BY DEF Holders
<1>2. IsFiniteSet(Calls)
  BY GovernorAssumption
<1> QED BY <1>1, <1>2, FS_Subset, FS_CardinalityType

LEMMA HoldersSame ==
  ASSUME NEW c \in Calls, Holds(c) <=> Holds(c)', \A d \in Calls \ {c} : call'[d] = call[d]
  PROVE  Holders' = Holders
<1>1. \A d \in Calls \ {c} : Holds(d)' <=> Holds(d)
  BY DEF Holds, CallAt
<1> QED BY <1>1 DEF Holders

LEMMA HoldersGain ==
  ASSUME NEW c \in Calls, ~Holds(c), Holds(c)', \A d \in Calls \ {c} : call'[d] = call[d]
  PROVE  Cardinality(Holders') = Cardinality(Holders) + 1
<1>1. \A d \in Calls \ {c} : Holds(d)' <=> Holds(d)
  BY DEF Holds, CallAt
<1>2. Holders' = Holders \cup {c} /\ c \notin Holders
  BY <1>1 DEF Holders
<1> QED BY <1>2, HoldersFinite, FS_AddElement

LEMMA HoldersLose ==
  ASSUME NEW c \in Calls, Holds(c), ~Holds(c)', \A d \in Calls \ {c} : call'[d] = call[d]
  PROVE  Cardinality(Holders') = Cardinality(Holders) - 1
<1>1. \A d \in Calls \ {c} : Holds(d)' <=> Holds(d)
  BY DEF Holds, CallAt
<1>2. Holders' = Holders \ {c} /\ c \in Holders
  BY <1>1 DEF Holders
<1> QED BY <1>2, HoldersFinite, FS_RemoveElement

----------------------------------------------------------------------------
(* Steps.                                                                  *)

\* A call that is not in the source takes a step that leaves the circuit alone.
LEMMA CallsMove ==
  ASSUME GovernorInv, NEW c \in Calls,
         UNCHANGED breaker,
         \A d \in Calls \ {c} : call'[d] = call[d],
         call' \in [Calls -> [step : Steps, attempt : 0 .. MaxRetries, acquired : BOOLEAN]],
         call'[c].step = "primary" => CallAt(c, "primary"),
         call'[c].step = "fallback" => ~call'[c].acquired
  PROVE  NoSlotFallback' /\ Alone' /\ Quiet'
<1>0. NoSlotFallback /\ Alone /\ Quiet
  BY InvParts
<1>1. circuit' = circuit /\ cooling' = cooling
  BY DEF breaker
<1>2. \A d \in Calls : CallAt(d, "primary")' => CallAt(d, "primary")
  BY DEF CallAt
<1>3. NoSlotFallback'
  BY <1>0 DEF NoSlotFallback, CallAt
<1>4. Alone'
  BY <1>0, <1>1, <1>2 DEF Alone
<1>5. Quiet'
  BY <1>0, <1>1, <1>2 DEF Quiet
<1> QED BY <1>3, <1>4, <1>5

LEMMA BreakerType ==
  ASSUME GovernorTypeOK, slots' \in Nat, UNCHANGED breaker,
         call' \in [Calls -> [step : Steps, attempt : 0 .. MaxRetries, acquired : BOOLEAN]]
  PROVE  GovernorTypeOK'
BY DEF GovernorTypeOK, breaker, Steps

LEMMA InvAcquire ==
  ASSUME GovernorInv, NEW c \in Calls, Degrade(c) \/ Acquire(c)
  PROVE  GovernorInv'
<1>0. GovernorTypeOK /\ SlotsMatchCalls /\ UNCHANGED breaker /\ CallAt(c, "idle")
  BY InvParts DEF Degrade, Acquire
<1>1. slots \in Nat /\ MaxInflight \in Nat /\ ~Holds(c)
  BY <1>0, GovernorAssumption DEF GovernorTypeOK, Holds, CallAt
<1>2. CASE CallGoto(c, "fallback", FALSE) /\ slots' = slots
  <2>1. /\ call'[c].step = "fallback" /\ call'[c].acquired = FALSE
        /\ \A d \in Calls \ {c} : call'[d] = call[d]
        /\ call' \in [Calls -> [step : Steps, attempt : 0 .. MaxRetries, acquired : BOOLEAN]]
    BY <1>0, <1>2, GotoMoves DEF Steps
  <2>2. ~Holds(c)'
    BY <2>1 DEF Holds, CallAt
  <2>3. SlotsMatchCalls'
    BY <1>0, <1>1, <1>2, <2>1, <2>2, HoldersSame DEF SlotsMatchCalls
  <2>4. GovernorTypeOK'
    BY <1>0, <1>1, <1>2, <2>1, BreakerType
  <2>5. NoSlotFallback' /\ Alone' /\ Quiet'
    BY <1>0, <2>1, CallsMove
  <2> QED BY <2>3, <2>4, <2>5 DEF GovernorInv, NoSlotFallback, Alone, Quiet
<1>3. CASE slots < MaxInflight /\ slots' = slots + 1 /\ CallGoto(c, "allow", TRUE)
  <2>1. /\ call'[c].step = "allow" /\ call'[c].acquired = TRUE
        /\ \A d \in Calls \ {c} : call'[d] = call[d]
        /\ call' \in [Calls -> [step : Steps, attempt : 0 .. MaxRetries, acquired : BOOLEAN]]
    BY <1>0, <1>3, GotoMoves DEF Steps
  <2>2. Holds(c)'
    BY <2>1 DEF Holds, CallAt
  <2>3. Cardinality(Holders') = Cardinality(Holders) + 1
    BY <1>1, <2>1, <2>2, HoldersGain
  <2>4. SlotsMatchCalls'
    BY <1>0, <1>1, <1>3, <2>3 DEF SlotsMatchCalls
  <2>5. GovernorTypeOK'
    BY <1>0, <1>1, <1>3, <2>1, BreakerType
  <2>6. NoSlotFallback' /\ Alone' /\ Quiet'
    BY <1>0, <2>1, CallsMove
  <2> QED BY <2>4, <2>5, <2>6 DEF GovernorInv, NoSlotFallback, Alone, Quiet
<1> QED BY <1>2, <1>3 DEF Degrade, Acquire

\* The slot of a call that gives it back was counted.
LEMMA SlotGivenBack ==
  ASSUME GovernorInv, NEW c \in Calls, Holds(c), ~Holds(c)',
         \A d \in Calls \ {c} : call'[d] = call[d], slots' = slots - 1
  PROVE  slots' \in Nat /\ SlotsMatchCalls'
<1>0. slots \in Nat /\ MaxInflight \in Nat /\ SlotsMatchCalls
  BY InvParts, GovernorAssumption DEF GovernorTypeOK
<1>1. Cardinality(Holders') = Cardinality(Holders) - 1
  BY HoldersLose
<1>2. IsFiniteSet(Holders') /\ Cardinality(Holders') \in Nat
  BY HoldersFinite, FS_CardinalityType
<1> QED BY <1>0, <1>1, <1>2 DEF SlotsMatchCalls

\* One call passes a circuit that has cooled down, none one that is on trial.
LEMMA InvAllow ==
  ASSUME GovernorInv, NEW c \in Calls, Allow(c)
  PROVE  GovernorInv'
<1>0. /\ GovernorTypeOK /\ SlotsMatchCalls /\ NoSlotFallback /\ Alone /\ Quiet
      /\ CallAt(c, "allow") /\ failures' = failures /\ cooling' = cooling
      /\ slots \in Nat /\ failures \in Nat /\ cooling \in BOOLEAN
  BY InvParts DEF Allow, GovernorTypeOK
<1>1. Holds(c)
  BY <1>0 DEF Holds, CallAt
<1>2. CASE ~Admits
  <2>1. circuit' = circuit /\ CallGoto(c, "fallback", FALSE) /\ slots' = slots - 1
    BY <1>2 DEF Allow
  <2>2. /\ call'[c].step = "fallback" /\ call'[c].acquired = FALSE
        /\ \A d \in Calls \ {c} : call'[d] = call[d]
        /\ call' \in [Calls -> [step : Steps, attempt : 0 .. MaxRetries, acquired : BOOLEAN]]
    BY <1>0, <2>1, GotoMoves DEF Steps
  <2>3. ~Holds(c)'
    BY <2>2 DEF Holds, CallAt
  <2>4. slots' \in Nat /\ SlotsMatchCalls'
    BY <1>1, <2>1, <2>2, <2>3, SlotGivenBack
  <2>5. UNCHANGED breaker
    BY <1>0, <2>1 DEF breaker
  <2>6. GovernorTypeOK'
    BY <1>0, <2>2, <2>4, <2>5, BreakerType
  <2>7. NoSlotFallback' /\ Alone' /\ Quiet'
    BY <2>2, <2>5, CallsMove
  <2> QED BY <2>4, <2>6, <2>7 DEF GovernorInv, NoSlotFallback, Alone, Quiet
<1>3. CASE Admits
  <2>1. CallGoto(c, "primary", TRUE) /\ slots' = slots
    BY <1>3 DEF Allow
  <2>2. /\ call'[c].step = "primary" /\ call'[c].acquired = TRUE
        /\ \A d \in Calls \ {c} : call'[d] = call[d]
        /\ call' \in [Calls -> [step : Steps, attempt : 0 .. MaxRetries, acquired : BOOLEAN]]
    BY <1>0, <2>1, GotoMoves DEF Steps
  <2>3. Holds(c)'
    BY <2>2 DEF Holds, CallAt
  <2>4. SlotsMatchCalls'
    BY <1>0, <1>1, <2>1, <2>2, <2>3, HoldersSame DEF SlotsMatchCalls
  <2>5. \/ circuit = "closed" /\ circuit' = "closed"
        \/ circuit = "open" /\ ~cooling /\ circuit' = "halfOpen"
    BY <1>3 DEF Allow, Admits
  <2>6. GovernorTypeOK'
    BY <1>0, <2>1, <2>2, <2>5 DEF GovernorTypeOK, Steps
  <2>7. NoSlotFallback'
    BY <1>0, <2>2 DEF NoSlotFallback, CallAt
  <2>8. Quiet'
    BY <2>5 DEF Quiet
  <2>9. Alone'
    <3> SUFFICES ASSUME circuit' = "halfOpen", NEW d \in Calls, NEW e \in Calls,
                        CallAt(d, "primary")', CallAt(e, "primary")'
                 PROVE  d = e
      BY DEF Alone
    <3>1. \A f \in Calls : ~CallAt(f, "primary")
      BY <1>0, <2>5 DEF Quiet
    <3>2. d = c /\ e = c
      BY <2>2, <3>1 DEF CallAt
    <3> QED BY <3>2
  <2> QED BY <2>4, <2>6, <2>7, <2>8, <2>9 DEF GovernorInv, NoSlotFallback, Alone, Quiet
<1> QED BY <1>2, <1>3

LEMMA InvRetry ==
  ASSUME GovernorInv, NEW c \in Calls, Retry(c)
  PROVE  GovernorInv'
<1>0. /\ GovernorTypeOK /\ SlotsMatchCalls /\ CallAt(c, "primary") /\ UNCHANGED breaker
      /\ slots \in Nat /\ slots' = slots
  BY InvParts DEF Retry, GovernorTypeOK
<1>1. /\ call \in [Calls -> [step : Steps, attempt : 0 .. MaxRetries, acquired : BOOLEAN]]
      /\ call[c].attempt + 1 \in 0 .. MaxRetries
  BY <1>0, GovernorAssumption DEF GovernorTypeOK, Steps, Retry
<1>2. /\ call'[c].step = "primary" /\ call'[c].acquired = call[c].acquired
      /\ \A d \in Calls \ {c} : call'[d] = call[d]
      /\ call' \in [Calls -> [step : Steps, attempt : 0 .. MaxRetries, acquired : BOOLEAN]]
  BY <1>1 DEF Retry, Steps
<1>3. Holds(c) /\ Holds(c)'
  BY <1>0, <1>2 DEF Holds, CallAt
<1>4. SlotsMatchCalls'
  BY <1>0, <1>2, <1>3, HoldersSame DEF SlotsMatchCalls
<1>5. GovernorTypeOK'
  BY <1>0, <1>2, BreakerType
<1>6. NoSlotFallback' /\ Alone' /\ Quiet'
  BY <1>0, <1>2, CallsMove
<1> QED BY <1>4, <1>5, <1>6 DEF GovernorInv, NoSlotFallback, Alone, Quiet

\* The end of a call in the source is recorded.
LEMMA RecordMoves ==
  ASSUME GovernorTypeOK, NEW success \in BOOLEAN, Record(success)
  PROVE  /\ failures' \in Nat
         /\ \/ circuit' = "closed" /\ cooling' = cooling
            \/ circuit' = "open" /\ cooling' = TRUE
            \/ circuit # "halfOpen" /\ circuit' = circuit /\ cooling' = cooling
<1>1. failures \in Nat
  BY DEF GovernorTypeOK
<1>2. CASE success
  BY <1>2 DEF Record
<1>3. CASE ~success /\ circuit = "halfOpen"
  BY <1>1, <1>3 DEF Record, Open
<1>4. CASE ~success /\ circuit # "halfOpen"
  BY <1>1, <1>4 DEF Record, Open
<1> QED BY <1>2, <1>3, <1>4

LEMMA InvEnd ==
  ASSUME GovernorInv, NEW c \in Calls, Succeed(c) \/ RejectInput(c) \/ Abandon(c) \/ Fail(c)
  PROVE  GovernorInv'
<1>0. /\ GovernorTypeOK /\ SlotsMatchCalls /\ NoSlotFallback /\ Alone /\ Quiet
      /\ CallAt(c, "primary") /\ slots' = slots /\ slots \in Nat
      /\ circuit \in {"closed", "open", "halfOpen"} /\ cooling \in BOOLEAN
  BY InvParts DEF Succeed, RejectInput, Abandon, Fail, GovernorTypeOK
<1>1. PICK step \in {"return", "release"} : CallGoto(c, step, TRUE)
  BY DEF Succeed, RejectInput, Abandon, Fail
<1>2. PICK success \in BOOLEAN : Record(success)
  BY DEF Succeed, RejectInput, Abandon, Fail
<1>3. /\ call'[c].step = step /\ call'[c].acquired = TRUE
      /\ \A d \in Calls \ {c} : call'[d] = call[d]
      /\ call' \in [Calls -> [step : Steps, attempt : 0 .. MaxRetries, acquired : BOOLEAN]]
  <2>1. step \in Steps
    BY DEF Steps
  <2> QED BY <1>0, <1>1, <2>1, GotoMoves
<1>4. Holds(c) /\ Holds(c)'
  BY <1>0, <1>3 DEF Holds, CallAt
<1>5. SlotsMatchCalls'
  BY <1>0, <1>3, <1>4, HoldersSame DEF SlotsMatchCalls
<1>6. /\ failures' \in Nat
      /\ \/ circuit' = "closed" /\ cooling' = cooling
         \/ circuit' = "open" /\ cooling' = TRUE
         \/ circuit # "halfOpen" /\ circuit' = circuit /\ cooling' = cooling
  BY <1>0, <1>2, RecordMoves
<1>7. GovernorTypeOK'
  BY <1>0, <1>3, <1>6 DEF GovernorTypeOK, Steps
<1>8. NoSlotFallback'
  BY <1>0, <1>3 DEF NoSlotFallback, CallAt
<1>9. Alone'
  BY <1>6 DEF Alone
<1>10. Quiet'
  BY <1>0, <1>6 DEF Quiet
<1> QED BY <1>5, <1>7, <1>8, <1>9, <1>10 DEF GovernorInv, NoSlotFallback, Alone, Quiet

LEMMA InvRelease ==
  ASSUME GovernorInv, NEW c \in Calls, Release(c) \/ FallBack(c)
  PROVE  GovernorInv'
<1>0. /\ GovernorTypeOK /\ SlotsMatchCalls /\ NoSlotFallback /\ UNCHANGED breaker
      /\ slots \in Nat /\ call[c].acquired \in BOOLEAN
  BY InvParts DEF Release, FallBack, GovernorTypeOK
<1>1. CASE Release(c)
  <2>1. /\ call'[c].step = "fallback" /\ call'[c].acquired = FALSE
        /\ \A d \in Calls \ {c} : call'[d] = call[d]
        /\ call' \in [Calls -> [step : Steps, attempt : 0 .. MaxRetries, acquired : BOOLEAN]]
    BY <1>0, <1>1, GotoMoves DEF Steps, Release
  <2>2. Holds(c) /\ ~Holds(c)'
    BY <1>1, <2>1 DEF Holds, CallAt, Release
  <2>3. slots' \in Nat /\ SlotsMatchCalls'
    BY <1>1, <2>1, <2>2, SlotGivenBack DEF Release
  <2>4. GovernorTypeOK'
    BY <1>0, <2>1, <2>3, BreakerType
  <2>5. NoSlotFallback' /\ Alone' /\ Quiet'
    BY <1>0, <2>1, CallsMove
  <2> QED BY <2>3, <2>4, <2>5 DEF GovernorInv, NoSlotFallback, Alone, Quiet
<1>2. CASE FallBack(c)
  <2>0. CallAt(c, "fallback") /\ call[c].acquired = FALSE /\ slots' = slots
    BY <1>0, <1>2 DEF FallBack, NoSlotFallback
  <2>1. /\ call'[c].step = "return" /\ call'[c].acquired = FALSE
        /\ \A d \in Calls \ {c} : call'[d] = call[d]
        /\ call' \in [Calls -> [step : Steps, attempt : 0 .. MaxRetries, acquired : BOOLEAN]]
    BY <1>0, <1>2, <2>0, GotoMoves DEF Steps, FallBack
  <2>2. ~Holds(c) /\ ~Holds(c)'
    BY <2>0, <2>1 DEF Holds, CallAt
  <2>3. SlotsMatchCalls'
    BY <1>0, <2>0, <2>1, <2>2, HoldersSame DEF SlotsMatchCalls
  <2>4. GovernorTypeOK'
    BY <1>0, <2>0, <2>1, BreakerType
  <2>5. NoSlotFallback' /\ Alone' /\ Quiet'
    BY <1>0, <2>1, CallsMove
  <2> QED BY <2>3, <2>4, <2>5 DEF GovernorInv, NoSlotFallback, Alone, Quiet
<1> QED BY <1>1, <1>2

LEMMA InvReturn ==
  ASSUME GovernorInv, NEW c \in Calls, Return(c)
  PROVE  GovernorInv'
<1>0. /\ GovernorTypeOK /\ SlotsMatchCalls /\ UNCHANGED breaker
      /\ CallAt(c, "return") /\ slots \in Nat
      /\ call \in [Calls -> [step : Steps, attempt : 0 .. MaxRetries, acquired : BOOLEAN]]
  BY InvParts DEF Return, GovernorTypeOK, Steps
<1>1. NoCallYet \in [step : Steps, attempt : 0 .. MaxRetries, acquired : BOOLEAN]
  BY GovernorAssumption DEF NoCallYet, Steps
<1>2. /\ call'[c] = NoCallYet
      /\ \A d \in Calls \ {c} : call'[d] = call[d]
      /\ call' \in [Calls -> [step : Steps, attempt : 0 .. MaxRetries, acquired : BOOLEAN]]
  BY <1>0, <1>1 DEF Return
<1>3. call'[c].step = "idle" /\ ~Holds(c)'
  BY <1>2 DEF NoCallYet, Holds, CallAt
<1>4. CASE call[c].acquired
  <2>1. Holds(c) /\ slots' = slots - 1
    BY <1>0, <1>4 DEF Holds, Return
  <2>2. slots' \in Nat /\ SlotsMatchCalls'
    BY <1>2, <1>3, <2>1, SlotGivenBack
  <2> QED
    <3>1. GovernorTypeOK'
      BY <1>0, <1>2, <2>2, BreakerType
    <3>2. NoSlotFallback' /\ Alone' /\ Quiet'
      BY <1>0, <1>2, <1>3, CallsMove
    <3> QED BY <2>2, <3>1, <3>2 DEF GovernorInv, NoSlotFallback, Alone, Quiet
<1>5. CASE ~call[c].acquired
  <2>1. ~Holds(c) /\ slots' = slots
    BY <1>0, <1>5 DEF Holds, CallAt, Return
  <2>2. SlotsMatchCalls'
    BY <1>0, <1>2, <1>3, <2>1, HoldersSame DEF SlotsMatchCalls
  <2>3. GovernorTypeOK'
    BY <1>0, <1>2, <2>1, BreakerType
  <2>4. NoSlotFallback' /\ Alone' /\ Quiet'
    BY <1>0, <1>2, <1>3, CallsMove
  <2> QED BY <2>2, <2>3, <2>4 DEF GovernorInv, NoSlotFallback, Alone, Quiet
<1> QED BY <1>4, <1>5

LEMMA InvCoolDown == GovernorInv /\ CoolDown => GovernorInv'
BY DEF GovernorInv, CoolDown, GovernorTypeOK, SlotsMatchCalls, Holders, Holds, CallAt

LEMMA GovernorStutters == GovernorInv /\ UNCHANGED governorVars => GovernorInv'
BY DEF GovernorInv, governorVars, GovernorTypeOK, SlotsMatchCalls, Holders, Holds, CallAt

LEMMA GovernorStarts == GovernorInit => GovernorInv
<1> SUFFICES ASSUME GovernorInit PROVE GovernorInv
  OBVIOUS
<1>1. GovernorTypeOK
  <2>1. NoCallYet \in [step : Steps, attempt : 0 .. MaxRetries, acquired : BOOLEAN]
    BY GovernorAssumption DEF NoCallYet, Steps
  <2> QED BY <2>1 DEF GovernorInit, GovernorTypeOK, Steps
<1>2. Holders = {}
  BY DEF GovernorInit, Holders, Holds, CallAt, NoCallYet
<1>3. SlotsMatchCalls
  BY <1>2, FS_EmptySet, GovernorAssumption DEF SlotsMatchCalls, GovernorInit
<1> QED BY <1>1, <1>3 DEF GovernorInv, GovernorInit, CallAt, NoCallYet

LEMMA GovernorStep == GovernorInv /\ [GovernorNext]_governorVars => GovernorInv'
<1> SUFFICES ASSUME GovernorInv, [GovernorNext]_governorVars PROVE GovernorInv'
  OBVIOUS
<1>1. ASSUME NEW c \in Calls, CallStep(c) PROVE GovernorInv'
  <2>1. CASE Degrade(c) \/ Acquire(c) BY <2>1, InvAcquire
  <2>2. CASE Allow(c) BY <2>2, InvAllow
  <2>3. CASE Retry(c) BY <2>3, InvRetry
  <2>4. CASE Succeed(c) \/ RejectInput(c) \/ Abandon(c) \/ Fail(c) BY <2>4, InvEnd
  <2>5. CASE Release(c) \/ FallBack(c) BY <2>5, InvRelease
  <2>6. CASE Return(c) BY <2>6, InvReturn
  <2> QED BY <1>1, <2>1, <2>2, <2>3, <2>4, <2>5, <2>6 DEF CallStep
<1> QED BY <1>1, InvCoolDown, GovernorStutters DEF GovernorNext

\* The inductive invariant, for every number of calls and slots.
THEOREM GovernorHolds == GovernorSpec => []GovernorInv
BY GovernorStarts, GovernorStep, PTL DEF GovernorSpec

\* No slot is lost or given back twice, and a source on trial serves one call.
THEOREM SourceStaysGuarded == GovernorSpec => []SourceGuarded
<1>1. GovernorInv => SourceGuarded
  <2> SUFFICES ASSUME GovernorInv PROVE OneProbe
    BY InvParts DEF SourceGuarded
  <2> DEFINE P == {c \in Calls : CallAt(c, "primary")}
  <2> SUFFICES ASSUME circuit = "halfOpen" PROVE Cardinality(P) <= 1
    BY DEF OneProbe
  <2>1. CASE P = {}
    BY <2>1, FS_EmptySet
  <2>2. CASE P # {}
    <3>1. PICK c \in P : TRUE
      BY <2>2
    <3>2. P = {c}
      BY <3>1, InvParts DEF Alone
    <3>3. Cardinality({c}) = 1
      BY FS_Singleton
    <3> QED BY <3>2, <3>3
  <2> QED BY <2>1, <2>2
<1> QED BY <1>1, GovernorHolds, PTL

----------------------------------------------------------------------------
(* FeedAssembly: what is on an answer.                                     *)

LEMMA AssemblyInitial == AssemblyInit => AssemblyInv
<1> SUFFICES ASSUME AssemblyInit PROVE AssemblyInv
  OBVIOUS
<1>1. NoCards \in Cards /\ NoAnswer \in Answer /\ NoAnswer.step = "idle"
  BY DEF NoCards, Cards, NoAnswer, Answer
<1>2. AssemblyTypeOK
  BY <1>1 DEF AssemblyInit, VideosInit, AssemblyTypeOK
<1> QED BY <1>1, <1>2 DEF AssemblyInv, AssemblyInit, PageWasVisible, AnswerAt

\* The cards a request holds may change, its page may shrink and it may move on, once it has been
\* filtered.
LEMMA AnswersKept ==
  ASSUME AssemblyInv, published' \subseteq published, answer' \in [Requests -> Answer],
         \A r \in Requests : \/ answer'[r] = answer[r] \/ AnswerAt(r, "idle")'
                             \/ /\ ~AnswerAt(r, "idle") /\ ~AnswerAt(r, "filter")
                                /\ answer'[r].was = answer[r].was
                                /\ answer'[r].page = answer[r].page
  PROVE  \A r \in Requests : PageWasVisible(r)'
<1> SUFFICES ASSUME NEW r \in Requests PROVE PageWasVisible(r)'
  OBVIOUS
<1>1. PageWasVisible(r)
  BY DEF AssemblyInv
<1> QED BY <1>1 DEF PageWasVisible, AnswerAt

\* A request that moves.
LEMMA AnswerMoves ==
  ASSUME AssemblyInv, NEW r \in Requests, NEW next \in Answer, AnswerGoto(r, next)
  PROVE  /\ answer' \in [Requests -> Answer] /\ answer'[r] = next
         /\ \A q \in Requests \ {r} : answer'[q] = answer[q]
BY DEF AssemblyInv, AssemblyTypeOK, AnswerGoto

LEMMA IdleAnswer == NoAnswer \in Answer /\ NoAnswer.step = "idle" /\ NoAnswer.cards \in Cards
BY DEF NoCards, Cards, NoAnswer, Answer

LEMMA InvAssemble ==
  ASSUME AssemblyInv, NEW r \in Requests, NEW page \in SUBSET Videos, Assemble(r, page)
  PROVE  AssemblyInv'
<1>0. AssemblyTypeOK /\ UNCHANGED <<published, apiOf, cardL2, cardL1, loads>>
  BY DEF AssemblyInv, Assemble, videoVars
<1> DEFINE next == [NoAnswer EXCEPT !.step = "filter", !.page = page, !.was = published]
<1>1. next \in Answer /\ next.step = "filter" /\ next.was = published
  BY <1>0 DEF AssemblyTypeOK, NoAnswer, Answer, NoCards, Cards
<1>2. /\ answer' \in [Requests -> Answer] /\ answer'[r] = next
      /\ \A q \in Requests \ {r} : answer'[q] = answer[q]
  BY <1>1, AnswerMoves DEF Assemble
<1> HIDE DEF next
<1>3. AssemblyTypeOK'
  BY <1>0, <1>2 DEF AssemblyTypeOK
<1>4. ASSUME NEW q \in Requests PROVE PageWasVisible(q)'
  <2>1. CASE q = r
    BY <1>0, <1>1, <1>2, <2>1 DEF PageWasVisible, AnswerAt
  <2>2. CASE q # r
    BY <1>0, <1>2, <2>2 DEF AssemblyInv, PageWasVisible, AnswerAt
  <2> QED BY <2>1, <2>2
<1> QED BY <1>3, <1>4 DEF AssemblyInv

\* FilterVisible reads what is visible, all of which counts as seen.
LEMMA InvFilter ==
  ASSUME AssemblyInv, NEW r \in Requests, FilterVisible(r)
  PROVE  AssemblyInv'
<1>0. AssemblyTypeOK /\ UNCHANGED <<published, apiOf, cardL2, cardL1, loads>> /\ AnswerAt(r, "filter")
      /\ answer[r] \in Answer
  BY DEF AssemblyInv, AssemblyTypeOK, FilterVisible, videoVars
<1>1. PICK next \in Answer :
        /\ AnswerGoto(r, next)
        /\ next.step = "idle" \/ (next.was = answer[r].was /\ next.page \subseteq published)
  <2> DEFINE kept == [answer[r] EXCEPT !.step = "cards", !.page = @ \cap published]
  <2>1. kept \in Answer /\ kept.was = answer[r].was /\ kept.page \subseteq published
    BY <1>0 DEF Answer
  <2>2. AnswerGoto(r, kept) \/ AnswerGoto(r, NoAnswer)
    BY DEF FilterVisible, Fails
  <2> HIDE DEF kept
  <2> QED BY <2>1, <2>2, IdleAnswer
<1>2. /\ answer' \in [Requests -> Answer] /\ answer'[r] = next
      /\ \A q \in Requests \ {r} : answer'[q] = answer[q]
  BY <1>1, AnswerMoves
<1>3. AssemblyTypeOK'
  BY <1>0, <1>2 DEF AssemblyTypeOK
<1>4. ASSUME NEW q \in Requests PROVE PageWasVisible(q)'
  <2>0. PageWasVisible(q)
    BY DEF AssemblyInv
  <2>1. CASE q = r
    BY <1>0, <1>1, <1>2, <2>0, <2>1 DEF PageWasVisible, AnswerAt
  <2>2. CASE q # r
    BY <1>0, <1>2, <2>0, <2>2 DEF PageWasVisible, AnswerAt
  <2> QED BY <2>1, <2>2
<1> QED BY <1>3, <1>4 DEF AssemblyInv

\* The steps that give a filtered page its cards.
LEMMA InvCards ==
  ASSUME AssemblyInv, NEW r \in Requests,
         GetCards(r) \/ JoinLoad(r) \/ SetCards(r) \/ ReplyItems(r)
  PROVE  AssemblyInv'
<1>0. /\ AssemblyTypeOK /\ UNCHANGED <<published, apiOf>> /\ answer[r] \in Answer
      /\ apiOf[r] \in Apis /\ ~AnswerAt(r, "idle") /\ ~AnswerAt(r, "filter")
  BY DEF AssemblyInv, AssemblyTypeOK, GetCards, JoinLoad, SetCards, ReplyItems, videoVars, AnswerAt
<1>1. ASSUME NEW next \in Answer, AnswerGoto(r, next),
             next.step = "idle" \/ (next.was = answer[r].was /\ next.page = answer[r].page)
      PROVE  answer' \in [Requests -> Answer] /\ \A q \in Requests : PageWasVisible(q)'
  <2>1. /\ answer' \in [Requests -> Answer] /\ answer'[r] = next
        /\ \A q \in Requests \ {r} : answer'[q] = answer[q]
    BY <1>1, AnswerMoves
  <2> QED BY <1>0, <1>1, <2>1, AnswersKept DEF AnswerAt
<1>2. ASSUME NEW cards \in Cards, NEW fetched \in SUBSET Videos, NEW step \in {"load", "wait", "answer"}
      PROVE  LET next == [answer[r] EXCEPT !.step = step, !.cards = cards, !.fetched = fetched]
             IN  next \in Answer /\ next.was = answer[r].was /\ next.page = answer[r].page
  BY <1>0 DEF Answer
<1>3. CASE GetCards(r)
  <2> DEFINE page == answer[r].page
  <2>1. PICK redis \in BOOLEAN :
          LET kept  == [v \in Videos |-> IF v \in page /\ redis /\ cardL1[apiOf[r]][v] = Nothing
                                         THEN cardL2[v] ELSE cardL1[apiOf[r]][v]]
              cards == [v \in Videos |-> IF v \in page THEN kept[v] ELSE Nothing]
              step  == IF \E v \in page : cards[v] = Nothing THEN "load" ELSE "answer"
          IN  /\ AnswerGoto(r, [answer[r] EXCEPT !.step = step, !.cards = cards])
              /\ cardL1' = [cardL1 EXCEPT ![apiOf[r]] = kept]
    BY <1>3 DEF GetCards
  <2> DEFINE kept  == [v \in Videos |-> IF v \in page /\ redis /\ cardL1[apiOf[r]][v] = Nothing
                                        THEN cardL2[v] ELSE cardL1[apiOf[r]][v]]
             cards == [v \in Videos |-> IF v \in page THEN kept[v] ELSE Nothing]
             step  == IF \E v \in page : cards[v] = Nothing THEN "load" ELSE "answer"
             next  == [answer[r] EXCEPT !.step = step, !.cards = cards]
  <2>2. kept \in Cards
    BY <1>0 DEF AssemblyTypeOK, Cards
  <2>3. cards \in Cards
    BY <2>2 DEF Cards
  <2>4. step \in {"load", "answer"}
    OBVIOUS
  <2> HIDE DEF kept, cards, step
  <2>5. next \in Answer /\ next.was = answer[r].was /\ next.page = answer[r].page
    BY <1>0, <2>3, <2>4 DEF Answer
  <2>6. AnswerGoto(r, next) /\ cardL1' = [cardL1 EXCEPT ![apiOf[r]] = kept]
    BY <2>1 DEF kept, cards, step
  <2> HIDE DEF next
  <2>7. answer' \in [Requests -> Answer] /\ \A q \in Requests : PageWasVisible(q)'
    BY <1>1, <2>5, <2>6
  <2>8. AssemblyTypeOK'
    BY <1>0, <1>3, <2>2, <2>6, <2>7 DEF AssemblyTypeOK, GetCards
  <2> QED BY <2>7, <2>8 DEF AssemblyInv
<1>4. CASE JoinLoad(r)
  <2> DEFINE next == [answer[r] EXCEPT !.step = "wait"]
  <2>1. next \in Answer /\ next.was = answer[r].was /\ next.page = answer[r].page
    BY <1>0 DEF Answer
  <2>2. AnswerGoto(r, next)
    BY <1>4 DEF JoinLoad
  <2> HIDE DEF next
  <2>3. answer' \in [Requests -> Answer] /\ \A q \in Requests : PageWasVisible(q)'
    BY <1>1, <2>1, <2>2
  <2>4. Lacking(r) \in SUBSET Videos
    BY <1>0 DEF Lacking, Answer
  <2>5. AssemblyTypeOK'
    BY <1>0, <1>4, <2>3, <2>4 DEF AssemblyTypeOK, JoinLoad
  <2> QED BY <2>3, <2>5 DEF AssemblyInv
<1>5. CASE SetCards(r)
  <2> DEFINE Put(cards) == [v \in Videos |-> IF v \in answer[r].fetched THEN answer[r].cards[v] ELSE cards[v]]
             next == [answer[r] EXCEPT !.step = "answer", !.fetched = {}]
  <2>1. /\ cardL1' = [cardL1 EXCEPT ![apiOf[r]] = Put(cardL1[apiOf[r]])]
        /\ cardL2' \in {cardL2, Put(cardL2)} /\ AnswerGoto(r, next)
    BY <1>5 DEF SetCards
  <2>2. ASSUME NEW cards \in Cards PROVE Put(cards) \in Cards
    BY <1>0 DEF Cards, Answer
  <2>3. next \in Answer /\ next.was = answer[r].was /\ next.page = answer[r].page
    BY <1>0 DEF Answer
  <2> HIDE DEF next, Put
  <2>4. answer' \in [Requests -> Answer] /\ \A q \in Requests : PageWasVisible(q)'
    BY <1>1, <2>1, <2>3
  <2>5. AssemblyTypeOK'
    BY <1>0, <1>5, <2>1, <2>2, <2>4 DEF AssemblyTypeOK, SetCards
  <2> QED BY <2>4, <2>5 DEF AssemblyInv
<1>6. CASE ReplyItems(r)
  <2>1. answer' \in [Requests -> Answer] /\ \A q \in Requests : PageWasVisible(q)'
    BY <1>1, <1>6, IdleAnswer DEF ReplyItems, Fails
  <2>2. AssemblyTypeOK'
    BY <1>0, <1>6, <2>1 DEF AssemblyTypeOK, ReplyItems
  <2> QED BY <2>1, <2>2 DEF AssemblyInv
<1> QED BY <1>3, <1>4, <1>5, <1>6

\* A load ends for all that wait for it, and leaves their pages alone.
LEMMA InvLoad ==
  ASSUME AssemblyInv, NEW load \in loads, LoadCards(load)
  PROVE  AssemblyInv'
<1> DEFINE Got(r) == [answer[r] EXCEPT !.step = "set", !.fetched = load.ids,
                        !.cards = [v \in Videos |-> IF v \notin load.ids THEN @[v]
                                                    ELSE IF v \in load.found THEN "card" ELSE "missing"]]
<1>0. /\ AssemblyTypeOK /\ UNCHANGED <<published, apiOf, cardL2, cardL1>> /\ loads' \subseteq loads
      /\ load.ids \in SUBSET Videos
  BY DEF AssemblyInv, AssemblyTypeOK, LoadCards, videoVars
<1>1. PICK ok \in BOOLEAN :
        answer' = [r \in Requests |-> IF ~AnswerAt(r, "wait") \/ ~LoadOf(r, load) THEN answer[r]
                                      ELSE IF ok THEN Got(r) ELSE NoAnswer]
  BY DEF LoadCards
<1>2. ASSUME NEW r \in Requests
      PROVE  /\ Got(r) \in Answer /\ Got(r).was = answer[r].was /\ Got(r).page = answer[r].page
             /\ answer[r] \in Answer
  <2>1. answer[r] \in Answer
    BY <1>0 DEF AssemblyTypeOK
  <2>2. [v \in Videos |-> IF v \notin load.ids THEN answer[r].cards[v]
                          ELSE IF v \in load.found THEN "card" ELSE "missing"] \in Cards
    BY <2>1 DEF Answer, Cards
  <2> QED BY <1>0, <2>1, <2>2 DEF Answer
<1> HIDE DEF Got
<1>3. answer' \in [Requests -> Answer]
  BY <1>1, <1>2, IdleAnswer
<1>4. \A r \in Requests : \/ answer'[r] = answer[r] \/ AnswerAt(r, "idle")'
                          \/ /\ ~AnswerAt(r, "idle") /\ ~AnswerAt(r, "filter")
                             /\ answer'[r].was = answer[r].was
                             /\ answer'[r].page = answer[r].page
  BY <1>1, <1>2, IdleAnswer DEF AnswerAt
<1>5. \A r \in Requests : PageWasVisible(r)'
  BY <1>0, <1>3, <1>4, AnswersKept
<1>6. AssemblyTypeOK'
  BY <1>0, <1>3 DEF AssemblyTypeOK
<1> QED BY <1>5, <1>6 DEF AssemblyInv

\* A video that is restored has been seen by every request that is assembled.
LEMMA InvRestore ==
  ASSUME AssemblyInv, NEW v \in Videos, RestoreAnswered(v)
  PROVE  AssemblyInv'
<1>0. /\ AssemblyTypeOK /\ published' = published \cup {v} /\ UNCHANGED <<apiOf, cardL2, cardL1, loads>>
      /\ answer' = [r \in Requests |-> IF AnswerAt(r, "idle") THEN answer[r]
                                       ELSE [answer[r] EXCEPT !.was = @ \cup {v}]]
  BY DEF AssemblyInv, RestoreAnswered, Restore, Seen
<1>1. ASSUME NEW r \in Requests
      PROVE  /\ answer'[r] \in Answer /\ answer'[r].step = answer[r].step /\ answer'[r].page = answer[r].page
             /\ ~AnswerAt(r, "idle") => answer'[r].was = answer[r].was \cup {v}
  <2>1. answer[r] \in Answer /\ answer'[r] = IF AnswerAt(r, "idle") THEN answer[r]
                                             ELSE [answer[r] EXCEPT !.was = @ \cup {v}]
    BY <1>0 DEF AssemblyTypeOK
  <2> QED BY <2>1 DEF Answer
<1>2. answer' \in [Requests -> Answer]
  BY <1>0, <1>1
<1>3. AssemblyTypeOK'
  BY <1>0, <1>2 DEF AssemblyTypeOK
<1>4. \A r \in Requests : PageWasVisible(r)'
  BY <1>0, <1>1 DEF AssemblyInv, PageWasVisible, AnswerAt
<1> QED BY <1>3, <1>4 DEF AssemblyInv

\* What the videos and the caches do by themselves.
LEMMA InvCaches ==
  ASSUME AssemblyInv, NEW v \in Videos,
         \/ HideAnswered(v) \/ InvalidateCard(v) \/ Preheat(v) \/ ExpireCard(v)
         \/ \E a \in Apis : ExpireLocalCard(a, v)
  PROVE  AssemblyInv'
<1>0. /\ AssemblyTypeOK /\ published' \subseteq published /\ UNCHANGED <<apiOf, loads, answer>>
  BY DEF AssemblyInv, HideAnswered, Hide, InvalidateCard, Invalidate, Preheat, ExpireCard,
         ExpireLocalCard, videoVars
<1>1. cardL2' \in Cards
  BY <1>0 DEF AssemblyTypeOK, Cards, HideAnswered, InvalidateCard, Preheat, ExpireCard, ExpireLocalCard
<1>2. cardL1' \in [Apis -> Cards]
  <2>1. CASE \E a \in Apis : ExpireLocalCard(a, v)
    <3>1. PICK a \in Apis : cardL1' = [cardL1 EXCEPT ![a] = [cardL1[a] EXCEPT ![v] = Nothing]]
      BY <2>1 DEF ExpireLocalCard
    <3>2. [cardL1[a] EXCEPT ![v] = Nothing] \in Cards
      BY <1>0 DEF AssemblyTypeOK, Cards
    <3> QED BY <1>0, <3>1, <3>2 DEF AssemblyTypeOK
  <2>2. CASE cardL1' = cardL1
    BY <1>0, <2>2 DEF AssemblyTypeOK
  <2> QED BY <2>1, <2>2 DEF HideAnswered, InvalidateCard, Preheat, ExpireCard
<1>3. AssemblyTypeOK'
  BY <1>0, <1>1, <1>2 DEF AssemblyTypeOK
<1>4. \A r \in Requests : PageWasVisible(r)'
  BY <1>0 DEF AssemblyInv, PageWasVisible, AnswerAt
<1> QED BY <1>3, <1>4 DEF AssemblyInv

LEMMA AssemblyMoves == AssemblyInv /\ [AssemblyNext]_cardVars => AssemblyInv'
<1> SUFFICES ASSUME AssemblyInv, [AssemblyNext]_cardVars PROVE AssemblyInv'
  OBVIOUS
<1>1. CASE UNCHANGED cardVars
  BY <1>1 DEF cardVars, videoVars, AssemblyInv, AssemblyTypeOK, PageWasVisible, AnswerAt
<1>2. CASE AssemblyNext
  BY <1>2, InvAssemble, InvFilter, InvCards, InvLoad, InvRestore, InvCaches DEF AssemblyNext, AssemblyStep
<1> QED BY <1>1, <1>2

\* However many requests share a load, and whatever is hidden and restored meanwhile.
THEOREM AssemblyHolds == AssemblySpec => []AssemblyInv
<1> QED BY AssemblyInitial, AssemblyMoves, PTL DEF AssemblySpec

\* FilterVisible: no answer shows what has not been published since its request came.
THEOREM HiddenHolds == AssemblySpec => []HiddenNotShown
<1>1. AssemblyInv => HiddenNotShown
  BY DEF AssemblyInv, PageWasVisible, HiddenNotShown, AnswerAt, Items
<1> QED BY <1>1, AssemblyHolds, PTL
----------------------------------------------------------------------------
(* Orders and folds: what the pages of the recommender are made with.      *)

\* A set of naturals has a least member.
LEMMA LeastMember ==
  ASSUME NEW S \in SUBSET Nat, S # {}
  PROVE  \E x \in S : \A y \in S : x <= y
<1>1. PICK x \in S : \A y \in S : <<y, x>> \notin OpToRel(<, Nat)
  BY NatLessThanWellFounded, WFMin
<1>2. \A y \in S : ~(y < x)
  BY <1>1 DEF OpToRel
<1> QED BY <1>2

\* Of a set of subsets of a finite set, one has the fewest members.
LEMMA SmallestSubset ==
  ASSUME NEW D, IsFiniteSet(D), NEW B \in SUBSET SUBSET D, B # {}
  PROVE  \E s \in B : /\ IsFiniteSet(s)
                      /\ \A x \in s : s \ {x} \notin B
<1> DEFINE counts == {Cardinality(s) : s \in B}
<1>1. \A s \in B : IsFiniteSet(s) /\ Cardinality(s) \in Nat
  BY FS_Subset, FS_CardinalityType
<1>2. counts \in SUBSET Nat /\ counts # {}
  BY <1>1
<1>3. PICK n \in counts : \A m \in counts : n <= m
  BY <1>2, LeastMember
<1>4. PICK s \in B : n = Cardinality(s)
  OBVIOUS
<1>5. ASSUME NEW x \in s, s \ {x} \in B PROVE FALSE
  <2>1. Cardinality(s \ {x}) = Cardinality(s) - 1
    BY <1>1, FS_RemoveElement
  <2>2. n <= Cardinality(s \ {x})
    BY <1>3, <1>5
  <2> QED BY <1>1, <1>4, <2>1, <2>2
<1> QED BY <1>1, <1>5

\* Max is the greatest of some indices.
LEMMA GreatestIndex ==
  ASSUME NEW n \in Nat, NEW S \in SUBSET (1 .. n), S # {}
  PROVE  Max(S) \in S /\ \A y \in S : y <= Max(S)
<1>1. \A y \in S : y \in 1 .. n
  OBVIOUS
<1>2. \A y \in S : y \in Nat /\ n - y \in Nat
  BY <1>1
<1> DEFINE T == {n - y : y \in S}
<1>3. T \in SUBSET Nat /\ T # {}
  BY <1>2
<1>4. PICK t \in T : \A u \in T : t <= u
  BY <1>3, LeastMember
<1>5. PICK x \in S : t = n - x
  OBVIOUS
<1>6. \A y \in S : x >= y
  <2>1. \A y \in S : n - x <= n - y
    BY <1>4, <1>5
  <2> QED BY <1>2, <2>1
<1>7. Max(S) \in S /\ \A y \in S : Max(S) >= y
  BY <1>6 DEF Max
<1> QED BY <1>2, <1>7

\* The elements of a sequence are those at its indices.
LEMMA SeqElements ==
  ASSUME NEW S, NEW s \in Seq(S)
  PROVE  /\ \A x \in ToSet(s) : \E i \in 1 .. Len(s) : x = s[i]
         /\ \A i \in 1 .. Len(s) : s[i] \in ToSet(s)
         /\ ToSet(s) \in SUBSET S
<1>1. DOMAIN s = 1 .. Len(s) /\ \A i \in 1 .. Len(s) : s[i] \in S
  OBVIOUS
<1>2. \A x : x \in ToSet(s) <=> \E i \in 1 .. Len(s) : x = s[i]
  BY <1>1, Zenon DEF ToSet
<1> QED BY <1>1, <1>2

\* A strict order of the members of a set, as pairs, and how many are below one of them.
Orders(R, D) ==
  /\ \A a \in D : <<a, a>> \notin R
  /\ \A a, b \in D : a # b => <<a, b>> \in R \/ <<b, a>> \in R
  /\ \A a, b, c \in D : <<a, b>> \in R /\ <<b, c>> \in R => <<a, c>> \in R
Below(R, D, a) == {b \in D : <<b, a>> \in R}
Rank(R, D, a) == Cardinality(Below(R, D, a))

\* Ranks are below the number of members, and rise with them.
LEMMA RanksRise ==
  ASSUME NEW D, IsFiniteSet(D), NEW R, Orders(R, D)
  PROVE  /\ \A a \in D : Rank(R, D, a) \in 0 .. Cardinality(D) - 1
         /\ \A a, b \in D : <<a, b>> \in R => Rank(R, D, a) < Rank(R, D, b)
<1>0. /\ Cardinality(D) \in Nat
      /\ \A a \in D : /\ IsFiniteSet(Below(R, D, a)) /\ Rank(R, D, a) \in Nat
                      /\ Below(R, D, a) \in SUBSET D
  BY FS_Subset, FS_CardinalityType DEF Below, Rank
<1>1. ASSUME NEW a \in D PROVE Rank(R, D, a) \in 0 .. Cardinality(D) - 1
  <2>1. a \notin Below(R, D, a)
    BY DEF Orders, Below
  <2>2. Rank(R, D, a) <= Cardinality(D) /\ Rank(R, D, a) # Cardinality(D)
    BY <1>0, <2>1, FS_Subset DEF Rank
  <2> QED BY <1>0, <2>2
<1>2. ASSUME NEW a \in D, NEW b \in D, <<a, b>> \in R PROVE Rank(R, D, a) < Rank(R, D, b)
  <2>1. Below(R, D, a) \in SUBSET Below(R, D, b)
    BY <1>2 DEF Orders, Below
  <2>2. a \in Below(R, D, b) /\ a \notin Below(R, D, a)
    BY <1>2 DEF Orders, Below
  <2>3. Rank(R, D, a) <= Rank(R, D, b) /\ Rank(R, D, a) # Rank(R, D, b)
    BY <1>0, <2>1, <2>2, FS_Subset DEF Rank
  <2> QED BY <1>0, <2>3
<1> QED BY <1>1, <1>2

\* Each rank is that of one member, of no other.
LEMMA RanksTaken ==
  ASSUME NEW D, IsFiniteSet(D), NEW R, Orders(R, D)
  PROVE  /\ \A a, b \in D : a # b => Rank(R, D, a) # Rank(R, D, b)
         /\ \A i \in 1 .. Cardinality(D) : \E a \in D : Rank(R, D, a) = i - 1
<1> DEFINE n == Cardinality(D)
           T == 0 .. n - 1
           f == [a \in D |-> Rank(R, D, a)]
<1>0. n \in Nat
  BY FS_CardinalityType
<1>1. f \in [D -> T]
  BY RanksRise
<1>2. \A a, b \in D : a # b => f[a] # f[b]
  <2> SUFFICES ASSUME NEW a \in D, NEW b \in D, a # b PROVE f[a] # f[b]
    OBVIOUS
  <2>1. Rank(R, D, a) < Rank(R, D, b) \/ Rank(R, D, b) < Rank(R, D, a)
    BY RanksRise DEF Orders
  <2>2. Rank(R, D, a) \in Int /\ Rank(R, D, b) \in Int
    BY RanksRise, <1>0
  <2> QED BY <2>1, <2>2
<1>3. IsFiniteSet(T) /\ Cardinality(T) = n
  <2> HIDE DEF n
  <2>1. n - 1 \in Int /\ 0 \in Int
    BY <1>0
  <2>2. /\ IsFiniteSet(0 .. n - 1)
        /\ Cardinality(0 .. n - 1) = IF 0 > n - 1 THEN 0 ELSE n - 1 - 0 + 1
    BY <2>1, FS_Interval
  <2> QED BY <1>0, <2>2
<1> HIDE DEF f
<1>4. f \in Injection(D, T)
  BY <1>1, <1>2 DEF Injection, IsInjective
<1>5. f \in Surjection(D, T)
  BY <1>3, <1>4, FS_Injection
<1>6. ASSUME NEW i \in 1 .. n PROVE \E a \in D : Rank(R, D, a) = i - 1
  <2>1. i - 1 \in T
    BY <1>0
  <2>2. PICK a \in D : f[a] = i - 1
    BY <1>5, <2>1 DEF Surjection
  <2> QED BY <2>2 DEF f
<1>7. \A a, b \in D : a # b => Rank(R, D, a) # Rank(R, D, b)
  BY <1>2 DEF f
<1> QED BY <1>6, <1>7

\* The members of least rank.
Lowest(R, D, k) == {a \in D : Rank(R, D, a) < k}

LEMMA LowestTaken ==
  ASSUME NEW D, IsFiniteSet(D), NEW R, Orders(R, D), NEW k \in Nat, k # 0
  PROVE  /\ IsFiniteSet(Lowest(R, D, k)) /\ Cardinality(Lowest(R, D, k)) <= k
         /\ Cardinality(D) <= k => Lowest(R, D, k) = D
         /\ D # {} => Lowest(R, D, k) # {}
         /\ \A a \in Lowest(R, D, k), b \in D : <<b, a>> \in R => b \in Lowest(R, D, k)
<1> DEFINE L == Lowest(R, D, k)
           T == 0 .. k - 1
           f == [a \in L |-> Rank(R, D, a)]
<1>0. Cardinality(D) \in Nat /\ \A a \in D : Rank(R, D, a) \in Nat /\ Rank(R, D, a) < Cardinality(D)
  BY FS_CardinalityType, RanksRise
<1>1. f \in [L -> T]
  BY <1>0 DEF Lowest
<1>2. \A a, b \in L : a # b => f[a] # f[b]
  BY RanksTaken DEF Lowest
<1>3. IsFiniteSet(T) /\ Cardinality(T) = k
  <2>1. k - 1 \in Int /\ 0 \in Int
    OBVIOUS
  <2>2. /\ IsFiniteSet(0 .. k - 1)
        /\ Cardinality(0 .. k - 1) = IF 0 > k - 1 THEN 0 ELSE k - 1 - 0 + 1
    BY <2>1, FS_Interval
  <2> QED BY <2>2
<1> HIDE DEF f
<1>4. f \in Injection(L, T)
  BY <1>1, <1>2 DEF Injection, IsInjective
<1>5. IsFiniteSet(L) /\ Cardinality(L) <= k
  BY <1>3, <1>4, FS_Injection
<1>6. Cardinality(D) <= k => L = D
  BY <1>0 DEF Lowest
<1>7. ASSUME D # {} PROVE L # {}
  <2>1. Cardinality(D) # 0
    BY <1>7, FS_EmptySet
  <2>2. 1 \in 1 .. Cardinality(D)
    BY <1>0, <2>1
  <2>3. PICK a \in D : Rank(R, D, a) = 1 - 1
    BY <2>2, RanksTaken
  <2> QED BY <2>3 DEF Lowest
<1>8. ASSUME NEW a \in L, NEW b \in D, <<b, a>> \in R PROVE b \in L
  <2>1. a \in D /\ Rank(R, D, a) < k /\ Rank(R, D, b) < Rank(R, D, a)
    BY <1>8, RanksRise DEF Lowest
  <2> QED BY <1>0, <2>1 DEF Lowest
<1> QED BY <1>5, <1>6, <1>7, <1>8

\* The sequence of the members by rank has each of them.
ByRank(R, D) == [i \in 1 .. Cardinality(D) |-> CHOOSE a \in D : Rank(R, D, a) = i - 1]

LEMMA ByRankHasAll ==
  ASSUME NEW D, IsFiniteSet(D), NEW R, Orders(R, D)
  PROVE  /\ ByRank(R, D) \in [1 .. Cardinality(D) -> D]
         /\ \A a \in D : \E i \in 1 .. Cardinality(D) : ByRank(R, D)[i] = a
<1> DEFINE s == ByRank(R, D)
           n == Cardinality(D)
<1>0. n \in Nat
  BY FS_CardinalityType
<1>1. \A i \in 1 .. n : s[i] \in D /\ Rank(R, D, s[i]) = i - 1
  <2> SUFFICES ASSUME NEW i \in 1 .. n PROVE s[i] \in D /\ Rank(R, D, s[i]) = i - 1
    OBVIOUS
  <2>1. s[i] = CHOOSE a \in D : Rank(R, D, a) = i - 1
    BY DEF ByRank
  <2> QED BY <2>1, RanksTaken
<1>2. s \in [1 .. n -> D]
  <2>1. s = [i \in 1 .. n |-> s[i]]
    BY DEF ByRank
  <2> HIDE DEF s, n
  <2> QED BY <1>1, <2>1
<1>3. ASSUME NEW a \in D PROVE \E i \in 1 .. n : s[i] = a
  <2>1. Rank(R, D, a) \in 0 .. n - 1
    BY RanksRise
  <2> DEFINE i == Rank(R, D, a) + 1
  <2>2. i \in 1 .. n /\ i - 1 = Rank(R, D, a)
    BY <1>0, <2>1
  <2>3. s[i] \in D /\ Rank(R, D, s[i]) = Rank(R, D, a)
    BY <1>1, <2>2
  <2>4. s[i] = a
    BY <2>3, RanksTaken
  <2> QED BY <2>2, <2>4
<1> QED BY <1>2, <1>3

\* One index is taken after the other, the greatest last.
Folded(g, S, base, op, seq) ==
  \A s \in S : g[s] = IF s = {} THEN base ELSE op[<<g[s \ {Max(s)}], seq[Max(s)]>>]

LEMMA LastTaken ==
  ASSUME NEW E, NEW seq \in Seq(E), NEW s \in SUBSET (1 .. Len(seq)), s # {}
  PROVE  /\ Max(s) \in s /\ Max(s) \in 1 .. Len(seq) /\ seq[Max(s)] \in E
         /\ s \ {Max(s)} \in SUBSET (1 .. Len(seq))
<1>1. Len(seq) \in Nat
  OBVIOUS
<1>2. Max(s) \in s
  BY <1>1, GreatestIndex
<1>3. \A i \in 1 .. Len(seq) : seq[i] \in E
  OBVIOUS
<1> DEFINE i == Max(s)
<1> HIDE DEF i
<1>4. i \in s /\ i \in 1 .. Len(seq)
  BY <1>2 DEF i
<1>5. seq[i] \in E /\ s \ {i} \in SUBSET (1 .. Len(seq))
  BY <1>3, <1>4
<1> QED BY <1>4, <1>5 DEF i

\* There is such a fold: it is found for sets of one index more at a time.
LEMMA FoldExists ==
  ASSUME NEW V, NEW E, NEW seq \in Seq(E), NEW base \in V, NEW op \in [V \X E -> V]
  PROVE  \E h \in [SUBSET (1 .. Len(seq)) -> V] : Folded(h, SUBSET (1 .. Len(seq)), base, op, seq)
<1> DEFINE D == 1 .. Len(seq)
           Level(n) == {s \in SUBSET D : Cardinality(s) <= n}
           Good(n)  == \E g \in [SUBSET D -> V] : Folded(g, Level(n), base, op, seq)
           bad      == {n \in Nat : ~Good(n)}
<1>0. IsFiniteSet(D)
  BY FS_Interval
<1>1. \A s \in SUBSET D : IsFiniteSet(s) /\ Cardinality(s) \in Nat
  BY <1>0, FS_Subset, FS_CardinalityType
<1>2. \A s \in SUBSET D : s # {} => /\ Max(s) \in s /\ seq[Max(s)] \in E
                                    /\ s \ {Max(s)} \in SUBSET D
                                    /\ Cardinality(s \ {Max(s)}) = Cardinality(s) - 1
  BY <1>1, LastTaken, FS_RemoveElement
<1>3. \A s \in SUBSET D : Cardinality(s) = 0 => s = {}
  BY <1>1, FS_EmptySet
<1>4. ASSUME bad # {} PROVE FALSE
  <2>1. PICK n \in bad : \A m \in bad : n <= m
    BY <1>4, LeastMember
  <2>2. CASE n = 0
    <3> DEFINE g == [s \in SUBSET D |-> base]
    <3>1. g \in [SUBSET D -> V]
      OBVIOUS
    <3>2. \A s \in Level(0) : s = {} /\ g[s] = base
      BY <1>1, <1>3
    <3>3. Folded(g, Level(0), base, op, seq)
      BY <3>2 DEF Folded
    <3>4. Good(0)
      BY <3>1, <3>3
    <3> QED BY <2>1, <2>2, <3>4
  <2>3. CASE n # 0
    <3>1. n - 1 \in Nat /\ Good(n - 1)
      <4>1. n \in Nat /\ n - 1 \in Nat /\ n - 1 < n
        BY <2>1, <2>3
      <4>2. n - 1 \notin bad
        <5> HIDE DEF bad
        <5> QED BY <2>1, <4>1
      <4> HIDE DEF Good
      <4> QED BY <4>1, <4>2
    <3>2. PICK g \in [SUBSET D -> V] : Folded(g, Level(n - 1), base, op, seq)
      BY <3>1
    <3> DEFINE h == [s \in SUBSET D |-> IF s = {} THEN base ELSE op[<<g[s \ {Max(s)}], seq[Max(s)]>>]]
    <3>3. h \in [SUBSET D -> V]
      <4>1. \A s \in SUBSET D : s # {} => <<g[s \ {Max(s)}], seq[Max(s)]>> \in V \X E
        BY <1>2, <3>2
      <4> QED BY <4>1
    <3>4. \A s \in Level(n - 1) : h[s] = g[s]
      BY <3>2 DEF Folded
    <3>5. \A s \in Level(n) : s # {} => s \ {Max(s)} \in Level(n - 1)
      <4> SUFFICES ASSUME NEW s \in SUBSET D, Cardinality(s) <= n, s # {}
                   PROVE  s \ {Max(s)} \in SUBSET D /\ Cardinality(s \ {Max(s)}) <= n - 1
        OBVIOUS
      <4>1. n \in Int /\ Cardinality(s) \in Int
        BY <1>1, <2>1
      <4>2. /\ s \ {Max(s)} \in SUBSET D
            /\ Cardinality(s \ {Max(s)}) = Cardinality(s) - 1
        BY <1>2
      <4> HIDE DEF D
      <4>3. Cardinality(s) - 1 <= n - 1
        BY <4>1
      <4> QED BY <4>2, <4>3
    <3>6. \A s \in Level(n) : h[s] = IF s = {} THEN base ELSE op[<<g[s \ {Max(s)}], seq[Max(s)]>>]
      OBVIOUS
    <3>7. Folded(h, Level(n), base, op, seq)
      <4> HIDE DEF h
      <4> QED BY <3>4, <3>5, <3>6 DEF Folded
    <3>8. Good(n)
      BY <3>3, <3>7
    <3> QED BY <2>1, <3>8
  <2> QED BY <2>2, <2>3
<1>5. Cardinality(D) \in Nat /\ \A s \in SUBSET D : Cardinality(s) <= Cardinality(D)
  BY <1>0, FS_Subset, FS_CardinalityType
<1>6. Good(Cardinality(D))
  BY <1>4, <1>5
<1>7. Level(Cardinality(D)) = SUBSET D
  BY <1>5
<1> QED BY <1>6, <1>7

\* g takes the steps of op as long as it is in V.
StepsIn(g, S, V, op, seq) ==
  \A s \in S : s # {} /\ g[s \ {Max(s)}] \in V => g[s] = op[<<g[s \ {Max(s)}], seq[Max(s)]>>]

\* What takes the same steps as long as it is in the set, is in the set.
LEMMA FoldStays ==
  ASSUME NEW V, NEW E, NEW seq \in Seq(E), NEW base \in V, NEW op \in [V \X E -> V],
         NEW g, g[{}] = base, StepsIn(g, SUBSET (1 .. Len(seq)), V, op, seq)
  PROVE  g[1 .. Len(seq)] \in V
<1> DEFINE D == 1 .. Len(seq)
           bad == {s \in SUBSET D : g[s] \notin V}
<1>0. IsFiniteSet(D)
  BY FS_Interval
<1>1. ASSUME bad # {} PROVE FALSE
  <2>1. PICK s \in bad : \A x \in s : s \ {x} \notin bad
    BY <1>0, <1>1, SmallestSubset
  <2>2. s \in SUBSET D /\ s # {} /\ g[s] \notin V
    BY <2>1
  <2>3. Max(s) \in s /\ seq[Max(s)] \in E /\ s \ {Max(s)} \in SUBSET D
    BY <2>2, LastTaken
  <2>4. g[s \ {Max(s)}] \in V
    BY <2>1, <2>3
  <2>5. <<g[s \ {Max(s)}], seq[Max(s)]>> \in V \X E
    BY <2>3, <2>4
  <2>6. g[s] = op[<<g[s \ {Max(s)}], seq[Max(s)]>>]
    BY <2>2, <2>4 DEF StepsIn
  <2>7. op[<<g[s \ {Max(s)}], seq[Max(s)]>>] \in V
    BY <2>5
  <2> QED BY <2>2, <2>6, <2>7
<1> QED BY <1>1

\* The elements of a longer sequence.
LEMMA AppendElements ==
  ASSUME NEW E, NEW k \in Seq(E), NEW v \in E
  PROVE  /\ Append(k, v) \in Seq(E) /\ Len(Append(k, v)) = Len(k) + 1
         /\ ToSet(Append(k, v)) = ToSet(k) \cup {v}
<1> DEFINE a == Append(k, v)
           n == Len(k)
<1>1. /\ a \in Seq(E) /\ Len(a) = n + 1 /\ n \in Nat /\ a[n + 1] = v
      /\ \A i \in 1 .. n : a[i] = k[i]
  OBVIOUS
<1> HIDE DEF a, n
<1>2. /\ \A x \in ToSet(a) : \E i \in 1 .. n + 1 : x = a[i]
      /\ \A i \in 1 .. n + 1 : a[i] \in ToSet(a)
  BY <1>1, SeqElements
<1>3. /\ \A x \in ToSet(k) : \E i \in 1 .. n : x = k[i]
      /\ \A i \in 1 .. n : k[i] \in ToSet(k)
  BY SeqElements DEF n
<1>4. \A i \in 1 .. n + 1 : i \in 1 .. n \/ i = n + 1
  BY <1>1
<1>5. ToSet(a) \subseteq ToSet(k) \cup {v}
  BY <1>1, <1>2, <1>3, <1>4
<1>6. \A i \in 1 .. n : i \in 1 .. n + 1
  BY <1>1
<1>7. n + 1 \in 1 .. n + 1
  BY <1>1
<1>8. ToSet(k) \cup {v} \subseteq ToSet(a)
  BY <1>1, <1>2, <1>3, <1>6, <1>7
<1>9. ToSet(a) = ToSet(k) \cup {v}
  BY <1>5, <1>8
<1> QED BY <1>1, <1>9 DEF a, n

\* The fold that keeps what is not gone, in some order, collects all of it.
Collects(op, E, gone) ==
  \A k \in Seq(E), v \in E :
    \/ op[<<k, v>>] = k /\ v \in ToSet(k) \cup gone
    \/ op[<<k, v>>] = Append(k, v) /\ v \notin gone

\* It has all elements that are not gone.
LEMMA FoldCollects ==
  ASSUME NEW E, NEW seq \in Seq(E), NEW op \in [Seq(E) \X E -> Seq(E)], NEW gone,
         Collects(op, E, gone), NEW g, g[{}] = <<>>, StepsIn(g, SUBSET (1 .. Len(seq)), Seq(E), op, seq)
  PROVE  /\ g[1 .. Len(seq)] \in Seq(E)
         /\ \A v : v \in ToSet(g[1 .. Len(seq)]) <=> v \in ToSet(seq) /\ v \notin gone
         /\ Len(g[1 .. Len(seq)]) <= Len(seq)
<1> DEFINE D == 1 .. Len(seq)
           Of(s) == {seq[i] : i \in s}
           Good(s) == /\ g[s] \in Seq(E) /\ Len(g[s]) <= Cardinality(s)
                      /\ ToSet(g[s]) = Of(s) \ gone
           bad == {s \in SUBSET D : ~Good(s)}
<1>0. IsFiniteSet(D) /\ Len(seq) \in Nat /\ Cardinality(D) = Len(seq)
  BY FS_Interval
<1>1. \A s \in SUBSET D : IsFiniteSet(s) /\ Cardinality(s) \in Nat
  BY <1>0, FS_Subset, FS_CardinalityType
<1>2. Good({})
  <2>2. Cardinality({}) = 0
    BY FS_EmptySet
  <2>3. <<>> \in Seq(E) /\ Len(<<>>) = 0
    OBVIOUS
  <2>4. ToSet(<<>>) = {}
    BY DEF ToSet
  <2> QED BY <2>2, <2>3, <2>4
<1>3. ASSUME NEW s \in SUBSET D, s # {}, Good(s \ {Max(s)}) PROVE Good(s)
  <2> DEFINE m == Max(s)
             t == s \ {m}
             k == g[t]
             v == seq[m]
  <2>1. m \in s /\ v \in E /\ t \in SUBSET D
    BY <1>3, LastTaken
  <2>2. g[s] = op[<<k, v>>]
    BY <1>3 DEF StepsIn
  <2>3. Cardinality(t) = Cardinality(s) - 1 /\ Cardinality(s) \in Nat
    BY <1>1, <2>1, FS_RemoveElement
  <2> HIDE DEF m
  <2>4. Of(s) = Of(t) \cup {v}
    BY <2>1
  <2>5. k \in Seq(E) /\ Len(k) <= Cardinality(t) /\ ToSet(k) = Of(t) \ gone
    BY <1>3 DEF m
  <2> HIDE DEF k, v, t, Of, D
  <2>6. CASE op[<<k, v>>] = k /\ v \in ToSet(k) \cup gone
    <3>1. ToSet(g[s]) = Of(s) \ gone
      BY <2>2, <2>4, <2>5, <2>6
    <3>2. Len(g[s]) <= Cardinality(s)
      <4>1. Len(k) \in Nat
        BY <2>5
      <4> QED BY <2>2, <2>3, <2>5, <2>6, <4>1
    <3> QED BY <2>2, <2>5, <2>6, <3>1, <3>2
  <2>7. CASE op[<<k, v>>] = Append(k, v) /\ v \notin gone
    <3>1. /\ g[s] \in Seq(E) /\ Len(g[s]) = Len(k) + 1 /\ ToSet(g[s]) = ToSet(k) \cup {v}
      BY <2>1, <2>2, <2>5, <2>7, AppendElements
    <3>2. ToSet(g[s]) = Of(s) \ gone
      BY <2>4, <2>5, <2>7, <3>1
    <3>3. Len(g[s]) <= Cardinality(s)
      <4>1. Len(k) \in Nat
        BY <2>5
      <4> QED BY <2>3, <2>5, <3>1, <4>1
    <3> QED BY <3>1, <3>2, <3>3
  <2> QED BY <2>1, <2>5, <2>6, <2>7 DEF Collects
<1> HIDE DEF Good
<1>4. ASSUME bad # {} PROVE FALSE
  <2>1. PICK s \in bad : \A x \in s : s \ {x} \notin bad
    BY <1>0, <1>4, SmallestSubset
  <2>2. s \in SUBSET D /\ s # {} /\ ~Good(s)
    BY <1>2, <2>1
  <2>3. Max(s) \in s /\ s \ {Max(s)} \in SUBSET D
    BY <2>2, LastTaken
  <2>4. Good(s \ {Max(s)})
    BY <2>1, <2>3
  <2> QED BY <1>3, <2>2, <2>4
<1>5. Good(D)
  BY <1>4
<1>6. Of(D) = ToSet(seq)
  BY SeqElements
<1> QED BY <1>0, <1>5, <1>6 DEF Good
----------------------------------------------------------------------------
(* RecommendedFeed: what its operators do.                                 *)

\* The offered videos are finitely many numbers.
LEMMA MixableFinite == IsFiniteSet(Mixable) /\ Mixable \in SUBSET Nat
<1>1. Offered \in Seq(Nat)
  BY MixAssumption
<1> DEFINE D == 1 .. Len(Offered)
           f == [n \in D |-> Offered[n]]
<1>2. Len(Offered) \in Nat /\ IsFiniteSet(D)
  BY <1>1, FS_Interval
<1>3. /\ \A x \in Mixable : \E i \in D : x = Offered[i]
      /\ \A i \in D : Offered[i] \in Mixable
      /\ Mixable \in SUBSET Nat
  BY <1>1, SeqElements DEF Mixable
<1>4. f \in Surjection(D, Mixable)
  BY <1>3 DEF Surjection
<1>5. IsFiniteSet(Mixable)
  BY <1>2, <1>4, FS_Surjection
<1> QED BY <1>3, <1>5

\* NewestPageSource: the videos by number.
LEMMA NewestAreOffered ==
  ASSUME NEW S \in SUBSET Mixable
  PROVE  NewestFirst(S) \in Seq(Mixable)
<1> DEFINE R == {p \in S \X S : p[1] > p[2]}
<1>1. IsFiniteSet(S) /\ S \in SUBSET Nat /\ Cardinality(S) \in Nat
  BY MixableFinite, FS_Subset, FS_CardinalityType
<1>2. \A v, w \in S : <<w, v>> \in R <=> w > v
  OBVIOUS
<1>3. Orders(R, S)
  <2> HIDE DEF R
  <2> QED BY <1>1, <1>2 DEF Orders
<1> HIDE DEF R
<1>4. \A v \in S : Rank(R, S, v) = Cardinality({w \in S : w > v})
  <2> SUFFICES ASSUME NEW v \in S PROVE Rank(R, S, v) = Cardinality({w \in S : w > v})
    OBVIOUS
  <2>1. Below(R, S, v) = {w \in S : w > v}
    BY <1>2 DEF Below
  <2> QED BY <2>1 DEF Rank
<1>5. NewestFirst(S) \in [1 .. Cardinality(S) -> S]
  <2>1. \A i \in 1 .. Cardinality(S) : \E v \in S : Rank(R, S, v) = i - 1
    BY <1>1, <1>3, RanksTaken
  <2>2. \A i \in 1 .. Cardinality(S) : \E v \in S : Cardinality({w \in S : w > v}) = i - 1
    BY <1>4, <2>1
  <2> QED BY <2>2 DEF NewestFirst
<1>6. NewestFirst(S) \in [1 .. Cardinality(S) -> Mixable]
  BY <1>5
<1> QED BY <1>1, <1>6

\* The sequences of a finite set.
LEMMA SetSequences ==
  ASSUME NEW S, IsFiniteSet(S), NEW s \in SetToSeqs(S)
  PROVE  s \in Seq(S) /\ Len(s) = Cardinality(S) /\ ToSet(s) = S
<1> DEFINE n == Cardinality(S)
           D == 1 .. n
<1>1. n \in Nat
  BY FS_CardinalityType
<1>2. s \in [D -> S] /\ \A i, j \in D : i # j => s[i] # s[j]
  BY DEF SetToSeqs
<1>3. IsFiniteSet(D) /\ Cardinality(D) = n
  BY <1>1, FS_Interval
<1> HIDE DEF D
<1>4. s \in Injection(D, S)
  BY <1>2 DEF Injection, IsInjective
<1>5. s \in Surjection(D, S)
  BY <1>3, <1>4, FS_Injection
<1>6. s \in Seq(S) /\ Len(s) = n
  BY <1>1, <1>2 DEF D
<1>7. S \in SUBSET ToSet(s)
  BY <1>5, <1>6, SeqElements DEF Surjection, D
<1> QED BY <1>6, <1>7, SeqElements

\* The first items of a page, all of them when it is not too long.
LEMMA FirstItemsShown ==
  ASSUME NEW E, NEW s \in Seq(E)
  PROVE  /\ FirstItems(s) \in Seq(E) /\ ToSet(FirstItems(s)) \in SUBSET ToSet(s)
         /\ Len(s) <= MixLimit => ToSet(FirstItems(s)) = ToSet(s)
<1> DEFINE k == IF Len(s) < MixLimit THEN Len(s) ELSE MixLimit
           f == SubSeq(s, 1, k)
<1>1. Len(s) \in Nat /\ MixLimit \in Nat /\ k \in 0 .. Len(s)
  BY MixAssumption
<1> HIDE DEF k
<1>2. f \in Seq(E) /\ Len(f) = k /\ \A i \in 1 .. k : f[i] = s[i]
  BY <1>1
<1>3. FirstItems(s) = f
  BY DEF FirstItems, k
<1> HIDE DEF f
<1>4. \A i \in 1 .. k : i \in 1 .. Len(s)
  BY <1>1
<1>5. ToSet(f) \in SUBSET ToSet(s)
  BY <1>2, <1>4, SeqElements
<1>6. ASSUME Len(s) <= MixLimit PROVE ToSet(s) \in SUBSET ToSet(f)
  <2>1. k = Len(s)
    BY <1>1, <1>6 DEF k
  <2> QED BY <1>2, <2>1, SeqElements
<1> QED BY <1>2, <1>3, <1>5, <1>6

\* The places of an author up to an item.
OfAuthor(items, n) == {m \in 1 .. n : WrittenBy[items[m]] = WrittenBy[items[n]]}

LEMMA RoundCounts ==
  ASSUME NEW E, NEW items \in Seq(E), NEW n \in 1 .. Len(items)
  PROVE  /\ Round(items, n) = Cardinality(OfAuthor(items, n)) /\ Round(items, n) \in Nat
         /\ IsFiniteSet(OfAuthor(items, n)) /\ OfAuthor(items, n) \in SUBSET (1 .. Len(items))
         /\ n \in OfAuthor(items, n)
<1>1. n \in Nat /\ Len(items) \in Nat
  OBVIOUS
<1>2. IsFiniteSet(1 .. n)
  BY <1>1, FS_Interval
<1>3. IsFiniteSet(OfAuthor(items, n)) /\ Cardinality(OfAuthor(items, n)) \in Nat
  BY <1>2, FS_Subset, FS_CardinalityType DEF OfAuthor
<1>4. Round(items, n) = Cardinality(OfAuthor(items, n))
  BY DEF Round, OfAuthor
<1> QED BY <1>1, <1>3, <1>4 DEF OfAuthor

\* The items of an author are of rising rounds.
LEMMA RoundsRise ==
  ASSUME NEW E, NEW items \in Seq(E), NEW m \in 1 .. Len(items), NEW n \in 1 .. Len(items), m < n,
         WrittenBy[items[m]] = WrittenBy[items[n]]
  PROVE  Round(items, m) < Round(items, n)
<1>1. OfAuthor(items, m) \in SUBSET OfAuthor(items, n)
  BY DEF OfAuthor
<1>2. n \in OfAuthor(items, n) /\ n \notin OfAuthor(items, m)
  BY RoundCounts DEF OfAuthor
<1>3. Cardinality(OfAuthor(items, m)) <= Cardinality(OfAuthor(items, n))
      /\ Cardinality(OfAuthor(items, m)) # Cardinality(OfAuthor(items, n))
  BY <1>1, <1>2, RoundCounts, FS_Subset
<1> QED BY <1>3, RoundCounts

\* The place of an author is that of an item of theirs.
LEMMA AuthorHasPlace ==
  ASSUME NEW E, NEW items \in Seq(E), NEW n \in 1 .. Len(items)
  PROVE  /\ AuthorPlace(items, n) \in 1 .. n
         /\ WrittenBy[items[AuthorPlace(items, n)]] = WrittenBy[items[n]]
<1>0. n \in Nat /\ Len(items) \in Nat
  OBVIOUS
<1>1. OfAuthor(items, n) \in SUBSET Nat /\ OfAuthor(items, n) # {}
  BY <1>0, RoundCounts DEF OfAuthor
<1>2. PICK m \in OfAuthor(items, n) : \A k \in OfAuthor(items, n) : m <= k
  BY <1>1, LeastMember
<1>3. m \in 1 .. n /\ m \in 1 .. Len(items) /\ WrittenBy[items[m]] = WrittenBy[items[n]]
  BY <1>0, <1>2 DEF OfAuthor
<1>4. OfAuthor(items, m) = {m}
  <2>1. \A k \in OfAuthor(items, m) : k \in OfAuthor(items, n) /\ k <= m /\ k \in Nat /\ m \in Nat
    BY <1>0, <1>3 DEF OfAuthor
  <2>2. \A k \in OfAuthor(items, m) : k = m
    BY <1>2, <2>1
  <2> QED BY <1>3, <2>2, RoundCounts
<1>5. Round(items, m) = 1
  <2>1. Round(items, m) = Cardinality(OfAuthor(items, m))
    BY <1>3, RoundCounts
  <2>2. Cardinality({m}) = 1
    BY FS_Singleton
  <2> QED BY <1>4, <2>1, <2>2
<1> QED BY <1>3, <1>5 DEF AuthorPlace

\* The items in turn are in a strict order.
Turns(items) == {p \in (1 .. Len(items)) \X (1 .. Len(items)) : InTurn(items, p[1], p[2])}

LEMMA TurnsOrder ==
  ASSUME NEW E, NEW items \in Seq(E)
  PROVE  /\ \A m, n \in 1 .. Len(items) : <<m, n>> \in Turns(items) <=> InTurn(items, m, n)
         /\ Orders(Turns(items), 1 .. Len(items))
<1> DEFINE D == 1 .. Len(items)
           R == Turns(items)
<1>0. Len(items) \in Nat
  OBVIOUS
<1>1. \A m, n \in D : <<m, n>> \in R <=> InTurn(items, m, n)
  BY DEF Turns
<1>2. \A n \in D : Round(items, n) \in Int /\ AuthorPlace(items, n) \in Int
  <2> SUFFICES ASSUME NEW n \in D PROVE Round(items, n) \in Int /\ AuthorPlace(items, n) \in Int
    OBVIOUS
  <2>1. Round(items, n) \in Nat /\ AuthorPlace(items, n) \in 1 .. n /\ n \in Nat
    BY <1>0, RoundCounts, AuthorHasPlace
  <2> QED BY <2>1
<1> HIDE DEF R
<1>3. \A n \in D : <<n, n>> \notin R
  BY <1>1, <1>2 DEF InTurn
<1>4. ASSUME NEW m \in D, NEW n \in D, m < n PROVE <<m, n>> \in R \/ <<n, m>> \in R
  <2>1. CASE Round(items, m) # Round(items, n)
    BY <1>1, <1>2, <2>1 DEF InTurn
  <2>2. CASE Round(items, m) = Round(items, n)
    <3>1. WrittenBy[items[m]] # WrittenBy[items[n]]
      BY <1>2, <1>4, <2>2, RoundsRise
    <3>2. AuthorPlace(items, m) # AuthorPlace(items, n)
      BY <3>1, AuthorHasPlace
    <3> QED BY <1>1, <1>2, <2>2, <3>2 DEF InTurn
  <2> QED BY <2>1, <2>2
<1>5. \A m, n \in D : m # n => <<m, n>> \in R \/ <<n, m>> \in R
  <2>1. \A m, n \in D : m # n => m < n \/ n < m
    BY <1>0
  <2> QED BY <1>4, <2>1
<1>6. \A k, m, n \in D : <<k, m>> \in R /\ <<m, n>> \in R => <<k, n>> \in R
  BY <1>1, <1>2 DEF InTurn
<1> QED BY <1>1, <1>3, <1>5, <1>6 DEF Orders, R

\* AuthorDiversityMixer moves the items, it does not lose any.
LEMMA MixKeeps ==
  ASSUME NEW E, NEW items \in Seq(E)
  PROVE  /\ MixAuthors(items) \in Seq(E) /\ Len(MixAuthors(items)) = Len(items)
         /\ ToSet(MixAuthors(items)) = ToSet(items)
<1> DEFINE n == Len(items)
           D == 1 .. n
           R == Turns(items)
           s == ByRank(R, D)
           x == MixAuthors(items)
<1>0. n \in Nat /\ DOMAIN items = D /\ \A i \in D : items[i] \in E
  OBVIOUS
<1>1. IsFiniteSet(D) /\ Cardinality(D) = n
  <2> HIDE DEF n
  <2>1. n \in Int /\ 1 \in Int
    BY <1>0
  <2>2. IsFiniteSet(1 .. n) /\ Cardinality(1 .. n) = IF 1 > n THEN 0 ELSE n - 1 + 1
    BY <2>1, FS_Interval
  <2> QED BY <1>0, <2>2
<1>2. /\ Orders(R, D) /\ \A a, b \in D : <<a, b>> \in R <=> InTurn(items, a, b)
  BY TurnsOrder
<1> HIDE DEF R
<1>3. \A i \in D : Rank(R, D, i) = Cardinality({m \in D : InTurn(items, m, i)})
  <2> SUFFICES ASSUME NEW i \in D PROVE Rank(R, D, i) = Cardinality({m \in D : InTurn(items, m, i)})
    OBVIOUS
  <2>1. Below(R, D, i) = {m \in D : InTurn(items, m, i)}
    BY <1>2 DEF Below
  <2> QED BY <2>1 DEF Rank
<1>4. s \in [D -> D] /\ \A a \in D : \E i \in D : s[i] = a
  BY <1>1, <1>2, ByRankHasAll
<1>5. x \in [D -> E] /\ \A i \in D : x[i] = items[s[i]]
  <2> DEFINE before == [k \in D |-> Cardinality({m \in D : InTurn(items, m, k)})]
  <2>1. x = [i \in D |-> items[CHOOSE k \in D : before[k] = i - 1]]
    BY <1>0 DEF MixAuthors
  <2>2. \A k \in D : before[k] = Rank(R, D, k)
    BY <1>3
  <2> HIDE DEF before, D, x
  <2>3. \A i \in D : (CHOOSE k \in D : before[k] = i - 1) = (CHOOSE k \in D : Rank(R, D, k) = i - 1)
    BY <2>2
  <2>4. \A i \in D : s[i] = CHOOSE k \in D : Rank(R, D, k) = i - 1
    BY <1>1 DEF ByRank, D
  <2>5. \A i \in D : x[i] = items[s[i]]
    BY <2>1, <2>3, <2>4
  <2>6. x = [i \in D |-> x[i]]
    BY <2>1
  <2> HIDE DEF s
  <2> QED BY <1>0, <1>4, <2>5, <2>6
<1> HIDE DEF x, s
<1>6. x \in Seq(E) /\ Len(x) = n
  BY <1>0, <1>5
<1>7. ToSet(x) = ToSet(items)
  <2>1. ToSet(x) \in SUBSET ToSet(items)
    <3> SUFFICES ASSUME NEW v \in ToSet(x) PROVE v \in ToSet(items)
      OBVIOUS
    <3>1. PICK i \in D : v = x[i]
      BY <1>6, SeqElements
    <3>2. v = items[s[i]] /\ s[i] \in D
      BY <1>4, <1>5, <3>1
    <3> QED BY <3>2, SeqElements
  <2>2. ToSet(items) \in SUBSET ToSet(x)
    <3> SUFFICES ASSUME NEW v \in ToSet(items) PROVE v \in ToSet(x)
      OBVIOUS
    <3>1. PICK a \in D : v = items[a]
      BY SeqElements
    <3>2. PICK i \in D : s[i] = a
      BY <1>4
    <3>3. x[i] = v
      BY <1>5, <3>1, <3>2
    <3> QED BY <1>6, <3>3, SeqElements
  <2> QED BY <2>1, <2>2
<1> QED BY <1>6, <1>7 DEF x

\* DeduplicateFilter loses no video.
LEMMA DeduplicateKeeps ==
  ASSUME NEW E, NEW items \in Seq(E)
  PROVE  /\ Deduplicate(items) \in Seq(E) /\ ToSet(Deduplicate(items)) = ToSet(items)
         /\ Len(Deduplicate(items)) <= Len(items)
<1> DEFINE D == 1 .. Len(items)
           Turn(k, v) == IF v \in ToSet(k) THEN k ELSE Append(k, v)
           op == [p \in Seq(E) \X E |-> Turn(p[1], p[2])]
           Iterates(f) == f = [s \in SUBSET D |-> IF s = {} THEN <<>>
                                                  ELSE Turn(f[s \ {Max(s)}], items[Max(s)])]
<1>0. DOMAIN items = D /\ D \in SUBSET D
  OBVIOUS
<1>1. <<>> \in Seq(E)
  OBVIOUS
<1>2. /\ op \in [Seq(E) \X E -> Seq(E)]
      /\ \A k \in Seq(E), v \in E : op[<<k, v>>] = Turn(k, v)
  <2>1. \A p \in Seq(E) \X E : p[1] \in Seq(E) /\ p[2] \in E
    OBVIOUS
  <2>2. \A k \in Seq(E), v \in E : Turn(k, v) \in Seq(E)
    BY AppendElements
  <2>3. op \in [Seq(E) \X E -> Seq(E)]
    BY <2>1, <2>2
  <2>4. ASSUME NEW k \in Seq(E), NEW v \in E PROVE op[<<k, v>>] = Turn(k, v)
    OBVIOUS
  <2> QED BY <2>3, <2>4
<1> HIDE DEF op
<1>3. PICK h \in [SUBSET D -> Seq(E)] : Folded(h, SUBSET D, <<>>, op, items)
  BY <1>1, <1>2, FoldExists
<1>4. \A s \in SUBSET D : s # {} => items[Max(s)] \in E /\ s \ {Max(s)} \in SUBSET D
  BY LastTaken
<1>5. Iterates(h)
  <2>1. \A s \in SUBSET D : h[s] = IF s = {} THEN <<>> ELSE Turn(h[s \ {Max(s)}], items[Max(s)])
    <3> SUFFICES ASSUME NEW s \in SUBSET D
                 PROVE  h[s] = IF s = {} THEN <<>> ELSE Turn(h[s \ {Max(s)}], items[Max(s)])
      OBVIOUS
    <3>1. h[s] = IF s = {} THEN <<>> ELSE op[<<h[s \ {Max(s)}], items[Max(s)]>>]
      BY <1>3 DEF Folded
    <3>2. s # {} => op[<<h[s \ {Max(s)}], items[Max(s)]>>] = Turn(h[s \ {Max(s)}], items[Max(s)])
      BY <1>2, <1>4
    <3> QED BY <3>1, <3>2, Zenon
  <2>2. h = [s \in SUBSET D |-> h[s]]
    OBVIOUS
  <2> QED BY <2>1, <2>2, Zenon
<1>6. PICK g : g = (CHOOSE f : Iterates(f)) /\ Iterates(g)
  <2>1. Iterates(CHOOSE f : Iterates(f))
    BY <1>5, Zenon
  <2> QED BY <2>1, Zenon
<1>7. Deduplicate(items) = g[D]
  <2>1. Deduplicate(items)
          = (CHOOSE f : f = [s \in SUBSET DOMAIN items |->
                IF s = {} THEN <<>>
                ELSE IF items[Max(s)] \in ToSet(f[s \ {Max(s)}]) THEN f[s \ {Max(s)}]
                     ELSE Append(f[s \ {Max(s)}], items[Max(s)])])[DOMAIN items]
    BY Zenon DEF Deduplicate, FoldLeft, MapThenFoldSet
  <2> QED BY <1>0, <1>6, <2>1, Zenon
<1>8. g[{}] = <<>> /\ \A s \in SUBSET D : s # {} => g[s] = Turn(g[s \ {Max(s)}], items[Max(s)])
  <2>1. \A s \in SUBSET D : g[s] = IF s = {} THEN <<>> ELSE Turn(g[s \ {Max(s)}], items[Max(s)])
    BY <1>6, Zenon
  <2> QED BY <2>1, Zenon
<1>9. StepsIn(g, SUBSET D, Seq(E), op, items)
  BY <1>2, <1>4, <1>8 DEF StepsIn
<1>10. Collects(op, E, {})
  <2>1. \A k \in Seq(E), v \in E :
          \/ Turn(k, v) = k /\ v \in ToSet(k) \cup {}
          \/ Turn(k, v) = Append(k, v) /\ v \notin {}
    OBVIOUS
  <2> QED BY <1>2, <2>1 DEF Collects
<1>11. /\ g[D] \in Seq(E) /\ \A v : v \in ToSet(g[D]) <=> v \in ToSet(items) /\ v \notin {}
       /\ Len(g[D]) <= Len(items)
  <2>1. g[{}] = <<>> /\ op \in [Seq(E) \X E -> Seq(E)]
    BY <1>2, <1>8
  <2> HIDE DEF Turn, Iterates
  <2> QED BY <1>9, <1>10, <2>1, FoldCollects
<1> QED BY <1>7, <1>11

\* SeenFilter loses the videos that are marked.
LEMMA UnmarkedKeeps ==
  ASSUME NEW E, NEW items \in Seq(E)
  PROVE  /\ Unmarked(items) \in Seq(E) /\ ToSet(Unmarked(items)) = ToSet(items) \ marked
         /\ Len(Unmarked(items)) <= Len(items)
<1> DEFINE D == 1 .. Len(items)
           Turn(k, v) == IF v \in marked THEN k ELSE Append(k, v)
           op == [p \in Seq(E) \X E |-> Turn(p[1], p[2])]
           Iterates(f) == f = [s \in SUBSET D |-> IF s = {} THEN <<>>
                                                  ELSE Turn(f[s \ {Max(s)}], items[Max(s)])]
<1>0. DOMAIN items = D /\ D \in SUBSET D
  OBVIOUS
<1>1. <<>> \in Seq(E)
  OBVIOUS
<1>2. /\ op \in [Seq(E) \X E -> Seq(E)]
      /\ \A k \in Seq(E), v \in E : op[<<k, v>>] = Turn(k, v)
  <2>1. \A p \in Seq(E) \X E : p[1] \in Seq(E) /\ p[2] \in E
    OBVIOUS
  <2>2. \A k \in Seq(E), v \in E : Turn(k, v) \in Seq(E)
    BY AppendElements
  <2>3. op \in [Seq(E) \X E -> Seq(E)]
    BY <2>1, <2>2
  <2>4. ASSUME NEW k \in Seq(E), NEW v \in E PROVE op[<<k, v>>] = Turn(k, v)
    OBVIOUS
  <2> QED BY <2>3, <2>4
<1> HIDE DEF op
<1>3. PICK h \in [SUBSET D -> Seq(E)] : Folded(h, SUBSET D, <<>>, op, items)
  BY <1>1, <1>2, FoldExists
<1>4. \A s \in SUBSET D : s # {} => items[Max(s)] \in E /\ s \ {Max(s)} \in SUBSET D
  BY LastTaken
<1>5. Iterates(h)
  <2>1. \A s \in SUBSET D : h[s] = IF s = {} THEN <<>> ELSE Turn(h[s \ {Max(s)}], items[Max(s)])
    <3> SUFFICES ASSUME NEW s \in SUBSET D
                 PROVE  h[s] = IF s = {} THEN <<>> ELSE Turn(h[s \ {Max(s)}], items[Max(s)])
      OBVIOUS
    <3>1. h[s] = IF s = {} THEN <<>> ELSE op[<<h[s \ {Max(s)}], items[Max(s)]>>]
      BY <1>3 DEF Folded
    <3>2. s # {} => op[<<h[s \ {Max(s)}], items[Max(s)]>>] = Turn(h[s \ {Max(s)}], items[Max(s)])
      BY <1>2, <1>4
    <3> QED BY <3>1, <3>2, Zenon
  <2>2. h = [s \in SUBSET D |-> h[s]]
    OBVIOUS
  <2> QED BY <2>1, <2>2, Zenon
<1>6. PICK g : g = (CHOOSE f : Iterates(f)) /\ Iterates(g)
  <2>1. Iterates(CHOOSE f : Iterates(f))
    BY <1>5, Zenon
  <2> QED BY <2>1, Zenon
<1>7. Unmarked(items) = g[D]
  <2>1. Unmarked(items)
          = (CHOOSE f : f = [s \in SUBSET DOMAIN items |->
                IF s = {} THEN <<>>
                ELSE IF items[Max(s)] \in marked THEN f[s \ {Max(s)}]
                     ELSE Append(f[s \ {Max(s)}], items[Max(s)])])[DOMAIN items]
    BY Zenon DEF Unmarked, FoldLeft, MapThenFoldSet
  <2> QED BY <1>0, <1>6, <2>1, Zenon
<1>8. g[{}] = <<>> /\ \A s \in SUBSET D : s # {} => g[s] = Turn(g[s \ {Max(s)}], items[Max(s)])
  <2>1. \A s \in SUBSET D : g[s] = IF s = {} THEN <<>> ELSE Turn(g[s \ {Max(s)}], items[Max(s)])
    BY <1>6, Zenon
  <2> QED BY <2>1, Zenon
<1>9. StepsIn(g, SUBSET D, Seq(E), op, items)
  BY <1>2, <1>4, <1>8 DEF StepsIn
<1>10. Collects(op, E, marked)
  <2>1. \A k \in Seq(E), v \in E :
          \/ Turn(k, v) = k /\ v \in ToSet(k) \cup marked
          \/ Turn(k, v) = Append(k, v) /\ v \notin marked
    OBVIOUS
  <2> QED BY <1>2, <2>1 DEF Collects
<1>11. /\ g[D] \in Seq(E) /\ \A v : v \in ToSet(g[D]) <=> v \in ToSet(items) /\ v \notin marked
       /\ Len(g[D]) <= Len(items)
  <2>1. g[{}] = <<>> /\ op \in [Seq(E) \X E -> Seq(E)]
    BY <1>2, <1>8
  <2> HIDE DEF Turn, Iterates
  <2> QED BY <1>9, <1>10, <2>1, FoldCollects
<1>12. ToSet(Unmarked(items)) = ToSet(g[D])
  BY <1>7 DEF ToSet
<1> QED BY <1>7, <1>11, <1>12
----------------------------------------------------------------------------
(* RecommendedFeed: the pages that are loaded and shown.                   *)

MixPages == [items : Seq(Mixable), next : 0 .. Len(Offered), more : BOOLEAN, fell : BOOLEAN]

\* The ranking has each offered video at one place.
LEMMA OneVideoEach ==
  /\ Len(Offered) \in Nat /\ DOMAIN Offered = 1 .. Len(Offered)
  /\ \A n \in 1 .. Len(Offered) : Offered[n] \in Mixable
  /\ \A v \in Mixable : \E n \in 1 .. Len(Offered) : v = Offered[n]
  /\ \A m, n \in 1 .. Len(Offered) : Offered[m] = Offered[n] => m = n
<1>1. Offered \in Seq(Nat)
  BY MixAssumption
<1>2. Len(Offered) \in Nat /\ DOMAIN Offered = 1 .. Len(Offered)
  BY <1>1
<1>3. \A m, n \in 1 .. Len(Offered) : Offered[m] = Offered[n] => m = n
  BY <1>2, MixAssumption DEF IsInjective
<1> QED BY <1>1, <1>2, <1>3, SeqElements DEF Mixable

\* The first of some places.
FirstPlaces(rest) == {n \in rest : Cardinality({m \in rest : m < n}) < MixLimit}

LEMMA FirstPlacesTaken ==
  ASSUME NEW rest \in SUBSET (1 .. Len(Offered))
  PROVE  /\ IsFiniteSet(rest) /\ Cardinality(rest) \in Nat
         /\ FirstPlaces(rest) \in SUBSET rest /\ IsFiniteSet(FirstPlaces(rest))
         /\ Cardinality(FirstPlaces(rest)) \in Nat /\ Cardinality(FirstPlaces(rest)) <= MixLimit
         /\ Cardinality(rest) <= MixLimit => FirstPlaces(rest) = rest
         /\ rest # {} => FirstPlaces(rest) # {}
         /\ \A n \in FirstPlaces(rest), m \in rest : m < n => m \in FirstPlaces(rest)
<1> DEFINE R == {p \in rest \X rest : p[1] < p[2]}
<1>1. IsFiniteSet(1 .. Len(Offered)) /\ Len(Offered) \in Nat
  BY OneVideoEach, FS_Interval
<1>2. IsFiniteSet(rest) /\ Cardinality(rest) \in Nat
  BY <1>1, FS_Subset, FS_CardinalityType
<1>3. \A m, n \in rest : <<m, n>> \in R <=> m < n
  OBVIOUS
<1>4. \A n \in rest : n \in Int
  BY <1>1
<1> HIDE DEF R
<1>5. Orders(R, rest)
  BY <1>3, <1>4 DEF Orders
<1>6. FirstPlaces(rest) = Lowest(R, rest, MixLimit)
  <2>1. \A n \in rest : Below(R, rest, n) = {m \in rest : m < n}
    BY <1>3 DEF Below
  <2>2. \A n \in rest : Rank(R, rest, n) = Cardinality({m \in rest : m < n})
    BY <2>1 DEF Rank
  <2> QED BY <2>2 DEF FirstPlaces, Lowest
<1>7. MixLimit \in Nat /\ MixLimit # 0
  BY MixAssumption
<1>8. /\ IsFiniteSet(FirstPlaces(rest)) /\ Cardinality(FirstPlaces(rest)) <= MixLimit
      /\ Cardinality(rest) <= MixLimit => FirstPlaces(rest) = rest
      /\ rest # {} => FirstPlaces(rest) # {}
      /\ \A n \in FirstPlaces(rest), m \in rest : <<m, n>> \in R => m \in FirstPlaces(rest)
  BY <1>2, <1>5, <1>6, <1>7, LowestTaken
<1>9. FirstPlaces(rest) \in SUBSET rest
  BY DEF FirstPlaces
<1>10. Cardinality(FirstPlaces(rest)) \in Nat
  BY <1>8, FS_CardinalityType
<1> QED BY <1>2, <1>3, <1>8, <1>9, <1>10

\* The videos at some places are no more than the places.
LEMMA VideosAtPlaces ==
  ASSUME NEW page \in SUBSET (1 .. Len(Offered)), IsFiniteSet(page)
  PROVE  /\ {Offered[n] : n \in page} \in SUBSET Mixable
         /\ IsFiniteSet({Offered[n] : n \in page})
         /\ Cardinality({Offered[n] : n \in page}) <= Cardinality(page)
<1> DEFINE T == {Offered[n] : n \in page}
           f == [n \in page |-> Offered[n]]
<1>1. f \in Surjection(page, T)
  BY DEF Surjection
<1>2. IsFiniteSet(T) /\ Cardinality(T) <= Cardinality(page)
  <2> HIDE DEF f, T
  <2> QED BY <1>1, FS_Surjection
<1> QED BY <1>2, OneVideoEach

\* What a page of the recommender is, above a place and up to the cursor it gives.
Follows(p) ==
  /\ p.more => p.next > mix.place
  /\ \A n \in 1 .. Len(Offered) : n > mix.place /\ (p.more => n <= p.next)
        => Offered[n] \in shownTo \cup ToSet(p.items)
  /\ \A n \in 1 .. Len(Offered) : Offered[n] \in ToSet(p.items)
        => n > mix.place /\ (p.more => n <= p.next)

LEMMA PrimaryFollows ==
  ASSUME MixTypeOK, NEW p \in PrimaryPages
  PROVE  p \in MixPages /\ ~p.fell /\ Len(p.items) <= MixLimit /\ Follows(p)
<1> DEFINE rest == {n \in DOMAIN Offered : n > mix.place /\ Offered[n] \notin shownTo}
           page == FirstPlaces(rest)
           S == {Offered[n] : n \in page}
<1>1. PICK s \in SetToSeqs(S) :
        p = [items |-> s, next |-> IF page = {} THEN 0 ELSE Max(page),
             more |-> Cardinality(rest) > MixLimit, fell |-> FALSE]
  BY DEF PrimaryPages, FirstPlaces
<1>2. rest \in SUBSET (1 .. Len(Offered)) /\ mix.place \in Nat /\ Len(Offered) \in Nat
  BY OneVideoEach DEF MixTypeOK
<1>3. \A n \in 1 .. Len(Offered) : n \in rest <=> n > mix.place /\ Offered[n] \notin shownTo
  BY OneVideoEach
<1> HIDE DEF rest
<1>4. /\ IsFiniteSet(rest) /\ Cardinality(rest) \in Nat
      /\ page \in SUBSET rest /\ IsFiniteSet(page)
      /\ Cardinality(page) \in Nat /\ Cardinality(page) <= MixLimit
      /\ Cardinality(rest) <= MixLimit => page = rest
      /\ rest # {} => page # {}
      /\ \A n \in page, m \in rest : m < n => m \in page
  BY <1>2, FirstPlacesTaken
<1> HIDE DEF page
<1>5. page \in SUBSET (1 .. Len(Offered))
  BY <1>2, <1>4
<1>6. S \in SUBSET Mixable /\ IsFiniteSet(S) /\ Cardinality(S) <= Cardinality(page)
  BY <1>4, <1>5, VideosAtPlaces
<1>7. page # {} => /\ Max(page) \in page /\ \A n \in page : n <= Max(page)
  BY <1>2, <1>5, GreatestIndex
<1>8. \A n \in 1 .. Len(Offered) : Offered[n] \in S <=> n \in page
  <2>1. \A n \in 1 .. Len(Offered) : Offered[n] \in S => \E m \in page : Offered[n] = Offered[m]
    OBVIOUS
  <2>2. \A n \in page : Offered[n] \in S
    OBVIOUS
  <2> HIDE DEF S
  <2> QED BY <1>5, <2>1, <2>2, OneVideoEach
<1> HIDE DEF S
<1>9. s \in Seq(S) /\ Len(s) = Cardinality(S) /\ ToSet(s) = S
  BY <1>6, SetSequences
<1>10. s \in Seq(Mixable)
  BY <1>6, <1>9
<1>11. Cardinality(S) \in Nat /\ MixLimit \in Nat
  BY <1>6, FS_CardinalityType, MixAssumption
<1>12. Len(p.items) <= MixLimit /\ ~p.fell /\ ToSet(p.items) = S /\ p.items \in Seq(Mixable)
  BY <1>1, <1>4, <1>6, <1>9, <1>10, <1>11
<1>13. p.next \in 0 .. Len(Offered) /\ p \in MixPages
  <2>1. page # {} => Max(page) \in 1 .. Len(Offered)
    BY <1>5, <1>7
  <2>2. p.next = IF page = {} THEN 0 ELSE Max(page)
    BY <1>1
  <2>3. p.next \in 0 .. Len(Offered)
    BY <1>2, <2>1, <2>2
  <2> QED BY <1>1, <1>10, <2>2, <2>3 DEF MixPages
<1>14. p.more => page # {} /\ p.next = Max(page)
  <2>0. p.more => Cardinality(rest) > MixLimit
    BY <1>1
  <2>1. p.more => Cardinality(rest) # 0
    BY <1>4, <1>11, <2>0
  <2>2. p.more => rest # {}
    BY <1>4, <2>1, FS_EmptySet
  <2> QED BY <1>1, <1>4, <2>2
<1>15. ~p.more => page = rest
  <2>1. ~p.more => ~(Cardinality(rest) > MixLimit)
    BY <1>1
  <2> QED BY <1>4, <1>11, <2>1
<1>16. p.more => p.next > mix.place
  BY <1>3, <1>4, <1>5, <1>7, <1>14
<1>17. ASSUME NEW n \in 1 .. Len(Offered), n > mix.place, p.more => n <= p.next
       PROVE  Offered[n] \in shownTo \cup ToSet(p.items)
  <2>1. CASE Offered[n] \notin shownTo
    <3>1. n \in rest
      BY <1>3, <1>17, <2>1
    <3>2. CASE ~p.more
      BY <1>8, <1>12, <1>15, <3>1, <3>2
    <3>3. CASE p.more
      <4>1. Max(page) \in page /\ n <= Max(page)
        BY <1>7, <1>14, <1>17, <3>3
      <4>2. PICK m \in 1 .. Len(Offered) : m = Max(page)
        BY <1>5, <4>1
      <4>3. n \in page
        BY <1>2, <1>4, <3>1, <4>1, <4>2
      <4> QED BY <1>8, <1>12, <4>3
    <3> QED BY <3>2, <3>3
  <2> QED BY <2>1
<1>18. ASSUME NEW n \in 1 .. Len(Offered), Offered[n] \in ToSet(p.items)
       PROVE  n > mix.place /\ (p.more => n <= p.next)
  <2>1. n \in page
    BY <1>8, <1>12, <1>18
  <2> QED BY <1>3, <1>4, <1>7, <1>14, <2>1
<1> QED BY <1>12, <1>13, <1>16, <1>17, <1>18 DEF Follows

\* The pages of the other sources hold offered videos.
LEMMA NewestTyped ==
  ASSUME NEW S \in SUBSET Mixable
  PROVE  NewestOf(S) \in Seq(Mixable)
<1>1. NewestFirst(S) \in Seq(Mixable)
  BY NewestAreOffered
<1> QED BY <1>1, FirstItemsShown DEF NewestOf

LEMMA HotTyped ==
  ASSUME NEW s \in HotPages
  PROVE  s \in Seq(Mixable)
<1>1. PICK T \in SUBSET Mixable : s \in SetToSeqs(T)
  BY DEF HotPages
<1>2. IsFiniteSet(T)
  BY MixableFinite, FS_Subset
<1>3. s \in Seq(T)
  BY <1>1, <1>2, SetSequences
<1> QED BY <1>3

LEMMA FallbackTyped ==
  ASSUME NEW p \in FallbackPages
  PROVE  p \in MixPages /\ p.fell /\ ~p.more
<1>1. PICK s \in HotPages \cup {NewestOf(Mixable)} :
        p = [items |-> s, next |-> 0, more |-> FALSE, fell |-> TRUE]
  BY DEF FallbackPages
<1>2. s \in Seq(Mixable)
  BY HotTyped, NewestTyped
<1>3. 0 \in 0 .. Len(Offered)
  BY OneVideoEach
<1> QED BY <1>1, <1>2, <1>3 DEF MixPages

LEMMA ExtrasTyped ==
  ASSUME NEW e \in Extras
  PROVE  e \in Seq(Mixable) /\ (mix.place # 0 => e = <<>>)
<1>1. CASE mix.place = 0
  <2>1. PICK hot \in HotPages, newest \in {<<>>, NewestOf(Mixable)}, followed \in FollowedPages :
          e = hot \o newest \o followed
    BY <1>1 DEF Extras, AnyExtras
  <2>2. hot \in Seq(Mixable)
    BY HotTyped
  <2>3. newest \in Seq(Mixable)
    <3>1. NewestOf(Mixable) \in Seq(Mixable) /\ <<>> \in Seq(Mixable)
      BY NewestTyped
    <3> QED BY <3>1
  <2>4. followed \in Seq(Mixable)
    <3>1. PICK F : followed = NewestOf({v \in Mixable : WrittenBy[v] \in F})
      BY DEF FollowedPages
    <3> QED BY <3>1, NewestTyped
  <2>5. hot \o newest \in Seq(Mixable)
    BY <2>2, <2>3
  <2>6. e \in Seq(Mixable)
    BY <2>1, <2>4, <2>5
  <2> QED BY <1>1, <2>6
<1>2. CASE mix.place # 0
  BY <1>2 DEF Extras
<1> QED BY <1>1, <1>2

\* What comes behind a page leaves its videos in it.
LEMMA LongerHasAll ==
  ASSUME NEW E, NEW a \in Seq(E), NEW b \in Seq(E)
  PROVE  a \o b \in Seq(E) /\ ToSet(a) \in SUBSET ToSet(a \o b)
<1> DEFINE c == a \o b
<1>1. c \in Seq(E) /\ Len(c) = Len(a) + Len(b) /\ Len(a) \in Nat /\ Len(b) \in Nat
      /\ \A i \in 1 .. Len(a) : c[i] = a[i]
  OBVIOUS
<1> HIDE DEF c
<1>2. \A i \in 1 .. Len(a) : i \in 1 .. Len(c)
  BY <1>1
<1>3. \A v \in ToSet(a) : \E i \in 1 .. Len(a) : v = a[i]
  BY SeqElements
<1>4. \A i \in 1 .. Len(c) : c[i] \in ToSet(c)
  BY <1>1, SeqElements
<1>5. \A v \in ToSet(a) : v \in ToSet(c)
  BY <1>1, <1>2, <1>3, <1>4
<1> QED BY <1>1, <1>5 DEF c

\* What loadCandidatePages leaves for the pipeline: a later page is the recommender's alone.
LEMMA LoadedStands ==
  ASSUME MixTypeOK, LoadCandidates
  PROVE  /\ mix.step = "walk" /\ mix' = [mix EXCEPT !.step = "filter"]
         /\ shownTo' = shownTo /\ marked' = marked
         /\ recalled' \in MixPages /\ (recalled'.fell => ~recalled'.more)
         /\ ~recalled'.fell =>
              /\ recalled'.more => recalled'.next > mix.place
              /\ \A n \in 1 .. Len(Offered) :
                   n > mix.place /\ (recalled'.more => n <= recalled'.next)
                     => Offered[n] \in shownTo \cup ToSet(recalled'.items)
              /\ mix.place # 0 =>
                   /\ Len(recalled'.items) <= MixLimit
                   /\ \A n \in 1 .. Len(Offered) : Offered[n] \in ToSet(recalled'.items)
                         => n > mix.place /\ (recalled'.more => n <= recalled'.next)
<1>1. PICK p \in PrimaryPages \cup FallbackPages, e \in Extras :
        recalled' = [p EXCEPT !.items = Deduplicate(@ \o e)]
  BY DEF LoadCandidates
<1>2. mix.step = "walk" /\ mix' = [mix EXCEPT !.step = "filter"] /\ shownTo' = shownTo /\ marked' = marked
  BY DEF LoadCandidates
<1>3. p \in MixPages /\ (p.fell => ~p.more)
      /\ (~p.fell => Len(p.items) <= MixLimit /\ Follows(p))
  BY PrimaryFollows, FallbackTyped
<1>4. e \in Seq(Mixable) /\ (mix.place # 0 => e = <<>>)
  BY ExtrasTyped
<1> DEFINE all == p.items \o e
           d == Deduplicate(all)
<1>5. p.items \in Seq(Mixable)
  BY <1>3 DEF MixPages
<1>6. all \in Seq(Mixable) /\ ToSet(p.items) \in SUBSET ToSet(all)
  BY <1>4, <1>5, LongerHasAll
<1>7. mix.place # 0 => all = p.items
  BY <1>4, <1>5
<1> HIDE DEF all
<1>8. d \in Seq(Mixable) /\ ToSet(d) = ToSet(all) /\ Len(d) <= Len(all)
  BY <1>6, DeduplicateKeeps
<1>9. recalled' = [p EXCEPT !.items = d]
  BY <1>1 DEF all
<1> HIDE DEF d
<1>10. recalled'.items = d /\ recalled'.next = p.next /\ recalled'.more = p.more /\ recalled'.fell = p.fell
       /\ recalled' \in MixPages
  BY <1>3, <1>8, <1>9 DEF MixPages
<1>11. ASSUME ~p.fell
       PROVE  /\ p.more => p.next > mix.place
              /\ \A n \in 1 .. Len(Offered) :
                   n > mix.place /\ (p.more => n <= p.next) => Offered[n] \in shownTo \cup ToSet(d)
              /\ mix.place # 0 =>
                   /\ Len(d) <= MixLimit
                   /\ \A n \in 1 .. Len(Offered) : Offered[n] \in ToSet(d)
                         => n > mix.place /\ (p.more => n <= p.next)
  <2>1. /\ Len(p.items) <= MixLimit
        /\ p.more => p.next > mix.place
        /\ \A n \in 1 .. Len(Offered) : n > mix.place /\ (p.more => n <= p.next)
              => Offered[n] \in shownTo \cup ToSet(p.items)
        /\ \A n \in 1 .. Len(Offered) : Offered[n] \in ToSet(p.items)
              => n > mix.place /\ (p.more => n <= p.next)
    BY <1>3, <1>11 DEF Follows
  <2>2. Len(d) \in Nat /\ Len(all) \in Nat /\ MixLimit \in Nat
    BY <1>6, <1>8, MixAssumption
  <2>3. mix.place # 0 => Len(d) <= MixLimit
    <3>1. mix.place # 0 => Len(all) <= MixLimit
      BY <1>7, <2>1
    <3> QED BY <1>8, <2>2, <3>1
  <2>4. mix.place # 0 => ToSet(d) = ToSet(p.items)
    BY <1>7, <1>8
  <2>5. ToSet(p.items) \in SUBSET ToSet(d)
    BY <1>6, <1>8
  <2> QED BY <2>1, <2>3, <2>4, <2>5
<1> QED BY <1>2, <1>3, <1>10, <1>11

\* What the pipeline shows of the candidates: nothing else, and all of them, but those the
\* filter takes, when they are no more than a page.
LEMMA ShownOfRecalled ==
  ASSUME MixTypeOK, ShowMixed
  PROVE  \E S, shown \in SUBSET Mixable :
           /\ S \in SUBSET ToSet(recalled.items) /\ ToSet(recalled.items) \in SUBSET (S \cup marked)
           /\ shown \in SUBSET S /\ (Len(recalled.items) <= MixLimit => shown = S)
           /\ mix' = [step  |-> IF recalled.more THEN "walk" ELSE "end",
                      page  |-> mix.page + 1,
                      place |-> recalled.next,
                      on    |-> [v \in Mixable |-> mix.on[v] \cup IF v \in shown THEN {mix.page + 1} ELSE {}],
                      cut   |-> IF mix.page + 1 = 1 THEN S \ shown ELSE mix.cut,
                      fell  |-> recalled.fell]
<1>1. recalled.items \in Seq(Mixable)
  BY DEF MixTypeOK
<1>2. PICK items \in Unseen(recalled.items) :
        mix' = [step  |-> IF recalled.more THEN "walk" ELSE "end",
                page  |-> mix.page + 1,
                place |-> recalled.next,
                on    |-> [v \in Mixable |-> mix.on[v] \cup
                             IF v \in ToSet(FirstItems(MixAuthors(items))) THEN {mix.page + 1} ELSE {}],
                cut   |-> IF mix.page + 1 = 1 THEN ToSet(items) \ ToSet(FirstItems(MixAuthors(items)))
                                              ELSE mix.cut,
                fell  |-> recalled.fell]
  BY DEF ShowMixed
<1>3. /\ items \in Seq(Mixable) /\ Len(items) <= Len(recalled.items)
      /\ ToSet(items) \in SUBSET ToSet(recalled.items)
      /\ ToSet(recalled.items) \in SUBSET (ToSet(items) \cup marked)
  <2>1. CASE items = recalled.items
    BY <1>1, <2>1
  <2>2. CASE items = Unmarked(recalled.items)
    <3>1. /\ Unmarked(recalled.items) \in Seq(Mixable)
          /\ ToSet(Unmarked(recalled.items)) = ToSet(recalled.items) \ marked
          /\ Len(Unmarked(recalled.items)) <= Len(recalled.items)
      BY <1>1, UnmarkedKeeps
    <3>2. ToSet(items) = ToSet(Unmarked(recalled.items))
      BY <2>2 DEF ToSet
    <3> QED BY <2>2, <3>1, <3>2
  <2> QED BY <2>1, <2>2 DEF Unseen
<1> DEFINE mixed == MixAuthors(items)
<1>4. mixed \in Seq(Mixable) /\ Len(mixed) = Len(items) /\ ToSet(mixed) = ToSet(items)
  BY <1>3, MixKeeps
<1> DEFINE shown == ToSet(FirstItems(mixed))
<1>5. shown \in SUBSET ToSet(mixed) /\ (Len(mixed) <= MixLimit => shown = ToSet(mixed))
  <2> HIDE DEF mixed
  <2> QED BY <1>4, FirstItemsShown
<1>6. ToSet(items) \in SUBSET Mixable
  BY <1>3, SeqElements
<1>7. Len(recalled.items) <= MixLimit => Len(mixed) <= MixLimit
  <2> HIDE DEF mixed
  <2>1. Len(recalled.items) \in Nat /\ Len(items) \in Nat /\ MixLimit \in Nat
    BY <1>1, <1>3, MixAssumption
  <2> QED BY <1>3, <1>4, <2>1
<1>8. mix' = [step  |-> IF recalled.more THEN "walk" ELSE "end",
              page  |-> mix.page + 1,
              place |-> recalled.next,
              on    |-> [v \in Mixable |-> mix.on[v] \cup IF v \in shown THEN {mix.page + 1} ELSE {}],
              cut   |-> IF mix.page + 1 = 1 THEN ToSet(items) \ shown ELSE mix.cut,
              fell  |-> recalled.fell]
  BY <1>2
<1> HIDE DEF shown, mixed
<1>9. shown \in SUBSET ToSet(items) /\ (Len(recalled.items) <= MixLimit => shown = ToSet(items))
  BY <1>4, <1>5, <1>7
<1>10. shown \in SUBSET Mixable
  BY <1>6, <1>9
<1> DEFINE S == ToSet(items)
<1>11. /\ S \in SUBSET Mixable /\ S \in SUBSET ToSet(recalled.items)
       /\ ToSet(recalled.items) \in SUBSET (S \cup marked)
       /\ shown \in SUBSET S /\ (Len(recalled.items) <= MixLimit => shown = S)
       /\ mix' = [step  |-> IF recalled.more THEN "walk" ELSE "end",
                  page  |-> mix.page + 1,
                  place |-> recalled.next,
                  on    |-> [v \in Mixable |-> mix.on[v] \cup IF v \in shown THEN {mix.page + 1} ELSE {}],
                  cut   |-> IF mix.page + 1 = 1 THEN S \ shown ELSE mix.cut,
                  fell  |-> recalled.fell]
  BY <1>3, <1>6, <1>8, <1>9
<1> HIDE DEF S
<1> QED BY <1>10, <1>11
----------------------------------------------------------------------------
(* RecommendedFeed: every step of the walk.                                *)

LEMMA MixInitial == MixInit => MixInv
<1> SUFFICES ASSUME MixInit PROVE MixInv
  OBVIOUS
<1>1. /\ mix.step = "walk" /\ mix.page = 0 /\ mix.place = 0 /\ mix.cut = {} /\ ~mix.fell
      /\ mix.on = [v \in Mixable |-> {}] /\ shownTo = {} /\ marked = {} /\ recalled = NoCandidates
      /\ mix = NewMix
  BY DEF MixInit, NewMix
<1>2. \A n \in 1 .. Len(Offered) : Offered[n] \in Mixable /\ mix.on[Offered[n]] = {}
  BY <1>1, OneVideoEach
<1>3. MixTypeOK
  <2>1. 0 \in 0 .. Len(Offered)
    BY OneVideoEach
  <2>2. NewMix \in [step : {"walk", "filter", "end"}, page : Nat, place : 0 .. Len(Offered),
                    on : [Mixable -> SUBSET (1 .. 0)], cut : SUBSET Mixable, fell : BOOLEAN]
    BY <2>1 DEF NewMix
  <2>3. NoCandidates \in [items : Seq(Mixable), next : 0 .. Len(Offered), more : BOOLEAN, fell : BOOLEAN]
    BY <2>1 DEF NoCandidates
  <2> QED BY <1>1, <2>2, <2>3 DEF MixTypeOK
<1>4. PassedSettled
  BY <1>1 DEF PassedSettled, Passed
<1>5. WalkGoesOn
  BY <1>1, <1>2, OneVideoEach DEF WalkGoesOn
<1>6. OnceLater
  BY <1>1 DEF OnceLater
<1>7. RecalledStands /\ FallbackEnds
  BY <1>1 DEF RecalledStands, FallbackEnds
<1> QED BY <1>3, <1>4, <1>5, <1>6, <1>7 DEF MixInv

MixSteps == {"walk", "filter", "end"}

\* The parts of the type.
LEMMA MixTyped ==
  ASSUME MixTypeOK
  PROVE  /\ mix.step \in MixSteps /\ mix.page \in Nat /\ mix.place \in 0 .. Len(Offered)
         /\ mix.place \in Nat /\ Len(Offered) \in Nat
         /\ mix.on \in [Mixable -> SUBSET (1 .. mix.page)] /\ mix.cut \in SUBSET Mixable
         /\ mix.fell \in BOOLEAN
         /\ shownTo \in SUBSET Mixable /\ marked \in SUBSET Mixable /\ recalled \in MixPages
BY OneVideoEach DEF MixTypeOK, MixSteps, MixPages

\* loadCandidatePages: the walk stands, the candidates are as they should be.
LEMMA LoadKeeps ==
  ASSUME MixInv, LoadCandidates
  PROVE  MixInv'
<1>1. /\ MixTypeOK /\ PassedSettled /\ WalkGoesOn /\ OnceLater
  BY DEF MixInv
<1>2. /\ mix.step = "walk" /\ mix' = [mix EXCEPT !.step = "filter"]
      /\ shownTo' = shownTo /\ marked' = marked
      /\ recalled' \in MixPages /\ (recalled'.fell => ~recalled'.more)
  BY <1>1, LoadedStands
<1>3. /\ mix'.step = "filter" /\ mix'.page = mix.page /\ mix'.place = mix.place /\ mix'.on = mix.on
      /\ mix'.cut = mix.cut /\ mix'.fell = mix.fell
  BY <1>1, <1>2 DEF MixTypeOK
<1>4. MixTypeOK'
  BY <1>1, <1>2 DEF MixTypeOK, MixPages
<1>5. PassedSettled'
  BY <1>1, <1>2, <1>3 DEF PassedSettled, Passed
<1>6. WalkGoesOn'
  BY <1>1, <1>2, <1>3 DEF WalkGoesOn
<1>7. OnceLater'
  BY <1>1, <1>3 DEF OnceLater
<1>8. RecalledStands'
  <2>1. ~recalled'.fell =>
          /\ recalled'.more => recalled'.next > mix.place
          /\ \A n \in 1 .. Len(Offered) :
               n > mix.place /\ (recalled'.more => n <= recalled'.next)
                 => Offered[n] \in shownTo \cup ToSet(recalled'.items)
          /\ mix.place # 0 =>
               /\ Len(recalled'.items) <= MixLimit
               /\ \A n \in 1 .. Len(Offered) : Offered[n] \in ToSet(recalled'.items)
                     => n > mix.place /\ (recalled'.more => n <= recalled'.next)
    BY <1>1, LoadedStands
  <2> QED BY <1>2, <1>3, <2>1, OneVideoEach DEF RecalledStands
<1>9. FallbackEnds'
  BY <1>2 DEF FallbackEnds
<1> QED BY <1>4, <1>5, <1>6, <1>7, <1>8, <1>9 DEF MixInv

\* assemblePipelineResult: the cursor passes what was shown, cut off the first page, or seen.
LEMMA ShowKeeps ==
  ASSUME MixInv, ShowMixed
  PROVE  MixInv'
<1>1. /\ MixTypeOK /\ PassedSettled /\ WalkGoesOn /\ OnceLater /\ RecalledStands /\ FallbackEnds
  BY DEF MixInv
<1>2. mix.step = "filter" /\ shownTo' = shownTo /\ marked' = marked /\ recalled' = NoCandidates
  BY DEF ShowMixed
<1> DEFINE page == mix.page + 1
<1>3. PICK S \in SUBSET Mixable, shown \in SUBSET Mixable :
        /\ S \in SUBSET ToSet(recalled.items) /\ ToSet(recalled.items) \in SUBSET (S \cup marked)
        /\ shown \in SUBSET S /\ (Len(recalled.items) <= MixLimit => shown = S)
        /\ mix' = [step  |-> IF recalled.more THEN "walk" ELSE "end",
                   page  |-> page,
                   place |-> recalled.next,
                   on    |-> [v \in Mixable |-> mix.on[v] \cup IF v \in shown THEN {page} ELSE {}],
                   cut   |-> IF page = 1 THEN S \ shown ELSE mix.cut,
                   fell  |-> recalled.fell]
  BY <1>1, ShownOfRecalled
<1>4. /\ mix'.step = (IF recalled.more THEN "walk" ELSE "end") /\ mix'.page = page
      /\ mix'.place = recalled.next /\ mix'.fell = recalled.fell
      /\ mix'.on = [v \in Mixable |-> mix.on[v] \cup IF v \in shown THEN {page} ELSE {}]
      /\ mix'.cut = IF page = 1 THEN S \ shown ELSE mix.cut
  BY <1>3
<1>5. /\ mix.page \in Nat /\ mix.place \in Nat /\ Len(Offered) \in Nat /\ page \in Nat
      /\ (page = 1 <=> mix.page = 0) /\ page \in 1 .. page /\ \A a \in 1 .. mix.page : a \in 1 .. page /\ a # page
      /\ mix.on \in [Mixable -> SUBSET (1 .. mix.page)] /\ mix.cut \in SUBSET Mixable
      /\ recalled.next \in 0 .. Len(Offered) /\ recalled.next \in Nat
      /\ recalled.more \in BOOLEAN /\ recalled.fell \in BOOLEAN
  BY <1>1, MixTyped DEF MixPages
<1>6. ~mix.fell /\ (mix.place = 0 <=> mix.page = 0)
      /\ \A n \in 1 .. Len(Offered) : mix.on[Offered[n]] \ {1} # {} => n <= mix.place
  BY <1>1, <1>2, OneVideoEach DEF WalkGoesOn
<1>7. ASSUME ~recalled.fell
      PROVE  /\ recalled.more => recalled.next > mix.place
             /\ \A n \in 1 .. Len(Offered) : n > mix.place /\ (recalled.more => n <= recalled.next)
                   => Offered[n] \in shownTo \cup ToSet(recalled.items)
             /\ mix.place # 0 =>
                  /\ Len(recalled.items) <= MixLimit
                  /\ \A n \in 1 .. Len(Offered) : Offered[n] \in ToSet(recalled.items)
                        => n > mix.place /\ (recalled.more => n <= recalled.next)
  BY <1>1, <1>2, <1>7, OneVideoEach DEF RecalledStands
<1> HIDE DEF page
<1>8. /\ \A v \in Mixable : mix'.on[v] = mix.on[v] \cup (IF v \in shown THEN {page} ELSE {})
      /\ \A v \in Mixable : mix.on[v] \in SUBSET (1 .. mix.page)
      /\ \A v \in Mixable : mix'.on[v] \in SUBSET (1 .. page)
  BY <1>4, <1>5
<1>9. MixTypeOK'
  <2>1. mix'.on \in [Mixable -> SUBSET (1 .. page)]
    BY <1>4, <1>8
  <2>2. mix'.cut \in SUBSET Mixable
    BY <1>3, <1>4, <1>5
  <2>3. mix' = [step |-> mix'.step, page |-> mix'.page, place |-> mix'.place, on |-> mix'.on,
                cut |-> mix'.cut, fell |-> mix'.fell]
    BY <1>3
  <2>4. mix'.step \in {"walk", "filter", "end"}
    BY <1>4
  <2>5. mix' \in [step : {"walk", "filter", "end"}, page : Nat, place : 0 .. Len(Offered),
                  on : [Mixable -> SUBSET (1 .. mix'.page)], cut : SUBSET Mixable, fell : BOOLEAN]
    BY <1>4, <1>5, <2>1, <2>2, <2>3, <2>4
  <2>6. recalled' \in [items : Seq(Mixable), next : 0 .. Len(Offered), more : BOOLEAN, fell : BOOLEAN]
    BY <1>2, OneVideoEach DEF NoCandidates
  <2> QED BY <1>1, <1>2, <2>5, <2>6 DEF MixTypeOK
<1>10. PassedSettled'
  <2> SUFFICES ASSUME ~recalled.fell, NEW n \in 1 .. Len(Offered), recalled.more => n <= recalled.next
               PROVE  mix'.on[Offered[n]] # {} \/ Offered[n] \in shownTo \cup marked \cup mix'.cut
    <3>1. Passed' \in SUBSET (1 .. Len(Offered))
          /\ \A n \in Passed' : recalled.more => n <= recalled.next
      BY <1>4, <1>5, OneVideoEach DEF Passed
    <3> QED BY <1>2, <1>4, <3>1 DEF PassedSettled
  <2> DEFINE v == Offered[n]
  <2>1. v \in Mixable
    BY OneVideoEach
  <2> HIDE DEF v
  <2>2. CASE n <= mix.place
    <3>1. n \in 1 .. mix.place /\ page # 1
      BY <1>5, <1>6, <2>2
    <3>2. mix.on[v] # {} \/ v \in shownTo \cup marked \cup mix.cut
      BY <1>1, <1>2, <1>6, <3>1 DEF PassedSettled, Passed, v
    <3>3. mix'.cut = mix.cut
      BY <1>4, <3>1
    <3>4. mix.on[v] \in SUBSET mix'.on[v]
      BY <1>8, <2>1
    <3>5. mix'.on[v] # {} \/ v \in shownTo \cup marked \cup mix'.cut
      BY <3>2, <3>3, <3>4
    <3> QED BY <3>5 DEF v
  <2>3. CASE n > mix.place
    <3>1. v \in shownTo \cup ToSet(recalled.items)
      BY <1>7, <2>3 DEF v
    <3>2. v \in shown => mix'.on[v] # {}
      BY <1>8, <2>1
    <3>3. v \in S /\ v \notin shown => v \in mix'.cut
      <4>1. ASSUME v \in S, v \notin shown PROVE mix.place = 0
        BY <1>3, <1>7, <4>1
      <4> QED BY <1>4, <1>5, <1>6, <4>1
    <3>4. mix'.on[v] # {} \/ v \in shownTo \cup marked \cup mix'.cut
      BY <1>3, <3>1, <3>2, <3>3
    <3> QED BY <3>4 DEF v
  <2> QED BY <1>5, <2>2, <2>3
<1>11. WalkGoesOn'
  <2> SUFFICES ASSUME recalled.more
               PROVE  /\ ~mix'.fell /\ (mix'.place = 0 <=> mix'.page = 0)
                      /\ \A n \in 1 .. Len(Offered) : mix'.on[Offered[n]] \ {1} # {} => n <= mix'.place
    BY <1>4, OneVideoEach DEF WalkGoesOn
  <2>1. ~recalled.fell
    BY <1>1, <1>2 DEF FallbackEnds
  <2>2. recalled.next > mix.place
    BY <1>7, <2>1
  <2>3. mix'.place # 0 /\ mix'.page # 0
    BY <1>4, <1>5, <2>2 DEF page
  <2>4. ASSUME NEW n \in 1 .. Len(Offered), mix'.on[Offered[n]] \ {1} # {} PROVE n <= recalled.next
    <3>1. Offered[n] \in Mixable /\ n \in Nat
      BY <1>5, OneVideoEach
    <3>2. CASE mix.on[Offered[n]] \ {1} # {}
      BY <1>5, <1>6, <2>2, <3>1, <3>2
    <3>3. CASE mix.on[Offered[n]] \ {1} = {}
      <4>1. Offered[n] \in shown /\ page # 1
        BY <1>8, <2>4, <3>1, <3>3
      <4>2. mix.place # 0 /\ Offered[n] \in ToSet(recalled.items)
        BY <1>3, <1>5, <1>6, <4>1
      <4> QED BY <1>7, <2>1, <4>2
    <3> QED BY <3>2, <3>3
  <2> QED BY <1>4, <2>1, <2>3, <2>4
<1>12. OnceLater'
  <2>1. ASSUME NEW v \in Mixable, NEW a \in mix.on[v] \ {1}, v \in shown, page # 1 PROVE recalled.fell
    <3>1. PICK n \in 1 .. Len(Offered) : v = Offered[n]
      BY OneVideoEach
    <3>2. n <= mix.place /\ mix.place # 0 /\ n \in Nat
      BY <1>5, <1>6, <2>1, <3>1
    <3>3. Offered[n] \in ToSet(recalled.items)
      BY <1>3, <2>1, <3>1
    <3>4. ~recalled.fell => n > mix.place
      BY <1>7, <3>2, <3>3
    <3> QED BY <1>5, <3>2, <3>4
  <2>2. ASSUME NEW v \in Mixable, NEW a \in mix.on[v] \ {1}, NEW b \in mix.on[v] \ {1} PROVE a = b
    BY <1>1, <1>6 DEF OnceLater
  <2>3. ASSUME NEW v \in Mixable, NEW a \in mix'.on[v] \ {1}, NEW b \in mix'.on[v] \ {1}, a # b
        PROVE  recalled.fell /\ page \in {a, b}
    <3>1. /\ a \in mix.on[v] \ {1} \/ (a = page /\ v \in shown /\ page # 1)
          /\ b \in mix.on[v] \ {1} \/ (b = page /\ v \in shown /\ page # 1)
      BY <1>8, <2>3
    <3> QED BY <2>1, <2>2, <2>3, <3>1
  <2> QED BY <1>4, <2>3 DEF OnceLater
<1>13. RecalledStands' /\ FallbackEnds'
  BY <1>4 DEF RecalledStands, FallbackEnds
<1> QED BY <1>9, <1>10, <1>11, <1>12, <1>13 DEF MixInv

\* The primary source rejects its input: the walk stands where it was.
LEMMA FailKeeps ==
  ASSUME MixInv, FailMixed
  PROVE  MixInv'
<1>1. /\ MixTypeOK /\ PassedSettled /\ WalkGoesOn /\ OnceLater /\ RecalledStands /\ FallbackEnds
  BY DEF MixInv
<1>2. /\ mix.step = "filter" /\ mix' = [mix EXCEPT !.step = "walk"] /\ recalled' = NoCandidates
      /\ shownTo' = shownTo /\ marked' = marked
  BY DEF FailMixed
<1>3. /\ mix'.step = "walk" /\ mix'.page = mix.page /\ mix'.place = mix.place /\ mix'.on = mix.on
      /\ mix'.cut = mix.cut /\ mix'.fell = mix.fell
  BY <1>1, <1>2 DEF MixTypeOK
<1>4. recalled' \in MixPages
  BY <1>2, OneVideoEach DEF NoCandidates, MixPages
<1>5. MixTypeOK'
  BY <1>1, <1>2, <1>4 DEF MixTypeOK, MixPages
<1>6. PassedSettled'
  BY <1>1, <1>2, <1>3 DEF PassedSettled, Passed
<1>7. WalkGoesOn'
  BY <1>1, <1>2, <1>3 DEF WalkGoesOn
<1>8. OnceLater'
  BY <1>1, <1>3 DEF OnceLater
<1>9. RecalledStands' /\ FallbackEnds'
  BY <1>3 DEF RecalledStands, FallbackEnds
<1> QED BY <1>5, <1>6, <1>7, <1>8, <1>9 DEF MixInv

\* A new walk has passed nothing.
LEMMA RestartKeeps ==
  ASSUME MixInv, RestartMix
  PROVE  MixInv'
<1>1. MixTypeOK
  BY DEF MixInv
<1>2. mix' = NewMix /\ shownTo' = shownTo /\ marked' = marked /\ recalled' = recalled
  BY DEF RestartMix
<1>3. /\ mix'.step = "walk" /\ mix'.page = 0 /\ mix'.place = 0 /\ mix'.cut = {} /\ ~mix'.fell
      /\ mix'.on = [v \in Mixable |-> {}]
  BY <1>2 DEF NewMix
<1>4. \A n \in 1 .. Len(Offered) : Offered[n] \in Mixable /\ mix'.on[Offered[n]] = {}
  BY <1>3, OneVideoEach
<1>5. MixTypeOK'
  <2>1. 0 \in 0 .. Len(Offered)
    BY OneVideoEach
  <2>2. NewMix \in [step : {"walk", "filter", "end"}, page : Nat, place : 0 .. Len(Offered),
                    on : [Mixable -> SUBSET (1 .. 0)], cut : SUBSET Mixable, fell : BOOLEAN]
    BY <2>1 DEF NewMix
  <2> QED BY <1>1, <1>2, <1>3, <2>2 DEF MixTypeOK
<1>6. PassedSettled'
  BY <1>3 DEF PassedSettled, Passed
<1>7. WalkGoesOn'
  BY <1>3, <1>4, OneVideoEach DEF WalkGoesOn
<1>8. OnceLater'
  BY <1>3 DEF OnceLater
<1>9. RecalledStands' /\ FallbackEnds'
  BY <1>3 DEF RecalledStands, FallbackEnds
<1> QED BY <1>5, <1>6, <1>7, <1>8, <1>9 DEF MixInv

\* Exposures and marks only give more reasons not to show a video.
LEMMA SeenGrows ==
  ASSUME MixInv, mix' = mix, recalled' = recalled,
         shownTo \in SUBSET shownTo', shownTo' \in SUBSET Mixable,
         marked \in SUBSET marked', marked' \in SUBSET Mixable
  PROVE  MixInv'
<1>1. /\ MixTypeOK /\ PassedSettled /\ WalkGoesOn /\ OnceLater /\ RecalledStands /\ FallbackEnds
  BY DEF MixInv
<1>2. MixTypeOK'
  BY <1>1 DEF MixTypeOK
<1>3. PassedSettled'
  BY <1>1 DEF PassedSettled, Passed
<1>4. WalkGoesOn' /\ OnceLater' /\ FallbackEnds'
  BY <1>1 DEF WalkGoesOn, OnceLater, FallbackEnds
<1>5. RecalledStands'
  BY <1>1 DEF RecalledStands
<1> QED BY <1>2, <1>3, <1>4, <1>5 DEF MixInv

LEMMA SeenKeeps ==
  ASSUME MixInv, NEW v \in Mixable, ReportShown(v) \/ MarkShown(v)
  PROVE  MixInv'
<1>1. shownTo \in SUBSET Mixable /\ marked \in SUBSET Mixable
  BY MixTyped DEF MixInv
<1>2. CASE ReportShown(v)
  <2>1. mix' = mix /\ recalled' = recalled /\ marked' = marked /\ shownTo' = shownTo \cup {v}
    BY <1>2 DEF ReportShown
  <2> QED BY <1>1, <2>1, SeenGrows
<1>3. CASE MarkShown(v)
  <2>1. mix' = mix /\ recalled' = recalled /\ shownTo' = shownTo
        /\ \E w \in Mixable : marked' = marked \cup {v, w}
    BY <1>3 DEF MarkShown
  <2> QED BY <1>1, <2>1, SeenGrows
<1> QED BY <1>2, <1>3

LEMMA MixStep == MixInv /\ [MixNext]_mixVars => MixInv'
<1> SUFFICES ASSUME MixInv, [MixNext]_mixVars PROVE MixInv'
  OBVIOUS
<1>1. CASE LoadCandidates
  BY <1>1, LoadKeeps
<1>2. CASE ShowMixed
  BY <1>2, ShowKeeps
<1>3. CASE FailMixed
  BY <1>3, FailKeeps
<1>4. CASE RestartMix
  BY <1>4, RestartKeeps
<1>5. CASE \E v \in Mixable : ReportShown(v) \/ MarkShown(v)
  BY <1>5, SeenKeeps
<1>6. CASE UNCHANGED mixVars
  <2>1. mix' = mix /\ recalled' = recalled /\ shownTo' = shownTo /\ marked' = marked
    BY <1>6 DEF mixVars
  <2>2. shownTo \in SUBSET Mixable /\ marked \in SUBSET Mixable
    BY MixTyped DEF MixInv
  <2> QED BY <2>1, <2>2, SeenGrows
<1> QED BY <1>1, <1>2, <1>3, <1>4, <1>5, <1>6 DEF MixNext

\* However the pages of the recommended feed are loaded, mixed, lost and shown.
THEOREM MixHolds == MixSpec => []MixInv
<1> QED BY MixInitial, MixStep, PTL DEF MixSpec

\* A video of two pages was on the first of them with the mix.
LEMMA TwiceAtMost ==
  ASSUME NEW on, \A a, b \in on \ {1} : a = b
  PROVE  Cardinality(on) <= 2 /\ (Cardinality(on) = 2 => 1 \in on)
<1>1. CASE on \ {1} = {}
  <2>1. on = {} \/ on = {1}
    BY <1>1
  <2> QED BY <2>1, FS_EmptySet, FS_Singleton
<1>2. CASE on \ {1} # {}
  <2>1. PICK a \in on \ {1} : on \ {1} = {a}
    BY <1>2
  <2>2. CASE 1 \in on
    <3>1. on = {1} \cup {a} /\ a \notin {1}
      BY <2>1, <2>2
    <3>2. IsFiniteSet({1}) /\ Cardinality({1}) = 1
      BY FS_Singleton
    <3>3. Cardinality({1} \cup {a}) = 2
      BY <3>1, <3>2, FS_AddElement
    <3> QED BY <2>2, <3>1, <3>3
  <2>3. CASE 1 \notin on
    <3>1. on = {a}
      BY <2>1, <2>3
    <3>2. Cardinality({a}) = 1
      BY FS_Singleton
    <3> QED BY <3>1, <3>2
  <2> QED BY <2>2, <2>3
<1> QED BY <1>1, <1>2

\* assemblePipelineResult and pageFromCandidatePage: a walk down the recommended feed repeats
\* only what the mix showed first, and leaves out only what was seen or cut off its first page.
THEOREM WalksAddUp == MixSpec => []WalkAddsUp
<1>1. MixInv => WalkAddsUp
  <2> SUFFICES ASSUME MixInv PROVE WalkAddsUp
    OBVIOUS
  <2>1. MixTypeOK /\ OnceLater /\ PassedSettled
    BY DEF MixInv
  <2>2. ASSUME NEW v \in Mixable
        PROVE  LET on == IF mix.fell THEN mix.on[v] \ {mix.page} ELSE mix.on[v]
               IN  Cardinality(on) <= 2 /\ (Cardinality(on) = 2 => 1 \in on)
    <3> DEFINE on == IF mix.fell THEN mix.on[v] \ {mix.page} ELSE mix.on[v]
    <3>1. \A a, b \in on \ {1} : a = b
      BY <2>1 DEF OnceLater
    <3> HIDE DEF on
    <3>2. Cardinality(on) <= 2 /\ (Cardinality(on) = 2 => 1 \in on)
      BY <3>1, TwiceAtMost
    <3> QED BY <3>2 DEF on
  <2>3. ASSUME mix.step = "end", ~mix.fell, NEW v \in Mixable
        PROVE  mix.on[v] # {} \/ v \in shownTo \cup marked \cup mix.cut
    <3>1. PICK n \in 1 .. Len(Offered) : v = Offered[n]
      BY OneVideoEach
    <3>2. n \in Passed
      BY <2>3, OneVideoEach DEF Passed
    <3> QED BY <2>1, <2>3, <3>1, <3>2 DEF PassedSettled
  <2> QED BY <2>2, <2>3 DEF WalkAddsUp
<1> QED BY <1>1, MixHolds, PTL
----------------------------------------------------------------------------
(* Recommendation: pages that do not repeat and do not show the excluded.  *)

\* sortCandidates orders the candidates of a pool, each of which has its video.
LEMMA AheadOrders ==
  ASSUME NEW S \in Pools
  PROVE  /\ \A a \in S : ~ Ahead(a, a)
         /\ \A a, b \in S : a # b => Ahead(a, b) \/ Ahead(b, a)
         /\ \A a, b, c \in S : Ahead(a, b) /\ Ahead(b, c) => Ahead(a, c)
<1>1. \A a \in S : a.score \in Int /\ a.video \in Int
  BY RecommendationAssumption DEF Pools, Item, Candidates
<1>2. \A a, b \in S : a.video = b.video => a = b
  BY DEF Pools
<1> QED BY <1>1, <1>2 DEF Ahead

\* A pool is finite, as the videos are.
LEMMA PoolFinite ==
  ASSUME NEW S \in Pools
  PROVE  IsFiniteSet(S) /\ Cardinality(S) \in Nat
<1> DEFINE f == [c \in S |-> c.video]
<1>1. f \in Injection(S, Candidates)
  BY DEF Pools, Item, Injection, IsInjective
<1>2. IsFiniteSet(Candidates)
  BY RecommendationAssumption, FS_Interval DEF Candidates
<1> HIDE DEF f
<1>3. IsFiniteSet(S)
  BY <1>1, <1>2, FS_Injection
<1> QED BY <1>3, FS_CardinalityType

\* How many are ahead of a candidate.
AheadOf(S, c) == {d \in S : Ahead(d, c)}
Place(S, c) == Cardinality(AheadOf(S, c))

\* Places are ranks in the order of the candidates: below their number, rising, each taken.
LEMMA PlacesOrdered ==
  ASSUME NEW S \in Pools
  PROVE  /\ \A c \in S : Place(S, c) \in 0 .. Cardinality(S) - 1
         /\ \A a, b \in S : Ahead(a, b) => Place(S, a) < Place(S, b)
         /\ \A i \in 1 .. Cardinality(S) : \E c \in S : Place(S, c) = i - 1
<1> DEFINE R == {p \in S \X S : Ahead(p[1], p[2])}
<1>1. \A a, b \in S : <<a, b>> \in R <=> Ahead(a, b)
  OBVIOUS
<1> HIDE DEF R
<1>2. Orders(R, S)
  BY <1>1, AheadOrders DEF Orders
<1>3. \A c \in S : Place(S, c) = Rank(R, S, c)
  <2>1. \A c \in S : AheadOf(S, c) = Below(R, S, c)
    BY <1>1 DEF AheadOf, Below
  <2> QED BY <2>1 DEF Place, Rank
<1>4. IsFiniteSet(S)
  BY PoolFinite
<1>5. \A c \in S : Place(S, c) \in 0 .. Cardinality(S) - 1
  BY <1>2, <1>3, <1>4, RanksRise
<1>6. \A a, b \in S : Ahead(a, b) => Place(S, a) < Place(S, b)
  BY <1>1, <1>2, <1>3, <1>4, RanksRise
<1>7. \A i \in 1 .. Cardinality(S) : \E c \in S : Place(S, c) = i - 1
  <2>1. \A i \in 1 .. Cardinality(S) : \E c \in S : Rank(R, S, c) = i - 1
    BY <1>2, <1>4, RanksTaken
  <2> QED BY <1>3, <2>1
<1> QED BY <1>5, <1>6, <1>7

\* What Ranked gives is in the order of sortCandidates.
Sorted(s) == \A i, j \in 1 .. Len(s) : i < j => Ahead(s[i], s[j])

LEMMA RankedIsSorted ==
  ASSUME NEW S \in Pools
  PROVE  Ranked(S) \in Seq(S) /\ Len(Ranked(S)) = Cardinality(S) /\ Sorted(Ranked(S))
<1> DEFINE n == Cardinality(S)
           R == Ranked(S)
<1>0. n \in Nat
  BY PoolFinite
<1>1. \A i \in 1 .. n : R[i] \in S /\ Place(S, R[i]) = i - 1
  <2> SUFFICES ASSUME NEW i \in 1 .. n
               PROVE  R[i] \in S /\ Place(S, R[i]) = i - 1
    OBVIOUS
  <2>1. R[i] = CHOOSE c \in S : Place(S, c) = i - 1
    BY DEF Ranked, Place, AheadOf
  <2>2. \E c \in S : Place(S, c) = i - 1
    BY PlacesOrdered
  <2> QED BY <2>1, <2>2
<1>2. R = [i \in 1 .. n |-> R[i]]
  BY DEF Ranked
<1> HIDE DEF R
<1>3. R \in [1 .. n -> S]
  BY <1>1, <1>2
<1>4. R \in Seq(S) /\ Len(R) = n
  BY <1>0, <1>3
<1>5. ASSUME NEW i \in 1 .. n, NEW j \in 1 .. n, i < j PROVE Ahead(R[i], R[j])
  <2>1. Place(S, R[i]) < Place(S, R[j])
    BY <1>0, <1>1, <1>5
  <2>2. R[i] # R[j] /\ ~ (Place(S, R[j]) < Place(S, R[i]))
    BY <1>0, <1>1, <1>5
  <2>3. ~ Ahead(R[j], R[i])
    BY <1>1, <2>2, PlacesOrdered
  <2> QED BY <1>1, <2>2, <2>3, AheadOrders
<1> QED BY <1>4, <1>5 DEF Sorted, R

\* A part of a pool is a pool.
LEMMA SubPool ==
  ASSUME NEW S \in Pools, NEW T \in SUBSET S
  PROVE  T \in Pools
BY DEF Pools

\* The first k of a sequence.
FirstOf(s, k) == SubSeq(s, 1, IF Len(s) < k THEN Len(s) ELSE k)

\* The first of a sorted sequence are sorted.
LEMMA CutSorted ==
  ASSUME NEW S, NEW s \in Seq(S), Sorted(s), NEW k \in Nat,
         NEW t, t = FirstOf(s, k)
  PROVE  /\ t \in Seq(S) /\ Sorted(t)
         /\ Len(t) = IF Len(s) < k THEN Len(s) ELSE k
         /\ ToSet(t) \in SUBSET ToSet(s)
<1> DEFINE n == IF Len(s) < k THEN Len(s) ELSE k
<1>1. Len(s) \in Nat /\ n \in 0 .. Len(s)
  OBVIOUS
<1> HIDE DEF n
<1>2. t = SubSeq(s, 1, n)
  BY DEF n, FirstOf
<1>3. t \in Seq(S) /\ Len(t) = n /\ \A i \in 1 .. n : t[i] = s[i]
  BY <1>1, <1>2
<1>4. Sorted(t)
  BY <1>1, <1>3 DEF Sorted
<1>5. ToSet(t) \in SUBSET ToSet(s)
  <2>1. \A i \in 1 .. n : i \in 1 .. Len(s)
    BY <1>1
  <2>2. \A x \in ToSet(t) : \E i \in 1 .. Len(t) : x = t[i]
    BY <1>3, SeqElements
  <2>3. \A i \in 1 .. Len(s) : s[i] \in ToSet(s)
    BY SeqElements
  <2> QED BY <1>3, <2>1, <2>2, <2>3
<1> QED BY <1>3, <1>4, <1>5 DEF n

\* The best of a pool are a part of it.
LEMMA BestIsSorted ==
  ASSUME NEW S \in Pools, NEW limit \in Nat
  PROVE  ToSet(Best(S, limit)) \in SUBSET S /\ ToSet(Best(S, limit)) \in Pools
<1>1. Ranked(S) \in Seq(S) /\ Sorted(Ranked(S))
  BY RankedIsSorted
<1>2. ToSet(Best(S, limit)) \in SUBSET ToSet(Ranked(S))
  <2> DEFINE R == Ranked(S)
             b == Best(S, limit)
  <2>1. b = FirstOf(R, limit)
    BY DEF Best, FirstOf
  <2> HIDE DEF R, b
  <2>2. R \in Seq(S) /\ Sorted(R)
    BY <1>1 DEF R
  <2>3. ToSet(b) \in SUBSET ToSet(R)
    BY <2>1, <2>2, CutSorted
  <2> QED BY <2>3 DEF R, b
<1>3. ToSet(Ranked(S)) \in SUBSET S
  BY <1>1, SeqElements
<1>4. ToSet(Best(S, limit)) \in SUBSET S
  BY <1>2, <1>3
<1> QED BY <1>4, SubPool

\* Pools are merged without repeating a video.
LEMMA MergePools ==
  ASSUME NEW first \in Pools, NEW second \in Pools
  PROVE  Merge(first, second) \in Pools /\ Merge(first, second) \in SUBSET (first \cup second)
BY DEF Merge, Pools

\* T has candidates of S, with the scores of g.
Rescored(S, g, T) == \A t \in T : \E c \in S : t = Scored(c.video, g[c], c.heat)

\* Candidates with other scores are still a pool of the same videos.
LEMMA ScoredPool ==
  ASSUME NEW S \in Pools, NEW g \in [S -> Int],
         NEW T, Rescored(S, g, T)
  PROVE  T \in Pools /\ \A t \in T : \E c \in S : c.video = t.video
<1>1. \A c \in S : Scored(c.video, g[c], c.heat) \in Item /\ Scored(c.video, g[c], c.heat).video = c.video
  BY DEF Pools, Item, Scored
<1>2. T \in SUBSET Item
  BY <1>1 DEF Rescored
<1>3. ASSUME NEW t \in T, NEW u \in T, t.video = u.video PROVE t = u
  <2>1. PICK c \in S : t = Scored(c.video, g[c], c.heat)
    BY DEF Rescored
  <2>2. PICK d \in S : u = Scored(d.video, g[d], d.heat)
    BY DEF Rescored
  <2>3. c.video = d.video
    BY <1>1, <1>3, <2>1, <2>2
  <2>4. c = d
    BY <2>3 DEF Pools
  <2> QED BY <2>1, <2>2, <2>4
<1>4. \A t \in T : \E c \in S : c.video = t.video
  BY <1>1 DEF Rescored
<1> QED BY <1>2, <1>3, <1>4 DEF Pools

\* What a source of the database gives is a pool.
LEMMA SourcePool ==
  ASSUME heat \in [Candidates -> 0 .. MaxHeat], NEW V \in SUBSET Candidates
  PROVE  {Scored(v, heat[v], heat[v]) : v \in V} \in Pools
<1>1. \A v \in V : Scored(v, heat[v], heat[v]) \in Item /\ Scored(v, heat[v], heat[v]).video = v
  BY RecommendationAssumption DEF Item, Scored
<1> QED BY <1>1 DEF Pools

\* Scores are numbers, with the profile and without it.
LEMMA RankScoreType ==
  ASSUME NEW c \in Item, NEW profiled \in BOOLEAN
  PROVE  RankScore(c, profiled) \in Int
<1>1. c.heat \in Int /\ c.video \in Candidates
  BY RecommendationAssumption DEF Item
<1>2. Alike[c.video] \in Int
  BY <1>1, RecommendationAssumption DEF Candidates
<1> QED BY <1>1, <1>2 DEF RankScore

\* What is merged of the sources is a pool of what was left of them.
LEMMA PoolIsPool ==
  ASSUME request.hot \in Pools, request.latest \in Pools, request.own \in Pools,
         NEW own \in SUBSET request.own
  PROVE  Pool(own) \in Pools /\ \A c \in Pool(own) : \E d \in InHand : d.video = c.video
<1> DEFINE L == {[c EXCEPT !.score = c.video] : c \in request.latest}
           g == [c \in request.latest |-> c.video]
           hot == ToSet(Best(request.hot, RecallPerSource))
           latest == ToSet(Best(L, RecallPerSource))
<1>0. RecallPerSource \in Nat
  BY RecommendationAssumption
<1>1. g \in [request.latest -> Int]
  BY RecommendationAssumption DEF Pools, Item, Candidates
<1>2. \A c \in request.latest : [c EXCEPT !.score = c.video] = Scored(c.video, g[c], c.heat)
  BY DEF Pools, Item, Scored
<1>3. Rescored(request.latest, g, L)
  BY <1>2 DEF Rescored
<1> HIDE DEF L, g
<1>4. L \in Pools /\ \A t \in L : \E c \in request.latest : c.video = t.video
  BY <1>1, <1>3, ScoredPool
<1>5. hot \in Pools /\ hot \in SUBSET request.hot
  BY <1>0, BestIsSorted
<1>6. latest \in Pools /\ latest \in SUBSET L
  BY <1>0, <1>4, BestIsSorted
<1>7. own \in Pools
  BY SubPool
<1>8. Pool(own) = Merge(Merge(hot, latest), own)
  BY DEF Pool, L
<1> HIDE DEF hot, latest
<1>9. Merge(hot, latest) \in Pools /\ Merge(hot, latest) \in SUBSET (hot \cup latest)
  BY <1>5, <1>6, MergePools
<1>10. Pool(own) \in Pools /\ Pool(own) \in SUBSET (Merge(hot, latest) \cup own)
  BY <1>7, <1>8, <1>9, MergePools
<1> QED BY <1>4, <1>5, <1>6, <1>9, <1>10 DEF InHand

\* Ranking gives a pool of videos it was given.
LEMMA RankedPool ==
  ASSUME NEW pool \in Pools, NEW profiled \in BOOLEAN
  PROVE  /\ ToSet(RankCandidates(pool, profiled)) \in Pools
         /\ \A c \in ToSet(RankCandidates(pool, profiled)) : \E d \in pool : d.video = c.video
<1> DEFINE A == {Scored(c.video, c.heat, c.heat) : c \in pool}
           f == [c \in pool |-> c.heat]
           P == PreRanked(pool)
           B == {Scored(c.video, RankScore(c, profiled), c.heat) : c \in P}
           g == [c \in P |-> RankScore(c, profiled)]
<1>0. PreRankLimit \in Nat /\ RankLimit \in Nat
  BY RecommendationAssumption
<1>1. f \in [pool -> Int] /\ Rescored(pool, f, A)
  BY RecommendationAssumption DEF Pools, Item, Rescored
<1> HIDE DEF f
<1>2. A \in Pools /\ \A t \in A : \E c \in pool : c.video = t.video
  BY <1>1, ScoredPool
<1>3. P = ToSet(Best(A, PreRankLimit))
  BY DEF PreRanked
<1> HIDE DEF A, P
<1>4. P \in Pools /\ P \in SUBSET A
  BY <1>0, <1>2, <1>3, BestIsSorted
<1>5. \A c \in P : RankScore(c, profiled) \in Int
  BY <1>4, RankScoreType DEF Pools
<1>6. g \in [P -> Int] /\ Rescored(P, g, B)
  BY <1>5 DEF Rescored
<1> HIDE DEF g, B
<1>7. B \in Pools /\ \A t \in B : \E c \in P : c.video = t.video
  BY <1>4, <1>6, ScoredPool
<1>8. RankCandidates(pool, profiled) = Best(B, RankLimit)
  BY DEF RankCandidates, P, B
<1>9. ToSet(Best(B, RankLimit)) \in Pools /\ ToSet(Best(B, RankLimit)) \in SUBSET B
  BY <1>0, <1>7, BestIsSorted
<1> QED BY <1>2, <1>4, <1>7, <1>8, <1>9

\* The page below a cursor: sorted, behind the cursor, one video once.
LEMMA PageBelow ==
  ASSUME NEW ranked, ToSet(ranked) \in Pools, NEW cursor,
         NEW below, below = Beyond(ranked, cursor), NEW page, page = Cut(below)
  PROVE  /\ page \in Seq(Item) /\ Sorted(page)
         /\ Len(below) > PageLimit => page # <<>>
         /\ \A i \in 1 .. Len(page) : /\ page[i] \in ToSet(ranked)
                                      /\ cursor = Start \/ Ahead(cursor, page[i])
<1> DEFINE T == {c \in ToSet(ranked) : cursor = Start \/ Ahead(cursor, c)}
<1>0. PageLimit \in Nat /\ PageLimit > 0
  BY RecommendationAssumption
<1>1. T \in Pools
  BY SubPool
<1>2. below = Ranked(T)
  BY DEF Beyond
<1>3. below \in Seq(T) /\ Sorted(below)
  BY <1>1, <1>2, RankedIsSorted
<1>4. page = FirstOf(below, PageLimit)
  BY DEF Cut, FirstOf
<1> HIDE DEF T
<1>5. /\ page \in Seq(T) /\ Sorted(page)
      /\ Len(page) = IF Len(below) < PageLimit THEN Len(below) ELSE PageLimit
  BY <1>0, <1>3, <1>4, CutSorted
<1>6. Len(below) > PageLimit => page # <<>>
  BY <1>0, <1>5
<1>7. \A i \in 1 .. Len(page) : page[i] \in T
  BY <1>5
<1>8. T \in SUBSET Item
  BY <1>1 DEF Pools
<1>9. page \in Seq(Item)
  BY <1>5, <1>8
<1> QED BY <1>5, <1>6, <1>7, <1>9 DEF T

\* A pass over candidates: some are placed, the others wait.
Passing(P) == [placed : Seq(P), waiting : Seq(P)]

\* The operator of the fold in Pass.
PlaceOrDelay(s, c) ==
  IF s.placed # <<>> /\ AuthorBy[Last(s.placed).video] = AuthorBy[c.video]
  THEN [s EXCEPT !.waiting = Append(@, c)]
  ELSE [s EXCEPT !.placed = Append(@, c)]

\* A candidate is placed or waits.
LEMMA PlacingStays ==
  ASSUME NEW P, NEW s \in Passing(P), NEW c \in P
  PROVE  PlaceOrDelay(s, c) \in Passing(P)
<1>1. s.placed \in Seq(P) /\ s.waiting \in Seq(P)
  BY DEF Passing
<1>2. Append(s.placed, c) \in Seq(P) /\ Append(s.waiting, c) \in Seq(P)
  BY <1>1
<1>3. [s EXCEPT !.waiting = Append(@, c)] \in Passing(P)
  BY <1>1, <1>2 DEF Passing
<1>4. [s EXCEPT !.placed = Append(@, c)] \in Passing(P)
  BY <1>1, <1>2 DEF Passing
<1> QED BY <1>3, <1>4 DEF PlaceOrDelay

\* A pass places or delays what it is given.
LEMMA PassStays ==
  ASSUME NEW P, NEW placed \in Seq(P), NEW waiting \in Seq(P)
  PROVE  Pass(placed, waiting) \in Passing(P)
<1> DEFINE D == 1 .. Len(waiting)
           base == [placed |-> placed, waiting |-> <<>>]
           op == [p \in Passing(P) \X P |-> PlaceOrDelay(p[1], p[2])]
           Iterates(f) == f = [s \in SUBSET D |-> IF s = {} THEN base
                                                  ELSE PlaceOrDelay(f[s \ {Max(s)}], waiting[Max(s)])]
           g == CHOOSE f : Iterates(f)
<1>0. DOMAIN waiting = D /\ D \in SUBSET D
  OBVIOUS
<1>1. base \in Passing(P)
  BY DEF Passing
<1>2. /\ op \in [Passing(P) \X P -> Passing(P)]
      /\ \A v \in Passing(P), c \in P : op[<<v, c>>] = PlaceOrDelay(v, c)
  <2>1. \A p \in Passing(P) \X P : p[1] \in Passing(P) /\ p[2] \in P
    OBVIOUS
  <2>2. op \in [Passing(P) \X P -> Passing(P)]
    BY <2>1, PlacingStays
  <2>3. ASSUME NEW v \in Passing(P), NEW c \in P PROVE op[<<v, c>>] = PlaceOrDelay(v, c)
    OBVIOUS
  <2> QED BY <2>2, <2>3
<1> HIDE DEF base, op
<1>3. PICK h \in [SUBSET D -> Passing(P)] : Folded(h, SUBSET D, base, op, waiting)
  BY <1>1, <1>2, FoldExists
<1>4. \A s \in SUBSET D : s # {} => waiting[Max(s)] \in P /\ s \ {Max(s)} \in SUBSET D
  BY LastTaken
<1>5. Iterates(h)
  <2>1. \A s \in SUBSET D : h[s] = IF s = {} THEN base ELSE PlaceOrDelay(h[s \ {Max(s)}], waiting[Max(s)])
    <3> SUFFICES ASSUME NEW s \in SUBSET D
                 PROVE  h[s] = IF s = {} THEN base ELSE PlaceOrDelay(h[s \ {Max(s)}], waiting[Max(s)])
      OBVIOUS
    <3>1. h[s] = IF s = {} THEN base ELSE op[<<h[s \ {Max(s)}], waiting[Max(s)]>>]
      BY <1>3 DEF Folded
    <3>2. s # {} => op[<<h[s \ {Max(s)}], waiting[Max(s)]>>] = PlaceOrDelay(h[s \ {Max(s)}], waiting[Max(s)])
      BY <1>2, <1>4
    <3> QED BY <3>1, <3>2, Zenon
  <2>2. h = [s \in SUBSET D |-> h[s]]
    OBVIOUS
  <2> QED BY <2>1, <2>2, Zenon
<1>6. Iterates(g)
  BY <1>5, Zenon
<1>7. Pass(placed, waiting) = g[D]
  <2>1. Pass(placed, waiting)
          = (CHOOSE f : f = [s \in SUBSET DOMAIN waiting |->
                IF s = {} THEN base
                ELSE IF f[s \ {Max(s)}].placed # <<>>
                          /\ AuthorBy[Last(f[s \ {Max(s)}].placed).video] = AuthorBy[waiting[Max(s)].video]
                     THEN [f[s \ {Max(s)}] EXCEPT !.waiting = Append(@, waiting[Max(s)])]
                     ELSE [f[s \ {Max(s)}] EXCEPT !.placed = Append(@, waiting[Max(s)])]])[DOMAIN waiting]
    BY Zenon DEF Pass, FoldLeft, MapThenFoldSet, base
  <2> QED BY <1>0, <2>1, Zenon DEF PlaceOrDelay
<1> HIDE DEF g
<1>8. g[{}] = base /\ \A s \in SUBSET D : s # {} => g[s] = PlaceOrDelay(g[s \ {Max(s)}], waiting[Max(s)])
  <2>1. \A s \in SUBSET D : g[s] = IF s = {} THEN base ELSE PlaceOrDelay(g[s \ {Max(s)}], waiting[Max(s)])
    BY <1>6, Zenon
  <2> QED BY <2>1, Zenon
<1>9. StepsIn(g, SUBSET D, Passing(P), op, waiting)
  BY <1>2, <1>4, <1>8 DEF StepsIn
<1>10. g[D] \in Passing(P)
  BY <1>1, <1>2, <1>8, <1>9, FoldStays
<1> QED BY <1>7, <1>10

\* Interleaving shows what is on the page.
LEMMA InterleaveShows ==
  ASSUME NEW P, NEW page \in Seq(P)
  PROVE  ToSet(InterleaveByAuthor(page)) \in SUBSET P
<1> DEFINE D == 1 .. Len(page)
           base == [placed |-> <<>>, waiting |-> page]
           Turn(v, c) == Pass(v.placed, v.waiting)
           op == [p \in Passing(P) \X P |-> Turn(p[1], p[2])]
           Iterates(f) == f = [s \in SUBSET D |-> IF s = {} THEN base
                                                  ELSE Turn(f[s \ {Max(s)}], page[Max(s)])]
           g == CHOOSE f : Iterates(f)
<1>0. DOMAIN page = D /\ D \in SUBSET D
  OBVIOUS
<1>1. base \in Passing(P)
  BY DEF Passing
<1>2. /\ op \in [Passing(P) \X P -> Passing(P)]
      /\ \A v \in Passing(P), c \in P : op[<<v, c>>] = Turn(v, c)
  <2>1. \A p \in Passing(P) \X P : p[1].placed \in Seq(P) /\ p[1].waiting \in Seq(P)
    BY DEF Passing
  <2>2. op \in [Passing(P) \X P -> Passing(P)]
    BY <2>1, PassStays
  <2>3. ASSUME NEW v \in Passing(P), NEW c \in P PROVE op[<<v, c>>] = Turn(v, c)
    OBVIOUS
  <2> QED BY <2>2, <2>3
<1> HIDE DEF base, op
<1>3. PICK h \in [SUBSET D -> Passing(P)] : Folded(h, SUBSET D, base, op, page)
  BY <1>1, <1>2, FoldExists
<1>4. \A s \in SUBSET D : s # {} => page[Max(s)] \in P /\ s \ {Max(s)} \in SUBSET D
  BY LastTaken
<1>5. Iterates(h)
  <2>1. \A s \in SUBSET D : h[s] = IF s = {} THEN base ELSE Turn(h[s \ {Max(s)}], page[Max(s)])
    <3> SUFFICES ASSUME NEW s \in SUBSET D
                 PROVE  h[s] = IF s = {} THEN base ELSE Turn(h[s \ {Max(s)}], page[Max(s)])
      OBVIOUS
    <3>1. h[s] = IF s = {} THEN base ELSE op[<<h[s \ {Max(s)}], page[Max(s)]>>]
      BY <1>3 DEF Folded
    <3>2. s # {} => op[<<h[s \ {Max(s)}], page[Max(s)]>>] = Turn(h[s \ {Max(s)}], page[Max(s)])
      BY <1>2, <1>4
    <3> QED BY <3>1, <3>2, Zenon
  <2>2. h = [s \in SUBSET D |-> h[s]]
    OBVIOUS
  <2> QED BY <2>1, <2>2, Zenon
<1>6. Iterates(g)
  BY <1>5, Zenon
<1>7. FoldLeft(LAMBDA t, c : Pass(t.placed, t.waiting), base, page) = g[D]
  <2>1. FoldLeft(LAMBDA t, c : Pass(t.placed, t.waiting), base, page)
          = (CHOOSE f : f = [s \in SUBSET DOMAIN page |->
                IF s = {} THEN base
                ELSE Pass(f[s \ {Max(s)}].placed, f[s \ {Max(s)}].waiting)])[DOMAIN page]
    BY Zenon DEF FoldLeft, MapThenFoldSet
  <2> QED BY <1>0, <2>1, Zenon
<1> HIDE DEF g
<1>8. g[{}] = base /\ \A s \in SUBSET D : s # {} => g[s] = Turn(g[s \ {Max(s)}], page[Max(s)])
  <2>1. \A s \in SUBSET D : g[s] = IF s = {} THEN base ELSE Turn(g[s \ {Max(s)}], page[Max(s)])
    BY <1>6, Zenon
  <2> QED BY <2>1, Zenon
<1>9. StepsIn(g, SUBSET D, Passing(P), op, page)
  BY <1>2, <1>4, <1>8 DEF StepsIn
<1>10. g[D] \in Passing(P)
  BY <1>1, <1>2, <1>8, <1>9, FoldStays
<1>11. g[D].placed \in Seq(P) /\ g[D].waiting \in Seq(P)
  BY <1>10 DEF Passing
<1>12. InterleaveByAuthor(page) = g[D].placed \o g[D].waiting
  BY <1>7 DEF InterleaveByAuthor, base
<1>13. InterleaveByAuthor(page) \in Seq(P)
  BY <1>11, <1>12
<1> QED BY <1>13, SeqElements

RequestSteps == {"idle", "exposures", "rejections", "rank"}

\* The request of RecommendTypeOK, field by field.
RequestOK ==
  /\ request = [step |-> request.step, hot |-> request.hot, latest |-> request.latest,
                own |-> request.own, before |-> request.before]
  /\ request.step \in RequestSteps
  /\ request.hot \in Pools /\ request.latest \in Pools /\ request.own \in Pools
  /\ request.before \subseteq exposedTo \cup Rejected

WalkerOK ==
  /\ walker.cursor \in [video : Nat, score : Int]
  /\ walker.shown \subseteq [video : Candidates, score : Int]
  /\ walker.more \in BOOLEAN

LEMMA TypeParts ==
  RecommendTypeOK <=> /\ heat \in [Candidates -> 0 .. MaxHeat]
                      /\ snapshot \in Pools \cup {NoSnapshot}
                      /\ RequestOK /\ WalkerOK
BY DEF RecommendTypeOK, RequestOK, WalkerOK, RequestSteps

LEMMA NextTypeParts ==
  RecommendTypeOK' <=> /\ heat' \in [Candidates -> 0 .. MaxHeat]
                       /\ snapshot' \in Pools \cup {NoSnapshot}
                       /\ RequestOK' /\ WalkerOK'
BY DEF RecommendTypeOK, RequestOK, WalkerOK, RequestSteps

\* The start of a walk has the form of a cursor.
LEMMA StartType ==
  Start \in [video : Nat, score : Int]
BY DEF Start

LEMMA EmptyPool == {} \in Pools
BY DEF Pools

\* What the hot list gives, or its snapshot, is a pool.
LEMMA HotIsPool ==
  ASSUME RecommendTypeOK
  PROVE  HotCandidates \in Pools /\ ListLatest \in Pools
<1>0. heat \in [Candidates -> 0 .. MaxHeat] /\ snapshot \in Pools \cup {NoSnapshot}
  BY TypeParts
<1>1. {Scored(v, heat[v], heat[v]) : v \in Candidates} \in Pools
  BY <1>0, SourcePool
<1>2. Fetched \in Nat
  BY RecommendationAssumption DEF Fetched
<1>3. ListHottest \in Pools
  BY <1>1, <1>2, BestIsSorted DEF ListHottest
<1>4. HotCandidates \in Pools
  BY <1>0, <1>3 DEF HotCandidates
<1>5. {w \in Candidates : w + Fetched > VideoCount} \in SUBSET Candidates
  OBVIOUS
<1>6. ListLatest \in Pools
  BY <1>0, <1>5, SourcePool DEF ListLatest
<1> QED BY <1>4, <1>6

\* Nobody has asked for a page.
LEMMA RecommendInitial == RecommendInit => RecommendInv
<1> SUFFICES ASSUME RecommendInit PROVE RecommendInv
  OBVIOUS
<1>1. /\ heat \in [Candidates -> 0 .. MaxHeat] /\ snapshot = NoSnapshot
      /\ request = NoRequest /\ walker = NewWalk
  BY DEF RecommendInit
<1>2. /\ request.step = "idle" /\ request.hot = {} /\ request.latest = {} /\ request.own = {}
      /\ request.before = {}
  BY <1>1 DEF NoRequest
<1>3. RequestOK
  BY <1>1, <1>2, EmptyPool DEF RequestOK, RequestSteps, NoRequest
<1>4. /\ walker.cursor = Start /\ walker.page = <<>> /\ walker.shown = {} /\ walker.rescored = TRUE
      /\ walker.more = TRUE
  BY <1>1 DEF NewWalk
<1>5. WalkerOK
  BY <1>4, StartType DEF WalkerOK
<1>6. RecommendTypeOK
  BY <1>1, <1>3, <1>5, TypeParts
<1>7. ExclusionsLeave /\ CursorIsLast /\ RepeatedOnlyRescored
  BY <1>2, <1>4 DEF ExclusionsLeave, CursorIsLast, RepeatedOnlyRescored
<1>8. ToSet(walker.page) = {}
  BY <1>4 DEF ToSet
<1>9. NothingExcludedShown
  BY <1>8 DEF NothingExcludedShown
<1> QED BY <1>6, <1>7, <1>9 DEF RecommendInv

\* The exclusions only grow.
LEMMA RejectedGrows ==
  ASSUME rejected \subseteq rejected'
  PROVE  Rejected \subseteq Rejected'
BY DEF Rejected

\* What happens beside the request and the walk.
LEMMA BesideKeeps ==
  ASSUME RecommendInv, UNCHANGED <<request, walker>>,
         heat' \in [Candidates -> 0 .. MaxHeat], snapshot' \in {snapshot, NoSnapshot},
         exposedTo \subseteq exposedTo', rejected \subseteq rejected'
  PROVE  RecommendInv'
<1>0. RecommendTypeOK /\ RequestOK /\ WalkerOK /\ snapshot \in Pools \cup {NoSnapshot}
  BY TypeParts DEF RecommendInv
<1>1. Rejected \subseteq Rejected'
  BY RejectedGrows
<1>2. RequestOK' /\ WalkerOK'
  BY <1>0, <1>1 DEF RequestOK, WalkerOK
<1>3. RecommendTypeOK'
  BY <1>0, <1>2, NextTypeParts
<1>4. ExclusionsLeave' /\ CursorIsLast' /\ RepeatedOnlyRescored'
  BY <1>1 DEF RecommendInv, ExclusionsLeave, CursorIsLast, RepeatedOnlyRescored, InHand
<1>5. NothingExcludedShown'
  BY DEF RecommendInv, NothingExcludedShown
<1> QED BY <1>3, <1>4, <1>5 DEF RecommendInv

\* A step of the request that leaves the walk alone.
LEMMA RequestMoves ==
  ASSUME RecommendInv, UNCHANGED <<heat, exposedTo, rejected, walker>>,
         snapshot' \in Pools \cup {NoSnapshot}, RequestOK', ExclusionsLeave',
         request'.step # "idle" => walker.more
  PROVE  RecommendInv'
<1>0. RecommendTypeOK /\ WalkerOK /\ heat \in [Candidates -> 0 .. MaxHeat]
  BY TypeParts DEF RecommendInv
<1>1. WalkerOK'
  BY <1>0 DEF WalkerOK
<1>2. RecommendTypeOK'
  BY <1>0, <1>1, NextTypeParts
<1>3. CursorIsLast' /\ RepeatedOnlyRescored' /\ NothingExcludedShown'
  BY DEF RecommendInv, CursorIsLast, RepeatedOnlyRescored, NothingExcludedShown
<1> QED BY <1>2, <1>3 DEF RecommendInv

\* Recall starts a request with pools, and notes what is excluded.
LEMMA InvRecall ==
  ASSUME RecommendInv, Recall
  PROVE  RecommendInv'
<1>0. RecommendTypeOK /\ snapshot \in Pools \cup {NoSnapshot} /\ heat \in [Candidates -> 0 .. MaxHeat]
  BY TypeParts DEF RecommendInv
<1>1. PICK hotFails \in BOOLEAN, latestFails \in BOOLEAN, own \in OwnCandidates :
       /\ snapshot' = IF hotFails THEN snapshot ELSE HotCandidates
       /\ request' = [step   |-> "exposures",
                      hot    |-> IF hotFails THEN {} ELSE HotCandidates,
                      latest |-> IF latestFails THEN {} ELSE ListLatest,
                      own    |-> own,
                      before |-> Excluded]
  BY DEF Recall
<1>2. HotCandidates \in Pools /\ ListLatest \in Pools
  BY <1>0, HotIsPool
<1>3. own \in Pools
  <2>1. PICK V \in SUBSET Candidates : own = {Scored(v, heat[v], heat[v]) : v \in V}
    BY DEF OwnCandidates
  <2> QED BY <1>0, <2>1, SourcePool
<1>4. /\ request'.step = "exposures" /\ request'.hot \in Pools /\ request'.latest \in Pools
      /\ request'.own \in Pools /\ request'.before = Excluded
      /\ request' = [step |-> request'.step, hot |-> request'.hot, latest |-> request'.latest,
                     own |-> request'.own, before |-> request'.before]
  BY <1>1, <1>2, <1>3, EmptyPool
<1>5. UNCHANGED <<heat, exposedTo, rejected, walker>> /\ walker.more
  BY DEF Recall
<1>6. Excluded = (exposedTo \cup Rejected)'
  BY <1>5 DEF Excluded, Rejected
<1>7. RequestOK'
  BY <1>4, <1>6 DEF RequestOK, RequestSteps
<1>8. ExclusionsLeave'
  BY <1>4 DEF ExclusionsLeave
<1>9. snapshot' \in Pools \cup {NoSnapshot}
  BY <1>0, <1>1, <1>2
<1> QED BY <1>5, <1>7, <1>8, <1>9, RequestMoves

\* Filtering leaves a part of each pool.
LEMMA FilterLeaves ==
  ASSUME RecommendInv, NEW step \in RequestSteps, NEW videos, Filter(step, videos),
         UNCHANGED <<exposedTo, rejected>>
  PROVE  /\ RequestOK' /\ request'.step = step /\ request'.before = request.before
         /\ \A c \in InHand' : c \in InHand /\ c.video \notin videos
<1>0. RequestOK
  BY TypeParts DEF RecommendInv
<1>1. /\ request'.step = step /\ request'.hot = Without(request.hot, videos)
      /\ request'.latest = Without(request.latest, videos)
      /\ request'.own = Without(request.own, videos) /\ request'.before = request.before
      /\ request' = [step |-> request'.step, hot |-> request'.hot, latest |-> request'.latest,
                     own |-> request'.own, before |-> request'.before]
  BY DEF Filter
<1>2. \A S \in Pools : Without(S, videos) \in Pools
  BY DEF Without, Pools
<1>3. Rejected' = Rejected
  BY DEF Rejected
<1>4. RequestOK'
  BY <1>0, <1>1, <1>2, <1>3 DEF RequestOK
<1>5. \A c \in InHand' : c \in InHand /\ c.video \notin videos
  BY <1>1 DEF InHand, Without
<1> QED BY <1>1, <1>4, <1>5

\* The two filters take out what was excluded when the page was asked for.
LEMMA InvFilters ==
  ASSUME RecommendInv, FilterExposed \/ FilterRejected
  PROVE  RecommendInv'
<1>0. /\ RequestOK /\ ExclusionsLeave /\ CursorIsLast /\ snapshot \in Pools \cup {NoSnapshot}
      /\ request.before \subseteq exposedTo \cup Rejected
  BY TypeParts DEF RecommendInv, RequestOK
<1>1. UNCHANGED <<heat, exposedTo, rejected, snapshot, walker>>
  BY DEF FilterExposed, FilterRejected
<1>2. Rejected' = Rejected
  BY <1>1 DEF Rejected
<1>3. RequestOK' /\ ExclusionsLeave'
  <2>1. CASE FilterExposed
    <3>1. Filter("rejections", exposedTo)
      BY <2>1 DEF FilterExposed
    <3>2. /\ RequestOK' /\ request'.step = "rejections" /\ request'.before = request.before
          /\ \A c \in InHand' : c \in InHand /\ c.video \notin exposedTo
      BY <1>1, <3>1, FilterLeaves DEF RequestSteps
    <3> QED BY <1>0, <1>2, <3>2 DEF ExclusionsLeave
  <2>2. CASE FilterRejected
    <3>1. Filter("rank", Rejected) /\ request.step = "rejections"
      BY <2>2 DEF FilterRejected
    <3>2. /\ RequestOK' /\ request'.step = "rank" /\ request'.before = request.before
          /\ \A c \in InHand' : c \in InHand /\ c.video \notin Rejected
      BY <1>1, <3>1, FilterLeaves DEF RequestSteps
    <3> QED BY <1>0, <3>1, <3>2 DEF ExclusionsLeave
  <2> QED BY <2>1, <2>2
<1>4. walker.more
  BY <1>0 DEF CursorIsLast, FilterExposed, FilterRejected
<1> QED BY <1>0, <1>1, <1>3, <1>4, RequestMoves

\* A request that fails leaves the walk where it was.
LEMMA InvRequestFails ==
  ASSUME RecommendInv, RequestFails
  PROVE  RecommendInv'
<1>0. snapshot \in Pools \cup {NoSnapshot}
  BY TypeParts DEF RecommendInv
<1>1. UNCHANGED <<heat, exposedTo, rejected, snapshot, walker>> /\ request' = NoRequest
  BY DEF RequestFails
<1>2. /\ request'.step = "idle" /\ request'.hot = {} /\ request'.latest = {} /\ request'.own = {}
      /\ request'.before = {}
      /\ request' = [step |-> request'.step, hot |-> request'.hot, latest |-> request'.latest,
                     own |-> request'.own, before |-> request'.before]
  BY <1>1 DEF NoRequest
<1>3. RequestOK' /\ ExclusionsLeave'
  BY <1>2, EmptyPool DEF RequestOK, RequestSteps, ExclusionsLeave
<1> QED BY <1>0, <1>1, <1>2, <1>3, RequestMoves

\* A new walk has shown nothing.
LEMMA InvStartRecommending ==
  ASSUME RecommendInv, StartRecommending
  PROVE  RecommendInv'
<1>0. /\ RequestOK /\ snapshot \in Pools \cup {NoSnapshot} /\ heat \in [Candidates -> 0 .. MaxHeat]
  BY TypeParts DEF RecommendInv
<1>1. /\ UNCHANGED <<heat, exposedTo, rejected, snapshot, request>> /\ walker' = NewWalk
      /\ request.step = "idle"
  BY DEF StartRecommending
<1>2. /\ walker'.cursor = Start /\ walker'.page = <<>> /\ walker'.shown = {}
      /\ walker'.rescored = TRUE /\ walker'.more = TRUE
  BY <1>1 DEF NewWalk
<1>3. WalkerOK'
  BY <1>2, StartType DEF WalkerOK
<1>4. RequestOK'
  BY <1>0, <1>1 DEF RequestOK, Rejected
<1>5. RecommendTypeOK'
  BY <1>0, <1>1, <1>3, <1>4, NextTypeParts
<1>6. ExclusionsLeave' /\ CursorIsLast' /\ RepeatedOnlyRescored'
  BY <1>1, <1>2 DEF ExclusionsLeave, CursorIsLast, RepeatedOnlyRescored
<1>7. ToSet(walker'.page) = {}
  BY <1>2 DEF ToSet
<1>8. NothingExcludedShown'
  BY <1>7 DEF NothingExcludedShown
<1> QED BY <1>5, <1>6, <1>8 DEF RecommendInv

Shown == [video : Candidates, score : Int]
ShownAs(c) == [video |-> c.video, score |-> c.score]

LEMMA ShownType ==
  ASSUME NEW c \in Item
  PROVE  ShownAs(c) \in Shown /\ ShownAs(c).video = c.video /\ ShownAs(c).score = c.score
BY DEF Item, ShownAs, Shown

\* What has the video of something before the cursor, and is behind the cursor, has
\* lost score.
LEMMA BehindLostScore ==
  ASSUME NEW cursor \in [video : Nat, score : Int], NEW s \in Shown, NEW c \in Item,
         s = cursor \/ Ahead(s, cursor), Ahead(cursor, c), c.video = s.video
  PROVE  c.score < s.score
<1>1. /\ cursor.video \in Int /\ cursor.score \in Int /\ s.video \in Int /\ s.score \in Int
      /\ c.video \in Int /\ c.score \in Int
  BY RecommendationAssumption DEF Shown, Item, Candidates
<1> QED BY <1>1 DEF Ahead

\* The last item of a sorted page is behind the others, and behind what was shown.
LEMMA LastIsBehind ==
  ASSUME NEW page \in Seq(Item), Sorted(page), page # <<>>
  PROVE  /\ CursorOf(page) \in Shown /\ CursorOf(page) # Start
         /\ \A c \in ToSet(page) : ShownAs(c) = CursorOf(page) \/ Ahead(ShownAs(c), CursorOf(page))
         /\ \A cursor \in [video : Nat, score : Int], s \in Shown :
              (s = cursor \/ Ahead(s, cursor)) /\ (\A i \in 1 .. Len(page) : Ahead(cursor, page[i]))
                => Ahead(s, CursorOf(page))
<1> DEFINE n == Len(page)
           last == page[n]
<1>1. n \in Nat /\ n \in 1 .. n
  OBVIOUS
<1>2. last \in Item
  BY <1>1
<1>3. CursorOf(page) = ShownAs(last)
  BY DEF CursorOf, Last, ShownAs
<1>4. /\ ShownAs(last) \in Shown /\ ShownAs(last).video = last.video /\ ShownAs(last).score = last.score
  BY <1>2, ShownType
<1>5. ShownAs(last) # Start
  <2>1. Start.video = 0
    BY DEF Start
  <2>2. last.video # 0
    BY <1>2, RecommendationAssumption DEF Item, Candidates
  <2> QED BY <1>4, <2>1, <2>2
<1> HIDE DEF last
<1>6. ASSUME NEW c \in ToSet(page) PROVE ShownAs(c) = ShownAs(last) \/ Ahead(ShownAs(c), ShownAs(last))
  <2>1. PICK i \in 1 .. n : c = page[i]
    BY SeqElements
  <2>2. c \in Item
    BY <2>1
  <2>3. ShownAs(c).video = c.video /\ ShownAs(c).score = c.score
    BY <2>2, ShownType
  <2>4. CASE i = n
    BY <2>1, <2>4 DEF last
  <2>5. CASE i # n
    <3>1. i < n
      BY <1>1, <2>5
    <3>2. Ahead(c, last)
      BY <1>1, <2>1, <3>1 DEF Sorted, last
    <3> QED BY <1>4, <2>3, <3>2 DEF Ahead
  <2> QED BY <2>4, <2>5
<1>7. ASSUME NEW cursor \in [video : Nat, score : Int], NEW s \in Shown,
             s = cursor \/ Ahead(s, cursor), \A i \in 1 .. Len(page) : Ahead(cursor, page[i])
      PROVE  Ahead(s, ShownAs(last))
  <2>1. Ahead(cursor, last)
    BY <1>1, <1>7 DEF last
  <2>2. /\ cursor.video \in Int /\ cursor.score \in Int /\ s.video \in Int /\ s.score \in Int
        /\ last.video \in Int /\ last.score \in Int
    BY <1>2, RecommendationAssumption DEF Shown, Item, Candidates
  <2>3. Ahead(s, last)
    BY <1>7, <2>1, <2>2 DEF Ahead
  <2> QED BY <1>4, <2>3 DEF Ahead
<1> QED BY <1>3, <1>4, <1>5, <1>6, <1>7

\* The page is behind the cursor, and the cursor moves behind the page.
LEMMA InvRecommend ==
  ASSUME RecommendInv, Recommend
  PROVE  RecommendInv'
<1>0. /\ RequestOK /\ WalkerOK /\ snapshot \in Pools \cup {NoSnapshot}
      /\ heat \in [Candidates -> 0 .. MaxHeat]
      /\ ExclusionsLeave /\ CursorIsLast /\ request.step = "rank"
      /\ UNCHANGED <<heat, exposedTo, rejected, snapshot>> /\ request' = NoRequest
  BY TypeParts DEF RecommendInv, Recommend
<1>1. PICK profiled \in BOOLEAN, own \in Personalized :
       LET ranked == RankCandidates(Pool(own), profiled)
           below  == Beyond(ranked, walker.cursor)
           page   == Cut(below)
       IN  walker' = [cursor   |-> IF page = <<>> THEN Start ELSE CursorOf(page),
                      page     |-> InterleaveByAuthor(page),
                      shown    |-> {s \in walker.shown : \A c \in ToSet(page) : c.video # s.video}
                                     \cup {[video |-> c.video, score |-> c.score] : c \in ToSet(page)},
                      before   |-> request.before,
                      rescored |-> \A c \in ToSet(page), s \in walker.shown :
                                      c.video = s.video => c.score < s.score,
                      more     |-> Len(below) > PageLimit]
  BY DEF Recommend
<1> DEFINE pool == Pool(own)
           ranked == RankCandidates(pool, profiled)
           cursor == walker.cursor
           below == Beyond(ranked, cursor)
           page == Cut(below)
<1>2. /\ walker'.cursor = IF page = <<>> THEN Start ELSE CursorOf(page)
      /\ walker'.page = InterleaveByAuthor(page)
      /\ walker'.shown \subseteq walker.shown \cup {ShownAs(c) : c \in ToSet(page)}
      /\ walker'.before = request.before
      /\ walker'.rescored = \A c \in ToSet(page), s \in walker.shown :
                               c.video = s.video => c.score < s.score
      /\ walker'.more = (Len(below) > PageLimit)
  <2> HIDE DEF page, below
  <2>1. walker' = [cursor   |-> IF page = <<>> THEN Start ELSE CursorOf(page),
                   page     |-> InterleaveByAuthor(page),
                   shown    |-> {s \in walker.shown : \A c \in ToSet(page) : c.video # s.video}
                                  \cup {[video |-> c.video, score |-> c.score] : c \in ToSet(page)},
                   before   |-> request.before,
                   rescored |-> \A c \in ToSet(page), s \in walker.shown :
                                   c.video = s.video => c.score < s.score,
                   more     |-> Len(below) > PageLimit]
    BY <1>1, Zenon DEF page, below
  <2>2. /\ walker'.cursor = IF page = <<>> THEN Start ELSE CursorOf(page)
        /\ walker'.page = InterleaveByAuthor(page)
        /\ walker'.shown = {s \in walker.shown : \A c \in ToSet(page) : c.video # s.video}
                                  \cup {[video |-> c.video, score |-> c.score] : c \in ToSet(page)}
        /\ walker'.before = request.before
        /\ walker'.rescored = \A c \in ToSet(page), s \in walker.shown :
                                 c.video = s.video => c.score < s.score
        /\ walker'.more = (Len(below) > PageLimit)
    BY <2>1, Zenon
  <2>3. walker'.shown \subseteq walker.shown \cup {ShownAs(c) : c \in ToSet(page)}
    BY <2>2 DEF ShownAs
  <2> QED BY <2>2, <2>3, Zenon
<1>3. pool \in Pools /\ \A c \in pool : \E d \in InHand : d.video = c.video
  BY <1>0, PoolIsPool DEF RequestOK, Personalized
<1> HIDE DEF pool
<1>4. ToSet(ranked) \in Pools /\ \A c \in ToSet(ranked) : \E d \in pool : d.video = c.video
  BY <1>3, RankedPool
<1> HIDE DEF ranked
<1>5. /\ page \in Seq(Item) /\ Sorted(page)
      /\ Len(below) > PageLimit => page # <<>>
      /\ \A i \in 1 .. Len(page) : page[i] \in ToSet(ranked) /\ (cursor = Start \/ Ahead(cursor, page[i]))
  <2> DEFINE b == below
             p == page
  <2>1. b = Beyond(ranked, cursor) /\ p = Cut(b)
    OBVIOUS
  <2> HIDE DEF b, p
  <2>2. /\ p \in Seq(Item) /\ Sorted(p)
        /\ Len(b) > PageLimit => p # <<>>
        /\ \A i \in 1 .. Len(p) : /\ p[i] \in ToSet(ranked)
                                  /\ cursor = Start \/ Ahead(cursor, p[i])
    BY <1>4, <2>1, PageBelow
  <2> QED BY <2>2 DEF b, p
<1> HIDE DEF below, page
<1>6. /\ \A c \in ToSet(page) : c \in Item /\ c \in ToSet(ranked) /\ (cursor = Start \/ Ahead(cursor, c))
  BY <1>5, SeqElements
<1>7. cursor \in [video : Nat, score : Int] /\ walker.shown \subseteq Shown /\ walker.more
  BY <1>0 DEF WalkerOK, CursorIsLast, Shown
<1>8. IF cursor = Start THEN walker.shown = {}
      ELSE \A s \in walker.shown : s = cursor \/ Ahead(s, cursor)
  BY <1>0, <1>7 DEF CursorIsLast
<1>9. RepeatedOnlyRescored'
  <2>1. ASSUME NEW c \in ToSet(page), NEW s \in walker.shown, c.video = s.video
        PROVE  c.score < s.score
    <3>1. cursor # Start /\ (s = cursor \/ Ahead(s, cursor)) /\ s \in Shown
      BY <1>7, <1>8, <2>1
    <3>2. c \in Item /\ Ahead(cursor, c)
      BY <1>6, <3>1
    <3> HIDE DEF cursor
    <3> QED BY <1>7, <2>1, <3>1, <3>2, BehindLostScore
  <2> QED BY <1>2, <2>1, Zenon DEF RepeatedOnlyRescored
<1>10. page # <<>> => /\ CursorOf(page) \in Shown /\ CursorOf(page) # Start
                      /\ \A s \in walker'.shown : s = CursorOf(page) \/ Ahead(s, CursorOf(page))
  <2> SUFFICES ASSUME page # <<>>
               PROVE  /\ CursorOf(page) \in Shown /\ CursorOf(page) # Start
                      /\ \A s \in walker'.shown : s = CursorOf(page) \/ Ahead(s, CursorOf(page))
    OBVIOUS
  <2>1. /\ CursorOf(page) \in Shown /\ CursorOf(page) # Start
        /\ \A c \in ToSet(page) : ShownAs(c) = CursorOf(page) \/ Ahead(ShownAs(c), CursorOf(page))
        /\ \A k \in [video : Nat, score : Int], s \in Shown :
              (s = k \/ Ahead(s, k)) /\ (\A i \in 1 .. Len(page) : Ahead(k, page[i]))
                => Ahead(s, CursorOf(page))
    BY <1>5, LastIsBehind
  <2>2. ASSUME NEW s \in walker.shown PROVE Ahead(s, CursorOf(page))
    <3>1. cursor # Start /\ (s = cursor \/ Ahead(s, cursor)) /\ s \in Shown
      BY <1>7, <1>8
    <3>2. \A i \in 1 .. Len(page) : Ahead(cursor, page[i])
      BY <1>5, <3>1
    <3> HIDE DEF cursor
    <3> QED BY <1>7, <2>1, <3>1, <3>2
  <2> QED BY <1>2, <2>1, <2>2
<1>11. CursorIsLast'
  <2>1. request'.step = "idle"
    BY <1>0 DEF NoRequest
  <2>2. walker'.more => page # <<>> /\ walker'.cursor = CursorOf(page)
    BY <1>2, <1>5
  <2> QED BY <1>10, <2>1, <2>2 DEF CursorIsLast
<1>12. WalkerOK'
  <2>1. walker'.shown \subseteq Shown
    BY <1>2, <1>6, <1>7, ShownType
  <2>2. walker'.cursor \in [video : Nat, score : Int]
    <3>1. Shown \subseteq [video : Nat, score : Int]
      BY RecommendationAssumption DEF Shown, Candidates
    <3> QED BY <1>2, <1>10, <3>1, StartType
  <2>3. walker'.more \in BOOLEAN
    BY <1>2
  <2> QED BY <2>1, <2>2, <2>3 DEF WalkerOK, Shown
<1>13. NothingExcludedShown'
  <2> DEFINE P == {c \in Item : c.video \notin request.before}
  <2>1. \A c \in ToSet(ranked) : c.video \notin request.before
    <3>1. \A c \in InHand : c.video \notin request.before
      BY <1>0 DEF ExclusionsLeave
    <3> QED BY <1>3, <1>4, <3>1
  <2>2. \A i \in 1 .. Len(page) : page[i] \in P
    BY <1>5, <2>1
  <2>3. page \in Seq(P)
    <3> HIDE DEF P
    <3>1. DOMAIN page = 1 .. Len(page) /\ Len(page) \in Nat /\ page = [i \in 1 .. Len(page) |-> page[i]]
      BY <1>5
    <3> QED BY <2>2, <3>1
  <2>4. ToSet(InterleaveByAuthor(page)) \in SUBSET P
    BY <2>3, InterleaveShows
  <2>5. \A c \in ToSet(walker'.page) : c.video \notin walker'.before
    BY <1>2, <2>4
  <2> QED BY <2>5 DEF NothingExcludedShown
<1>14. /\ request'.step = "idle" /\ request'.hot = {} /\ request'.latest = {} /\ request'.own = {}
       /\ request'.before = {}
       /\ request' = [step |-> request'.step, hot |-> request'.hot, latest |-> request'.latest,
                      own |-> request'.own, before |-> request'.before]
  BY <1>0 DEF NoRequest
<1>15. RequestOK' /\ ExclusionsLeave'
  BY <1>14, EmptyPool DEF RequestOK, RequestSteps, ExclusionsLeave
<1>16. RecommendTypeOK'
  BY <1>0, <1>12, <1>15, NextTypeParts
<1> QED BY <1>9, <1>11, <1>13, <1>15, <1>16 DEF RecommendInv

LEMMA RecommendStep == RecommendInv /\ [RecommendNext]_recommendVars => RecommendInv'
<1> SUFFICES ASSUME RecommendInv, [RecommendNext]_recommendVars PROVE RecommendInv'
  OBVIOUS
<1>0. snapshot \in Pools \cup {NoSnapshot} /\ heat \in [Candidates -> 0 .. MaxHeat]
  BY TypeParts DEF RecommendInv
<1>1. CASE UNCHANGED recommendVars \/ ExpireSnapshot
           \/ \E v \in Candidates : Rescore(v) \/ Expose(v) \/ Reject(v)
  <2>1. /\ UNCHANGED <<request, walker>> /\ snapshot' \in {snapshot, NoSnapshot}
        /\ exposedTo \subseteq exposedTo' /\ rejected \subseteq rejected'
    BY <1>1 DEF recommendVars, ExpireSnapshot, Rescore, Expose, Reject
  <2>2. heat' \in [Candidates -> 0 .. MaxHeat]
    BY <1>0, <1>1 DEF recommendVars, ExpireSnapshot, Rescore, Expose, Reject
  <2> QED BY <2>1, <2>2, BesideKeeps
<1> QED BY <1>1, InvRecall, InvFilters, InvRequestFails, InvRecommend, InvStartRecommending
        DEF RecommendNext

\* The recommender, asked page after page, keeps its exclusions and its cursor
\* together, whatever is scored, exposed, rejected or fails in between.
THEOREM RecommendHolds == RecommendSpec => []RecommendInv
BY RecommendInitial, RecommendStep, PTL DEF RecommendSpec

\* A walk of the recommender shows a video again only with a lower score.
THEOREM OnlyRescoredRepeated == RecommendSpec => []RepeatedOnlyRescored
<1>1. RecommendInv => RepeatedOnlyRescored
  BY DEF RecommendInv
<1> QED BY <1>1, RecommendHolds, PTL

\* No page has what was excluded when it was asked for.
THEOREM ExcludedNeverShown == RecommendSpec => []NothingExcludedShown
<1>1. RecommendInv => NothingExcludedShown
  BY DEF RecommendInv
<1> QED BY <1>1, RecommendHolds, PTL
=============================================================================
