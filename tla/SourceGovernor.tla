--------------------------- MODULE SourceGovernor ---------------------------
(***************************************************************************)
(* The primary source of the recommended feed in one API process: a        *)
(* bulkhead of slots, a circuit breaker, a retry and the fallbacks.  The   *)
(* calls run at the same time; the circuit is guarded by a mutex that is   *)
(* held by allow and by record, not between them.                          *)
(***************************************************************************)
EXTENDS Integers, FiniteSets

CONSTANTS
  Calls,        \* the requests that may be in the source at the same time
  MaxInflight,  \* capacity of the bulkhead
  Threshold,    \* failures that open the circuit
  MaxRetries    \* attempts after the first

ASSUME GovernorAssumption ==
  /\ IsFiniteSet(Calls)
  /\ {MaxInflight, Threshold} \subseteq Nat \ {0}
  /\ MaxRetries \in Nat

VARIABLES
  slots,     \* elements of the channel sourceGovernor.slots
  circuit,   \* sourceGovernor.state
  failures,  \* sourceGovernor.failures
  cooling,   \* now is before openUntil
  call       \* governedCandidateSource.Load: step, attempt, acquired

governorVars == <<slots, circuit, failures, cooling, call>>
breaker == <<circuit, failures, cooling>>

NoCallYet == [step |-> "idle", attempt |-> 0, acquired |-> FALSE]

GovernorInit ==
  /\ slots = 0
  /\ circuit = "closed"
  /\ failures = 0
  /\ cooling = FALSE
  /\ call = [c \in Calls |-> NoCallYet]
----------------------------------------------------------------------------
CallAt(c, step) == call[c].step = step

CallGoto(c, step, acquired) ==
  call' = [call EXCEPT ![c] = [step |-> step, attempt |-> call[c].attempt, acquired |-> acquired]]

Open == circuit' = "open" /\ cooling' = TRUE

Record(success) ==
  \/ /\ success
     /\ circuit' = "closed" /\ failures' = 0
     /\ UNCHANGED cooling
  \/ /\ ~success /\ circuit = "halfOpen"
     /\ Open
     /\ UNCHANGED failures
  \/ /\ ~success /\ circuit # "halfOpen"
     /\ failures' = failures + 1
     /\ IF failures + 1 >= Threshold THEN Open ELSE UNCHANGED <<circuit, cooling>>

\* The operators have switched the source off.
Degrade(c) ==
  /\ CallAt(c, "idle")
  /\ CallGoto(c, "fallback", FALSE)
  /\ UNCHANGED <<slots, breaker>>

Acquire(c) ==
  /\ CallAt(c, "idle")
  /\ IF slots < MaxInflight
     THEN slots' = slots + 1 /\ CallGoto(c, "allow", TRUE)
     ELSE UNCHANGED slots /\ CallGoto(c, "fallback", FALSE)
  /\ UNCHANGED breaker

\* Mutant: a circuit that is half open lets every call through.
AdmitsHalfOpen == circuit # "open" \/ ~cooling

\* Calls go through a closed circuit, and one when the cooldown is over.
Admits == circuit = "closed" \/ (circuit = "open" /\ ~cooling)

Allow(c) ==
  /\ CallAt(c, "allow")
  /\ circuit' = IF Admits /\ circuit = "open" THEN "halfOpen" ELSE circuit
  /\ IF Admits
     THEN CallGoto(c, "primary", TRUE) /\ UNCHANGED slots
     ELSE CallGoto(c, "fallback", FALSE) /\ slots' = slots - 1
  /\ UNCHANGED <<failures, cooling>>

\* An attempt fails within the timeout and is made again.
Retry(c) ==
  /\ CallAt(c, "primary") /\ call[c].attempt < MaxRetries
  /\ call' = [call EXCEPT ![c] = [step |-> "primary", attempt |-> call[c].attempt + 1,
                                 acquired |-> call[c].acquired]]
  /\ UNCHANGED <<slots, breaker>>

Succeed(c) ==
  /\ CallAt(c, "primary")
  /\ Record(TRUE)
  /\ CallGoto(c, "return", TRUE)
  /\ UNCHANGED slots

\* Mutant: an error of the client leaves the circuit as it is.
RejectInputUnrecorded(c) ==
  /\ CallAt(c, "primary")
  /\ CallGoto(c, "return", TRUE)
  /\ UNCHANGED <<slots, breaker>>

\* An invalid cursor shows that the source can be reached.
RejectInput(c) ==
  /\ CallAt(c, "primary")
  /\ Record(TRUE)
  /\ CallGoto(c, "return", TRUE)
  /\ UNCHANGED slots

\* The client has gone: this counts as a failure of the source.
Abandon(c) ==
  /\ CallAt(c, "primary")
  /\ Record(FALSE)
  /\ CallGoto(c, "return", TRUE)
  /\ UNCHANGED slots

\* The last attempt fails, or the timeout ends it.
Fail(c) ==
  /\ CallAt(c, "primary")
  /\ Record(FALSE)
  /\ CallGoto(c, "release", TRUE)
  /\ UNCHANGED slots

\* The fallbacks run outside the bulkhead.
Release(c) ==
  /\ CallAt(c, "release")
  /\ slots' = slots - 1
  /\ CallGoto(c, "fallback", FALSE)
  /\ UNCHANGED breaker

\* The hot and the newest videos are tried in turn, or all of them fail.
FallBack(c) ==
  /\ CallAt(c, "fallback")
  /\ CallGoto(c, "return", call[c].acquired)
  /\ UNCHANGED <<slots, breaker>>

\* The deferred release.
Return(c) ==
  /\ CallAt(c, "return")
  /\ slots' = IF call[c].acquired THEN slots - 1 ELSE slots
  /\ call' = [call EXCEPT ![c] = NoCallYet]
  /\ UNCHANGED breaker

\* The cooldown of ten seconds outlasts the timeout of the calls that the
\* circuit had let through.
CoolDown ==
  /\ circuit = "open" /\ cooling
  /\ \A c \in Calls : ~CallAt(c, "primary")
  /\ cooling' = FALSE
  /\ UNCHANGED <<slots, circuit, failures, call>>
----------------------------------------------------------------------------
CallStep(c) ==
  \/ Degrade(c) \/ Acquire(c) \/ Allow(c) \/ Retry(c)
  \/ Succeed(c) \/ RejectInput(c) \/ Abandon(c) \/ Fail(c)
  \/ Release(c) \/ FallBack(c) \/ Return(c)

GovernorNext == (\E c \in Calls : CallStep(c)) \/ CoolDown

GovernorSpec == GovernorInit /\ [][GovernorNext]_governorVars

\* A call that is let through ends, by its timeout at the latest.
GovernorFairness ==
  \A c \in Calls : WF_governorVars(Succeed(c) \/ RejectInput(c) \/ Abandon(c) \/ Fail(c))
----------------------------------------------------------------------------
(* Properties.                                                             *)

GovernorTypeOK ==
  /\ slots \in Nat
  /\ circuit \in {"closed", "open", "halfOpen"}
  /\ failures \in Nat
  /\ cooling \in BOOLEAN
  /\ call \in [Calls -> [step : {"idle", "allow", "primary", "release", "fallback", "return"},
                         attempt : 0 .. MaxRetries, acquired : BOOLEAN]]

\* The calls that have a slot.
Holds(c) == \/ call[c].step \in {"allow", "primary", "release"}
            \/ CallAt(c, "return") /\ call[c].acquired

Holders == {c \in Calls : Holds(c)}

\* The slots taken are those of the calls that have not given theirs back: none
\* is lost on an error path, and none is given back twice.
SlotsMatchCalls == slots = Cardinality(Holders) /\ slots <= MaxInflight

\* A circuit that is half open has let one call through, and no other call is
\* still running in the source.
OneProbe ==
  circuit = "halfOpen" => Cardinality({c \in Calls : CallAt(c, "primary")}) <= 1

\* Whatever path a call ends on, its slot comes back once, and the source that is on trial sees
\* one call at a time.
SourceGuarded == SlotsMatchCalls /\ OneProbe

\* Inductive: no call reaches the fallbacks with a slot, and none is in the source when a
\* circuit that has cooled down lets its probe through.
GovernorInv ==
  /\ GovernorTypeOK /\ SlotsMatchCalls
  /\ \A c \in Calls : CallAt(c, "fallback") => ~call[c].acquired
  /\ circuit = "halfOpen" =>
       \A c, d \in Calls : CallAt(c, "primary") /\ CallAt(d, "primary") => c = d
  /\ circuit = "open" /\ ~cooling => \A c \in Calls : ~CallAt(c, "primary")

\* The probe decides: no circuit stays half open.
HalfOpenEnds == circuit = "halfOpen" ~> circuit # "halfOpen"
============================================================================
