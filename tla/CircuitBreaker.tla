--------------------------- MODULE CircuitBreaker ---------------------------
(***************************************************************************)
(* CircuitBreaker (reliability/circuit_breaker.py): one breaker shared by  *)
(* every thread that calls the same external service.  The lock is held    *)
(* while a call is admitted and while its outcome is recorded, never       *)
(* during the call: one action is one critical section.                    *)
(***************************************************************************)
EXTENDS Integers, FiniteSets

CONSTANTS
  Callers,      \* threads that call the service
  Threshold,    \* failure_threshold
  MaxProbes,    \* half_open_max_calls
  MaxFailures,  \* bound: calls the service fails
  MaxNested,    \* bound: calls rejected by a breaker inside the guarded body
  MaxReports,   \* bound: outcomes recorded outside guard()
  MaxForced     \* bound: uses of reset(), force_open(), force_half_open()

ASSUME ConstantsAssumption ==
  /\ IsFiniteSet(Callers)
  /\ Threshold \in Nat \ {0} /\ MaxProbes \in Nat \ {0}
  /\ MaxFailures \in Nat /\ MaxNested \in Nat
  /\ MaxReports \in Nat /\ MaxForced \in Nat

VARIABLES
  state,     \* _state
  failures,  \* _failure_count
  slots,     \* _half_open_calls
  cooling,   \* is recovery_timeout still running since _opened_at?
  call,      \* per thread: no call, a plain call, a probe (guard's local)
  budget     \* how much of each bound is used up

vars == <<state, failures, slots, cooling, call, budget>>

TypeOK ==
  /\ state \in {"closed", "open", "half_open"}
  /\ failures \in Nat
  /\ slots \in 0..MaxProbes
  /\ cooling \in BOOLEAN
  /\ call \in [Callers -> {"none", "plain", "probe"}]
  /\ budget \in [fail : 0..MaxFailures, nested : 0..MaxNested,
                 report : 0..MaxReports, forced : 0..MaxForced]

Init ==
  /\ state = "closed" /\ failures = 0 /\ slots = 0 /\ cooling = FALSE
  /\ call = [c \in Callers |-> "none"]
  /\ budget = [fail |-> 0, nested |-> 0, report |-> 0, forced |-> 0]

-----------------------------------------------------------------------------
\* _acquire()

Enter(c, kind) == call[c] = "none" /\ call' = [call EXCEPT ![c] = kind]

AcquireClosed(c) ==
  /\ state = "closed"
  /\ Enter(c, "plain")
  /\ UNCHANGED <<state, failures, slots, cooling, budget>>

\* the first call after the recovery timeout: OPEN becomes HALF_OPEN
AcquireRecovering(c) ==
  /\ state = "open" /\ ~cooling
  /\ state' = "half_open"
  /\ slots' = 1
  /\ Enter(c, "probe")
  /\ UNCHANGED <<failures, cooling, budget>>

ProbeWithin(c, limit) ==
  /\ state = "half_open" /\ slots < limit
  /\ slots' = slots + 1
  /\ Enter(c, "probe")
  /\ UNCHANGED <<state, failures, cooling, budget>>

AcquireHalfOpen(c) == ProbeWithin(c, MaxProbes)

\* a rejected call leaves everything as it was
Acquire(c) == AcquireClosed(c) \/ AcquireRecovering(c) \/ AcquireHalfOpen(c)

-----------------------------------------------------------------------------
\* leaving guard()

Leave(c, kind) == call[c] = kind /\ call' = [call EXCEPT ![c] = "none"]

ReleaseSlot == slots' = IF slots > 0 THEN slots - 1 ELSE 0

Use(kind, limit) ==
  /\ budget[kind] < limit
  /\ budget' = [budget EXCEPT ![kind] = @ + 1]

Trip == state' = "open" /\ cooling' = TRUE

ProbeSucceeds(c) ==
  /\ Leave(c, "probe")
  /\ ReleaseSlot
  /\ UNCHANGED <<cooling, budget>>

ProbeSuccessIgnored(c) ==
  ProbeSucceeds(c) /\ failures' = 0 /\ UNCHANGED state

ProbeSuccess(c) == ProbeSucceeds(c) /\ state' = "closed" /\ failures' = 0

PlainSuccess(c) ==
  /\ Leave(c, "plain")
  /\ failures' = 0
  /\ UNCHANGED <<state, slots, cooling, budget>>

ProbeFailure(c) ==
  /\ Leave(c, "probe")
  /\ Use("fail", MaxFailures)
  /\ Trip
  /\ ReleaseSlot
  /\ UNCHANGED failures

\* one more failure, in whatever state the circuit is by now
CountFailure ==
  /\ failures' = failures + 1
  /\ IF failures + 1 >= Threshold THEN Trip ELSE UNCHANGED <<state, cooling>>

PlainFailure(c) ==
  /\ Leave(c, "plain")
  /\ Use("fail", MaxFailures)
  /\ CountFailure
  /\ UNCHANGED slots

\* the body raised CircuitOpenError: no outcome, but the slot is given back
RejectedInside(c) ==
  /\ Use("nested", MaxNested)
  /\ UNCHANGED <<state, failures, cooling>>

\* (mutant: the slot of a probe rejected inside its body is kept)
NestedKeepsSlot(c) ==
  /\ RejectedInside(c) /\ UNCHANGED slots
  /\ Leave(c, "plain") \/ Leave(c, "probe")

NestedRejection(c) ==
  /\ RejectedInside(c)
  /\ \/ Leave(c, "probe") /\ ReleaseSlot
     \/ Leave(c, "plain") /\ UNCHANGED slots

Success(c) == ProbeSuccess(c) \/ PlainSuccess(c)
Failure(c) == ProbeFailure(c) \/ PlainFailure(c)

-----------------------------------------------------------------------------
\* record_success(), record_failure() and the operator's interventions

ReportSuccess ==
  /\ Use("report", MaxReports)
  /\ failures' = 0
  /\ UNCHANGED <<state, slots, cooling, call>>

ReportFailure ==
  /\ Use("report", MaxReports)
  /\ CountFailure
  /\ UNCHANGED <<slots, call>>

Reset ==
  /\ Use("forced", MaxForced)
  /\ state' = "closed" /\ failures' = 0 /\ slots' = 0
  /\ UNCHANGED <<cooling, call>>

ForceOpen ==
  /\ Use("forced", MaxForced)
  /\ Trip /\ slots' = 0
  /\ UNCHANGED <<failures, call>>

ForceHalfOpen ==
  /\ Use("forced", MaxForced)
  /\ state' = "half_open" /\ slots' = 0
  /\ UNCHANGED <<failures, cooling, call>>

\* recovery_timeout seconds have passed since _opened_at
TimeoutElapses ==
  /\ cooling
  /\ cooling' = FALSE
  /\ UNCHANGED <<state, failures, slots, call, budget>>

Next ==
  \/ \E c \in Callers : Acquire(c) \/ Success(c) \/ Failure(c)
                          \/ NestedRejection(c)
  \/ ReportSuccess \/ ReportFailure \/ Reset \/ ForceOpen \/ ForceHalfOpen
  \/ TimeoutElapses

Spec == Init /\ [][Next]_vars

(***************************************************************************)
(* Time passes, a call returns (every client of the breaker calls with a   *)
(* timeout), and threads that may call do call: the pipelines of the queue *)
(* keep arriving.                                                          *)
(***************************************************************************)
FairSpec ==
  /\ Spec
  /\ WF_vars(TimeoutElapses)
  /\ \A c \in Callers : WF_vars(Acquire(c)) /\ WF_vars(Success(c))

-----------------------------------------------------------------------------
\* Properties

Probing == {c \in Callers : call[c] = "probe"}

\* A probe slot is never leaked: each occupied slot belongs to a probe that is
\* still running, so HALF_OPEN without running probes has all its slots free.
NoSlotLeak == slots <= Cardinality(Probing)

\* A closed circuit is always short of the threshold: the failures of an
\* earlier outage, or those recorded while it was open, do not linger.
ClosedBelowThreshold == state = "closed" => failures < Threshold

\* What the state of the circuit says agrees with its two counters.
BreakerSound == NoSlotLeak /\ ClosedBelowThreshold

\* Once the service has stopped failing, the circuit closes and stays closed,
\* whatever calls of the outage are still in flight.
ServiceRecovers == <>[](state = "closed")
=============================================================================
