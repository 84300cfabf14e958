--------------------------- MODULE ServiceProofs ---------------------------
(***************************************************************************)
(* Theorems about what stands between the queue and the work it pays for   *)
(* or waits for: the circuit breaker around every call of a provider, the  *)
(* batches of the local queue, the scheduler and rendering on other hosts, *)
(* for any number of threads, members, instants, hosts and crashes.        *)
(***************************************************************************)
EXTENDS CircuitBreaker, BatchTracker, JobScheduler, RemoteRender,
        NaturalFacts

-----------------------------------------------------------------------------
\* The circuit breaker

\* Every use of a bound keeps the record of the bounds well-typed.
LEMMA UseType ==
  ASSUME TypeOK,
         \/ Use("fail", MaxFailures) \/ Use("nested", MaxNested)
         \/ Use("report", MaxReports) \/ Use("forced", MaxForced)
  PROVE  budget' \in [fail : 0..MaxFailures, nested : 0..MaxNested,
                      report : 0..MaxReports, forced : 0..MaxForced]
BY ConstantsAssumption DEF TypeOK, Use, ConstantsAssumption

\* Giving back a slot keeps the number of occupied slots within its range.
LEMMA ReleaseType ==
  ASSUME TypeOK, ReleaseSlot
  PROVE  slots' \in 0..MaxProbes
BY ConstantsAssumption DEF TypeOK, ReleaseSlot, ConstantsAssumption

\* Counting a failure keeps the state, the counter and the clock well-typed.
LEMMA CountFailureType ==
  ASSUME TypeOK, CountFailure
  PROVE  /\ state' \in {"closed", "open", "half_open"}
         /\ failures' \in Nat
         /\ cooling' \in BOOLEAN
<1>1. failures' \in Nat
  BY DEF TypeOK, CountFailure
<1>2. CASE failures + 1 >= Threshold
  BY <1>1, <1>2 DEF CountFailure, Trip
<1>3. CASE ~(failures + 1 >= Threshold)
  BY <1>1, <1>3 DEF TypeOK, CountFailure
<1> QED
  BY <1>2, <1>3

\* Every step of the breaker preserves the types of its variables.
LEMMA TypeStep == TypeOK /\ [Next]_vars => TypeOK'
<1> SUFFICES ASSUME TypeOK, [Next]_vars
             PROVE  TypeOK'
  OBVIOUS
<1> USE ConstantsAssumption DEF ConstantsAssumption
<1>1. ASSUME NEW c \in Callers, Acquire(c)
      PROVE  TypeOK'
  BY <1>1 DEF Acquire, AcquireClosed, AcquireRecovering, AcquireHalfOpen,
              ProbeWithin, Enter, TypeOK
<1>2. ASSUME NEW c \in Callers, ProbeSuccess(c)
      PROVE  TypeOK'
  BY <1>2, ReleaseType DEF ProbeSuccess, ProbeSucceeds, Leave, TypeOK
<1>3. ASSUME NEW c \in Callers, PlainSuccess(c)
      PROVE  TypeOK'
  BY <1>3 DEF PlainSuccess, Leave, TypeOK
<1>4. ASSUME NEW c \in Callers, ProbeFailure(c)
      PROVE  TypeOK'
  BY <1>4, ReleaseType, UseType DEF ProbeFailure, Leave, Trip, TypeOK
<1>5. ASSUME NEW c \in Callers, PlainFailure(c)
      PROVE  TypeOK'
  <2>1. CountFailure /\ Use("fail", MaxFailures) /\ UNCHANGED slots
    BY <1>5 DEF PlainFailure
  <2>2. call' \in [Callers -> {"none", "plain", "probe"}]
    BY <1>5 DEF PlainFailure, Leave, TypeOK
  <2> QED
    BY <2>1, <2>2, UseType, CountFailureType DEF TypeOK
<1>6. ASSUME NEW c \in Callers, NestedRejection(c)
      PROVE  TypeOK'
  BY <1>6, ReleaseType, UseType
     DEF NestedRejection, RejectedInside, Leave, TypeOK
<1>7. CASE ReportSuccess \/ ReportFailure
  <2>1. Use("report", MaxReports) /\ UNCHANGED <<slots, call>>
    BY <1>7 DEF ReportSuccess, ReportFailure
  <2>2. CASE ReportSuccess
    BY <2>1, <2>2, UseType DEF ReportSuccess, TypeOK
  <2>3. CASE ReportFailure
    BY <2>1, <2>3, UseType, CountFailureType DEF ReportFailure, TypeOK
  <2> QED
    BY <1>7, <2>2, <2>3
<1>8. CASE Reset \/ ForceOpen \/ ForceHalfOpen
  <2>1. Use("forced", MaxForced) /\ slots' = 0 /\ UNCHANGED call
    BY <1>8 DEF Reset, ForceOpen, ForceHalfOpen
  <2>2. 0 \in 0..MaxProbes
    OBVIOUS
  <2>3. /\ state' \in {"closed", "open", "half_open"}
        /\ failures' \in Nat /\ cooling' \in BOOLEAN
    <3>1. CASE Reset
      BY <3>1 DEF Reset, TypeOK
    <3>2. CASE ForceOpen
      BY <3>2 DEF ForceOpen, Trip, TypeOK
    <3>3. CASE ForceHalfOpen
      BY <3>3 DEF ForceHalfOpen, TypeOK
    <3> QED
      BY <1>8, <3>1, <3>2, <3>3
  <2>4. budget' \in [fail : 0..MaxFailures, nested : 0..MaxNested,
                     report : 0..MaxReports, forced : 0..MaxForced]
    BY <2>1, UseType
  <2>5. slots' \in 0..MaxProbes /\ call' \in [Callers -> {"none", "plain", "probe"}]
    BY <2>1, <2>2 DEF TypeOK
  <2> QED
    BY <2>3, <2>4, <2>5 DEF TypeOK
<1>9. CASE TimeoutElapses \/ UNCHANGED vars
  BY <1>9 DEF TimeoutElapses, vars, TypeOK
<1> QED
  BY <1>1, <1>2, <1>3, <1>4, <1>5, <1>6, <1>7, <1>8, <1>9
     DEF Next, Success, Failure

\* The variables of the breaker always have their types; in particular
\* _half_open_calls never exceeds half_open_max_calls.
THEOREM BreakerTyped == Spec => []TypeOK
<1>1. Init => TypeOK
  <2> SUFFICES ASSUME Init PROVE TypeOK
    OBVIOUS
  <2>1. slots \in 0..MaxProbes
    BY ConstantsAssumption DEF Init, ConstantsAssumption
  <2>2. budget \in [fail : 0..MaxFailures, nested : 0..MaxNested,
                    report : 0..MaxReports, forced : 0..MaxForced]
    BY ConstantsAssumption DEF Init, ConstantsAssumption
  <2> QED
    BY <2>1, <2>2 DEF Init, TypeOK
<1> QED
  BY <1>1, TypeStep, PTL DEF Spec

-----------------------------------------------------------------------------
\* The running probes, when a thread starts or ends a call

\* The probes in flight are a finite set, so counting them is arithmetic.
LEMMA ProbingFinite ==
  /\ IsFiniteSet(Probing)
  /\ Cardinality(Probing) \in Nat
<1>1. Probing \subseteq Callers
  BY DEF Probing
<1> QED
  BY <1>1, ConstantsAssumption, FS_Subset, FS_CardinalityType
     DEF ConstantsAssumption

\* A new probe adds one to the running ones.
LEMMA ProbeStarts ==
  ASSUME TypeOK, NEW c \in Callers, Enter(c, "probe")
  PROVE  Cardinality(Probing') = Cardinality(Probing) + 1
<1>1. Probing' = Probing \cup {c}
  BY DEF Probing, Enter, TypeOK
<1>2. c \notin Probing
  BY DEF Probing, Enter
<1> QED
  BY <1>1, <1>2, ProbingFinite, FS_AddElement

\* A probe that ends takes one away.
LEMMA ProbeEnds ==
  ASSUME TypeOK, NEW c \in Callers, Leave(c, "probe")
  PROVE  Cardinality(Probing') = Cardinality(Probing) - 1
<1>1. Probing' = Probing \ {c}
  BY DEF Probing, Leave, TypeOK
<1>2. c \in Probing
  BY DEF Probing, Leave
<1> QED
  BY <1>1, <1>2, ProbingFinite, FS_RemoveElement

\* Plain calls do not count.
LEMMA PlainCalls ==
  ASSUME TypeOK, NEW c \in Callers, Enter(c, "plain") \/ Leave(c, "plain")
  PROVE  Probing' = Probing
BY DEF Probing, Enter, Leave, TypeOK

\* A probe that ends gives its slot back: the invariant survives because the
\* counter and the number of running probes go down together.
LEMMA SlotGivenBack ==
  ASSUME TypeOK, NoSlotLeak, NEW c \in Callers, Leave(c, "probe"), ReleaseSlot
  PROVE  NoSlotLeak'
<1>1. Probing # {}
  BY DEF Probing, Leave
<1>2. Cardinality(Probing) > 0
  BY <1>1, ProbingFinite, FS_EmptySet
<1> QED
  BY <1>2, ProbeEnds, ProbingFinite DEF NoSlotLeak, ReleaseSlot, TypeOK

\* No step of the breaker leaks a probe slot.
LEMMA SlotStep == TypeOK /\ NoSlotLeak /\ [Next]_vars => NoSlotLeak'
<1> SUFFICES ASSUME TypeOK, NoSlotLeak, [Next]_vars
             PROVE  NoSlotLeak'
  OBVIOUS
<1>1. ASSUME NEW c \in Callers, AcquireClosed(c)
      PROVE  NoSlotLeak'
  BY <1>1, PlainCalls DEF AcquireClosed, NoSlotLeak
<1>2. ASSUME NEW c \in Callers, AcquireRecovering(c)
      PROVE  NoSlotLeak'
  BY <1>2, ProbeStarts, ProbingFinite DEF AcquireRecovering, NoSlotLeak
<1>3. ASSUME NEW c \in Callers, AcquireHalfOpen(c)
      PROVE  NoSlotLeak'
  BY <1>3, ProbeStarts, ProbingFinite
     DEF AcquireHalfOpen, ProbeWithin, NoSlotLeak, TypeOK
<1>4. ASSUME NEW c \in Callers, ProbeSuccess(c) \/ ProbeFailure(c)
      PROVE  NoSlotLeak'
  BY <1>4, SlotGivenBack DEF ProbeSuccess, ProbeSucceeds, ProbeFailure
<1>5. ASSUME NEW c \in Callers, PlainSuccess(c) \/ PlainFailure(c)
      PROVE  NoSlotLeak'
  BY <1>5, PlainCalls DEF PlainSuccess, PlainFailure, NoSlotLeak
<1>6. ASSUME NEW c \in Callers, NestedRejection(c)
      PROVE  NoSlotLeak'
  BY <1>6, SlotGivenBack, PlainCalls
     DEF NestedRejection, RejectedInside, NoSlotLeak
<1>7. CASE ReportSuccess \/ ReportFailure \/ TimeoutElapses \/ UNCHANGED vars
  BY <1>7 DEF ReportSuccess, ReportFailure, TimeoutElapses, vars, Probing,
              NoSlotLeak
<1>8. CASE Reset \/ ForceOpen \/ ForceHalfOpen
  <2>1. slots' = 0 /\ Probing' = Probing
    BY <1>8 DEF Reset, ForceOpen, ForceHalfOpen, Probing
  <2> QED
    BY <2>1, ProbingFinite DEF NoSlotLeak
<1> QED
  BY <1>1, <1>2, <1>3, <1>4, <1>5, <1>6, <1>7, <1>8
     DEF Next, Acquire, Success, Failure

\* A probe slot is never leaked, however calls, outages, nested rejections and
\* interventions of an operator interleave.
THEOREM SlotsNeverLeak == Spec => []NoSlotLeak
<1>1. Init => NoSlotLeak
  BY ProbingFinite DEF Init, NoSlotLeak
<1> QED
  BY <1>1, SlotStep, BreakerTyped, PTL DEF Spec

-----------------------------------------------------------------------------
\* No step leaves the circuit closed with the threshold reached.
LEMMA ThresholdStep ==
  TypeOK /\ ClosedBelowThreshold /\ [Next]_vars => ClosedBelowThreshold'
<1> SUFFICES ASSUME TypeOK, ClosedBelowThreshold, [Next]_vars
             PROVE  ClosedBelowThreshold'
  OBVIOUS
<1> USE ConstantsAssumption DEF ConstantsAssumption, ClosedBelowThreshold
<1>1. ASSUME NEW c \in Callers, Acquire(c) \/ NestedRejection(c)
      PROVE  ClosedBelowThreshold'
  BY <1>1 DEF Acquire, AcquireClosed, AcquireRecovering, AcquireHalfOpen,
              ProbeWithin, NestedRejection, RejectedInside
<1>2. ASSUME NEW c \in Callers, Success(c)
      PROVE  ClosedBelowThreshold'
  BY <1>2 DEF Success, ProbeSuccess, PlainSuccess
<1>3. ASSUME CountFailure
      PROVE  ClosedBelowThreshold'
  BY <1>3 DEF CountFailure, Trip, TypeOK
<1>4. ASSUME NEW c \in Callers, Failure(c)
      PROVE  ClosedBelowThreshold'
  BY <1>3, <1>4 DEF Failure, ProbeFailure, PlainFailure, Trip
<1>5. CASE ReportSuccess \/ ReportFailure \/ TimeoutElapses \/ UNCHANGED vars
  BY <1>3, <1>5 DEF ReportSuccess, ReportFailure, TimeoutElapses, vars
<1>6. CASE Reset \/ ForceOpen \/ ForceHalfOpen
  BY <1>6 DEF Reset, ForceOpen, ForceHalfOpen, Trip
<1> QED
  BY <1>1, <1>2, <1>4, <1>5, <1>6 DEF Next

\* A closed circuit never carries failures over from an earlier outage: fewer
\* than failure_threshold are counted whenever it lets every call through.
THEOREM ClosedIsHealthy == Spec => []ClosedBelowThreshold
<1>1. Init => ClosedBelowThreshold
  BY ConstantsAssumption DEF Init, ClosedBelowThreshold, ConstantsAssumption
<1> QED
  BY <1>1, ThresholdStep, BreakerTyped, PTL DEF Spec

\* Both together: slots and failures always fit the state of the circuit.
THEOREM BreakerIsSound == Spec => []BreakerSound
<1>1. NoSlotLeak /\ ClosedBelowThreshold => BreakerSound
  BY DEF BreakerSound
<1> QED
  BY <1>1, SlotsNeverLeak, ClosedIsHealthy, PTL

-----------------------------------------------------------------------------
\* The counts of a batch

\* Whatever part of the members is counted, the count is between none and all,
\* and it is all only when every member is in that part.
LEMMA MembersCounted ==
  ASSUME NEW S \in SUBSET Members
  PROVE  /\ IsFiniteSet(S) /\ Cardinality(S) \in 0..Size
         /\ Cardinality(S) = Size => S = Members
<1>1. IsFiniteSet(Members) /\ Cardinality(Members) = Size
  BY BatchAssumption, FS_Interval DEF BatchAssumption, Members
<1>2. IsFiniteSet(S) /\ Cardinality(S) \in Nat
  BY <1>1, FS_Subset, FS_CardinalityType
<1> QED
  BY <1>1, <1>2, FS_Subset, BatchAssumption DEF BatchAssumption

\* What a refresh writes is a record again.
LEMMA RefreshedType ==
  ASSUME NEW b \in BatchRecord, member \in [Members -> MemberStatus]
  PROVE  Refreshed(b) \in BatchRecord
<1> DEFINE failed == {m \in Present(b) : member[m] \in {"failed"}}
<1>1. b.ids \in SUBSET Members /\ Present(b) \in SUBSET Members
  BY DEF BatchRecord, Present
<1>2. \A S : Counted(b, S) \in 0..Size
  <2> SUFFICES ASSUME NEW S PROVE Counted(b, S) \in 0..Size
    OBVIOUS
  <2>1. {m \in Present(b) : member[m] \in S} \in SUBSET Members
    BY <1>1
  <2> QED
    BY <2>1, MembersCounted DEF Counted
<1>3. Missing(b) \in 0..Size /\ Counted(b, {"failed"}) + Missing(b) \in 0..Size
  <2>1. Cardinality(Present(b)) \in 0..Size /\ IsFiniteSet(Present(b))
    BY <1>1, MembersCounted
  <2>2. Cardinality(failed) <= Cardinality(Present(b))
    BY <2>1, FS_Subset
  <2>3. Counted(b, {"failed"}) = Cardinality(failed) /\ Cardinality(failed) \in 0..Size
    <3>1. Counted(b, {"failed"}) = Cardinality(failed)
      BY DEF Counted
    <3> QED
      BY <1>2, <3>1
  <2>4. Size \in Nat /\ Missing(b) = Size - Cardinality(Present(b))
    BY BatchAssumption DEF BatchAssumption, Missing
  <2> HIDE DEF failed
  <2> QED
    BY <2>1, <2>2, <2>3, <2>4
<1>4. Status(b) \in {"pending", "running", "completed", "partial_failed", "failed"}
  <2>1. b.status \in {"pending", "running", "completed", "partial_failed", "failed"}
    BY DEF BatchRecord
  <2>2. Outcome(b) \in {"completed", "partial_failed", "failed"}
    BY DEF Outcome
  <2>3. Missing(b) = Size \/ Missing(b) \in 1..(Size - 1) \/ Missing(b) = 0
    BY <1>3, BatchAssumption DEF BatchAssumption
  <2> QED
    BY <2>1, <2>2, <2>3, BatchAssumption DEF Status, BatchAssumption
<1>5. (b.done \/ Finished(b)) \in BOOLEAN
  OBVIOUS
<1> DEFINE d == b.done \/ Finished(b)
           s == Status(b)
<1>6. Refreshed(b) = [b EXCEPT !.status = s, !.done = d]
  BY DEF Refreshed
<1> HIDE DEF d, s
<1> QED
  BY <1>4, <1>5, <1>6 DEF BatchRecord, d, s

-----------------------------------------------------------------------------
\* A batch told as completed was

BatchSpec == BatchInit /\ [][BatchNext]_bvars

\* a record, stored or in somebody's hands, that speaks of success tells the truth
Honest(b) ==
  b.status = "completed" =>
    /\ b.ids = Members
    /\ \A m \in Members : verdict[m] = "completed"

\* what the row of a member says of success is what its run ended in, and a success
\* is lost from the row only to a cleanup or to a late cancellation
RowsFollow ==
  \A m \in Members :
    /\ verdict[m] # "none" => member[m] # "none"
    /\ member[m] = "completed" => verdict[m] = "completed"
    /\ verdict[m] = "completed" => member[m] \in {"completed", "gone", "cancelled"}

\* the members that submit_batch() has not submitted yet
Unsubmitted ==
  maker.pc \in {"idle", "members"} =>
    /\ maker.copy = NewBatch
    /\ \A m \in Members : m >= maker.next => member[m] = "none"

HonestCopies ==
  Honest(batch) /\ Honest(maker.copy) /\ \A r \in Readers : Honest(reader[r].copy)

\* a reader decides about a member it has seen
Looked ==
  \A r \in Readers :
    /\ reader[r].pc = "decide" => /\ reader[r].at \in Members
                                  /\ member[reader[r].at] # "none"

BatchInv == BatchTypeOK /\ Unsubmitted /\ HonestCopies /\ RowsFollow /\ Looked

\* A refresh turns honest records into honest records: only a count of all members
\* makes it say "completed", or the status it found.
LEMMA RefreshedHonest ==
  ASSUME NEW b \in BatchRecord, Honest(b), BatchTypeOK, RowsFollow
  PROVE  Honest(Refreshed(b))
<1> DEFINE done == {m \in Present(b) : member[m] \in {"completed"}}
<1>1. Refreshed(b).status = Status(b) /\ Refreshed(b).ids = b.ids
  BY DEF Refreshed, BatchRecord
<1>2. CASE Counted(b, {"completed"}) = Size
  <2>1. b.ids \in SUBSET Members /\ done \in SUBSET b.ids
    BY DEF BatchRecord, Present
  <2>2. done = Members
    BY <1>2, <2>1, MembersCounted DEF Counted
  <2>3. b.ids = Members /\ \A m \in Members : member[m] = "completed"
    BY <2>1, <2>2
  <2> QED
    BY <1>1, <2>3 DEF Honest, RowsFollow
<1>3. CASE Counted(b, {"completed"}) # Size
  <2>1. Outcome(b) \in {"partial_failed", "failed"}
    BY <1>3 DEF Outcome
  <2>2. Missing(b) \in 0..Size
    <3>1. Present(b) \in SUBSET Members
      BY DEF BatchRecord, Present
    <3>2. Cardinality(Present(b)) \in 0..Size
      BY <3>1, MembersCounted
    <3> QED
      BY <3>2, BatchAssumption DEF BatchAssumption, Missing
  <2>3. Missing(b) = Size \/ Missing(b) \in 1..(Size - 1) \/ Missing(b) = 0
    BY <2>2, BatchAssumption DEF BatchAssumption
  <2>4. Status(b) = "completed" => b.status = "completed"
    BY <2>1, <2>3, BatchAssumption DEF Status, BatchAssumption
  <2> QED
    BY <1>1, <2>4 DEF Honest
<1> QED
  BY <1>2, <1>3

\* The first record is one, and it does not speak of success.
LEMMA NewBatchType ==
  /\ NewBatch \in BatchRecord /\ NoBatch \in BatchRecord
  /\ Honest(NewBatch) /\ Honest(NoBatch)
  BY DEF NewBatch, NoBatch, BatchRecord, Honest

\* A reader that is not at work holds nothing.
LEMMA IdleType ==
  /\ IdleReader \in [pc : {"idle", "cancel", "decide", "load", "save"},
               at : 1..(Size + 1), copy : BatchRecord]
  /\ IdleReader.pc = "idle" /\ IdleReader.copy = NewBatch /\ Honest(IdleReader.copy)
  BY NewBatchType, BatchAssumption DEF IdleReader, BatchAssumption

\* Every step keeps the types, what is not submitted yet and the honesty of
\* every copy of the record.
LEMMA BatchStep == BatchInv /\ [BatchNext]_bvars => BatchInv'
<1> SUFFICES ASSUME BatchInv, [BatchNext]_bvars PROVE BatchInv'
  OBVIOUS
<1> USE DEF BatchInv, BatchTypeOK, Unsubmitted, HonestCopies, RowsFollow, Looked,
        MemberStatus, Active, Ended, Members, tvars
<1>1. CASE SubmitBatch
  BY <1>1, NewBatchType DEF SubmitBatch, Honest
<1>2. ASSUME NEW s \in {"pending", "rejected"}, SubmitMember(s) PROVE BatchInv'
  <2>1. maker.next \in Members /\ maker'.next = maker.next + 1 /\ maker'.pc = maker.pc
    BY <1>2, BatchAssumption DEF SubmitMember, BatchAssumption
  <2>2. member' \in [Members -> MemberStatus] /\ held' \in SUBSET Members
    BY <1>2, <2>1 DEF SubmitMember
  <2>3. maker' = [maker EXCEPT !.next = maker.next + 1] /\ maker.next + 1 \in 1..(Size + 1)
    BY <1>2, BatchAssumption DEF SubmitMember, BatchAssumption
  <2>4. BatchTypeOK'
    BY <1>2, <2>2, <2>3 DEF SubmitMember
  <2>5. Unsubmitted'
    BY <1>2, <2>1, <2>3, BatchAssumption DEF SubmitMember, BatchAssumption
  <2>6. HonestCopies' /\ RowsFollow' /\ Looked'
    BY <1>2, <2>1, <2>3 DEF SubmitMember, Honest
  <2> QED
    BY <2>4, <2>5, <2>6
<1>3. CASE AssignIds
  <2> DEFINE ids == {m \in Members : member[m] # "rejected"}
             st == IF ids = Members THEN maker.copy.status
                   ELSE IF ids = {} THEN "failed" ELSE "partial_failed"
             b == [maker.copy EXCEPT !.ids = ids, !.status = st]
  <2>1. batch' = b /\ maker' = [maker EXCEPT !.pc = "load", !.copy = b]
    BY <1>3 DEF AssignIds
  <2>2. maker.copy = NewBatch /\ NewBatch \in BatchRecord
    BY <1>3, NewBatchType DEF AssignIds
  <2>3. b \in BatchRecord /\ b.status # "completed"
    BY <2>2 DEF BatchRecord, NewBatch
  <2> HIDE DEF b
  <2> QED
    BY <1>3, <2>1, <2>3 DEF AssignIds, Honest
<1>4. CASE MakerRefresh
  <2>1. Refreshed(maker.copy) \in BatchRecord /\ Honest(Refreshed(maker.copy))
    BY RefreshedType, RefreshedHonest
  <2> QED
    BY <1>4, <2>1 DEF MakerRefresh, Honest
<1>5. CASE MakerSave
  BY <1>5, NewBatchType DEF MakerSave, Honest
<1>6. ASSUME NEW r \in Readers, LoadBatch(r) PROVE BatchInv'
  BY <1>6, BatchAssumption DEF LoadBatch, Honest, BatchAssumption
<1>7. ASSUME NEW r \in Readers, CancelLook(r) PROVE BatchInv'
  <2>1. reader[r].at \in 1..(Size + 1)
    OBVIOUS
  <2>2. CASE reader' = [reader EXCEPT ![r].pc = "load"]
    BY <1>7, <2>2 DEF CancelLook, Honest
  <2>3. CASE /\ reader[r].at <= Size /\ member[reader[r].at] \in Active
             /\ reader' = [reader EXCEPT ![r].pc = "decide"]
    <3>1. reader[r].at \in Members /\ member[reader[r].at] # "none"
      BY <2>1, <2>3, BatchAssumption DEF BatchAssumption
    <3>2. BatchTypeOK' /\ HonestCopies' /\ Unsubmitted' /\ RowsFollow'
      BY <1>7, <2>3 DEF CancelLook, Honest
    <3>3. Looked'
      BY <1>7, <2>3, <3>1 DEF CancelLook
    <3> QED
      BY <3>2, <3>3
  <2>4. CASE reader[r].at <= Size /\ reader' = [reader EXCEPT ![r].at = @ + 1]
    <3>1. reader[r].at + 1 \in 1..(Size + 1)
      BY <2>1, <2>4, BatchAssumption DEF BatchAssumption
    <3> QED
      BY <1>7, <2>4, <3>1 DEF CancelLook, Honest
  <2> QED
    BY <1>7, <2>2, <2>3, <2>4 DEF CancelLook
<1>8. ASSUME NEW r \in Readers, CancelDecide(r) PROVE BatchInv'
  BY <1>8, BatchAssumption DEF CancelDecide, Honest, BatchAssumption
<1>9. ASSUME NEW r \in Readers, RefreshBatch(r) PROVE BatchInv'
  <2> DEFINE c == Refreshed(reader[r].copy)
  <2>1. c \in BatchRecord /\ Honest(c)
    BY RefreshedType, RefreshedHonest
  <2>2. reader' = [reader EXCEPT ![r] = [pc |-> "save", at |-> 1, copy |-> c]]
    BY <1>9 DEF RefreshBatch
  <2>3. 1 \in 1..(Size + 1)
    BY BatchAssumption DEF BatchAssumption
  <2> HIDE DEF c
  <2> QED
    BY <1>9, <2>1, <2>2, <2>3 DEF RefreshBatch, Honest
<1>10. ASSUME NEW r \in Readers, SaveBatch(r) PROVE BatchInv'
  <2>1. reader' = [reader EXCEPT ![r] = IdleReader] /\ batch' = reader[r].copy
    BY <1>10 DEF SaveBatch
  <2>2. /\ reader'[r] = IdleReader
        /\ \A k \in Readers : k # r => reader'[k] = reader[k]
    BY <2>1
  <2>3. BatchTypeOK'
    BY <1>10, <2>1, IdleType DEF SaveBatch
  <2>4. HonestCopies'
    BY <1>10, <2>1, <2>2, IdleType DEF SaveBatch, Honest
  <2>5. Unsubmitted' /\ RowsFollow' /\ Looked'
    BY <1>10, <2>2, IdleType DEF SaveBatch
  <2> QED
    BY <2>3, <2>4, <2>5
<1>11. ASSUME NEW m \in Members, MemberStarts(m) PROVE BatchInv'
  BY <1>11 DEF MemberStarts, Honest
<1>12. ASSUME NEW m \in Members, MemberBacksOff(m) PROVE BatchInv'
  BY <1>12 DEF MemberBacksOff, Honest
<1>13. ASSUME NEW m \in Members, MemberRetries(m) PROVE BatchInv'
  BY <1>13 DEF MemberRetries, Honest
<1>14. ASSUME NEW m \in Members, MemberFinal(m) PROVE BatchInv'
  <2>1. verdict[m] \in Ended /\ member' = [member EXCEPT ![m] = verdict[m]]
    BY <1>14 DEF MemberFinal
  <2>2. BatchTypeOK' /\ RowsFollow'
    BY <1>14, <2>1 DEF MemberFinal
  <2>3. Unsubmitted' /\ Looked' /\ HonestCopies'
    BY <1>14, <2>1 DEF MemberFinal, Honest
  <2> QED
    BY <2>2, <2>3
<1>15. ASSUME NEW m \in Members, NEW s \in Ended, MemberEnds(m, s) PROVE BatchInv'
  BY <1>15 DEF MemberEnds, Honest
<1>16. CASE CleanupTasks
  BY <1>16 DEF CleanupTasks, Honest
<1>17. CASE BatchCrash
  <2>1. \E failed \in SUBSET ({m \in Members : member[m] = "running"} \ held') :
          member' = [m \in Members |-> IF m \in failed THEN "failed" ELSE member[m]]
    BY <1>17, Zenon DEF BatchCrash
  <2>2. /\ member' \in [Members -> MemberStatus] /\ held' \in SUBSET Members
        /\ \A m \in Members :
             member'[m] # member[m] => member[m] = "running" /\ member'[m] = "failed"
    BY <1>17, <2>1 DEF BatchCrash
  <2>3. /\ reader' = [r \in Readers |-> IdleReader]
        /\ \A r \in Readers : reader'[r] = IdleReader
    BY <1>17 DEF BatchCrash
  <2>4. maker'.copy = NewBatch /\ maker'.pc = (IF maker.pc = "returned" THEN "returned"
                                                                       ELSE "lost")
    BY <1>17 DEF BatchCrash
  <2>5. bcrashes' \in 0..BatchCrashes
    BY <1>17, BatchAssumption DEF BatchCrash, BatchAssumption
  <2>6. BatchTypeOK'
    <3>1. reader' \in [Readers -> [pc : {"idle", "cancel", "decide", "load", "save"},
                                   at : 1..(Size + 1), copy : BatchRecord]]
      BY <2>3, IdleType
    <3>2. maker' \in [pc : {"idle", "members", "assign", "load", "save", "returned",
                            "lost"},
                      next : 1..(Size + 1), copy : BatchRecord]
      BY <1>17, NewBatchType DEF BatchCrash
    <3> QED
      BY <1>17, <2>2, <2>5, <3>1, <3>2 DEF BatchCrash
  <2>7. HonestCopies'
    BY <1>17, <2>3, <2>4, IdleType, NewBatchType DEF BatchCrash, Honest
  <2>8. Unsubmitted' /\ RowsFollow' /\ Looked'
    BY <1>17, <2>2, <2>3, <2>4, IdleType DEF BatchCrash
  <2> QED
    BY <2>6, <2>7, <2>8
<1>18. CASE UNCHANGED bvars
  BY <1>18 DEF bvars, Honest
<1> QED
  BY <1>1, <1>2, <1>3, <1>4, <1>5, <1>6, <1>7, <1>8, <1>9, <1>10, <1>11, <1>12, <1>13,
     <1>14, <1>15, <1>16, <1>17, <1>18 DEF BatchNext, BatchRuns, Reading

\* A batch is reported completed only when the run of each of its members ended in
\* success, whatever stale copies are saved over newer ones, whoever cancels, retries
\* or cleans up meanwhile, and whatever a crash cuts short.
THEOREM BatchesAreHonest == BatchSpec => []BatchSound
<1>1. BatchInit => BatchInv
  <2>1. BatchInit => BatchTypeOK
    BY NewBatchType, IdleType, BatchAssumption DEF BatchInit, BatchTypeOK, MemberStatus,
       Members, BatchAssumption
  <2>2. BatchInit => Unsubmitted /\ HonestCopies /\ RowsFollow /\ Looked
    BY NewBatchType, IdleType DEF BatchInit, Unsubmitted, HonestCopies, RowsFollow, Looked
  <2> QED
    BY <2>1, <2>2 DEF BatchInv
<1>2. BatchInv => BatchSound
  BY DEF BatchInv, HonestCopies, RowsFollow, Honest, BatchSound, CompletedIsHonest
<1> QED
  BY <1>1, <1>2, BatchStep, PTL DEF BatchSpec

-----------------------------------------------------------------------------
\* One task for each instant of a schedule

\* the tasks that were submitted and whose submission is not torn from its save
Served == fired \ torn

\* Every instant a record of schedule s has been served for lies before the next
\* one, except the one that is about to be saved.
Behind(s, rec) ==
  \A t \in AllTime : <<s, t>> \in Served =>
    \/ t < rec.next
    \/ loop.pc = "save" /\ s = Current /\ t = rec.next

SchedulerInv ==
  /\ SchedulerTypeOK /\ twice = {}
  /\ loop = [pc |-> loop.pc, at |-> loop.at, todo |-> loop.todo]
  /\ \A s \in Schedules, t \in AllTime : <<s, t>> \in fired => s <= made
  /\ \A s \in DOMAIN loop.todo :
       /\ loop.todo[s].next <= loop.at
       /\ Behind(s, loop.todo[s])
       /\ s \in Stored => schedules[s] = loop.todo[s]
  /\ \A s \in Stored : schedules[s].enabled => Behind(s, schedules[s])

\* Instants are numbers, and the earliest of some is one of them.
LEMMA Instants ==
  /\ AllTime \in SUBSET Nat
  /\ \A S \in SUBSET AllTime : S # {} => Earliest(S) \in S
<1>1. AllTime \in SUBSET Nat
  <2>1. Cardinality(DOMAIN Calendar) \in Nat /\ DayLength \in Nat
    BY SchedulerAssumption, FS_CardinalityType DEF SchedulerAssumption
  <2>2. DayLength * Cardinality(DOMAIN Calendar) \in Int
    BY <2>1
  <2> QED
    BY <2>2 DEF AllTime
<1>2. ASSUME NEW S \in SUBSET AllTime, S # {} PROVE Earliest(S) \in S
  <2>1. \E t \in S : \A u \in S : t <= u
    BY <1>1, <1>2, LeastNatural
  <2> QED
    BY <2>1 DEF Earliest
<1> QED
  BY <1>1, <1>2

\* The schedules are numbered from one, and so are the ones registered so far.
LEMMA Numbers ==
  ASSUME SchedulerTypeOK
  PROVE  /\ made \in Nat /\ 1..made \in SUBSET Schedules
         /\ Schedules = 1..Cardinality(Schedules) /\ Cardinality(Schedules) \in Nat
  BY SchedulerAssumption, FS_CardinalityType DEF SchedulerAssumption, SchedulerTypeOK,
     Schedules

\* The copy that is triggered is one of those in hand.
LEMMA CurrentInHand ==
  ASSUME SchedulerTypeOK, DOMAIN loop.todo # {}
  PROVE  Current \in DOMAIN loop.todo
<1>1. \E s \in DOMAIN loop.todo : \A u \in DOMAIN loop.todo : u <= s
  BY Numbers, GreatestNumber DEF SchedulerTypeOK
<1> QED
  BY <1>1 DEF Current

\* A schedule that was triggered goes on to a later instant or is disabled.
LEMMA AdvancedLater ==
  ASSUME NEW s, NEW rec \in Record, NEW t \in Nat
  PROVE  /\ Advanced(s, rec, t) \in Record
         /\ Advanced(s, rec, t).enabled => Advanced(s, rec, t).next > t
<1> DEFINE later == NextInstants(CronOf[s], t)
<1>1. later \in SUBSET AllTime /\ \A u \in later : u > t
  BY DEF NextInstants
<1>2. CASE later = {}
  BY <1>2 DEF Advanced, Record
<1>3. CASE later # {}
  <2>1. Earliest(later) \in later
    BY <1>1, <1>3, Instants
  <2>2. Advanced(s, rec, t) = [rec EXCEPT !.next = Earliest(later)]
    BY <1>3 DEF Advanced
  <2> HIDE DEF later
  <2> QED
    BY <1>1, <2>1, <2>2 DEF Record
<1> QED
  BY <1>2, <1>3

\* Every step of the scheduler and of its clients keeps what was served behind
\* what comes next.
LEMMA SchedulerStep == SchedulerInv /\ [SchedulerNext]_svars => SchedulerInv'
<1> SUFFICES ASSUME SchedulerInv, [SchedulerNext]_svars PROVE SchedulerInv'
  OBVIOUS
<1> USE DEF SchedulerInv, SchedulerTypeOK, Stored, Behind, Served
<1> USE SchedulerAssumption DEF SchedulerAssumption
<1>1. ASSUME NEW on \in BOOLEAN, RegisterSchedule(on) PROVE SchedulerInv'
  <2> DEFINE s == made + 1
             next == IF ValidCron(CronOf[s]) THEN NextInstants(CronOf[s], clock) ELSE {}
  <2>1. s \in Schedules /\ s \in 0..Cardinality(Schedules) /\ s > made /\ made \in Nat
    BY <1>1, Numbers, SMTT(20) DEF RegisterSchedule
  <2>2. \A t \in AllTime : <<s, t>> \notin fired
    BY <2>1
  <2>3. s \notin DOMAIN loop.todo /\ s \notin Stored
    BY <2>1
  <2>6. Current' = Current
    BY <1>1 DEF RegisterSchedule, Current
  <2>4. CASE next = {}
    <3>1. /\ made' = s
          /\ UNCHANGED <<clock, schedules, loop, fired, twice, torn, scrashes>>
      BY <1>1, <2>4 DEF RegisterSchedule
    <3>2. \A x \in 1..made : x \in 1..made' /\ x <= made'
      BY <2>1, <3>1
    <3> HIDE DEF next, s
    <3>3. SchedulerTypeOK'
      BY <2>1, <3>1, <3>2
    <3>4. \A x \in Schedules, t \in AllTime : <<x, t>> \in fired => x <= made'
      BY <2>1, <3>1, Numbers DEF s
    <3> QED
      BY <2>1, <2>6, <3>1, <3>3, <3>4
  <2>5. CASE next # {}
    <3> DEFINE rec == [enabled |-> on, next |-> Earliest(next)]
    <3>1. next \in SUBSET AllTime
      BY DEF NextInstants
    <3>2. rec \in Record
      BY <2>5, <3>1, Instants DEF Record
    <3>3. /\ made' = s /\ schedules' = With(schedules, s, rec)
          /\ UNCHANGED <<clock, loop, fired, twice, torn, scrashes>>
      BY <1>1, <2>5 DEF RegisterSchedule
    <3>4. \A x \in 1..made : x \in 1..made' /\ x <= made'
      BY <2>1, <3>3
    <3>5. \A x \in Schedules, t \in AllTime : <<x, t>> \in fired => x <= made'
      BY <2>1, <3>3, Numbers
    <3>6. s \in 1..made'
      BY <2>1, <3>3
    <3> HIDE DEF rec, next, s
    <3>7. SchedulerTypeOK'
      BY <2>1, <3>2, <3>3, <3>4, <3>6 DEF With
    <3> QED
      BY <2>1, <2>2, <2>3, <2>6, <3>2, <3>3, <3>5, <3>7 DEF With
  <2> QED
    BY <2>4, <2>5
<1>2. ASSUME NEW s \in Schedules, CancelSchedule(s) PROVE SchedulerInv'
  BY <1>2, SMTT(20) DEF CancelSchedule, Without, Current
<1>3. CASE StartLoop
  BY <1>3 DEF StartLoop, Idle, None
<1>4. CASE StopLoop
  BY <1>4 DEF StopLoop, Idle, None
<1>5. CASE CheckDue
  BY <1>5 DEF CheckDue, Listed, Due
<1>6. ASSUME NEW ok \in BOOLEAN, SubmitJob(ok) PROVE SchedulerInv'
  <2> DEFINE s == Current
             job == <<s, loop.todo[s].next>>
  <2>1. s \in DOMAIN loop.todo
    BY <1>6, CurrentInHand DEF SubmitJob
  <2>2. s \in Schedules /\ s <= made /\ loop.todo[s].next \in AllTime
    BY <2>1, Numbers DEF Record
  <2>3. job \notin Served
    BY <1>6, <2>1, <2>2, Instants DEF SubmitJob
  <2>4. twice' = {}
    BY <1>6, <2>3 DEF SubmitJob
  <2>5. /\ loop.pc = "run" /\ loop' = [loop EXCEPT !.pc = "save"]
        /\ fired' \in {fired, fired \cup {job}} /\ torn' = torn \ {job}
        /\ UNCHANGED <<clock, made, schedules, scrashes>>
    BY <1>6 DEF SubmitJob
  <2>6. Current' = s
    BY <2>5 DEF Current
  <2>7. torn' \subseteq fired' /\ fired' \subseteq Schedules \X AllTime
    BY <2>2, <2>5
  <2>8. Served' \subseteq Served \cup {job}
    BY <2>5
  <2> HIDE DEF s
  <2> QED
    BY <2>1, <2>2, <2>4, <2>5, <2>6, <2>7, <2>8
<1>7. CASE SaveSchedule
  <2> DEFINE s == Current
             rec == Advanced(s, loop.todo[s], loop.at)
  <2>1. s \in DOMAIN loop.todo
    BY <1>7, CurrentInHand DEF SaveSchedule
  <2>2. s \in Schedules /\ s <= made /\ loop.todo[s] \in Record
    BY <2>1, Numbers
  <2>3. rec \in Record /\ (rec.enabled => rec.next > loop.at)
    BY <2>2, AdvancedLater
  <2>4. \A t \in AllTime : <<s, t>> \in Served => t <= loop.at
    BY <1>7, <2>1, <2>2, Instants, SMTT(20) DEF SaveSchedule, Record
  <2>5. rec.enabled => \A t \in AllTime : <<s, t>> \in Served => t < rec.next
    BY <2>3, <2>4, Instants DEF Record
  <2>6. /\ loop.pc = "save" /\ schedules' = With(schedules, s, rec)
        /\ loop' = [loop EXCEPT !.pc = "run", !.todo = Without(@, s)]
        /\ UNCHANGED <<clock, made, fired, twice, torn, scrashes>>
    BY <1>7 DEF SaveSchedule
  <2> HIDE DEF rec, s
  <2> QED
    BY <2>1, <2>2, <2>3, <2>5, <2>6 DEF With, Without, s
<1>8. CASE EndCycle
  BY <1>8 DEF EndCycle, Idle, None
<1>9. CASE SchedulerCrash
  <2> DEFINE job == <<Current, loop.todo[Current].next>>
  <2>1. /\ loop' = Idle("off") /\ scrashes' \in 0..SchedulerCrashes
        /\ UNCHANGED <<clock, made, schedules, fired, twice>>
    BY <1>9 DEF SchedulerCrash
  <2>2. /\ torn \subseteq torn' /\ torn' \subseteq fired
        /\ loop.pc = "save" => job \notin Served'
    BY <1>9 DEF SchedulerCrash
  <2>3. loop.pc = "save" => Current \in DOMAIN loop.todo
    BY CurrentInHand
  <2>4. ASSUME NEW s \in Stored, schedules[s].enabled, NEW t \in AllTime,
               <<s, t>> \in Served'
        PROVE  t < schedules[s].next
    BY <2>1, <2>2, <2>3, <2>4
  <2> QED
    BY <2>1, <2>2, <2>4 DEF Idle, None
<1>10. CASE MinutePasses
  BY <1>10 DEF MinutePasses, Current
<1>11. CASE UNCHANGED svars
  BY <1>11, SMTT(30) DEF svars, Current
<1> QED
  BY <1>1, <1>2, <1>3, <1>4, <1>5, <1>6, <1>7, <1>8, <1>9, <1>10, <1>11
     DEF SchedulerNext, LoopSteps

\* One instant of a schedule gives one task, however late the loop comes round and
\* whatever clients add, remove or crash meanwhile.
THEOREM SchedulesFireOnce == SchedulerSpec => []SchedulesSound
<1>1. SchedulerInit => SchedulerInv
  BY SchedulerAssumption, FS_CardinalityType DEF SchedulerAssumption, SchedulerInit,
     SchedulerInv, SchedulerTypeOK, Stored, Schedules, Idle, None
<1>2. SchedulerInv => SchedulesSound
  BY DEF SchedulerInv, SchedulesSound, OncePerInstant
<1> QED
  BY <1>1, <1>2, SchedulerStep, PTL DEF SchedulerSpec

-----------------------------------------------------------------------------
\* A task that completed has a whole video

Stats == {"none", "pending", "running", "lost"} \cup Final
NodePcs == {"none", "again", "plan", "local", "render", "after", "ended"}
Pcs   == NodePcs \cup {"submit", "wait", "fetch", "receive", "sound", "apply", "remote"}
Pasts == {"start", "after", "done"}
Whys  == {"none", "connection", "pipeline"}
Task == [host : Hosts, movie : Movies \cup {"none"}, stat : Stats, pc : Pcs, at : Hosts,
         child : 0..MaxTasks, flag : BOOLEAN, attempt : 0..MaxRetries, past : Pasts,
         cut : BOOLEAN, why : Whys]

RemoteTypeOK ==
  /\ nodes \in [Hosts -> SUBSET Hosts]
  /\ up \in [Hosts -> BOOLEAN]
  /\ task \in [Ids -> Task]
  /\ video \in [Hosts -> [Movies -> {"none", "partial", "short", "whole"}]]
  /\ rcrashes \in 0..MaxCrashes

\* the nodes that Home dispatches to have no nodes of their own
Flat == \A n \in nodes[Home] : nodes[n] = {}

Used(i) == task[i].stat # "none"

\* A node only renders, and its videos are whole.
NodesRender ==
  /\ \A i \in Ids : task[i].host # Home => task[i].pc \in NodePcs
  /\ \A n \in nodes[Home], m \in Movies : video[n][m] \in {"none", "whole"}

\* The tasks of a client are the only ones on Home, and each has a movie of its own.
OwnMovies ==
  /\ \A i \in Ids : Used(i) => task[i].host \in {Home} \cup nodes[Home]
                              /\ task[i].movie \in Movies
  /\ \A i \in Submitted : Used(i) /\ task[i].host = Home
  /\ \A i, j \in Ids : Used(i) /\ Used(j) /\ task[i].host = Home /\ task[j].host = Home
                         /\ i # j => task[i].movie # task[j].movie

\* A task that waits knows its subtask; one that downloads knows of a whole video.
Subtask(i) ==
  /\ task[i].pc \in {"submit", "wait", "fetch", "receive"} => task[i].at \in nodes[Home]
  /\ task[i].pc = "wait" =>
       /\ task[i].child \in Ids /\ Used(task[i].child)
       /\ task[task[i].child].host = task[i].at
       /\ task[task[i].child].movie = task[i].movie
  /\ task[i].pc \in {"fetch", "receive"} => video[task[i].at][task[i].movie] = "whole"

\* the steps that follow a video, and a checkpoint past the render
Beyond(t) ==
  \/ t.stat = "completed"
  \/ t.pc \in {"sound", "apply", "remote", "after", "ended"}
  \/ t.past # "start" /\ ~(t.stat = "running" /\ t.pc = "receive")

\* A task that is past its video has a whole one, unless what it has was cut; the
\* download that its process died in was.
Whole(i) ==
  /\ Beyond(task[i]) /\ ~task[i].cut => video[Home][task[i].movie] = "whole"
  /\ task[i].stat = "running" /\ task[i].pc = "receive" /\ ~up[Home] => task[i].cut

HomeTasks == \A i \in Ids : Used(i) /\ task[i].host = Home => Subtask(i) /\ Whole(i)

RemoteInv == RemoteTypeOK /\ (Flat => NodesRender /\ OwnMovies /\ HomeTasks)

\* An unused slot and a new task are tasks.
LEMMA TaskRecords ==
  /\ Unused \in Task
  /\ \A h \in Hosts, m \in Movies \cup {"none"} :
       /\ Pending(h, m) \in Task /\ Pending(h, m).host = h
       /\ Pending(h, m).movie = m /\ Pending(h, m).pc = "none"
       /\ Pending(h, m).stat = "pending" /\ Pending(h, m).past = "start"
<1>1. Unused \in Task
  BY RemoteAssumption
     DEF RemoteAssumption, Unused, Task, Stats, Pcs, NodePcs, Pasts, Whys
<1> QED
  BY <1>1 DEF Pending, Unused, Task, Stats, Pcs, NodePcs, Pasts, Whys

\* The slots of the submitted tasks are slots.
LEMMA SubmittedSlots == Submitted \in SUBSET Ids /\ Cardinality(Movies) \in Nat
<1>1. Cardinality(Movies) \in Nat
  BY RemoteAssumption, FS_CardinalityType DEF RemoteAssumption
<1> QED
  BY <1>1, RemoteAssumption DEF RemoteAssumption, Submitted, Ids

\* A task that is over keeps its host, its movie and how its video came about.
LEMMA OverIs ==
  ASSUME NEW t \in Task, NEW s \in Stats, NEW w \in Whys
  PROVE  LET x == Over(t, s, w)
         IN  /\ x \in Task /\ x.host = t.host /\ x.movie = t.movie /\ x.stat = s
             /\ x.cut = t.cut /\ x.pc = "none" /\ x.past = "start"
<1> DEFINE x == [Unused EXCEPT !.host = t.host, !.movie = t.movie, !.stat = s,
                               !.cut = t.cut, !.why = w]
<1>1. Unused \in Task /\ Unused.pc = "none" /\ Unused.past = "start"
  BY TaskRecords DEF Unused
<1>2. /\ x \in Task /\ x.host = t.host /\ x.movie = t.movie /\ x.stat = s
      /\ x.cut = t.cut /\ x.pc = "none" /\ x.past = "start"
  BY <1>1 DEF Task
<1> QED
  BY <1>2 DEF Over

\* A task that is taken up again keeps where it resumes.
LEMMA RecoveredIs ==
  ASSUME NEW t \in Task
  PROVE  LET x == Recovered(t)
         IN  /\ x \in Task /\ x.host = t.host /\ x.movie = t.movie /\ x.stat = "pending"
             /\ x.cut = t.cut /\ x.pc = "again" /\ x.past = t.past
<1> DEFINE x == [t EXCEPT !.stat = "pending", !.pc = "again", !.flag = FALSE,
                          !.attempt = 0, !.at = Home, !.child = 0]
<1>1. /\ Home \in Hosts /\ "pending" \in Stats /\ "again" \in Pcs /\ 0 \in 0..MaxTasks
      /\ 0 \in 0..MaxRetries
  BY RemoteAssumption DEF RemoteAssumption, Stats, Pcs, NodePcs
<1>2. /\ x \in Task /\ x.host = t.host /\ x.movie = t.movie /\ x.stat = "pending"
      /\ x.cut = t.cut /\ x.pc = "again" /\ x.past = t.past
  BY <1>1 DEF Task
<1> QED
  BY <1>2 DEF Recovered

\* A task stays one when its worker goes on to another place,
LEMMA PcEdits ==
  ASSUME NEW x \in Task, NEW p \in Pcs
  PROVE  /\ [x EXCEPT !.pc = p] \in Task
         /\ \A h \in Hosts : [x EXCEPT !.pc = p, !.at = h] \in Task
         /\ \A c \in 0..MaxTasks : [x EXCEPT !.pc = p, !.child = c] \in Task
         /\ \A h \in Hosts, c \in 0..MaxTasks :
              [x EXCEPT !.pc = p, !.at = h, !.child = c] \in Task
         /\ \A h \in Hosts, c \in BOOLEAN : [x EXCEPT !.pc = p, !.at = h, !.cut = c] \in Task
         /\ \A q \in Pasts : [x EXCEPT !.pc = p, !.past = q] \in Task
         /\ \A q \in Pasts, c \in BOOLEAN : [x EXCEPT !.pc = p, !.past = q, !.cut = c] \in Task
         /\ \A a \in 0..MaxRetries : [x EXCEPT !.pc = p, !.attempt = a] \in Task
  BY DEF Task

\* and when its caller or its host writes to it.
LEMMA OtherEdits ==
  ASSUME NEW x \in Task
  PROVE  /\ \A s \in Stats : [x EXCEPT !.stat = s] \in Task
         /\ \A c \in BOOLEAN : [x EXCEPT !.flag = c] \in Task
         /\ \A c \in BOOLEAN : [x EXCEPT !.cut = c] \in Task
         /\ \A q \in Pasts : [x EXCEPT !.past = q] \in Task
         /\ \A s \in Stats, p \in Pcs : [x EXCEPT !.stat = s, !.pc = p, !.flag = FALSE] \in Task
  BY DEF Task

\* The next slot is one that is free.
LEMMA NextFree == Free # {} => NextId \in Free
<1> SUFFICES ASSUME Free # {} PROVE NextId \in Free
  OBVIOUS
<1>1. Free \in SUBSET Nat
  BY DEF Free, Ids
<1>2. \E i \in Free : \A j \in Free : i <= j
  BY <1>1, LeastNatural
<1> QED
  BY <1>2 DEF NextId

\* What a step leaves of a task that is used, but for what its worker is doing.
Same(j) ==
  /\ Used(j)' /\ task'[j].host = task[j].host /\ task'[j].movie = task[j].movie

\* Its worker did nothing; its process may have died.
Idles(j) ==
  /\ task'[j].pc = task[j].pc /\ task'[j].at = task[j].at
  /\ task'[j].child = task[j].child /\ task'[j].past = task[j].past
  /\ \/ task'[j].stat = task[j].stat
     \/ task[j].stat = "pending" /\ task'[j].stat = "lost"
  /\ task[j].cut => task'[j].cut
  /\ \/ task'[j].cut \/ up'[task[j].host] = up[task[j].host]
     \/ ~(task'[j].stat = "running" /\ task'[j].pc = "receive")

\* Its process came back, and took it up again or gave it up.
Returns(j) ==
  /\ task'[j].pc \in {"none", "again"} /\ task'[j].stat \in {"pending", "failed"}
  /\ task'[j].cut = task[j].cut
  /\ task'[j].past # "start" => task'[j].past = task[j].past /\ ~up[task[j].host]

\* The nodes keep the videos that they have, and what is new is whole.
NodesKeep ==
  \A n \in nodes[Home], m \in Movies :
    video'[n][m] = video[n][m] \/ video'[n][m] = "whole"

\* Home is not a node of its own.
LEMMA HomeIsNoNode == RemoteTypeOK /\ Flat => Home \notin nodes[Home]
  BY DEF Flat

\* A task of Home whose worker does nothing knows what it knew.
LEMMA IdleKept ==
  ASSUME RemoteTypeOK, NodesRender, OwnMovies, UNCHANGED nodes, NodesKeep, NEW j \in Ids,
         Used(j), task[j].host = Home, Subtask(j), Whole(j), Idles(j) \/ Returns(j), Same(j),
         \A k \in Ids : Used(k) => Same(k),
         video'[Home][task[j].movie] = video[Home][task[j].movie]
  PROVE  Subtask(j)' /\ Whole(j)'
<1>1. task[j].movie \in Movies
  BY DEF OwnMovies
<1>2. CASE Idles(j)
  <2>1. Whole(j)'
    <3>1. Beyond(task[j])' => Beyond(task[j])
      BY <1>2 DEF Beyond, Idles
    <3> QED
      BY <1>2, <3>1 DEF Whole, Idles, Same
  <2>2. task'[j].pc \in {"submit", "wait", "fetch", "receive"} => task'[j].at \in nodes'[Home]
    BY <1>2 DEF Subtask, Idles
  <2>3. ASSUME task'[j].pc = "wait"
        PROVE  /\ task'[j].child \in Ids /\ Used(task[j].child)'
               /\ task'[task'[j].child].host = task'[j].at
               /\ task'[task'[j].child].movie = task'[j].movie
    <3>1. /\ task[j].child \in Ids /\ Used(task[j].child)
          /\ task[task[j].child].host = task[j].at
          /\ task[task[j].child].movie = task[j].movie
      BY <1>2, <2>3 DEF Subtask, Idles
    <3>2. Same(task[j].child)
      BY <3>1
    <3> QED
      BY <1>2, <3>1, <3>2 DEF Same, Idles, Used
  <2>4. ASSUME task'[j].pc \in {"fetch", "receive"}
        PROVE  video'[task'[j].at][task'[j].movie] = "whole"
    <3>1. task[j].at \in nodes[Home] /\ video[task[j].at][task[j].movie] = "whole"
      BY <1>2, <2>4 DEF Subtask, Idles
    <3> QED
      BY <1>1, <1>2, <3>1 DEF NodesKeep, Idles, Same
  <2> QED
    BY <2>1, <2>2, <2>3, <2>4 DEF Subtask, Used
<1>3. CASE Returns(j)
  <2>1. Subtask(j)'
    BY <1>3 DEF Subtask, Returns
  <2>2. Whole(j)'
    BY <1>3 DEF Whole, Beyond, Returns, Same
  <2> QED
    BY <2>1, <2>2
<1> QED
  BY <1>2, <1>3

\* what a step leaves of the invariant: the hosts and their videos
Kept == NodesRender' /\ OwnMovies' /\ HomeTasks'

\* the second half of the invariant, once Home has nodes that have none
Held == RemoteTypeOK /\ Flat /\ NodesRender /\ OwnMovies /\ HomeTasks

\* A step of one task keeps the invariant, when that task does: it may write the
\* video of its own host, and take a slot for a task of a node.
LEMMA OneWorks ==
  ASSUME Held, UNCHANGED nodes, NEW i \in Ids, Used(i),
         \A k \in Ids : Used(k) => Same(k),
         \A k \in Ids \ {i} : Used(k) => Idles(k),
         \A k \in Ids : ~Used(k) =>
            \/ task'[k] = task[k]
            \/ task'[k].host \in nodes[Home] /\ task'[k].movie \in Movies /\ task'[k].pc = "none",
         \A h \in Hosts, m \in Movies :
            video'[h][m] = video[h][m] \/ (h = task[i].host /\ m = task[i].movie),
         task[i].host # Home =>
            /\ task'[i].pc \in NodePcs
            /\ video'[task[i].host][task[i].movie] \in
                 {"whole", video[task[i].host][task[i].movie]},
         task[i].host = Home => Subtask(i)' /\ Whole(i)'
  PROVE  Kept
<1>1. RemoteTypeOK /\ Flat /\ NodesRender /\ OwnMovies /\ HomeTasks
  BY DEF Held
<1>2. Home \notin nodes[Home] /\ Home \in Hosts /\ nodes[Home] \subseteq Hosts
  BY <1>1, HomeIsNoNode, RemoteAssumption DEF RemoteAssumption, RemoteTypeOK
<1>3. task[i].movie \in Movies /\ task[i].host \in {Home} \cup nodes[Home]
  BY <1>1 DEF OwnMovies
<1>4. NodesKeep
  BY <1>2, <1>3 DEF NodesKeep
<1>5. NodesRender'
  <2>1. ASSUME NEW k \in Ids, task'[k].host # Home PROVE task'[k].pc \in NodePcs
    <3>1. CASE ~Used(k)
      BY <1>1, <2>1, <3>1 DEF NodesRender, NodePcs
    <3>2. CASE Used(k)
      BY <1>1, <2>1, <3>2 DEF NodesRender, Same, Idles
    <3> QED
      BY <3>1, <3>2
  <2>2. \A n \in nodes'[Home], m \in Movies : video'[n][m] \in {"none", "whole"}
    BY <1>1, <1>4 DEF NodesRender, NodesKeep
  <2> QED
    BY <2>1, <2>2 DEF NodesRender
<1>6. OwnMovies'
  <2>1. \A k \in Ids : Used(k)' => \/ Used(k) /\ Same(k)
                                   \/ task'[k].host \in nodes[Home] /\ task'[k].movie \in Movies
    BY DEF Used
  <2>2. \A k \in Ids : Used(k)' => task'[k].host \in {Home} \cup nodes'[Home]
                                     /\ task'[k].movie \in Movies
    BY <1>1, <2>1 DEF OwnMovies, Same
  <2>3. \A k \in Submitted : Used(k)' /\ task'[k].host = Home
    BY <1>1, SubmittedSlots DEF OwnMovies, Same
  <2>4. \A j, k \in Ids : Used(j)' /\ Used(k)' /\ task'[j].host = Home /\ task'[k].host = Home
                            /\ j # k => task'[j].movie # task'[k].movie
    BY <1>1, <1>2, <2>1 DEF OwnMovies, Same
  <2> QED
    BY <2>2, <2>3, <2>4 DEF OwnMovies
<1>7. HomeTasks'
  <2> SUFFICES ASSUME NEW k \in Ids, Used(k)', task'[k].host = Home
               PROVE  Subtask(k)' /\ Whole(k)'
    BY DEF HomeTasks
  <2>1. Used(k) /\ task[k].host = Home
    BY <1>2 DEF Same, Used
  <2>2. CASE k = i
    BY <2>1, <2>2
  <2>3. CASE k # i
    <3>1. task[k].host = Home /\ task[k].movie \in Movies
      BY <1>1, <2>1 DEF OwnMovies
    <3>2. video'[Home][task[k].movie] = video[Home][task[k].movie]
      BY <1>1, <1>2, <2>1, <2>3, <3>1 DEF OwnMovies
    <3>3. Subtask(k) /\ Whole(k) /\ Idles(k) /\ Same(k)
      BY <1>1, <2>1, <2>3 DEF HomeTasks
    <3> QED
      BY <1>1, <1>4, <2>1, <3>2, <3>3, IdleKept
  <2> QED
    BY <2>2, <2>3
<1> QED
  BY <1>5, <1>6, <1>7 DEF Kept

\* A crash or a restart of a host keeps it: the workers of the host stop.
LEMMA NoneWorks ==
  ASSUME Held, UNCHANGED <<nodes, video>>,
         \A k \in Ids : Used(k) => Same(k) /\ (Idles(k) \/ Returns(k)),
         \A k \in Ids : ~Used(k) => task'[k] = task[k]
  PROVE  Kept
<1>1. RemoteTypeOK /\ Flat /\ NodesRender /\ OwnMovies /\ HomeTasks
  BY DEF Held
<1>2. NodesRender'
  <2>1. ASSUME NEW k \in Ids, task'[k].host # Home PROVE task'[k].pc \in NodePcs
    BY <1>1, <2>1 DEF NodesRender, Same, Idles, Returns, NodePcs
  <2> QED
    BY <1>1, <2>1 DEF NodesRender
<1>3. \A k \in Ids : Used(k)' => Used(k)
  BY DEF Used
<1>4. OwnMovies'
  BY <1>1, <1>3, SubmittedSlots DEF OwnMovies, Same
<1>5. HomeTasks'
  <2> SUFFICES ASSUME NEW k \in Ids, Used(k)', task'[k].host = Home
               PROVE  Subtask(k)' /\ Whole(k)'
    BY DEF HomeTasks
  <2>1. Used(k) /\ task[k].host = Home /\ Same(k) /\ (Idles(k) \/ Returns(k))
    BY <1>3 DEF Same
  <2>2. Subtask(k) /\ Whole(k) /\ NodesKeep
    BY <1>1, <2>1 DEF HomeTasks, NodesKeep
  <2> QED
    BY <1>1, <2>1, <2>2, IdleKept
<1> QED
  BY <1>2, <1>4, <1>5 DEF Kept

\* what every step keeps
Good == RemoteTypeOK' /\ (Held => Kept)

\* A step that writes to one task only keeps the invariant: what has to be shown of
\* the task.
LEMMA OneWrites ==
  ASSUME RemoteTypeOK, UNCHANGED <<nodes, up, rcrashes>>, NEW i \in Ids, Used(i),
         NEW x \in Task, NEW v, task' = [task EXCEPT ![i] = x],
         x.stat # "none", x.host = task[i].host, x.movie = task[i].movie,
         \/ UNCHANGED video
         \/ /\ Set(task[i].host, task[i].movie, v)
            /\ task[i].movie \in Movies => v \in {"none", "partial", "short", "whole"},
         Held /\ task[i].host # Home => /\ x.pc \in NodePcs
                                        /\ UNCHANGED video \/ v = "whole",
         Held /\ task[i].host = Home =>
           /\ x.pc = "submit" => x.at \in nodes[Home]
           /\ x.pc = "wait" => /\ x.child = task[i].child /\ x.at = task[i].at
                               /\ task[i].pc = "wait"
           /\ x.pc \in {"fetch", "receive"} => x.at \in nodes[Home]
           /\ x.pc \in {"fetch", "receive"} => video[x.at][x.movie] = "whole"
           /\ Beyond(x) /\ ~x.cut => video'[Home][x.movie] = "whole"
           /\ x.stat = "running" /\ x.pc = "receive" /\ ~up[Home] => x.cut
  PROVE  Good
<1>1. task'[i] = x /\ \A k \in Ids \ {i} : task'[k] = task[k]
  BY DEF RemoteTypeOK
<1>2. RemoteTypeOK'
  <2>1. video' \in [Hosts -> [Movies -> {"none", "partial", "short", "whole"}]]
    BY DEF RemoteTypeOK, Set
  <2>2. task' \in [Ids -> Task]
    BY DEF RemoteTypeOK
  <2> QED
    BY <2>1, <2>2 DEF RemoteTypeOK
<1>3. ASSUME Held PROVE Kept
  <2>1. RemoteTypeOK /\ Flat /\ NodesRender /\ OwnMovies /\ HomeTasks
    BY <1>3 DEF Held
  <2>2. Home \notin nodes[Home] /\ Home \in Hosts /\ nodes[Home] \subseteq Hosts
    BY <2>1, HomeIsNoNode, RemoteAssumption DEF RemoteAssumption, RemoteTypeOK
  <2>3. task[i].movie \in Movies /\ task[i].host \in Hosts
    BY <2>1, <2>2 DEF OwnMovies
  <2>4. \A h \in Hosts, m \in Movies :
          video'[h][m] = video[h][m] \/ (h = task[i].host /\ m = task[i].movie)
    BY <2>1 DEF RemoteTypeOK, Set
  <2>5. task[i].host # Home =>
           /\ task'[i].pc \in NodePcs
           /\ video'[task[i].host][task[i].movie] \in {"whole", video[task[i].host][task[i].movie]}
    BY <1>1, <1>3, <2>1, <2>3 DEF RemoteTypeOK, Set
  <2>6. /\ \A k \in Ids : Used(k) => Same(k)
        /\ \A k \in Ids \ {i} : Used(k) => Idles(k)
        /\ \A k \in Ids : ~Used(k) => task'[k] = task[k]
    BY <1>1 DEF Same, Idles, Used
  <2>7. ASSUME task[i].host = Home PROVE Subtask(i)' /\ Whole(i)'
    <3>1. Subtask(i)
      BY <2>1, <2>7 DEF HomeTasks
    <3>2. ASSUME x.pc = "wait"
          PROVE  /\ x.at \in nodes[Home] /\ x.child \in Ids /\ Used(x.child)
                 /\ task[x.child].host = x.at /\ task[x.child].movie = x.movie
      BY <1>3, <2>7, <3>1, <3>2 DEF Subtask
    <3>3. ASSUME x.pc \in {"fetch", "receive"} PROVE video'[x.at][x.movie] = "whole"
      <4>1. x.at \in Hosts /\ x.at # Home /\ video[x.at][x.movie] = "whole"
        BY <1>3, <2>2, <2>7, <3>3
      <4> QED
        BY <2>3, <2>4, <2>7, <4>1
    <3>4. ASSUME x.pc = "wait"
          PROVE  /\ Used(x.child)' /\ task'[x.child].host = x.at
                 /\ task'[x.child].movie = x.movie
      BY <2>6, <3>2, <3>4 DEF Same
    <3>5. x.pc \in {"submit", "wait", "fetch", "receive"} => x.at \in nodes[Home]
      BY <1>3, <2>7, <3>2
    <3>6. Subtask(i)'
      BY <1>1, <2>7, <3>2, <3>3, <3>4, <3>5 DEF Subtask, Used
    <3>7. Whole(i)'
      BY <1>1, <1>3, <2>7 DEF Whole
    <3> QED
      BY <3>6, <3>7
  <2> QED
    BY <1>3, <2>4, <2>5, <2>6, <2>7, <1>1, OneWorks
<1> QED
  BY <1>2, <1>3 DEF Good

\* What a task of a node and a task of Home may be doing.
LEMMA Where ==
  ASSUME Held, NEW i \in Ids, Used(i)
  PROVE  /\ task[i] \in Task /\ task[i].movie \in Movies
         /\ task[i].host # Home => task[i].pc \in NodePcs /\ nodes[task[i].host] = {}
         /\ task[i].host = Home => Subtask(i) /\ Whole(i)
  BY DEF Held, RemoteTypeOK, NodesRender, OwnMovies, HomeTasks, Flat

\* A worker that needs no node for what it does next keeps the invariant, when it is
\* not further than it was.
LEMMA MovesOn ==
  ASSUME RemoteTypeOK, UNCHANGED <<nodes, up, video, rcrashes>>, NEW i \in Ids, Used(i),
         NEW x \in Task, task' = [task EXCEPT ![i] = x],
         x.stat # "none", x.host = task[i].host, x.movie = task[i].movie,
         x.pc \in NodePcs \cup {"apply", "remote"},
         x.pc \in {"apply", "remote"} => task[i].pc \notin NodePcs,
         Beyond(x) => Beyond(task[i]), x.cut = task[i].cut
  PROVE  Good
<1>1. Held /\ task[i].host # Home => x.pc \in NodePcs
  BY Where
<1>2. Held /\ task[i].host = Home /\ Beyond(x) /\ ~x.cut => video'[Home][x.movie] = "whole"
  BY Where DEF Whole
<1>3. x.pc \notin {"submit", "wait", "fetch", "receive"}
  BY DEF NodePcs
<1> QED
  BY <1>1, <1>2, <1>3, OneWrites

\* A worker that takes the way of its own host, or ends, keeps it.
LEMMA GoesLocal ==
  ASSUME RemoteTypeOK, UNCHANGED <<nodes, up, video, rcrashes>>, NEW i \in Ids,
         task[i].stat = "running", task[i].pc # "receive",
         \/ Goto(i, "local")
         \/ Goto(i, "ended") /\ task[i].past # "start"
         \/ Goto(i, "apply") /\ task[i].pc = "sound"
  PROVE  Good
<1>1. /\ task[i] \in Task /\ Used(i) /\ Home \in Hosts /\ 0 \in 0..MaxTasks
      /\ {"local", "ended", "apply"} \subseteq Pcs
  BY RemoteAssumption DEF RemoteTypeOK, RemoteAssumption, Used, Pcs, NodePcs
<1>2. ASSUME NEW p \in {"local", "ended", "apply"}, Goto(i, p),
             p = "apply" => task[i].pc = "sound",
             p = "ended" => task[i].past # "start"
      PROVE  Good
  <2> DEFINE x == [task[i] EXCEPT !.pc = p, !.at = Home, !.child = 0]
  <2>1. /\ x \in Task /\ x.pc = p /\ x.stat = "running" /\ x.host = task[i].host
        /\ x.movie = task[i].movie /\ x.past = task[i].past /\ x.cut = task[i].cut
    <3>1. x \in Task
      BY <1>1, PcEdits
    <3> QED
      BY <1>1, <3>1 DEF Task
  <2>2. task' = [task EXCEPT ![i] = x]
    BY <1>2 DEF Goto
  <2> HIDE DEF x
  <2>3. Beyond(x) => Beyond(task[i])
    BY <1>2, <2>1 DEF Beyond
  <2>4. x.pc \in {"apply", "remote"} => task[i].pc \notin NodePcs
    BY <1>2, <2>1 DEF NodePcs
  <2>5. x.pc \in NodePcs \cup {"apply", "remote"}
    BY <2>1 DEF NodePcs
  <2> QED
    BY <1>1, <2>1, <2>2, <2>3, <2>4, <2>5, MovesOn
<1> QED
  BY <1>2

\* A task that is over keeps it, when one that completed had a video.
LEMMA GivesUp ==
  ASSUME RemoteTypeOK, UNCHANGED <<nodes, up, video, rcrashes>>, NEW i \in Ids,
         task[i].stat = "running", NEW s \in {"cancelled", "failed", "completed"},
         NEW w \in Whys, Ends(i, s, w), s = "completed" => task[i].pc = "ended"
  PROVE  Good
<1> DEFINE x == Over(task[i], s, w)
<1>1. task[i] \in Task /\ Used(i) /\ s \in Stats
  BY DEF RemoteTypeOK, Used, Stats, Final
<1>2. /\ x \in Task /\ x.host = task[i].host /\ x.movie = task[i].movie /\ x.stat = s
      /\ x.cut = task[i].cut /\ x.pc = "none" /\ x.past = "start"
  BY <1>1, OverIs
<1>3. task' = [task EXCEPT ![i] = x]
  BY DEF Ends
<1> HIDE DEF x
<1>4. Beyond(x) => Beyond(task[i])
  BY <1>2 DEF Beyond
<1>5. x.pc \in NodePcs
  BY <1>2 DEF NodePcs
<1> QED
  BY <1>1, <1>2, <1>3, <1>4, <1>5, MovesOn

\* A pipeline that fails keeps it.
LEMMA FailsKept ==
  ASSUME RemoteTypeOK, UNCHANGED <<nodes, up, video, rcrashes>>, NEW i \in Ids,
         task[i].stat = "running", task[i].pc # "receive", Fails(i)
  PROVE  Good
<1>1. CASE Ends(i, "cancelled", "none") \/ Ends(i, "failed", "pipeline")
  BY <1>1, GivesUp DEF Whys
<1>2. CASE /\ task[i].attempt < MaxRetries
           /\ task' = [task EXCEPT ![i].pc = "plan", ![i].attempt = @ + 1]
  <2> DEFINE x == [task[i] EXCEPT !.pc = "plan", !.attempt = task[i].attempt + 1]
  <2>1. task[i] \in Task /\ Used(i) /\ "plan" \in Pcs
    BY DEF RemoteTypeOK, Used, Pcs, NodePcs
  <2>2. task[i].attempt + 1 \in 0..MaxRetries
    BY <1>2, <2>1, RemoteAssumption DEF RemoteAssumption, Task
  <2>3. /\ x \in Task /\ x.pc = "plan" /\ x.stat = "running" /\ x.host = task[i].host
        /\ x.movie = task[i].movie /\ x.past = task[i].past /\ x.cut = task[i].cut
    <3>1. x \in Task
      BY <2>1, <2>2, PcEdits
    <3> QED
      BY <2>1, <3>1 DEF Task
  <2>4. task' = [task EXCEPT ![i] = x]
    BY <1>2 DEF RemoteTypeOK
  <2> HIDE DEF x
  <2>5. Beyond(x) => Beyond(task[i])
    BY <2>3 DEF Beyond
  <2>6. x.pc \in NodePcs
    BY <2>3 DEF NodePcs
  <2> QED
    BY <2>1, <2>3, <2>4, <2>5, <2>6, MovesOn DEF NodePcs
<1> QED
  BY <1>1, <1>2 DEF Fails

\* A pipeline that goes on, with a checkpoint or without, keeps it.
LEMMA PipelineKept ==
  ASSUME RemoteTypeOK, UNCHANGED <<nodes, up, video, rcrashes>>, NEW i \in Ids,
         task[i].stat = "running", task[i].pc # "receive",
         NEW p \in Pasts, NEW q \in Pcs,
         task' = [task EXCEPT ![i].past = p, ![i].pc = q],
         q \in NodePcs \cup {"remote"}, q = "remote" => task[i].pc = "apply",
         q \in {"remote", "after", "ended"} \/ p # "start" => Beyond(task[i])
  PROVE  Good
<1> DEFINE x == [task[i] EXCEPT !.pc = q, !.past = p]
<1>1. task[i] \in Task /\ Used(i)
  BY DEF RemoteTypeOK, Used
<1>2. /\ x \in Task /\ x.pc = q /\ x.stat = "running" /\ x.host = task[i].host
      /\ x.movie = task[i].movie /\ x.past = p /\ x.cut = task[i].cut
  <2>1. x \in Task
    BY <1>1, PcEdits
  <2> QED
    BY <1>1, <2>1 DEF Task
<1>3. task' = [task EXCEPT ![i] = x]
  BY DEF RemoteTypeOK
<1> HIDE DEF x
<1>4. Beyond(x) => Beyond(task[i])
  BY <1>2 DEF Beyond, NodePcs
<1>5. x.pc \in {"apply", "remote"} => task[i].pc \notin NodePcs
  BY <1>2 DEF NodePcs
<1> QED
  BY <1>1, <1>2, <1>3, <1>4, <1>5, MovesOn

\* What a node made is applied, the pipeline starts, and its last steps run.
LEMMA StepsKept ==
  ASSUME RemoteTypeOK, NEW i \in Ids,
         Apply(i) \/ Preflight(i) \/ RunAfter(i) \/ Complete(i)
  PROVE  Good
<1> USE DEF At, Saved
<1>1. task[i] \in Task /\ task[i].past \in Pasts
  BY DEF RemoteTypeOK, Task
<1>2. {"remote", "render", "after", "ended"} \subseteq Pcs
  BY DEF Pcs, NodePcs
<1>3. CASE Apply(i)
  <2>0. \E p \in {"after", task[i].past} :
          task' = [task EXCEPT ![i].pc = "remote", ![i].past = p]
    BY <1>3 DEF Apply
  <2>1. PICK p \in {"after", task[i].past} :
               task' = [task EXCEPT ![i].past = p, ![i].pc = "remote"]
    BY <2>0 DEF RemoteTypeOK
  <2>2. p \in Pasts /\ Beyond(task[i])
    BY <1>1, <1>3 DEF Apply, Beyond, Pasts
  <2> QED
    BY <1>2, <1>3, <2>1, <2>2, PipelineKept DEF Apply
<1>4. CASE Preflight(i)
  <2>1. CASE Fails(i)
    BY <1>4, <2>1, FailsKept DEF Preflight
  <2>2. ASSUME NEW p \in {"start", task[i].past}, NEW q \in {"render", "after"},
               task' = [task EXCEPT ![i].past = p, ![i].pc = q],
               q = "render" => task[i].past = "start",
               q = "after" => task[i].pc = "remote" \/ task[i].past # "start"
        PROVE  Good
    <3>1. p \in Pasts
      BY <1>1 DEF Pasts
    <3>2. q = "after" \/ p # "start" => Beyond(task[i])
      BY <1>4, <2>2 DEF Preflight, Beyond
    <3> QED
      BY <1>2, <1>4, <2>2, <3>1, <3>2, PipelineKept DEF Preflight, NodePcs
  <2> QED
    BY <1>4, <2>1, <2>2 DEF Preflight
<1>5. CASE RunAfter(i)
  <2>1. CASE Fails(i)
    BY <1>5, <2>1, FailsKept DEF RunAfter
  <2>2. Beyond(task[i])
    BY <1>5 DEF RunAfter, Beyond
  <2>3. CASE task' = [task EXCEPT ![i].past = "after"]
    <3>1. task' = [task EXCEPT ![i].past = "after", ![i].pc = "after"]
      BY <1>1, <1>5, <2>3 DEF RunAfter, RemoteTypeOK, Task
    <3> QED
      BY <1>2, <1>5, <2>2, <3>1, PipelineKept DEF RunAfter, NodePcs, Pasts
  <2>4. CASE \E p \in {"done", task[i].past} :
               task' = [task EXCEPT ![i].pc = "ended", ![i].past = p]
    <3>1. PICK p \in {"done", task[i].past} :
                 task' = [task EXCEPT ![i].past = p, ![i].pc = "ended"]
      BY <2>4 DEF RemoteTypeOK
    <3>2. p \in Pasts
      BY <1>1 DEF Pasts
    <3> QED
      BY <1>2, <1>5, <2>2, <3>1, <3>2, PipelineKept DEF RunAfter, NodePcs
  <2> QED
    BY <1>5, <2>1, <2>3, <2>4 DEF RunAfter
<1>6. CASE Complete(i)
  BY <1>6, GivesUp DEF Complete, Whys
<1> QED
  BY <1>3, <1>4, <1>5, <1>6

\* A video that is written is there.
LEMMA SetIs ==
  ASSUME RemoteTypeOK, NEW h \in Hosts, NEW m \in Movies, NEW v, Set(h, m, v)
  PROVE  video'[h][m] = v
  BY DEF RemoteTypeOK, Set

\* A render keeps it: the video is whole.
LEMMA PublishKept ==
  ASSUME RemoteTypeOK, NEW i \in Ids, Publish(i)
  PROVE  Good
<1> USE DEF At, Saved
<1>1. /\ task[i] \in Task /\ task[i].past \in Pasts /\ Used(i) /\ task[i].stat = "running"
      /\ task[i].pc = "render" /\ UNCHANGED <<nodes, up, rcrashes>> /\ task[i].host \in Hosts
  BY DEF RemoteTypeOK, Task, Publish, Used
<1>2. CASE Fails(i) /\ UNCHANGED video
  BY <1>1, <1>2, FailsKept
<1>3. ASSUME NEW p \in {"after", task[i].past},
             task' = [task EXCEPT ![i].pc = "after", ![i].past = p, ![i].cut = FALSE],
             Set(task[i].host, task[i].movie, "whole")
      PROVE  Good
  <2> DEFINE x == [task[i] EXCEPT !.pc = "after", !.past = p, !.cut = FALSE]
  <2>1. /\ x \in Task /\ x.pc = "after" /\ x.stat = "running" /\ x.host = task[i].host
        /\ x.movie = task[i].movie
    <3>1. p \in Pasts /\ "after" \in Pcs
      BY <1>1 DEF Pasts, Pcs, NodePcs
    <3>2. x \in Task
      BY <1>1, <3>1, PcEdits
    <3> QED
      BY <1>1, <3>2 DEF Task
  <2>2. task' = [task EXCEPT ![i] = x]
    BY <1>3 DEF RemoteTypeOK
  <2> HIDE DEF x
  <2>3. Held => video'[task[i].host][x.movie] = "whole"
    BY <1>1, <1>3, <2>1, Where, SetIs
  <2> QED
    BY <1>1, <1>3, <2>1, <2>2, <2>3, OneWrites DEF NodePcs
<1> QED
  BY <1>2, <1>3 DEF Publish

\* A download that starts keeps it,
LEMMA FetchKept ==
  ASSUME RemoteTypeOK, NEW i \in Ids, Fetch(i)
  PROVE  Good
<1> DEFINE x == [task[i] EXCEPT !.pc = "receive"]
<1>1. /\ task[i] \in Task /\ Used(i) /\ task[i].stat = "running" /\ task[i].pc = "fetch"
      /\ up[task[i].host] /\ UNCHANGED <<nodes, up, rcrashes>>
  BY DEF RemoteTypeOK, Used, At, Fetch
<1>2. CASE Goto(i, "local") /\ UNCHANGED video
  BY <1>1, <1>2, GoesLocal
<1>3. CASE /\ task' = [task EXCEPT ![i].pc = "receive"]
           /\ Set(task[i].host, task[i].movie, "partial")
  <2>1. /\ x \in Task /\ x.pc = "receive" /\ x.stat = "running" /\ x.host = task[i].host
        /\ x.movie = task[i].movie /\ x.at = task[i].at /\ x.cut = task[i].cut
    <3>1. x \in Task
      BY <1>1, PcEdits DEF Pcs
    <3> QED
      BY <1>1, <3>1 DEF Task
  <2>2. task' = [task EXCEPT ![i] = x]
    BY <1>3
  <2> HIDE DEF x
  <2>3. Held => task[i].host = Home /\ Subtask(i)
    BY <1>1, Where DEF NodePcs
  <2>4. Held => x.at \in nodes[Home] /\ video[x.at][x.movie] = "whole"
    BY <1>1, <2>1, <2>3 DEF Subtask
  <2>5. ~Beyond(x) /\ (task[i].host = Home => up[Home])
    BY <1>1, <2>1 DEF Beyond
  <2> QED
    BY <1>1, <1>3, <2>1, <2>2, <2>3, <2>4, <2>5, OneWrites
<1> QED
  BY <1>2, <1>3 DEF Fetch

\* and one that ends: what is not cut is what the node has.
LEMMA ReceiveKept ==
  ASSUME RemoteTypeOK, NEW i \in Ids, Receive(i)
  PROVE  Good
<1> DEFINE h == task[i].host
           m == task[i].movie
<1>1. /\ task[i] \in Task /\ Used(i) /\ task[i].stat = "running" /\ task[i].pc = "receive"
      /\ UNCHANGED <<nodes, up, rcrashes>> /\ h \in Hosts /\ Home \in Hosts
  BY RemoteAssumption DEF RemoteTypeOK, Used, At, Receive, Task, RemoteAssumption
<1>2. Held => h = Home /\ m \in Movies /\ Subtask(i)
  BY <1>1, Where DEF NodePcs
<1>3. Held => video[task[i].at][m] = "whole"
  BY <1>1, <1>2 DEF Subtask
<1>4. ASSUME NEW c \in BOOLEAN, NEW v, Set(h, m, v),
             task' = [task EXCEPT ![i].pc = "sound", ![i].at = Home, ![i].cut = c],
             m \in Movies => v \in {"none", "partial", "short", "whole"},
             Held /\ ~c => v = "whole"
      PROVE  Good
  <2> DEFINE x == [task[i] EXCEPT !.pc = "sound", !.at = Home, !.cut = c]
  <2>1. /\ x \in Task /\ x.pc = "sound" /\ x.stat = "running" /\ x.host = h /\ x.movie = m
        /\ x.cut = c
    <3>1. x \in Task
      BY <1>1, PcEdits DEF Pcs
    <3> QED
      BY <1>1, <3>1 DEF Task
  <2>2. task' = [task EXCEPT ![i] = x]
    BY <1>4
  <2> HIDE DEF x
  <2>3. Held /\ ~x.cut => video'[Home][x.movie] = "whole"
    BY <1>1, <1>2, <1>4, <2>1, SetIs
  <2> QED
    BY <1>1, <1>2, <1>4, <2>1, <2>2, <2>3, OneWrites
<1>5. CASE /\ task' = [task EXCEPT ![i].pc = "sound", ![i].at = Home, ![i].cut = FALSE]
           /\ Set(h, m, video[task[i].at][m])
  <2>1. m \in Movies => video[task[i].at][m] \in {"none", "partial", "short", "whole"}
    BY <1>1 DEF RemoteTypeOK, Task
  <2> QED
    BY <1>3, <1>4, <1>5, <2>1
<1>6. CASE Ends(i, "failed", "connection") /\ UNCHANGED video
  BY <1>1, <1>6, GivesUp DEF Whys
<1>7. CASE /\ task' = [task EXCEPT ![i].pc = "sound", ![i].at = Home, ![i].cut = TRUE]
           /\ Set(h, m, "short")
  BY <1>4, <1>7
<1> QED
  BY <1>5, <1>6, <1>7 DEF Receive

\* A subtask that is submitted keeps it: it takes a free slot.
LEMMA SubmitKept ==
  ASSUME RemoteTypeOK, NEW i \in Ids, Submit(i)
  PROVE  Good
<1>1. /\ task[i] \in Task /\ Used(i) /\ task[i].stat = "running" /\ task[i].pc = "submit"
      /\ UNCHANGED <<nodes, up, video, rcrashes>> /\ Home \in Hosts
  BY RemoteAssumption DEF RemoteTypeOK, Used, At, Submit, RemoteAssumption
<1>2. CASE Goto(i, "local")
  BY <1>1, <1>2, GoesLocal
<1>3. ASSUME Free # {}, NEW old \in Task,
             task' = [task EXCEPT ![NextId] = Pending(task[i].at, task[i].movie),
                                  ![i] = old],
             old.host = task[i].host, old.movie = task[i].movie, old.stat = "running",
             old.past = task[i].past, old.cut = task[i].cut,
             \/ old.pc = "local"
             \/ old.pc = "wait" /\ old.child = NextId /\ old.at = task[i].at
      PROVE  Good
  <2> DEFINE c == NextId
             new == Pending(task[i].at, task[i].movie)
  <2>1. c \in Ids /\ ~Used(c) /\ c # i
    BY <1>1, <1>3, NextFree DEF Free, Used
  <2>2. /\ new \in Task /\ new.host = task[i].at /\ new.movie = task[i].movie
        /\ new.pc = "none" /\ new.stat = "pending"
    BY <1>1, TaskRecords DEF Task
  <2>3. task' = [[task EXCEPT ![c] = new] EXCEPT ![i] = old]
    BY <1>3, <2>1 DEF RemoteTypeOK
  <2> HIDE DEF new, c
  <2>4. task'[i] = old /\ task'[c] = new /\ \A k \in Ids \ {i, c} : task'[k] = task[k]
    BY <2>1, <2>3 DEF RemoteTypeOK
  <2>5. RemoteTypeOK'
    BY <1>1, <1>3, <2>1, <2>2, <2>3 DEF RemoteTypeOK
  <2>6. ASSUME Held PROVE Kept
    <3>1. /\ task[i].movie \in Movies /\ task[i].host = Home
          /\ task[i].at \in nodes[Home] /\ Whole(i)
      BY <1>1, <2>6, Where DEF Subtask, NodePcs
    <3>2. /\ \A k \in Ids : Used(k) => Same(k)
          /\ \A k \in Ids \ {i} : Used(k) => Idles(k)
      <4>1. Same(i)
        BY <1>1, <1>3, <2>4 DEF Same, Used
      <4>2. \A k \in Ids \ {i, c} : Used(k) => Same(k) /\ Idles(k)
        BY <1>1, <2>4 DEF Same, Idles, Used
      <4> QED
        BY <2>1, <4>1, <4>2
    <3>3. Subtask(i)'
      BY <1>1, <1>3, <2>1, <2>2, <2>4, <3>1 DEF Subtask, Used, c
    <3>4. Beyond(old) => Beyond(task[i])
      BY <1>1, <1>3 DEF Beyond
    <3>5. Whole(i)'
      BY <1>1, <1>3, <2>4, <3>1, <3>4 DEF Whole
    <3>6. \A k \in Ids : ~Used(k) =>
            \/ task'[k] = task[k]
            \/ task'[k].host \in nodes[Home] /\ task'[k].movie \in Movies /\ task'[k].pc = "none"
      BY <1>1, <2>2, <2>4, <3>1
    <3> QED
      BY <1>1, <2>6, <3>1, <3>2, <3>3, <3>5, <3>6, OneWorks
  <2> QED
    BY <2>5, <2>6 DEF Good
<1>4. CASE /\ Free # {}
           /\ task' = [task EXCEPT ![NextId] = Pending(task[i].at, task[i].movie),
                         ![i] = [@ EXCEPT !.pc = "wait", !.child = NextId]]
  <2> DEFINE old == [task[i] EXCEPT !.pc = "wait", !.child = NextId]
  <2>1. NextId \in Ids /\ NextId # i /\ NextId \in 0..MaxTasks
    <3>1. NextId \in Ids /\ NextId # i
      BY <1>1, <1>4, NextFree DEF Free
    <3> QED
      BY <3>1 DEF Ids
  <2>2. old \in Task
    BY <1>1, <2>1, PcEdits DEF Pcs
  <2>3. /\ old.pc = "wait" /\ old.stat = "running" /\ old.host = task[i].host
        /\ old.movie = task[i].movie /\ old.past = task[i].past /\ old.cut = task[i].cut
        /\ old.child = NextId /\ old.at = task[i].at
    BY <1>1, <2>2 DEF Task
  <2>4. task' = [task EXCEPT ![NextId] = Pending(task[i].at, task[i].movie), ![i] = old]
    BY <1>4, <2>1 DEF RemoteTypeOK
  <2> HIDE DEF old
  <2> QED
    BY <1>3, <1>4, <2>2, <2>3, <2>4
<1>5. CASE /\ Free # {}
           /\ task' = [task EXCEPT ![NextId] = Pending(task[i].at, task[i].movie),
                         ![i] = [@ EXCEPT !.pc = "local", !.at = Home]]
  <2> DEFINE old == [task[i] EXCEPT !.pc = "local", !.at = Home]
  <2>1. NextId \in Ids /\ NextId # i
    BY <1>1, <1>5, NextFree DEF Free
  <2>2. old \in Task
    BY <1>1, PcEdits DEF Pcs, NodePcs
  <2>3. /\ old.pc = "local" /\ old.stat = "running" /\ old.host = task[i].host
        /\ old.movie = task[i].movie /\ old.past = task[i].past /\ old.cut = task[i].cut
    BY <1>1, <2>2 DEF Task
  <2>4. task' = [task EXCEPT ![NextId] = Pending(task[i].at, task[i].movie), ![i] = old]
    BY <1>5, <2>1 DEF RemoteTypeOK
  <2> HIDE DEF old
  <2> QED
    BY <1>3, <1>5, <2>2, <2>3, <2>4
<1> QED
  BY <1>2, <1>4, <1>5 DEF Submit

\* The other steps of a task keep it.
LEMMA WorksKept ==
  ASSUME RemoteTypeOK, NEW i \in Ids, Working(i) \/ Poll(i) \/ Cancel(i)
  PROVE  Good
<1>1. task[i] \in Task /\ task[i].host \in Hosts
  BY DEF RemoteTypeOK, Task
<1>2. CASE Begin(i)
  <2> DEFINE x == [task[i] EXCEPT !.stat = "running", !.pc = "plan", !.flag = FALSE]
  <2>1. Used(i) /\ task[i].stat = "pending" /\ UNCHANGED <<nodes, up, video, rcrashes>>
    BY <1>2 DEF Begin, Used
  <2>2. /\ x \in Task /\ x.stat = "running" /\ x.pc = "plan" /\ x.host = task[i].host
        /\ x.movie = task[i].movie /\ x.past = task[i].past /\ x.cut = task[i].cut
    <3>1. x \in Task
      BY <1>1, OtherEdits DEF Stats, Pcs, NodePcs
    <3> QED
      BY <1>1, <3>1 DEF Task
  <2>3. task' = [task EXCEPT ![i] = x]
    BY <1>2 DEF Begin, RemoteTypeOK
  <2> HIDE DEF x
  <2>4. (Beyond(x) => Beyond(task[i])) /\ x.pc \in NodePcs
    BY <2>1, <2>2 DEF Beyond, NodePcs
  <2> QED
    BY <2>1, <2>2, <2>3, <2>4, MovesOn DEF NodePcs
<1>3. CASE Plan(i)
  <2>1. /\ Used(i) /\ task[i].stat = "running" /\ task[i].pc = "plan"
        /\ UNCHANGED <<nodes, up, video, rcrashes>>
    BY <1>3 DEF Plan, At, Used
  <2>2. CASE \/ Goto(i, "local")
             \/ Goto(i, "ended") /\ task[i].past # "start"
    BY <2>1, <2>2, GoesLocal
  <2>3. ASSUME Distributable(i), NEW n \in nodes[task[i].host],
               task' = [task EXCEPT ![i].pc = "submit", ![i].at = n]
        PROVE  Good
    <3> DEFINE x == [task[i] EXCEPT !.pc = "submit", !.at = n]
    <3>1. n \in Hosts
      BY <1>1, <2>3 DEF RemoteTypeOK
    <3>2. /\ x \in Task /\ x.stat = "running" /\ x.pc = "submit" /\ x.host = task[i].host
          /\ x.movie = task[i].movie /\ x.at = n /\ x.past = task[i].past
          /\ x.cut = task[i].cut
      <4>1. x \in Task
        BY <1>1, <3>1, PcEdits DEF Pcs
      <4> QED
        BY <1>1, <2>1, <4>1 DEF Task
    <3>3. task' = [task EXCEPT ![i] = x]
      BY <2>3 DEF RemoteTypeOK
    <3> HIDE DEF x
    <3>4. Held => task[i].host = Home /\ Whole(i)
      BY <2>1, <2>3, Where DEF Distributable
    <3>5. Beyond(x) => Beyond(task[i])
      BY <2>1, <3>2 DEF Beyond
    <3>6. Held /\ Beyond(x) /\ ~x.cut => video'[Home][x.movie] = "whole"
      BY <2>1, <3>2, <3>4, <3>5 DEF Whole
    <3> QED
      BY <2>1, <2>3, <3>2, <3>3, <3>4, <3>6, OneWrites
  <2> QED
    BY <1>3, <2>2, <2>3 DEF Plan
<1>4. CASE TimeOut(i)
  BY <1>4, GoesLocal DEF TimeOut, At
<1>5. CASE FetchSound(i)
  <2>1. /\ task[i].stat = "running" /\ task[i].pc = "sound"
        /\ UNCHANGED <<nodes, up, video, rcrashes>>
    BY <1>5 DEF FetchSound, At
  <2>2. CASE \E p \in {"apply", "local"} : Goto(i, p)
    BY <2>1, <2>2, GoesLocal
  <2>3. CASE Ends(i, "failed", "connection")
    BY <2>1, <2>3, GivesUp DEF Whys
  <2> QED
    BY <1>5, <2>2, <2>3 DEF FetchSound
<1>6. CASE Poll(i)
  <2>1. /\ Used(i) /\ task[i].stat = "running" /\ task[i].pc = "wait"
        /\ UNCHANGED <<nodes, up, video, rcrashes>>
    BY <1>6 DEF Poll, At, Used
  <2>2. CASE Goto(i, "local")
    BY <2>1, <2>2, GoesLocal
  <2>3. ASSUME Succeeded(task[i].child),
               task' = [task EXCEPT ![i].pc = "fetch", ![i].child = 0]
        PROVE  Good
    <3> DEFINE x == [task[i] EXCEPT !.pc = "fetch", !.child = 0]
    <3>1. /\ x \in Task /\ x.stat = "running" /\ x.pc = "fetch" /\ x.host = task[i].host
          /\ x.movie = task[i].movie /\ x.at = task[i].at /\ x.past = task[i].past
          /\ x.cut = task[i].cut
      <4>1. 0 \in 0..MaxTasks /\ "fetch" \in Pcs
        BY RemoteAssumption DEF RemoteAssumption, Pcs
      <4>2. x \in Task
        BY <1>1, <4>1, PcEdits
      <4> QED
        BY <1>1, <2>1, <4>2 DEF Task
    <3>2. task' = [task EXCEPT ![i] = x]
      BY <2>3 DEF RemoteTypeOK
    <3> HIDE DEF x
    <3>3. Held => task[i].host = Home /\ task[i].movie \in Movies /\ Subtask(i) /\ Whole(i)
      BY <2>1, Where DEF NodePcs
    <3>4. Held => x.at \in nodes[Home] /\ video[x.at][x.movie] = "whole"
      BY <2>1, <2>3, <3>1, <3>3 DEF Succeeded, Subtask, Held, NodesRender
    <3>5. Beyond(x) => Beyond(task[i])
      BY <2>1, <3>1 DEF Beyond
    <3>6. Held /\ Beyond(x) /\ ~x.cut => video'[Home][x.movie] = "whole"
      BY <2>1, <3>1, <3>3, <3>5 DEF Whole
    <3> QED
      BY <2>1, <3>1, <3>2, <3>3, <3>4, <3>6, OneWrites
  <2> QED
    BY <1>6, <2>2, <2>3 DEF Poll
<1>7. CASE Cancel(i)
  <2> DEFINE x == [task[i] EXCEPT !.flag = TRUE]
  <2>1. Used(i) /\ task[i].stat = "running" /\ UNCHANGED <<nodes, up, video, rcrashes>>
    BY <1>7 DEF Cancel, Used
  <2>2. /\ x \in Task /\ x.stat = "running" /\ x.host = task[i].host
        /\ x.movie = task[i].movie /\ x.pc = task[i].pc /\ x.at = task[i].at
        /\ x.child = task[i].child /\ x.cut = task[i].cut /\ x.past = task[i].past
    <3>1. x \in Task
      BY <1>1, OtherEdits
    <3> QED
      BY <1>1, <2>1, <3>1 DEF Task
  <2>3. task' = [task EXCEPT ![i] = x]
    BY <1>7 DEF Cancel
  <2> HIDE DEF x
  <2>4. Held /\ task[i].host # Home => x.pc \in NodePcs
    BY <2>1, <2>2, Where
  <2>5. Held /\ task[i].host = Home => Subtask(i) /\ Whole(i)
    BY <2>1, Where
  <2>6. Beyond(x) => Beyond(task[i])
    BY <2>1, <2>2 DEF Beyond
  <2>7. Held /\ task[i].host = Home =>
           /\ x.pc = "submit" => x.at \in nodes[Home]
           /\ x.pc = "wait" => /\ x.child = task[i].child /\ x.at = task[i].at
                               /\ task[i].pc = "wait"
           /\ x.pc \in {"fetch", "receive"} => x.at \in nodes[Home]
           /\ x.pc \in {"fetch", "receive"} => video[x.at][x.movie] = "whole"
           /\ Beyond(x) /\ ~x.cut => video'[Home][x.movie] = "whole"
           /\ x.stat = "running" /\ x.pc = "receive" /\ ~up[Home] => x.cut
    BY <2>1, <2>2, <2>5, <2>6 DEF Subtask, Whole
  <2> QED
    BY <2>1, <2>2, <2>3, <2>4, <2>7, OneWrites
<1> QED
  BY <1>2, <1>3, <1>4, <1>5, <1>6, <1>7, FetchKept, ReceiveKept, SubmitKept, StepsKept,
     PublishKept DEF Working

\* So does a host that crashes,
LEMMA CrashKept ==
  ASSUME RemoteTypeOK, NEW h \in Hosts, CrashHost(h)
  PROVE  Good
<1>1. /\ UNCHANGED <<nodes, video>> /\ up' = [up EXCEPT ![h] = FALSE]
      /\ rcrashes' \in 0..MaxCrashes
  BY RemoteAssumption DEF CrashHost, RemoteTypeOK, RemoteAssumption
<1>2. \A i \in Ids : /\ task[i] \in Task /\ [task[i] EXCEPT !.stat = "lost"] \in Task
                     /\ [task[i] EXCEPT !.cut = TRUE] \in Task
  BY OtherEdits DEF RemoteTypeOK, Stats
<1>3. ASSUME NEW i \in Ids
      PROVE  /\ task'[i] \in Task
             /\ Used(i) => Same(i) /\ Idles(i)
             /\ ~Used(i) => task'[i] = task[i]
  <2>1. CASE /\ task[i].stat = "pending" /\ task[i].pc = "none"
             /\ task'[i] = [task[i] EXCEPT !.stat = "lost"]
    BY <1>2, <2>1 DEF Task, Used, Same, Idles
  <2>2. CASE /\ task[i].stat = "running" /\ task'[i] = [task[i] EXCEPT !.cut = TRUE]
    BY <1>2, <2>2 DEF Task, Used, Same, Idles
  <2>3. CASE /\ task'[i] = task[i]
             /\ ~(task[i].host = h /\ task[i].stat = "running" /\ task[i].pc = "receive")
    <3>1. task[i].stat = "running" /\ task[i].pc = "receive" => up'[task[i].host] = up[task[i].host]
      BY <1>1, <1>2, <2>3 DEF RemoteTypeOK, Task
    <3> QED
      BY <1>2, <2>3, <3>1 DEF Used, Same, Idles
  <2> QED
    BY <2>1, <2>2, <2>3 DEF CrashHost
<1>4. RemoteTypeOK'
  <2>1. task' \in [Ids -> Task]
    BY <1>3 DEF CrashHost
  <2> QED
    BY <1>1, <2>1 DEF RemoteTypeOK
<1>5. Held => Kept
  BY <1>1, <1>3, NoneWorks
<1> QED
  BY <1>4, <1>5 DEF Good

\* and one that comes back.
LEMMA RestartKept ==
  ASSUME RemoteTypeOK, NEW h \in Hosts, RestartHost(h)
  PROVE  Good
<1>1. /\ UNCHANGED <<nodes, video, rcrashes>> /\ up' = [up EXCEPT ![h] = TRUE] /\ ~up[h]
  BY DEF RestartHost
<1>2. PICK back \in SUBSET InFlight(h) :
             task' = [i \in Ids |-> IF i \in back THEN Recovered(task[i])
                                    ELSE IF i \in InFlight(h)
                                    THEN Over(task[i], "failed", "none") ELSE task[i]]
  BY DEF RestartHost
<1>3. ASSUME NEW i \in Ids
      PROVE  /\ task'[i] \in Task
             /\ Used(i) => Same(i) /\ (Idles(i) \/ Returns(i))
             /\ ~Used(i) => task'[i] = task[i]
  <2>1. task[i] \in Task
    BY DEF RemoteTypeOK
  <2>2. i \in InFlight(h) => Used(i) /\ task[i].host = h
    BY DEF InFlight, Used
  <2>3. CASE i \in back
    <3> DEFINE x == Recovered(task[i])
    <3>1. /\ x \in Task /\ x.host = task[i].host /\ x.movie = task[i].movie
          /\ x.stat = "pending" /\ x.cut = task[i].cut /\ x.pc = "again"
          /\ x.past = task[i].past
      BY <2>1, RecoveredIs
    <3>2. task'[i] = x
      BY <1>2, <2>3
    <3> HIDE DEF x
    <3> QED
      BY <1>1, <2>2, <2>3, <3>1, <3>2 DEF Used, Same, Returns
  <2>4. CASE i \notin back /\ i \in InFlight(h)
    <3> DEFINE x == Over(task[i], "failed", "none")
    <3>1. /\ x \in Task /\ x.host = task[i].host /\ x.movie = task[i].movie
          /\ x.stat = "failed" /\ x.cut = task[i].cut /\ x.pc = "none" /\ x.past = "start"
      BY <2>1, OverIs DEF Stats, Final, Whys
    <3>2. task'[i] = x
      BY <1>2, <2>4
    <3> HIDE DEF x
    <3> QED
      BY <2>2, <2>4, <3>1, <3>2 DEF Used, Same, Returns
  <2>5. CASE i \notin InFlight(h)
    <3>1. task'[i] = task[i]
      BY <1>2, <2>5
    <3>2. task[i].stat = "running" => up'[task[i].host] = up[task[i].host]
      BY <1>1, <2>1, <2>5 DEF InFlight, RemoteTypeOK, Task
    <3> QED
      BY <2>1, <3>1, <3>2 DEF Used, Same, Idles
  <2> QED
    BY <2>3, <2>4, <2>5
<1>4. RemoteTypeOK'
  <2>1. task' \in [Ids -> Task]
    BY <1>2, <1>3
  <2> QED
    BY <1>1, <2>1 DEF RemoteTypeOK
<1>5. Held => Kept
  BY <1>1, <1>3, NoneWorks
<1> QED
  BY <1>4, <1>5 DEF Good

\* Every step keeps the invariant.
LEMMA RemoteStep == RemoteInv /\ [RemoteNext]_rvars => RemoteInv'
<1> SUFFICES ASSUME RemoteInv, [RemoteNext]_rvars PROVE RemoteInv'
  OBVIOUS
<1>1. RemoteTypeOK
  BY DEF RemoteInv
<1>2. CASE RemoteNext
  <2>1. Good
    BY <1>1, <1>2, WorksKept, CrashKept, RestartKept DEF RemoteNext
  <2>2. UNCHANGED nodes
    BY <1>2 DEF RemoteNext, Working, Poll, Cancel, Begin, Plan, Submit, TimeOut, Fetch,
         Receive, FetchSound, Apply, Preflight, Publish, RunAfter, Complete, CrashHost,
         RestartHost
  <2>3. Flat' => Held
    BY <1>1, <2>2 DEF Held, RemoteInv, Flat
  <2> QED
    BY <2>1, <2>3 DEF Good, Kept, RemoteInv
<1>3. CASE UNCHANGED rvars
  <2>1. RemoteTypeOK'
    BY <1>1, <1>3 DEF rvars, RemoteTypeOK
  <2>2. ASSUME Flat' PROVE NodesRender' /\ OwnMovies' /\ HomeTasks'
    <3>1. NodesRender /\ OwnMovies /\ HomeTasks
      BY <1>3, <2>2 DEF RemoteInv, Flat, rvars
    <3> QED
      BY <1>3, <3>1 DEF rvars, NodesRender, OwnMovies, HomeTasks, Used, Subtask, Whole
  <2> QED
    BY <2>1, <2>2 DEF RemoteInv
<1> QED
  BY <1>2, <1>3

\* As many slots are taken at first as there are movies.
LEMMA EveryOneFirst ==
  ASSUME NEW first \in [Movies -> Submitted],
         \A m, n \in Movies : m # n => first[m] # first[n]
  PROVE  \A i \in Submitted : \E m \in Movies : first[m] = i
<1>1. first \in Injection(Movies, Submitted)
  BY DEF Injection, IsInjective
<1>2. Cardinality(Movies) \in Nat
  BY SubmittedSlots
<1>3. IsFiniteSet(Submitted) /\ Cardinality(Submitted) = Cardinality(Movies)
  BY <1>2, FS_Interval DEF Submitted
<1>4. first \in Surjection(Movies, Submitted)
  BY <1>1, <1>3, FS_Injection
<1> QED
  BY <1>4 DEF Surjection

\* At first every movie has a task of Home, which waits.
LEMMA RemoteStart == RemoteInit => RemoteInv
<1> SUFFICES ASSUME RemoteInit PROVE RemoteInv
  OBVIOUS
<1>1. PICK first \in [Movies -> Submitted] :
        /\ \A m, n \in Movies : m # n => first[m] # first[n]
        /\ task = [i \in Ids |-> IF \E m \in Movies : first[m] = i
                                 THEN Pending(Home, CHOOSE m \in Movies : first[m] = i)
                                 ELSE Unused]
  BY DEF RemoteInit, Submitted
<1> DEFINE Taken(i) == \E m \in Movies : first[m] = i
           own(i) == CHOOSE m \in Movies : first[m] = i
<1>2. Home \in Hosts
  BY RemoteAssumption DEF RemoteAssumption
<1>3. \A i \in Ids : Taken(i) => own(i) \in Movies /\ first[own(i)] = i
  OBVIOUS
<1>4. \A i \in Ids :
        /\ task[i] \in Task /\ task[i].pc = "none" /\ task[i].host = Home
        /\ task[i].past = "start"
        /\ task[i].stat \in {"none", "pending"}
        /\ Taken(i) => task[i].stat = "pending" /\ task[i].movie = own(i)
        /\ Used(i) => Taken(i)
  <2> TAKE i \in Ids
  <2>1. CASE Taken(i)
    <3>1. task[i] = Pending(Home, own(i)) /\ own(i) \in Movies
      BY <1>1, <1>3, <2>1
    <3> HIDE DEF own
    <3> QED
      BY <1>2, <2>1, <3>1, TaskRecords DEF Used
  <2>2. CASE ~Taken(i)
    <3>1. task[i] = Unused
      BY <1>1, <2>2
    <3> QED
      BY <2>2, <3>1, TaskRecords DEF Used, Unused
  <2> QED
    BY <2>1, <2>2
<1>5. RemoteTypeOK
  <2>1. task \in [Ids -> Task]
    BY <1>1, <1>4
  <2> QED
    BY <2>1, RemoteAssumption, SMTT(20) DEF RemoteInit, RemoteTypeOK, RemoteAssumption
<1>6. ASSUME Flat PROVE NodesRender /\ OwnMovies /\ HomeTasks
  <2>1. NodesRender
    BY <1>4, <1>5, <1>2 DEF NodesRender, NodePcs, RemoteInit, RemoteTypeOK
  <2>2. \A i \in Submitted : i \in Ids /\ Taken(i)
    BY <1>1, EveryOneFirst, SubmittedSlots
  <2> HIDE DEF Taken, own
  <2>3. \A i \in Submitted : Used(i) /\ task[i].host = Home
    BY <1>4, <2>2 DEF Used
  <2>4. \A i \in Ids : Used(i) => task[i].host = Home /\ task[i].movie \in Movies
    BY <1>3, <1>4
  <2>5. \A i, j \in Ids : Used(i) /\ Used(j) /\ i # j => task[i].movie # task[j].movie
    BY <1>3, <1>4
  <2>6. OwnMovies
    BY <2>3, <2>4, <2>5 DEF OwnMovies
  <2>7. HomeTasks
    BY <1>4 DEF HomeTasks, Subtask, Whole, Beyond
  <2> QED
    BY <2>1, <2>6, <2>7
<1> QED
  BY <1>5, <1>6 DEF RemoteInv

\* Whatever the nodes, the downloads, the crashes of any host and the retries: a task
\* that completed has a whole video, unless its own download ended early and was not
\* replaced, or a node has nodes.
THEOREM RemoteVideosWhole == RemoteSpec => []RemoteSound
<1>1. RemoteInv => RemoteSound
  <2> SUFFICES ASSUME RemoteInv, Flat, NEW i \in Submitted, task[i].stat = "completed",
                      ~task[i].cut
               PROVE  video[Home][task[i].movie] = "whole"
    BY DEF RemoteSound, Flat
  <2>1. i \in Ids /\ Used(i) /\ task[i].host = Home
    BY SubmittedSlots DEF RemoteInv, OwnMovies
  <2>2. Whole(i)
    BY <2>1 DEF RemoteInv, HomeTasks
  <2> QED
    BY <2>1, <2>2 DEF Whole, Beyond
<1> QED
  BY <1>1, RemoteStart, RemoteStep, PTL DEF RemoteSpec
=============================================================================
