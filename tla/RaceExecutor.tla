---------------------------- MODULE RaceExecutor ----------------------------
(***************************************************************************)
(* A race of candidate runs (race_executor.py, race.py): run_all() submits *)
(* one pipeline run per candidate to a bounded pool and collects them in   *)
(* input order, while other threads cancel candidates that may be queued,  *)
(* being submitted, running or finished.  run_race() ranks what came out,  *)
(* and may copy the winner's video to the base directory.                  *)
(***************************************************************************)
EXTENDS Integers, Sequences, FiniteSets

CONSTANTS
  Wanted,       \* number of candidates asked for
  Presets,     \* how many presets are named, 0: the default rotation
  Parallel,    \* --parallel
  RaceSteps,   \* steps of a candidate's pipeline
  Metrics,     \* what a finished candidate's metadata may say, in percent
  Cancellers   \* threads that call cancel()

ASSUME RaceAssumption ==
  /\ Wanted \in Int /\ Presets \in Nat /\ {Parallel, RaceSteps} \subseteq Nat \ {0}
  /\ Metrics \subseteq [matched : BOOLEAN, ranked : 0..100, likeness : Int, duration : Int,
                        swapped : Int, footage : Int]

VARIABLES
  phase,   \* _phases
  flagged, \* the cancel flag of each candidate's controller
  future,  \* the future of each candidate: what the pool did with it
  noted,   \* those that run_all() has put in _futures
  run,     \* what became of each candidate's pipeline
  runner,  \* run_all()
  results,   \* its results so far, in input order
  canceller, \* each cancel()
  spared,  \* history: candidates whose cancel() returned before they had begun
  promoted \* the candidate whose video is in the base directory, 0: none

rvars == <<phase, flagged, future, noted, run, runner, results, canceller, spared, promoted>>

\* _DEFAULT_CANDIDATES
DefaultCandidates == 3
Lesser(m, n) == IF m <= n THEN m ELSE n
Greater(m, n) == IF m >= n THEN m ELSE n

\* generate_candidates(): between one and six, and no more than there are presets
Candidates == Lesser(Greater(1, Lesser(Wanted, 6)),
                    IF Presets > 0 THEN Presets ELSE DefaultCandidates)

\* the threads of the pool
RaceWorkers == Lesser(Parallel, Candidates)

Cands == 1..Candidates

-----------------------------------------------------------------------------
Clamp(n) == Greater(0, Lesser(100, n))

\* half to full marks for a share of clips swapped between 5 and 30 percent
SwapMarks(rate) ==
  CASE rate < 5 -> Clamp(rate * 10)
    [] rate \in 5..30 -> 100
    [] rate > 30 -> Clamp(100 - ((rate - 30) * 50) \div 30)

\* score_candidate(): likeness 40, duration 25, variety 20, footage 15, nothing for a run
\* that matched no clips; without footage the share of ranked clips stands in for it
Score(m) ==
  LET match == Clamp((m.ranked * Clamp(m.likeness)) \div 100)
      fit == Clamp(100 - IF m.duration < 100 THEN 100 - m.duration ELSE m.duration - 100)
      cover == IF m.footage = 0 THEN m.ranked ELSE Clamp(m.footage)
  IN  IF ~m.matched THEN 0
      ELSE match * 40 + fit * 25 + SwapMarks(m.swapped) * 20 + cover * 15

Scores == {Score(m) : m \in Metrics}

-----------------------------------------------------------------------------
Verdicts == {"success", "failed", "cancelled", "paused"}

RaceTypeOK ==
  /\ phase \in [Cands -> {"queued", "running", "cancelled", "done"}]
  /\ flagged \subseteq Cands /\ noted \subseteq Cands /\ spared \subseteq Cands
  /\ future \in [Cands -> {"none", "pending", "entered", "working", "cancelled", "done"}]
  /\ run \in [Cands -> [steps : 0..RaceSteps, verdict : {"none"} \cup Verdicts,
                        score : Scores \cup {0}]]
  /\ runner.pc \in {"check", "submit", "note", "collect", "returned", "ranked"}
  /\ runner.next \in 1..(Candidates + 1)
  /\ Len(results) <= Candidates /\ promoted \in 0..Candidates
  /\ canceller \in [Cancellers -> [pc : {"idle", "looked", "dropped"}, of : Cands,
                                   queued : BOOLEAN, noted : BOOLEAN]]

RaceInit ==
  /\ phase = [i \in Cands |-> "queued"] /\ flagged = {} /\ noted = {} /\ spared = {}
  /\ future = [i \in Cands |-> "none"]
  /\ run = [i \in Cands |-> [steps |-> 0, verdict |-> "none", score |-> 0]]
  /\ runner = [pc |-> "check", next |-> 1]
  /\ promoted = 0
  /\ results = <<>>
  /\ canceller = [c \in Cancellers |-> [pc |-> "idle", of |-> 1, queued |-> FALSE,
                                        noted |-> FALSE]]

-----------------------------------------------------------------------------
\* run_all(): one candidate after the other, unless it is cancelled already
Advance == IF runner.next = Candidates THEN [pc |-> "collect", next |-> 1]
                                       ELSE [pc |-> "check", next |-> runner.next + 1]

CheckPhase ==
  /\ runner.pc = "check"
  /\ runner' = IF phase[runner.next] = "cancelled" THEN Advance
               ELSE [runner EXCEPT !.pc = "submit"]
  /\ UNCHANGED <<phase, flagged, future, noted, run, results, canceller, spared, promoted>>

PoolSubmit ==
  /\ runner.pc = "submit"
  /\ future' = [future EXCEPT ![runner.next] = "pending"]
  /\ runner' = [runner EXCEPT !.pc = "note"]
  /\ UNCHANGED <<phase, flagged, noted, run, results, canceller, spared, promoted>>

\* the future is kept, and cancelled if cancel() came in between
NoteFuture ==
  LET i == runner.next
  IN  /\ runner.pc = "note"
      /\ noted' = noted \cup {i}
      /\ future' = IF phase[i] = "cancelled" /\ future[i] = "pending"
                   THEN [future EXCEPT ![i] = "cancelled"] ELSE future
      /\ runner' = Advance
      /\ UNCHANGED <<phase, flagged, run, results, canceller, spared, promoted>>

\* a pool thread takes the oldest future that is not cancelled
TakeFuture(i) ==
  /\ future[i] = "pending"
  /\ \A j \in 1..(i - 1) : future[j] # "pending"
  /\ Cardinality({j \in Cands : future[j] \in {"entered", "working"}}) < RaceWorkers
  /\ future' = [future EXCEPT ![i] = "entered"]
  /\ UNCHANGED <<phase, flagged, noted, run, runner, results, canceller, spared, promoted>>

\* _wrapped(): the worker is called unless the candidate was cancelled
EnterCandidate(i) ==
  /\ future[i] = "entered"
  /\ IF phase[i] = "cancelled"
     THEN /\ future' = [future EXCEPT ![i] = "done"]
          /\ run' = [run EXCEPT ![i].verdict = "cancelled"]
          /\ UNCHANGED phase
     ELSE /\ phase' = [phase EXCEPT ![i] = "running"]
          /\ future' = [future EXCEPT ![i] = "working"]
          /\ UNCHANGED run
  /\ UNCHANGED <<flagged, noted, runner, results, canceller, spared, promoted>>

\* run_pipeline() of the candidate: the flag is looked at before each step, but not
\* before the preflight, which may fail
Stops(i) == i \in flagged /\ run[i].steps < RaceSteps

RunCandidateStep(i) ==
  /\ future[i] = "working" /\ run[i].verdict = "none"
  /\ \/ Stops(i) /\ run' = [run EXCEPT ![i].verdict = "cancelled"]
     \/ run[i].steps = 0 /\ run' = [run EXCEPT ![i].verdict = "failed"]
     \/ /\ ~Stops(i) /\ run[i].steps < RaceSteps
        /\ run' = [run EXCEPT ![i].steps = @ + 1]
     \/ /\ ~Stops(i)
        /\ \E v \in {"failed", "paused"} : run' = [run EXCEPT ![i].verdict = v]
     \/ \E s \in Scores :
          /\ run[i].steps = RaceSteps
          /\ run' = [run EXCEPT ![i].verdict = "success", ![i].score = s]
  /\ UNCHANGED <<phase, flagged, future, noted, runner, results, canceller, spared, promoted>>

\* whatever the flag says now, a candidate that has ended stays as it ended
LeaveCandidate(i) ==
  /\ future[i] = "working" /\ run[i].verdict # "none"
  /\ phase' = [phase EXCEPT ![i] = "done"]
  /\ future' = [future EXCEPT ![i] = "done"]
  /\ UNCHANGED <<flagged, noted, run, runner, results, canceller, spared, promoted>>

\* (mutant: a flag raised late turns a finished candidate into a cancelled one)
SlotByFlag(i) ==
  IF i \in flagged \/ phase[i] = "cancelled" \/ future[i] = "cancelled" THEN "cancelled"
  ELSE IF i \notin noted THEN "failed" ELSE run[i].verdict

\* the outcome of a candidate that has no result, and of one that has
SlotOf(i) ==
  CASE i \notin noted /\ phase[i] = "cancelled" -> "cancelled"
    [] i \notin noted /\ phase[i] # "cancelled" -> "failed"
    [] i \in noted /\ future[i] = "cancelled" -> "cancelled"
    [] OTHER -> run[i].verdict

Collect ==
  LET i == runner.next
  IN  /\ runner.pc = "collect" /\ i <= Candidates
      /\ i \in noted => future[i] \in {"done", "cancelled"}
      /\ results' = Append(results, SlotOf(i))
      /\ runner' = IF i = Candidates THEN [pc |-> "returned", next |-> i]
                   ELSE [runner EXCEPT !.next = i + 1]
      /\ UNCHANGED <<phase, flagged, future, noted, run, canceller, spared, promoted>>

\* _select_winner(): the best score among the successes, the first of equals
Successes == {i \in 1..Len(results) : results[i] = "success"}
Best(S) ==
  CHOOSE i \in S : \A j \in S : run[j].score < run[i].score
                                  \/ (run[j].score = run[i].score /\ i <= j)

\* run_race(): with auto_pick the winner's video is copied, if there is a winner and
\* the copy works
Promote ==
  /\ runner.pc = "returned"
  /\ runner' = [runner EXCEPT !.pc = "ranked"]
  /\ promoted' \in {0} \cup (IF Successes = {} THEN {} ELSE {Best(Successes)})
  /\ UNCHANGED <<phase, flagged, future, noted, run, results, canceller, spared>>

-----------------------------------------------------------------------------
Begun(i) == future[i] = "working" \/ run[i].verdict # "none"

\* cancel(): a look at the phase and the future, under the lock ...
CancelLook(c, i) ==
  /\ canceller[c].pc = "idle" /\ runner.pc \notin {"returned", "ranked"} /\ i \notin flagged
  /\ canceller' = [canceller EXCEPT ![c] =
       [pc |-> "looked", of |-> i, queued |-> phase[i] = "queued",
        noted |-> i \in noted]]
  /\ UNCHANGED <<phase, flagged, future, noted, run, runner, results, spared, promoted>>

\* ... the flag is set; a future that is queued is cancelled in the pool, or already
\* was, but one that a thread has entered is not, and cancel() returns ...
CancelAct(c) ==
  LET i == canceller[c].of
      drops == /\ canceller[c].queued
               /\ canceller[c].noted => future[i] \in {"pending", "cancelled"}
  IN  /\ canceller[c].pc = "looked"
      /\ flagged' = flagged \cup {i}
      /\ future' = IF drops /\ canceller[c].noted
                   THEN [future EXCEPT ![i] = "cancelled"] ELSE future
      /\ spared' = IF drops \/ Begun(i) THEN spared ELSE spared \cup {i}
      /\ canceller' = [canceller EXCEPT ![c].pc = IF drops THEN "dropped" ELSE "idle"]
      /\ UNCHANGED <<phase, noted, run, runner, results, promoted>>

\* ... and the phase follows if it is still queued; cancel() returns
CancelMark(c) ==
  LET i == canceller[c].of
  IN  /\ canceller[c].pc = "dropped"
      /\ phase' = IF phase[i] = "queued" THEN [phase EXCEPT ![i] = "cancelled"] ELSE phase
      /\ spared' = IF Begun(i) THEN spared ELSE spared \cup {i}
      /\ canceller' = [canceller EXCEPT ![c].pc = "idle"]
      /\ UNCHANGED <<flagged, future, noted, run, runner, results, promoted>>

RaceStep ==
  \/ CheckPhase \/ PoolSubmit \/ NoteFuture \/ Collect \/ Promote
  \/ \E i \in Cands : TakeFuture(i) \/ EnterCandidate(i) \/ RunCandidateStep(i) \/ LeaveCandidate(i)

RaceNext ==
  \/ RaceStep
  \/ \E c \in Cancellers : CancelAct(c) \/ CancelMark(c) \/ \E i \in Cands : CancelLook(c, i)

RaceSpec == RaceInit /\ [][RaceNext]_rvars

-----------------------------------------------------------------------------
\* A candidate whose cancel() has returned before its pipeline began takes no step,
\* wherever between run_all() and the pool it was at that moment: it ends cancelled, or
\* fails in the preflight.  It may be called all the same, when a thread had entered its
\* future and not yet looked at the phase; only one marked CANCELLED never is.
CancelBeforeStart ==
  /\ \A i \in spared : run[i].steps = 0 /\ run[i].verdict \in {"none", "cancelled", "failed"}
  /\ \A i \in Cands : phase[i] = "cancelled" => future[i] # "working" /\ run[i].steps = 0

\* The results are in input order and true: a candidate that finished counts as a
\* success though cancel() came late, one that did not finish never wins.
SlotsAreTrue ==
  runner.pc \in {"returned", "ranked"} =>
    /\ \A i \in Cands : results[i] = "success" <=>
         (run[i].verdict = "success" /\ run[i].steps = RaceSteps)
    /\ \A i \in Cands : run[i].verdict = "success" =>
         run[Best(Successes)].score >= run[i].score
    /\ promoted # 0 => run[promoted].verdict = "success" /\ promoted \notin spared

\* At whatever moment cancel() comes, a candidate that was cancelled in time does no
\* work and one that finished keeps its result.
RaceSound == RaceTypeOK /\ CancelBeforeStart /\ SlotsAreTrue
=============================================================================
