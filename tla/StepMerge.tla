----------------------------- MODULE StepMerge -----------------------------
(***************************************************************************)
(* The dual-baseline comparison of pipeline/e2_harness.py: two steps run   *)
(* one after the other, and side by side on copies of the context with     *)
(* their diffs merged.  A context is a function from ResourceRefs to       *)
(* values, a step a function from contexts to contexts.                    *)
(***************************************************************************)
EXTENDS StepGraph

CONSTANTS
  Vals,     \* values of a resource
  Volatile, \* the R1-control refs, volatile and observational metadata keys
  Trials    \* the comparisons to explore, see Trial

Snapshot == [Resources -> Vals]
StepFunction == [Snapshot -> Snapshot]

\* the contract a step declares, with the step itself
Contract == [run : StepFunction, reads : SUBSET Resources,
             writes : SUBSET Resources, exclusive : BOOLEAN]

\* a starting context and two steps
Trial == [s0 : Snapshot, a : Contract, b : Contract]

ASSUME TrialAssumption ==
  Trials \subseteq Trial /\ Volatile \subseteq Resources /\ Vals # {}

VARIABLES
  trial,  \* the comparison under way
  verdict \* "none", "equivalent" or "different"

tvars == <<trial, verdict>>

\* diff_resources() and strip_r1_control(): the refs that changed, without the
\* volatile ones
Diff(before, after) == {x \in Resources : before[x] # after[x]} \ Volatile

\* undeclared_resources()
Undeclared(before, after, writes) == Diff(before, after) \ writes

\* apply_disjoint_diffs(): what one branch changed is taken from it; what both
\* changed stays as it was and is a conflict
Merge(s0, sa, sb) ==
  [x \in Resources |->
     IF x \in Diff(s0, sa) \ Diff(s0, sb) THEN sa[x]
     ELSE IF x \in Diff(s0, sb) \ Diff(s0, sa) THEN sb[x] ELSE s0[x]]
MergeConflicts(s0, sa, sb) == Diff(s0, sa) \cap Diff(s0, sb)

\* the same diff against s0: the same refs changed, to the same values
SameDiff(s0, s, t) ==
  Diff(s0, s) = Diff(s0, t) /\ \A x \in Diff(s0, s) : s[x] = t[x]

\* compare_parallel_vs_sequential()
Equivalent(s0, a, b) ==
  LET sa == a.run[s0]
      sb == b.run[s0]
  IN  /\ Undeclared(s0, sa, a.writes) = {}
      /\ Undeclared(s0, sb, b.writes) = {}
      /\ MergeConflicts(s0, sa, sb) = {}
      /\ SameDiff(s0, b.run[sa], Merge(s0, sa, sb))

MergeInit == trial \in Trials /\ verdict = "none"

Compare ==
  /\ verdict = "none"
  /\ verdict' = IF Equivalent(trial.s0, trial.a, trial.b)
                THEN "equivalent" ELSE "different"
  /\ UNCHANGED trial

MergeSpec == MergeInit /\ [][Compare]_tvars

-----------------------------------------------------------------------------
\* A step keeps to its contract: outside its writes it changes nothing but
\* volatile refs, and from contexts that agree on its reads it writes the same,
\* or leaves a ref alone in both.
Honest(c) ==
  /\ \A s \in Snapshot : Diff(s, c.run[s]) \subseteq c.writes
  /\ \A s, t \in Snapshot :
       (\A x \in c.reads : s[x] = t[x]) =>
         \A x \in c.writes : \/ c.run[s][x] = c.run[t][x]
                             \/ c.run[s][x] = s[x] /\ c.run[t][x] = t[x]

\* Two steps the planner puts into one group, and which keep to their contracts
\* (reading nothing volatile), pass the comparison from every context: running
\* them side by side gives what running them in order gives.
GroupedStepsMerge ==
  /\ verdict = "different"
  /\ Honest(trial.a) /\ Honest(trial.b)
  /\ (trial.a.reads \cup trial.b.reads) \cap Volatile = {}
  => ~Compatible(trial.a, trial.b)
=============================================================================
