----------------------------- MODULE StepProofs -----------------------------
(***************************************************************************)
(* Theorems about the steps of the pipeline: the order they run in and     *)
(* what two of them leave side by side, for any catalog of steps; and what *)
(* the steps compute, for any number of lines.                             *)
(***************************************************************************)
EXTENDS StepMerge, Narration, QualityGate, ScriptWriter, ClipMatch, SequenceTheorems,
        NaturalFacts

-----------------------------------------------------------------------------
\* Finite sequences

\* The numbers up to n are n numbers.
LEMMA CountUpTo ==
  ASSUME NEW n \in Nat
  PROVE  IsFiniteSet(1..n) /\ Cardinality(1..n) = n
<1>1. 1 \in Int /\ n \in Int
  OBVIOUS
<1>2. IsFiniteSet(1..n) /\ Cardinality(1..n) = IF 1 > n THEN 0 ELSE n - 1 + 1
  BY ONLY <1>1, FS_Interval
<1> QED
  BY <1>2

\* What a sequence holds is finite, and as much as it is long if nothing is in it twice.
LEMMA RangeFinite ==
  ASSUME NEW S, NEW s \in Seq(S)
  PROVE  /\ IsFiniteSet(ToSet(s)) /\ Cardinality(ToSet(s)) \in 0..Len(s)
         /\ Distinct(s) => Cardinality(ToSet(s)) = Len(s)
<1>1. IsFiniteSet(1..Len(s)) /\ Cardinality(1..Len(s)) = Len(s)
  BY CountUpTo
<1>2. s \in Surjection(1..Len(s), ToSet(s))
  BY DEF Surjection, ToSet
<1>3. IsFiniteSet(ToSet(s)) /\ Cardinality(ToSet(s)) <= Len(s)
  BY <1>1, <1>2, FS_Surjection
<1>4. Distinct(s) => s \in Injection(1..Len(s), ToSet(s))
  BY <1>2 DEF Distinct, Injection, IsInjective, Surjection
<1>5. Distinct(s) => Cardinality(ToSet(s)) = Len(s)
  BY <1>1, <1>2, <1>4, FS_Surjection
<1> QED
  BY <1>3, <1>5, FS_CardinalityType

-----------------------------------------------------------------------------
\* Running side by side

\* A step that keeps to its contract leaves a ref outside its writes alone.
LEMMA LeavesAlone ==
  ASSUME NEW c \in Contract, Honest(c), NEW s \in Snapshot,
         NEW x \in Resources \ Volatile, x \notin c.writes
  PROVE  c.run[s][x] = s[x]
  BY DEF Honest, Diff

\* After the first of two compatible steps the second one writes what it would
\* have written before it, or leaves the ref alone in both cases.
LEMMA SecondStepBlind ==
  ASSUME NEW a \in Contract, NEW b \in Contract, Honest(a), Honest(b),
         b.reads \cap Volatile = {}, Compatible(a, b),
         NEW s \in Snapshot, NEW x \in b.writes
  PROVE  \/ b.run[a.run[s]][x] = b.run[s][x]
         \/ b.run[a.run[s]][x] = a.run[s][x] /\ b.run[s][x] = s[x]
<1>1. a.run[s] \in Snapshot
  BY DEF Contract, StepFunction
<1>2. \A y \in b.reads : a.run[s][y] = s[y]
  <2> TAKE y \in b.reads
  <2>1. y \in Resources \ Volatile /\ y \notin a.writes
    BY DEF Contract, Compatible, ResourcesConflict
  <2> QED
    BY <2>1, LeavesAlone
<1> QED
  BY <1>1, <1>2 DEF Honest

\* Two compatible steps that keep to their contracts pass the comparison.
LEMMA CompatiblePass ==
  ASSUME NEW a \in Contract, NEW b \in Contract, Honest(a), Honest(b),
         b.reads \cap Volatile = {}, Compatible(a, b), NEW s \in Snapshot
  PROVE  Equivalent(s, a, b)
<1> DEFINE sa == a.run[s]
           sb == b.run[s]
           sab == b.run[sa]
           m == Merge(s, sa, sb)
<1>1. sa \in Snapshot /\ sb \in Snapshot /\ sab \in Snapshot
  BY DEF Contract, StepFunction
<1>2. Diff(s, sa) \subseteq a.writes /\ Diff(s, sb) \subseteq b.writes
  BY DEF Honest
<1>3. a.writes \cap b.writes = {}
  BY DEF Compatible, ResourcesConflict
<1>4. ASSUME NEW x \in Resources \ Volatile PROVE sab[x] = m[x]
  <2>1. CASE x \in b.writes
    <3>1. x \notin a.writes /\ sa[x] = s[x]
      BY <1>3, <1>4, <2>1, LeavesAlone
    <3>2. sab[x] = sb[x]
      BY <2>1, <3>1, SecondStepBlind
    <3>3. x \notin Diff(s, sa)
      BY <1>2, <3>1
    <3>4. m[x] = sb[x]
      BY <1>4, <3>3 DEF Merge, Diff
    <3> QED
      BY <3>2, <3>4
  <2>2. CASE x \notin b.writes
    <3>1. sab[x] = sa[x]
      BY <1>1, <1>4, <2>2, LeavesAlone
    <3>2. x \notin Diff(s, sb)
      BY <1>2, <2>2
    <3>3. m[x] = sa[x]
      BY <1>4, <3>2 DEF Merge, Diff
    <3> QED
      BY <3>1, <3>3
  <2> QED
    BY <2>1, <2>2
<1>5. SameDiff(s, sab, m)
  BY <1>4 DEF SameDiff, Diff
<1>6. MergeConflicts(s, sa, sb) = {}
  BY <1>2, <1>3 DEF MergeConflicts
<1>7. Undeclared(s, sa, a.writes) = {} /\ Undeclared(s, sb, b.writes) = {}
  BY <1>2 DEF Undeclared
<1> QED
  BY <1>5, <1>6, <1>7 DEF Equivalent

\* Steps that the planner may put into one group give, side by side, what they
\* give in order: from every context, whatever the steps compute, as long as
\* they keep to the reads and writes they declare.
THEOREM GroupedStepsCommute == MergeSpec => []GroupedStepsMerge
<1> DEFINE Inv == /\ trial \in Trial
                  /\ verdict = "different" =>
                       ~Equivalent(trial.s0, trial.a, trial.b)
<1>1. MergeInit => Inv
  BY TrialAssumption DEF MergeInit, TrialAssumption
<1>2. Inv /\ [Compare]_tvars => Inv'
  BY DEF Compare, tvars
<1>3. Inv => GroupedStepsMerge
  <2> SUFFICES ASSUME Inv, verdict = "different",
                      Honest(trial.a), Honest(trial.b),
                      (trial.a.reads \cup trial.b.reads) \cap Volatile = {},
                      Compatible(trial.a, trial.b)
               PROVE  FALSE
    BY DEF GroupedStepsMerge
  <2>1. trial.s0 \in Snapshot /\ trial.a \in Contract /\ trial.b \in Contract
    BY DEF Trial
  <2>2. trial.b.reads \cap Volatile = {}
    OBVIOUS
  <2> QED
    BY <2>1, <2>2, CompatiblePass
<1> QED
  BY <1>1, <1>2, <1>3, PTL DEF MergeSpec

-----------------------------------------------------------------------------
\* Kahn's algorithm

\* What is known of the emitted steps while the algorithm runs.
TopoInv ==
  /\ topo \in Seq(Registered)
  /\ stage \in {"open", "waves", "layered", "grouped", "stuck"} => topo = <<>>
  /\ TopoSound

\* The set of emitted steps after one more.
LEMMA EmittedGrows ==
  ASSUME NEW S, topo \in Seq(S), NEW n \in S
  PROVE  /\ Append(topo, n) \in Seq(S)
         /\ ToSet(Append(topo, n)) = Emitted \cup {n}
         /\ Len(Append(topo, n)) = Len(topo) + 1
         /\ Append(topo, n)[Len(topo) + 1] = n
         /\ \A i \in DOMAIN topo : Append(topo, n)[i] = topo[i]
         /\ DOMAIN topo = 1..Len(topo) /\ Len(topo) \in Nat
         /\ DOMAIN Append(topo, n) = 1..(Len(topo) + 1)
  BY DEF Emitted, ToSet

LEMMA PickSound ==
  ASSUME TopoInv, NEW n \in Ready(Emitted), topo' = Append(topo, n),
         UNCHANGED registry
  PROVE  topo' \in Seq(Registered)' /\ TopoSound'
<1>1. n \in Registered /\ n \notin Emitted /\ Deps(n) \subseteq Emitted
  BY DEF Ready
<1>2. Registered' = Registered /\ \A m : Deps(m)' = Deps(m)
  BY DEF Registered, Deps, EntryOf
<1>3. /\ topo' \in Seq(Registered) /\ Emitted' = Emitted \cup {n}
      /\ DOMAIN topo = 1..Len(topo) /\ Len(topo) \in Nat
      /\ DOMAIN topo' = 1..(Len(topo) + 1)
      /\ topo'[Len(topo) + 1] = n /\ \A i \in 1..Len(topo) : topo'[i] = topo[i]
  BY <1>1, EmittedGrows DEF TopoInv, Emitted
<1>4. Distinct(topo)'
  <2> SUFFICES ASSUME NEW i \in 1..(Len(topo) + 1), NEW j \in 1..(Len(topo) + 1),
                      topo'[i] = topo'[j]
               PROVE  i = j
    BY <1>3 DEF Distinct
  <2>1. \A k \in 1..Len(topo) : topo[k] # n
    BY <1>1, <1>3 DEF Emitted, ToSet
  <2>2. CASE i \in 1..Len(topo) /\ j \in 1..Len(topo)
    BY <1>3, <2>2 DEF TopoInv, TopoSound, Distinct
  <2>3. CASE i = Len(topo) + 1 \/ j = Len(topo) + 1
    BY <1>3, <2>1, <2>3
  <2> QED
    BY <1>3, <2>2, <2>3
<1>5. Emitted' \subseteq Registered'
  BY <1>1, <1>2, <1>3 DEF TopoInv, TopoSound
<1>6. ASSUME NEW j \in 1..(Len(topo) + 1), NEW d \in Deps(topo'[j])
      PROVE  \E i \in 1..(j - 1) : topo'[i] = d
  <2>1. CASE j \in 1..Len(topo)
    <3>1. PICK i \in 1..(j - 1) : topo[i] = d
      BY <1>3, <1>6, <2>1 DEF TopoInv, TopoSound
    <3> QED
      BY <1>3, <2>1, <3>1
  <2>2. CASE j = Len(topo) + 1
    <3>1. PICK i \in 1..Len(topo) : topo[i] = d
      BY <1>1, <1>3, <1>6, <2>2 DEF Emitted, ToSet
    <3> QED
      BY <1>3, <2>2, <3>1
  <2> QED
    BY <1>3, <2>1, <2>2
<1> QED
  BY <1>2, <1>3, <1>4, <1>5, <1>6 DEF TopoSound

LEMMA TopoInvStep == TopoInv /\ [GraphNext]_gvars => TopoInv'
<1> SUFFICES ASSUME TopoInv, [GraphNext]_gvars PROVE TopoInv'
  OBVIOUS
<1>1. ASSUME UNCHANGED <<registry, topo>>, stage' = stage
             \/ stage' \in {"topo", "sorted", "cycle"}
             \/ stage \in {"open", "waves", "layered", "grouped", "stuck"}
      PROVE  TopoInv'
  BY <1>1 DEF TopoInv, TopoSound, Distinct, Emitted, Registered, Deps, EntryOf
<1>2. ASSUME stage = "open", stage' = stage, UNCHANGED topo PROVE TopoInv'
  BY <1>2 DEF TopoInv, TopoSound, Distinct, Emitted, ToSet
<1>3. CASE Pick
  <2>1. PICK n \in Ready(Emitted) : topo' = Append(topo, n)
    BY <1>3 DEF Pick, Emitted
  <2>2. UNCHANGED <<registry, stage>> /\ stage = "topo"
    BY <1>3 DEF Pick
  <2> QED
    BY <2>1, <2>2, PickSound DEF TopoInv
<1>4. ASSUME NEW d \in Catalog, Register(d) PROVE TopoInv'
  BY <1>2, <1>4 DEF Register
<1>5. ASSUME NEW n \in StepNames, Unregister(n) PROVE TopoInv'
  BY <1>2, <1>5 DEF Unregister
<1>6. CASE StartTopo \/ StartWaves \/ EndTopo \/ EmitWave \/ EndWaves \/ Group
  BY <1>1, <1>6 DEF StartTopo, StartWaves, EndTopo, EmitWave, EndWaves, Group
<1>7. CASE UNCHANGED gvars
  BY <1>1, <1>7 DEF gvars
<1> QED
  BY <1>3, <1>4, <1>5, <1>6, <1>7 DEF GraphNext, Compute

\* topological_order() emits no step twice and none before one it depends on,
\* for every registry, with plugins, unknown dependencies and cycles.
THEOREM TopologicalOrderSound == GraphSpec => []TopoSound
<1>1. GraphInit => TopoInv
  BY DEF GraphInit, TopoInv, TopoSound, Distinct, Emitted, ToSet
<1>2. TopoInv => TopoSound
  BY DEF TopoInv
<1> QED
  BY <1>1, <1>2, TopoInvStep, PTL DEF GraphSpec

-----------------------------------------------------------------------------
\* The linear adapter

\* what positions are computed from
Numbered == ordered \in Seq(StepNames) /\ registry \in Seq(Declaration)

\* Positions are numbers once the linear order is a sequence.
LEMMA PlaceNat ==
  ASSUME Numbered, NEW n PROVE Place(n) \in Nat
<1>1. CASE \E i \in DOMAIN ordered : IsLast(n, i)
  <2>1. PICK i \in DOMAIN ordered : Place(n) = i
    BY <1>1 DEF Place
  <2> QED
    BY <2>1 DEF Numbered
<1>2. CASE ~\E i \in DOMAIN ordered : IsLast(n, i)
  <2> DEFINE K == {k \in Displaced : \E l \in Displaced : k <= l /\ registry[l].name = n}
  <2>1. Cardinality(ToSet(ordered)) \in Nat
    BY RangeFinite DEF Numbered
  <2>2. IsFiniteSet(1..Len(registry)) /\ K \in SUBSET (1..Len(registry))
    BY CountUpTo DEF Numbered, Displaced
  <2>3. Cardinality(K) \in Nat
    BY <2>2, FS_Subset, FS_CardinalityType
  <2>4. Place(n) = Cardinality(ToSet(ordered)) + Cardinality(K)
    BY <1>2 DEF Place
  <2> QED
    BY <2>1, <2>3, <2>4
<1> QED
  BY <1>1, <1>2

\* Of any steps one comes first in the linear order.
LEMMA FirstOfSteps ==
  ASSUME Numbered, NEW U, U # {}
  PROVE  \E u \in U : \A v \in U : Place(u) <= Place(v)
<1> DEFINE T == {Place(u) : u \in U}
<1>1. T \subseteq Nat /\ T # {}
  BY PlaceNat
<1>2. PICK x \in T : \A y \in T : x <= y
  BY <1>1, LeastNatural
<1>4. PICK u \in U : Place(u) = x
  OBVIOUS
<1>5. \A v \in U : Place(u) <= Place(v)
  <2> TAKE v \in U
  <2>1. Place(v) \in T /\ Place(u) \in Nat /\ Place(v) \in Nat
    BY PlaceNat
  <2> QED
    BY <1>2, <1>4, <2>1
<1> QED
  BY <1>5

\* When no step depends on a later one, the first of the steps not yet emitted is
\* available, so what is picked stands before all that is left.
LEMMA PickFirst ==
  ASSUME Numbered, Backwards, NEW n \in Ready(Emitted),
         \A m \in Ready(Emitted) : Place(n) <= Place(m)
  PROVE  \A u \in Registered \ Emitted : Place(n) <= Place(u)
<1>1. Registered \ Emitted # {}
  BY DEF Ready
<1>2. PICK f \in Registered \ Emitted :
        \A v \in Registered \ Emitted : Place(f) <= Place(v)
  BY <1>1, FirstOfSteps
<1>3. Deps(f) \subseteq Emitted
  <2> SUFFICES ASSUME NEW d \in Deps(f), d \notin Emitted PROVE FALSE
    OBVIOUS
  <2>1. d \in Registered /\ Place(d) < Place(f)
    BY DEF Backwards, Deps
  <2> QED
    BY <1>2, <2>1, PlaceNat
<1>4. Place(n) <= Place(f)
  BY <1>3 DEF Ready
<1> QED
  BY <1>2, <1>4, PlaceNat

\* The emitted steps stand before the others.
LowerSet ==
  Backwards => \A e \in Emitted, u \in Registered \ Emitted : Place(e) <= Place(u)

LEMMA AscendingStep ==
  ASSUME TopoInv, Ascending, LowerSet, Numbered,
         [GraphNext]_gvars
  PROVE  Ascending' /\ LowerSet'
<1>1. ASSUME UNCHANGED <<registry, ordered, topo>> PROVE Ascending' /\ LowerSet'
  <2>1. /\ Registered' = Registered /\ Backwards' = Backwards
        /\ \A m : Place(m)' = Place(m)
    BY <1>1 DEF Registered, Backwards, Deps, EntryOf, Place, IsLast, Displaced
  <2> QED
    BY <1>1, <2>1 DEF Ascending, LowerSet, Emitted
<1>2. ASSUME topo' = <<>> PROVE Ascending' /\ LowerSet'
  BY <1>2 DEF Ascending, LowerSet, Emitted, ToSet
<1>3. CASE Pick
  <2>1. PICK n \in Ready(Emitted) :
          /\ \A m \in Ready(Emitted) : Place(n) <= Place(m)
          /\ topo' = Append(topo, n)
    BY <1>3 DEF Pick, Emitted
  <2>2. UNCHANGED <<registry, ordered>>
    BY <1>3 DEF Pick
  <2>3. /\ Registered' = Registered /\ Backwards' = Backwards
        /\ \A m : Place(m)' = Place(m)
    BY <2>2 DEF Registered, Backwards, Deps, EntryOf, Place, IsLast, Displaced
  <2>4. n \in Registered
    BY <2>1 DEF Ready
  <2>5. /\ Emitted' = Emitted \cup {n}
        /\ DOMAIN topo = 1..Len(topo) /\ Len(topo) \in Nat
        /\ DOMAIN topo' = 1..(Len(topo) + 1)
        /\ topo'[Len(topo) + 1] = n /\ \A i \in 1..Len(topo) : topo'[i] = topo[i]
    BY <2>1, <2>4, EmittedGrows DEF TopoInv, Emitted
  <2> SUFFICES ASSUME Backwards
               PROVE  /\ \A i, j \in 1..(Len(topo) + 1) :
                           i < j => Place(topo'[i]) <= Place(topo'[j])
                      /\ \A e \in Emitted', u \in Registered \ Emitted' :
                           Place(e) <= Place(u)
    BY <2>3, <2>5 DEF Ascending, LowerSet
  <2>6. \A u \in Registered \ Emitted : Place(n) <= Place(u)
    BY <2>1, PickFirst
  <2>7. \A i \in 1..Len(topo) : Place(topo[i]) <= Place(n)
    BY <2>1, <2>4, <2>5 DEF LowerSet, Emitted, ToSet, Ready
  <2>8. \A e \in Emitted', u \in Registered \ Emitted' : Place(e) <= Place(u)
    BY <2>5, <2>6 DEF LowerSet
  <2>9. \A i, j \in 1..(Len(topo) + 1) : i < j => Place(topo'[i]) <= Place(topo'[j])
    <3> TAKE i, j \in 1..(Len(topo) + 1)
    <3> HAVE i < j
    <3>1. CASE j \in 1..Len(topo)
      BY <2>5, <3>1 DEF Ascending
    <3>2. CASE j = Len(topo) + 1
      BY <2>5, <2>7, <3>2
    <3> QED
      BY <2>5, <3>1, <3>2
  <2> QED
    BY <2>8, <2>9
<1>4. ASSUME NEW d \in Catalog, Register(d) PROVE Ascending' /\ LowerSet'
  BY <1>2, <1>4 DEF Register, TopoInv
<1>5. ASSUME NEW n \in StepNames, Unregister(n) PROVE Ascending' /\ LowerSet'
  BY <1>2, <1>5 DEF Unregister, TopoInv
<1>6. CASE StartTopo \/ StartWaves
  BY <1>2, <1>6 DEF StartTopo, StartWaves, TopoInv
<1>7. CASE EndTopo \/ EmitWave \/ EndWaves \/ Group
  BY <1>1, <1>7 DEF EndTopo, EmitWave, EndWaves, Group
<1>8. CASE UNCHANGED gvars
  BY <1>1, <1>8 DEF gvars
<1> QED
  BY <1>3, <1>4, <1>5, <1>6, <1>7, <1>8 DEF GraphNext, Compute

-----------------------------------------------------------------------------
\* The timeline of a narration

\* Running sums begin at nothing and grow by one member at a time.
LEMMA RunningSums ==
  ASSUME NEW s \in Seq(Int)
  PROVE  /\ Sums(s)[0] = 0
         /\ \A i \in 1..Len(s) : Sums(s)[i] = Sums(s)[i - 1] + s[i]
         /\ \A i \in 0..Len(s) : Sums(s)[i] \in Int
<1> DEFINE n == Len(s)
           Next(g, i) == IF i = 0 THEN 0 ELSE g[i - 1] + s[i]
           Grows(g) == g = [i \in 0..n |-> Next(g, i)]
           step == [p \in Int \X (1..n) |-> p[1] + s[p[2]]]
<1>1. n \in Nat /\ step \in [Int \X (1..n) -> Int] /\ 0 \in Int
  OBVIOUS
<1>0. PICK g : g \in Goes(n, Int, 0, step)
  <2> HIDE DEF n, step
  <2> QED
    BY <1>1, Folded
<1>2. g \in [0..n -> Int] /\ g[0] = 0 /\ \A i \in 1..n : g[i] = step[<<g[i - 1], i>>]
  <2> HIDE DEF n, step
  <2> QED
    BY <1>0 DEF Goes
<1>3. \A i \in 0..n : g[i] = Next(g, i)
  <2> SUFFICES ASSUME NEW i \in 0..n, i # 0 PROVE g[i] = g[i - 1] + s[i]
    BY <1>2
  <2>1. i \in 1..n /\ i - 1 \in 0..n
    OBVIOUS
  <2>2. <<g[i - 1], i>> \in Int \X (1..n)
    BY <1>2, <2>1
  <2> QED
    BY <1>2, <2>1, <2>2
<1>4. Grows(g)
  <2> HIDE DEF Next, n
  <2> QED
    BY <1>2, <1>3
<1>5. Sums(s) = CHOOSE f : Grows(f)
  BY DEF Sums
<1>6. Grows(Sums(s))
  <2> HIDE DEF Grows
  <2> QED
    BY <1>4, <1>5
<1> DEFINE f == Sums(s)
<1>7. \A i \in 0..n : f[i] = Next(f, i)
  <2> HIDE DEF Next
  <2> QED
    BY <1>6
<1> HIDE DEF f
<1>8. f[0] = 0 /\ \A i \in 1..n : f[i] = f[i - 1] + s[i]
  BY <1>1, <1>7
<1>9. \A i \in 0..n : f[i] \in Int
  <2>1. \A i \in 1..n : f[i - 1] \in Int => f[i] \in Int
    BY <1>8, SMTT(20)
  <2> HIDE DEF n
  <2> QED
    BY <1>1, <1>8, <2>1, FoldedTyped
<1> QED
  BY <1>8, <1>9 DEF f

\* The greater of two numbers is one of them and below neither.
LEMMA MaxOfTwo ==
  ASSUME NEW a \in Int, NEW b \in Int
  PROVE  Max({a, b}) \in {a, b} /\ Max({a, b}) >= a /\ Max({a, b}) >= b
<1>1. \E x \in {a, b} : \A y \in {a, b} : x >= y
  <2>1. CASE a >= b
    BY <2>1
  <2>2. CASE b >= a
    BY <2>2
  <2> QED
    BY <2>1, <2>2
<1> QED
  BY <1>1 DEF Max

Lengths == Nat \ {0}
Cue == [start : Int, end : Int]
Audible == {c \in Cue : c.start < c.end}

\* cues that can be heard, one after the other with a pause between two of them
Spaced(cues) == \A i \in 2..Len(cues) : cues[i].start >= cues[i - 1].end + FloorPause

\* Lines that last some time, laid out with a pause, give such cues.
LEMMA LaidOut ==
  ASSUME NEW durs \in Seq(Lengths), NEW pause \in Nat, pause >= FloorPause
  PROVE  /\ BuildAudio(durs, pause) \in Seq(Audible)
         /\ Len(BuildAudio(durs, pause)) = Len(durs)
         /\ Spaced(BuildAudio(durs, pause))
<1> DEFINE n == Len(durs)
           sum == Sums(durs)
           at(i) == sum[i - 1] + (i - 1) * pause
           cue(i) == [start |-> at(i), end |-> at(i) + durs[i]]
           out == [i \in 1..n |-> cue(i)]
<1>1. n \in Nat /\ DOMAIN durs = 1..n /\ \A i \in 1..n : durs[i] \in Lengths
  OBVIOUS
<1>2. durs \in Seq(Int)
  BY DEF Lengths
<1>3. /\ \A i \in 1..n : sum[i] = sum[i - 1] + durs[i]
      /\ \A i \in 0..n : sum[i] \in Int
  BY <1>2, RunningSums
<1>4. BuildAudio(durs, pause) = out
  BY <1>1 DEF BuildAudio
<1> HIDE DEF sum
<1>5. ASSUME NEW i \in 1..n PROVE at(i) \in Int /\ cue(i) \in Audible
  <2>1. i - 1 \in 0..n /\ (i - 1) * pause \in Int /\ durs[i] \in Lengths
    BY <1>1
  <2>2. at(i) \in Int
    BY <1>3, <2>1
  <2>3. at(i) + durs[i] \in Int /\ at(i) < at(i) + durs[i]
    BY <2>1, <2>2 DEF Lengths
  <2> HIDE DEF at
  <2> QED
    BY <2>2, <2>3 DEF Audible, Cue
<1>6. ASSUME NEW i \in 2..n PROVE at(i) = at(i - 1) + durs[i - 1] + pause
  <2>1. i - 1 \in 1..n /\ (i - 1) - 1 = i - 2 /\ i - 1 \in 0..n /\ i - 2 \in 0..n
    OBVIOUS
  <2>2. sum[i - 1] = sum[i - 2] + durs[i - 1] /\ sum[i - 2] \in Int /\ durs[i - 1] \in Int
    BY <1>1, <1>3, <2>1 DEF Lengths
  <2>3. (i - 1) * pause = (i - 2) * pause + pause /\ (i - 2) * pause \in Int
    OBVIOUS
  <2> QED
    BY <2>1, <2>2, <2>3
<1>7. out \in Seq(Audible) /\ Len(out) = n
  <2> HIDE DEF cue, n
  <2>1. out \in [1..n -> Audible]
    BY <1>5
  <2> QED
    BY <1>1, <2>1
<1>8. Spaced(out)
  <2> SUFFICES ASSUME NEW i \in 2..n PROVE out[i].start >= out[i - 1].end + FloorPause
    BY <1>7 DEF Spaced
  <2>1. i \in 1..n /\ i - 1 \in 1..n
    OBVIOUS
  <2>2. out[i].start = at(i) /\ out[i - 1].end = at(i - 1) + durs[i - 1]
    BY <2>1
  <2>3. at(i) \in Int /\ at(i - 1) + durs[i - 1] \in Int
    <3> HIDE DEF at, cue
    <3>1. at(i - 1) \in Int /\ durs[i - 1] \in Int
      BY <1>1, <1>5, <2>1 DEF Lengths
    <3> QED
      BY <1>5, <2>1, <3>1
  <2> HIDE DEF at, out
  <2> QED
    BY <1>6, <2>2, <2>3 DEF FloorPause
<1> QED
  BY <1>4, <1>7, <1>8

\* The end of a timeline is a number.
LEMMA EndIsNumber ==
  ASSUME NEW cues \in Seq(Audible)
  PROVE  EndOf(cues) \in Int
<1>1. CASE cues = <<>>
  BY <1>1 DEF EndOf
<1>2. CASE cues # <<>>
  <2>1. Len(cues) \in 1..Len(cues) /\ DOMAIN cues = 1..Len(cues)
    BY <1>2
  <2>2. cues[Len(cues)] \in Audible
    BY <2>1
  <2> QED
    BY <1>2, <2>2 DEF EndOf, Audible, Cue
<1> QED
  BY <1>1, <1>2

\* The pause is never reduced to nothing.
LEMMA PauseStays ==
  ASSUME NEW durs \in Seq(Lengths), NEW target \in Nat
  PROVE  FittedPause(durs, target) \in Nat /\ FittedPause(durs, target) >= FloorPause
<1>1. Total(durs) \in Int /\ Len(durs) \in Nat
  <2>1. durs \in Seq(Int) /\ Len(durs) \in 0..Len(durs)
    BY DEF Lengths
  <2> QED
    BY <2>1, RunningSums DEF Total
<1>2. ReducedPause(durs, target) \in Nat /\ ReducedPause(durs, target) >= FloorPause
  <2> DEFINE gaps == Max({1, Len(durs) - 1})
             fit == target - Total(durs)
  <2>1. gaps \in Int /\ gaps >= 1
    <3>1. Len(durs) - 1 \in Int /\ 1 \in Int
      BY <1>1
    <3> HIDE DEF FloorPause
    <3> QED
      BY <3>1, MaxOfTwo
  <2>2. fit \in Int
    BY <1>1
  <2> HIDE DEF gaps, fit
  <2>3. fit \div gaps \in Int
    BY <2>1, <2>2
  <2>4. Max({FloorPause, fit \div gaps}) \in Int /\ Max({FloorPause, fit \div gaps}) >= FloorPause
    <3>1. FloorPause \in Int
      BY DEF FloorPause
    <3> QED
      BY <2>3, <3>1, MaxOfTwo
  <2>5. ReducedPause(durs, target) \in {FloorPause, Max({FloorPause, fit \div gaps})}
    BY DEF ReducedPause, fit, gaps
  <2> QED
    BY <2>4, <2>5 DEF FloorPause
<1>3. FittedPause(durs, target) \in {ReducedPause(durs, target), PauseTicks}
  BY DEF FittedPause
<1> QED
  BY <1>2, <1>3, NarrationAssumption DEF NarrationAssumption, FloorPause

\* A line that is played faster still lasts some time.
LEMMA StillLasts ==
  ASSUME NEW durs \in Seq(Lengths), NEW actual \in Nat \ {0}, NEW target \in Nat
  PROVE  Faster(durs, actual, target) \in Seq(Lengths) /\ Len(Faster(durs, actual, target)) = Len(durs)
<1> DEFINE n == Len(durs)
           fast(i) == IF 100 * actual > 115 * target THEN (durs[i] * 100) \div 115
                      ELSE (durs[i] * target) \div actual
           out == [i \in 1..n |-> Max({1, fast(i)})]
<1>1. n \in Nat /\ DOMAIN durs = 1..n /\ \A i \in 1..n : durs[i] \in Lengths
  OBVIOUS
<1>2. ASSUME NEW i \in 1..n PROVE Max({1, fast(i)}) \in Lengths
  <2>1. durs[i] \in Nat
    BY <1>1 DEF Lengths
  <2>2. (durs[i] * 100) \div 115 \in Int
    BY <2>1
  <2>3. (durs[i] * target) \div actual \in Int
    <3>1. durs[i] * target \in Int
      BY <2>1
    <3> QED
      BY <3>1
  <2>4. fast(i) \in Int /\ 1 \in Int
    BY <2>2, <2>3
  <2> HIDE DEF fast
  <2>5. Max({1, fast(i)}) \in {1, fast(i)} /\ Max({1, fast(i)}) >= 1
    BY <2>4, MaxOfTwo
  <2> QED
    BY <2>4, <2>5 DEF Lengths
<1>3. Faster(durs, actual, target) = out
  BY <1>1 DEF Faster
<1> HIDE DEF fast
<1>4. out \in [1..n -> Lengths]
  <2> HIDE DEF n
  <2> QED
    BY <1>2
<1> QED
  <2> HIDE DEF out
  <2> QED
    BY <1>1, <1>3, <1>4

\* generate_voice() hands on cues that can be heard, one for each line, in order.
LEMMA VoiceFits ==
  ASSUME NEW durs \in Seq(Lengths), NEW target \in Nat
  PROVE  /\ FitDuration(durs, target) \in Seq(Audible)
         /\ Len(FitDuration(durs, target)) = Len(durs)
         /\ Spaced(FitDuration(durs, target))
<1> DEFINE pause == FittedPause(durs, target)
           actual == EndOf(BuildAudio(durs, pause))
           fast == IF target > 0 /\ 100 * actual > 110 * target
                   THEN Faster(durs, actual, target) ELSE durs
<1>1. pause \in Nat /\ pause >= FloorPause
  BY PauseStays
<1> HIDE DEF pause
<1>2. actual \in Int
  BY <1>1, LaidOut, EndIsNumber
<1> HIDE DEF actual
<1>3. fast \in Seq(Lengths) /\ Len(fast) = Len(durs)
  <2>1. CASE target > 0 /\ 100 * actual > 110 * target
    <3>1. actual \in Nat \ {0}
      BY <1>2, <2>1
    <3> QED
      BY <2>1, <3>1, StillLasts
  <2>2. CASE ~(target > 0 /\ 100 * actual > 110 * target)
    BY <2>2
  <2> QED
    BY <2>1, <2>2
<1>4. FitDuration(durs, target) = BuildAudio(fast, pause)
  BY DEF FitDuration, actual, pause
<1> HIDE DEF fast
<1> QED
  BY <1>1, <1>3, <1>4, LaidOut

-----------------------------------------------------------------------------
\* Alignment

\* What was heard is at most two intervals of some length.
LEMMA HeardIs ==
  ASSUME NEW heard \in Heard
  PROVE  heard \in Seq(Interval) /\ Len(heard) <= 2
<1>1. CASE heard = <<>>
  BY <1>1
<1>2. ASSUME NEW a \in Interval, heard = <<a>> PROVE heard \in Seq(Interval) /\ Len(heard) <= 2
  BY <1>2
<1>3. ASSUME NEW a \in Interval, NEW b \in Interval, heard = <<a, b>>
      PROVE  heard \in Seq(Interval) /\ Len(heard) <= 2
  BY <1>3
<1>4. \/ heard = <<>> \/ \E a \in Interval : heard = <<a>>
      \/ \E a, b \in Interval : heard = <<a, b>>
  BY DEF Heard
<1> QED
  BY <1>1, <1>2, <1>3, <1>4

\* An interval lies between two instants.
LEMMA IntervalIs ==
  \A w \in Interval : w.start \in Nat /\ w.end \in Nat /\ w.start < w.end
BY NarrationAssumption DEF Interval, NarrationAssumption

\* The nearest interval is one of those that were heard.
LEMMA NearestHeard ==
  ASSUME NEW seg \in Cue, NEW heard \in Seq(Interval), heard # <<>>
  PROVE  Nearest(seg, heard) \in Interval
<1> DEFINE In(k) == 2 * heard[k].start <= Mid(seg) /\ Mid(seg) <= 2 * heard[k].end
           d(k) == Mid(heard[k]) - Mid(seg)
           Dist(k) == IF d(k) < 0 THEN -d(k) ELSE d(k)
           Hits == {k \in DOMAIN heard : In(k)}
           Best == {k \in DOMAIN heard : \A j \in DOMAIN heard : Dist(k) <= Dist(j)}
           Some == IF Hits # {} THEN Hits ELSE Best
           D == {Dist(k) : k \in DOMAIN heard}
<1>1. DOMAIN heard = 1..Len(heard) /\ Len(heard) \in Nat /\ Len(heard) # 0
      /\ \A k \in DOMAIN heard : heard[k] \in Interval
  OBVIOUS
<1>2. \A k \in DOMAIN heard : Dist(k) \in Nat
  <2> SUFFICES ASSUME NEW k \in DOMAIN heard PROVE Dist(k) \in Nat
    OBVIOUS
  <2>1. Mid(seg) \in Int /\ Mid(heard[k]) \in Int
    BY <1>1, IntervalIs DEF Mid, Cue
  <2>2. d(k) \in Int
    BY <2>1
  <2> HIDE DEF d
  <2> QED
    BY <2>2
<1>3. Best # {}
  <2> HIDE DEF Dist
  <2>1. D \in SUBSET Nat /\ D # {}
    <3>1. 1 \in DOMAIN heard
      BY <1>1
    <3> QED
      BY <1>2, <3>1
  <2>2. PICK m \in D : \A x \in D : m <= x
    <3> HIDE DEF D
    <3> QED
      BY <2>1, LeastNatural
  <2>3. PICK k \in DOMAIN heard : m = Dist(k)
    OBVIOUS
  <2> QED
    BY <2>2, <2>3
<1>4. Some \in SUBSET (DOMAIN heard) /\ Some # {}
  <2> HIDE DEF In, Dist
  <2> QED
    BY <1>3
<1>5. Nearest(seg, heard) = heard[Min(Some)]
  BY DEF Nearest
<1> HIDE DEF Some
<1>6. Min(Some) \in Some
  <2>1. Some \in SUBSET Nat
    BY <1>1, <1>4
  <2> QED
    BY <1>4, <2>1, MinIsLeast
<1> QED
  BY <1>1, <1>4, <1>5, <1>6

\* what is known of the cue in hand, and of the one narrowed to its words
Aligned == [cue : Cue, prev : Int]
Worded == [cue : Cue, prev : Int, ptr : Nat \ {0}]

\* A cue that moves can be heard where it ends up.
LEMMA MovedCue ==
  ASSUME NEW from \in Int, NEW to \in Int, NEW prev \in Int, NEW s, NEW e,
         s = Max({from, prev}), e = IF to <= s THEN s + MinCue ELSE to
  PROVE  [start |-> s, end |-> e] \in Audible /\ e \in Int
<1>1. s \in Int
  BY MaxOfTwo
<1>2. e \in Int /\ s < e
  BY <1>1 DEF MinCue
<1> QED
  BY <1>1, <1>2 DEF Audible, Cue

\* Whether it moves onto its interval or keeps its estimate, a cue can be heard.
LEMMA OntoAudible ==
  ASSUME NEW acc \in Aligned, NEW seg \in Audible, NEW w \in Interval
  PROVE  Onto(acc, seg, w) \in Aligned /\ Onto(acc, seg, w).cue \in Audible
<1>1. acc.prev \in Int /\ w.start \in Int /\ w.end \in Int /\ seg \in Cue
  BY IntervalIs DEF Aligned, Audible
<1>2. Stays(acc, seg) \in Aligned /\ Stays(acc, seg).cue \in Audible
  BY <1>1 DEF Stays, Aligned
<1>3. MovesTo(acc, w.start, w.end) \in Aligned /\ MovesTo(acc, w.start, w.end).cue \in Audible
  <2> DEFINE s == Max({w.start, acc.prev})
             e == IF w.end <= s THEN s + MinCue ELSE w.end
             cue == [start |-> s, end |-> e]
  <2>1. cue \in Audible /\ e \in Int
    BY <1>1, MovedCue
  <2>2. MovesTo(acc, w.start, w.end) = [acc EXCEPT !.cue = cue, !.prev = e]
    BY DEF MovesTo
  <2> HIDE DEF cue, e
  <2> QED
    BY <2>1, <2>2 DEF Aligned, Audible
<1>4. Onto(acc, seg, w) \in {Stays(acc, seg), MovesTo(acc, w.start, w.end)}
  BY DEF Onto
<1> QED
  BY <1>2, <1>3, <1>4

\* The same of a cue that is narrowed to the words heard inside it.
LEMMA WithinAudible ==
  ASSUME NEW acc \in Worded, NEW seg \in Audible, NEW words \in Seq(Interval)
  PROVE  Within(acc, seg, words) \in Worded /\ Within(acc, seg, words).cue \in Audible
<1> DEFINE From == {k \in DOMAIN words : k >= acc.ptr /\ words[k].end >= seg.start}
           first == Min(From)
           Upto == {k \in first + 1 .. Len(words) :
                      \A j \in first + 1 .. k : words[j].start <= seg.end}
           last == Max(Upto \cup {first})
           ns == words[first].start
           ne == words[last].end
           next == [acc EXCEPT !.ptr = IF From = {} THEN Len(words) + 1 ELSE first]
<1>1. /\ DOMAIN words = 1..Len(words) /\ Len(words) \in Nat
      /\ \A k \in DOMAIN words : words[k] \in Interval
      /\ From \in SUBSET (DOMAIN words)
  OBVIOUS
<1> HIDE DEF From
<1>2. From # {} => first \in 1..Len(words)
  <2>1. From \in SUBSET Nat
    BY <1>1
  <2> QED
    BY <1>1, <2>1, MinIsLeast
<1>3. From # {} => last \in 1..Len(words)
  <2> SUFFICES ASSUME From # {} PROVE last \in 1..Len(words)
    OBVIOUS
  <2> HIDE DEF first
  <2>1. first \in 1..Len(words)
    BY <1>2
  <2>2. Upto \cup {first} \in SUBSET (0..Len(words)) /\ Upto \cup {first} # {}
    BY <1>1, <2>1
  <2>3. last \in Upto \cup {first}
    <3> HIDE DEF Upto
    <3> QED
      BY <1>1, <2>2, MaxIsGreatest
  <2> QED
    BY <1>1, <2>1, <2>3
<1> HIDE DEF first, last
<1>4. next \in Worded /\ next.prev \in Int
  BY <1>1, <1>2 DEF Worded
<1>5. Stays(next, seg) \in Worded /\ Stays(next, seg).cue \in Audible
  <2> HIDE DEF next
  <2> QED
    BY <1>4 DEF Stays, Worded, Audible
<1>6. From # {} => MovesTo(next, ns, ne) \in Worded /\ MovesTo(next, ns, ne).cue \in Audible
  <2> SUFFICES ASSUME From # {}
               PROVE  MovesTo(next, ns, ne) \in Worded /\ MovesTo(next, ns, ne).cue \in Audible
    OBVIOUS
  <2> DEFINE s == Max({ns, next.prev})
             e == IF ne <= s THEN s + MinCue ELSE ne
             cue == [start |-> s, end |-> e]
  <2>1. ns \in Int /\ ne \in Int
    BY <1>1, <1>2, <1>3, IntervalIs
  <2> HIDE DEF next, ns, ne
  <2>2. cue \in Audible /\ e \in Int
    BY <1>4, <2>1, MovedCue
  <2>3. MovesTo(next, ns, ne) = [next EXCEPT !.cue = cue, !.prev = e]
    BY DEF MovesTo
  <2> HIDE DEF cue, e
  <2> QED
    BY <1>4, <2>2, <2>3 DEF Worded, Audible
<1>7. \/ Within(acc, seg, words) = Stays(next, seg)
      \/ From # {} /\ Within(acc, seg, words) = MovesTo(next, ns, ne)
  BY DEF Within, From, first, last
<1> HIDE DEF next, ns, ne
<1> QED
  BY <1>5, <1>6, <1>7

\* What is aligned with anything that was heard can be heard, and no cue is lost.
LEMMA RemapAudible ==
  ASSUME NEW segs \in Seq(Audible), NEW heard \in Seq(Interval), heard # <<>>
  PROVE  Remap(segs, heard) \in Seq(Audible) /\ Len(Remap(segs, heard)) = Len(segs)
<1> DEFINE n == Len(segs)
           init == [cue |-> NoCue, prev |-> 0]
           Goal(a, i) == Onto(a, segs[i], Nearest(segs[i], heard))
           Next(g, i) == IF i = 0 THEN init ELSE Goal(g[i - 1], i)
           Grows(g) == g = [i \in 0..n |-> Next(g, i)]
           step == [p \in Aligned \X (1..n) |-> Goal(p[1], p[2])]
<1>1. n \in Nat /\ DOMAIN segs = 1..n /\ \A i \in 1..n : segs[i] \in Audible
  OBVIOUS
<1>2. \A a \in Aligned : \A i \in 1..n : Goal(a, i) \in Aligned /\ Goal(a, i).cue \in Audible
  <2> SUFFICES ASSUME NEW a \in Aligned, NEW i \in 1..n
               PROVE  Goal(a, i) \in Aligned /\ Goal(a, i).cue \in Audible
    OBVIOUS
  <2>1. segs[i] \in Audible /\ segs[i] \in Cue
    BY <1>1 DEF Audible
  <2>2. Nearest(segs[i], heard) \in Interval
    BY <2>1, NearestHeard
  <2> QED
    BY <2>1, <2>2, OntoAudible
<1>3. init \in Aligned
  BY DEF Aligned, NoCue, Cue
<1> HIDE DEF Goal, init, n
<1>4. step \in [Aligned \X (1..n) -> Aligned]
  BY <1>2
<1>5. PICK g : g \in Goes(n, Aligned, init, step)
  <2> HIDE DEF step
  <2> QED
    BY <1>1, <1>3, <1>4, Folded
<1>6. /\ g \in [0..n -> Aligned] /\ g[0] = init
      /\ \A i \in 1..n : g[i] = step[<<g[i - 1], i>>]
  <2> HIDE DEF step
  <2> QED
    BY <1>5 DEF Goes
<1>7. Grows(g)
  <2>1. \A i \in 0..n : g[i] = Next(g, i)
    <3> SUFFICES ASSUME NEW i \in 0..n, i # 0 PROVE g[i] = Goal(g[i - 1], i)
      BY <1>6
    <3>1. i \in 1..n /\ i - 1 \in 0..n
      BY <1>1
    <3>2. <<g[i - 1], i>> \in Aligned \X (1..n)
      BY <1>6, <3>1
    <3> QED
      BY <1>6, <3>1, <3>2
  <2> HIDE DEF Next
  <2> QED
    BY <1>6, <2>1
<1> DEFINE f == CHOOSE h : Grows(h)
<1>8. Grows(f)
  <2> HIDE DEF Grows
  <2> QED
    BY <1>7
<1>9. Remap(segs, heard) = [i \in 1..n |-> f[i].cue]
  BY <1>1 DEF Remap, Goal, init, n
<1>10. \A i \in 0..n : f[i] = Next(f, i)
  <2> HIDE DEF Next, f
  <2> QED
    BY <1>8
<1> HIDE DEF f
<1>11. \A i \in 0..n : f[i] \in Aligned
  <2>1. f[0] \in Aligned
    BY <1>1, <1>3, <1>10
  <2>2. \A i \in 1..n : f[i - 1] \in Aligned => f[i] \in Aligned
    <3> SUFFICES ASSUME NEW i \in 1..n, f[i - 1] \in Aligned PROVE f[i] \in Aligned
      OBVIOUS
    <3>1. i \in 0..n /\ i # 0
      BY <1>1
    <3>2. f[i] = Goal(f[i - 1], i)
      BY <1>10, <3>1
    <3> QED
      BY <1>2, <3>2
  <2> QED
    BY <1>1, <2>1, <2>2, FoldedTyped
<1>12. ASSUME NEW i \in 1..n PROVE f[i].cue \in Audible
  <2>1. i \in 0..n /\ i # 0 /\ i - 1 \in 0..n
    BY <1>1
  <2> QED
    BY <1>2, <1>10, <1>11, <2>1
<1> DEFINE out == [i \in 1..n |-> f[i].cue]
<1>13. out \in [1..n -> Audible]
  BY <1>12
<1> HIDE DEF out
<1>14. out \in Seq(Audible) /\ Len(out) = n
  BY <1>1, <1>13
<1> QED
  BY <1>9, <1>14 DEF n, out

\* So it is of what is aligned with words.
LEMMA WordsAudible ==
  ASSUME NEW segs \in Seq(Audible), NEW words \in Seq(Interval)
  PROVE  WordRemap(segs, words) \in Seq(Audible) /\ Len(WordRemap(segs, words)) = Len(segs)
<1> DEFINE n == Len(segs)
           init == [cue |-> NoCue, prev |-> 0, ptr |-> 1]
           Goal(a, i) == Within(a, segs[i], words)
           Next(g, i) == IF i = 0 THEN init ELSE Goal(g[i - 1], i)
           Grows(g) == g = [i \in 0..n |-> Next(g, i)]
           step == [p \in Worded \X (1..n) |-> Goal(p[1], p[2])]
<1>1. n \in Nat /\ DOMAIN segs = 1..n /\ \A i \in 1..n : segs[i] \in Audible
  OBVIOUS
<1>2. \A a \in Worded : \A i \in 1..n : Goal(a, i) \in Worded /\ Goal(a, i).cue \in Audible
  <2> SUFFICES ASSUME NEW a \in Worded, NEW i \in 1..n
               PROVE  Goal(a, i) \in Worded /\ Goal(a, i).cue \in Audible
    OBVIOUS
  <2> QED
    BY <1>1, WithinAudible
<1>3. init \in Worded
  BY DEF Worded, NoCue, Cue
<1> HIDE DEF Goal, init, n
<1>4. step \in [Worded \X (1..n) -> Worded]
  BY <1>2
<1>5. PICK g : g \in Goes(n, Worded, init, step)
  <2> HIDE DEF step
  <2> QED
    BY <1>1, <1>3, <1>4, Folded
<1>6. /\ g \in [0..n -> Worded] /\ g[0] = init
      /\ \A i \in 1..n : g[i] = step[<<g[i - 1], i>>]
  <2> HIDE DEF step
  <2> QED
    BY <1>5 DEF Goes
<1>7. Grows(g)
  <2>1. \A i \in 0..n : g[i] = Next(g, i)
    <3> SUFFICES ASSUME NEW i \in 0..n, i # 0 PROVE g[i] = Goal(g[i - 1], i)
      BY <1>6
    <3>1. i \in 1..n /\ i - 1 \in 0..n
      BY <1>1
    <3>2. <<g[i - 1], i>> \in Worded \X (1..n)
      BY <1>6, <3>1
    <3> QED
      BY <1>6, <3>1, <3>2
  <2> HIDE DEF Next
  <2> QED
    BY <1>6, <2>1
<1> DEFINE f == CHOOSE h : Grows(h)
<1>8. Grows(f)
  <2> HIDE DEF Grows
  <2> QED
    BY <1>7
<1>9. WordRemap(segs, words) = [i \in 1..n |-> f[i].cue]
  BY <1>1 DEF WordRemap, Goal, init, n
<1>10. \A i \in 0..n : f[i] = Next(f, i)
  <2> HIDE DEF Next, f
  <2> QED
    BY <1>8
<1> HIDE DEF f
<1>11. \A i \in 0..n : f[i] \in Worded
  <2>1. f[0] \in Worded
    BY <1>1, <1>3, <1>10
  <2>2. \A i \in 1..n : f[i - 1] \in Worded => f[i] \in Worded
    <3> SUFFICES ASSUME NEW i \in 1..n, f[i - 1] \in Worded PROVE f[i] \in Worded
      OBVIOUS
    <3>1. i \in 0..n /\ i # 0
      BY <1>1
    <3>2. f[i] = Goal(f[i - 1], i)
      BY <1>10, <3>1
    <3> QED
      BY <1>2, <3>2
  <2> QED
    BY <1>1, <2>1, <2>2, FoldedTyped
<1>12. ASSUME NEW i \in 1..n PROVE f[i].cue \in Audible
  <2>1. i \in 0..n /\ i # 0 /\ i - 1 \in 0..n
    BY <1>1
  <2> QED
    BY <1>2, <1>10, <1>11, <2>1
<1> DEFINE out == [i \in 1..n |-> f[i].cue]
<1>13. out \in [1..n -> Audible]
  BY <1>12
<1> HIDE DEF out
<1>14. out \in Seq(Audible) /\ Len(out) = n
  BY <1>1, <1>13
<1> QED
  BY <1>9, <1>14 DEF n, out

-----------------------------------------------------------------------------
\* Translation

Packs == [done : Seq(Seq(Nat)), current : Seq(Nat), size : Int]

\* the lines that stand in a list of chunks, and in what is being packed
Lined(chunks) == {i \in Nat : \E k \in DOMAIN chunks : i \in ToSet(chunks[k])}
InPack(acc) == Lined(acc.done) \cup ToSet(acc.current)

\* A list of chunks with one more holds the lines of both.
LEMMA OneMore ==
  ASSUME NEW chunks \in Seq(Seq(Nat)), NEW last \in Seq(Nat)
  PROVE  Append(chunks, last) \in Seq(Seq(Nat)) /\ Lined(Append(chunks, last)) = Lined(chunks) \cup ToSet(last)
<1> DEFINE all == Append(chunks, last)
           n == Len(chunks)
<1>1. /\ n \in Nat /\ DOMAIN chunks = 1..n /\ DOMAIN all = 1..n + 1 /\ all[n + 1] = last
      /\ all \in Seq(Seq(Nat)) /\ \A k \in 1..n : all[k] = chunks[k]
  OBVIOUS
<1>2. ToSet(last) \subseteq Nat
  BY DEF ToSet
<1> HIDE DEF all, n
<1>3. \A k \in 1..n + 1 : k \in 1..n \/ k = n + 1
  BY <1>1
<1>4. \A k \in 1..n : k \in 1..n + 1
  BY <1>1
<1>5. n + 1 \in 1..n + 1
  BY <1>1
<1>6. Lined(all) = Lined(chunks) \cup ToSet(last)
  <2>1. ASSUME NEW i \in Lined(all) PROVE i \in Lined(chunks) \cup ToSet(last)
    <3>1. PICK k \in 1..n + 1 : i \in ToSet(all[k])
      BY <1>1, <2>1 DEF Lined
    <3>2. CASE k \in 1..n
      BY <1>1, <3>1, <3>2, <2>1 DEF Lined
    <3>3. CASE k = n + 1
      BY <1>1, <3>1, <3>3
    <3> QED
      BY <1>3, <3>2, <3>3
  <2>2. ASSUME NEW i \in Lined(chunks) PROVE i \in Lined(all)
    <3>1. PICK k \in 1..n : i \in ToSet(chunks[k])
      BY <1>1, <2>2 DEF Lined
    <3> QED
      BY <1>1, <1>4, <2>2, <3>1 DEF Lined
  <2>3. ASSUME NEW i \in ToSet(last) PROVE i \in Lined(all)
    BY <1>1, <1>2, <1>5, <2>3 DEF Lined
  <2> QED
    BY <2>1, <2>2, <2>3
<1> QED
  BY <1>1, <1>6 DEF all

\* A list of lines with one more holds that line too.
LEMMA OneLineMore ==
  ASSUME NEW list \in Seq(Nat), NEW i \in Nat
  PROVE  Append(list, i) \in Seq(Nat) /\ ToSet(Append(list, i)) = ToSet(list) \cup {i}
<1> DEFINE all == Append(list, i)
           n == Len(list)
<1>1. /\ n \in Nat /\ DOMAIN list = 1..n /\ DOMAIN all = 1..n + 1 /\ all[n + 1] = i
      /\ all \in Seq(Nat) /\ \A k \in 1..n : all[k] = list[k]
  OBVIOUS
<1> HIDE DEF all, n
<1>2. 1..n + 1 = 1..n \cup {n + 1}
  BY <1>1
<1>3. ToSet(all) = {all[k] : k \in 1..n + 1} /\ ToSet(list) = {list[k] : k \in 1..n}
  BY <1>1 DEF ToSet
<1>4. {all[k] : k \in 1..n + 1} = {list[k] : k \in 1..n} \cup {i}
  BY <1>1, <1>2
<1> QED
  BY <1>1, <1>3, <1>4 DEF all

\* Packing a line keeps the others, whether or not a chunk is flushed for it.
LEMMA PackKeeps ==
  ASSUME NEW acc \in Packs, NEW i \in Nat, NEW size \in Int
  PROVE  Pack(acc, i, size) \in Packs /\ InPack(Pack(acc, i, size)) = InPack(acc) \cup {i}
<1>1. acc.done \in Seq(Seq(Nat)) /\ acc.current \in Seq(Nat) /\ acc.size \in Int
  BY DEF Packs
<1> DEFINE flushed == [done |-> Append(acc.done, acc.current), current |-> <<i>>, size |-> size]
           kept == [acc EXCEPT !.current = Append(acc.current, i), !.size = acc.size + size]
<1>2. flushed \in Packs /\ InPack(flushed) = InPack(acc) \cup {i}
  <2>1. <<i>> \in Seq(Nat) /\ ToSet(<<i>>) = {i}
    BY DEF ToSet
  <2> QED
    BY <1>1, <2>1, OneMore DEF Packs, InPack
<1>3. kept \in Packs /\ InPack(kept) = InPack(acc) \cup {i}
  <2>1. acc.size + size \in Int
    BY <1>1
  <2>2. kept.done = acc.done /\ kept.current = Append(acc.current, i) /\ kept \in Packs
    BY <1>1, <2>1, OneLineMore DEF Packs
  <2> QED
    BY <1>1, <2>2, OneLineMore DEF InPack
<1>4. Pack(acc, i, size) \in {flushed, kept}
  BY DEF Pack
<1> QED
  BY <1>2, <1>3, <1>4

\* Packed one by one, all lines are in the pack, whatever their lengths.
LEMMA AllPacked ==
  ASSUME NEW lens \in Seq(Int)
  PROVE  Packed(lens) \in Packs /\ 1..Len(lens) \subseteq InPack(Packed(lens))
<1> DEFINE n == Len(lens)
           init == [done |-> <<>>, current |-> <<>>, size |-> 0]
           Goal(a, i) == Pack(a, i, lens[i])
           Next(g, i) == IF i = 0 THEN init ELSE Goal(g[i - 1], i)
           Grows(g) == g = [i \in 0..n |-> Next(g, i)]
           step == [p \in Packs \X (1..n) |-> Goal(p[1], p[2])]
<1>1. n \in Nat /\ DOMAIN lens = 1..n /\ \A i \in 1..n : lens[i] \in Int /\ i \in Nat
  OBVIOUS
<1>2. \A a \in Packs : \A i \in 1..n :
        Goal(a, i) \in Packs /\ InPack(Goal(a, i)) = InPack(a) \cup {i}
  BY <1>1, PackKeeps
<1>3. init \in Packs
  BY DEF Packs
<1> HIDE DEF Goal, init, n
<1>4. step \in [Packs \X (1..n) -> Packs]
  BY <1>2
<1>5. PICK g : g \in Goes(n, Packs, init, step)
  <2> HIDE DEF step
  <2> QED
    BY <1>1, <1>3, <1>4, Folded
<1>6. /\ g \in [0..n -> Packs] /\ g[0] = init
      /\ \A i \in 1..n : g[i] = step[<<g[i - 1], i>>]
  <2> HIDE DEF step
  <2> QED
    BY <1>5 DEF Goes
<1>7. Grows(g)
  <2>1. \A i \in 0..n : g[i] = Next(g, i)
    <3> SUFFICES ASSUME NEW i \in 0..n, i # 0 PROVE g[i] = Goal(g[i - 1], i)
      BY <1>6
    <3>1. i \in 1..n /\ i - 1 \in 0..n
      BY <1>1
    <3>2. <<g[i - 1], i>> \in Packs \X (1..n)
      BY <1>6, <3>1
    <3> QED
      BY <1>6, <3>1, <3>2
  <2> HIDE DEF Next
  <2> QED
    BY <1>6, <2>1
<1> DEFINE f == CHOOSE h : Grows(h)
<1>8. Grows(f)
  <2> HIDE DEF Grows
  <2> QED
    BY <1>7
<1>9. Packed(lens) = f[n]
  BY DEF Packed, Goal, init, n
<1>10. \A i \in 0..n : f[i] = Next(f, i)
  <2> HIDE DEF Next, f
  <2> QED
    BY <1>8
<1> HIDE DEF f
<1> DEFINE S == {m \in Nat : m <= n => f[m] \in Packs /\ 1..m \subseteq InPack(f[m])}
<1>11. 0 \in S
  <2>1. f[0] = init /\ 1..0 = {}
    BY <1>1, <1>10
  <2> QED
    BY <1>3, <2>1
<1>12. \A m \in Nat : m \in S => m + 1 \in S
  <2> SUFFICES ASSUME NEW m \in Nat, m + 1 <= n, f[m] \in Packs, 1..m \subseteq InPack(f[m])
               PROVE  f[m + 1] \in Packs /\ 1..m + 1 \subseteq InPack(f[m + 1])
    BY <1>1
  <2>1. m + 1 \in 1..n /\ m + 1 \in 0..n /\ m + 1 # 0 /\ (m + 1) - 1 = m
    BY <1>1
  <2>2. f[m + 1] = Goal(f[m], m + 1)
    BY <1>10, <2>1
  <2>3. 1..m + 1 = 1..m \cup {m + 1}
    OBVIOUS
  <2> QED
    BY <1>2, <2>1, <2>2, <2>3
<1>13. n \in S
  <2> HIDE DEF S
  <2> QED
    BY <1>1, <1>11, <1>12, EveryNatural
<1> QED
  BY <1>1, <1>9, <1>13 DEF n

\* Every line is in some chunk.
LEMMA ChunksCover ==
  ASSUME NEW lens \in Seq(Int), NEW i \in 1..Len(lens)
  PROVE  \E k \in DOMAIN Chunks(lens) : i \in ToSet(Chunks(lens)[k])
<1> DEFINE whole == Indices(Len(lens))
           all == Packed(lens)
<1>1. Len(lens) \in Nat
  OBVIOUS
<1>2. CASE Chunks(lens) = <<whole>>
  <2>1. DOMAIN whole = 1..Len(lens) /\ whole[i] = i
    BY DEF Indices
  <2>2. i \in ToSet(whole)
    BY <2>1 DEF ToSet
  <2>3. 1 \in DOMAIN <<whole>> /\ <<whole>>[1] = whole
    OBVIOUS
  <2> HIDE DEF whole
  <2> QED
    BY <1>2, <2>2, <2>3
<1>3. CASE Chunks(lens) = IF all.current = <<>> THEN all.done ELSE Append(all.done, all.current)
  <2> HIDE DEF all
  <2>1. all \in Packs /\ i \in Lined(all.done) \cup ToSet(all.current)
    BY AllPacked DEF InPack, all
  <2>2. all.done \in Seq(Seq(Nat)) /\ all.current \in Seq(Nat)
    BY <2>1 DEF Packs
  <2>3. i \in Lined(Chunks(lens))
    <3>1. CASE all.current = <<>>
      <4>1. ToSet(all.current) = {}
        BY <3>1 DEF ToSet
      <4> QED
        BY <1>3, <2>1, <3>1, <4>1
    <3>2. CASE all.current # <<>>
      BY <1>3, <2>1, <2>2, <3>2, OneMore
    <3> QED
      BY <3>1, <3>2
  <2> QED
    BY <2>3 DEF Lined
<1> QED
  BY <1>2, <1>3 DEF Chunks

\* So every line is paired with its own translation.
LEMMA Rendered ==
  ASSUME NEW lens \in Seq(Int)
  PROVE  /\ Len(Translations(lens)) = Len(lens) /\ DOMAIN Translations(lens) = 1..Len(lens)
         /\ \A i \in 1..Len(lens) : Translations(lens)[i].line = i
<1> DEFINE where == {i \in 1 .. Len(lens) :
                       \E k \in DOMAIN Chunks(lens) : i \in ToSet(Chunks(lens)[k])}
           text(i) == IF i \in where THEN [line |-> i, how |-> "translated"] ELSE Blank
           out == [i \in 1..Len(lens) |-> text(i)]
<1>1. Len(lens) \in Nat /\ where = 1..Len(lens)
  BY ChunksCover
<1>2. Translations(lens) = out
  BY DEF Translations
<1> HIDE DEF where
<1>3. \A i \in 1..Len(lens) : text(i).line = i
  BY <1>1
<1> HIDE DEF text
<1>4. Len(out) = Len(lens) /\ DOMAIN out = 1..Len(lens)
  BY <1>1
<1> QED
  BY <1>2, <1>3, <1>4

-----------------------------------------------------------------------------
\* What the four steps hand on

\* the lines and their cues; the estimate is all there is before the alignment, and the
\* text of the translation is that of the lines
Spoken ==
  /\ spoken \in Seq(Lengths) /\ chars \in Seq(Int) /\ Len(chars) = Len(spoken)
Timed ==
  /\ estimate \in Seq(Audible) /\ Spaced(estimate) /\ timed \in Seq(Audible)
  /\ timed = <<>> \/ Len(timed) = Len(spoken)
  /\ nstep \in {"voice", "align"} => timed = estimate /\ astatus = "pending"
PairedLines ==
  /\ nstep \in {"voice", "align", "translate"} => trans = <<>>
  /\ TranslationsAligned
NarrationInv == Spoken /\ Timed /\ SkippedKeepsEstimate /\ PairedLines /\ TrackExists

\* Originals are the lines themselves.
LEMMA OriginalLines ==
  ASSUME timed \in Seq(Audible)
  PROVE  /\ Len(Originals) = Len(timed) /\ DOMAIN Originals = DOMAIN timed
         /\ \A i \in DOMAIN Originals : Originals[i].line = i
<1> DEFINE text(i) == [line |-> i, how |-> "original"]
           out == [i \in 1..Len(timed) |-> text(i)]
<1>1. DOMAIN timed = 1..Len(timed) /\ Len(timed) \in Nat
  OBVIOUS
<1>2. Originals = out
  BY <1>1 DEF Originals
<1>3. \A i \in 1..Len(timed) : text(i).line = i
  OBVIOUS
<1> HIDE DEF text
<1>4. Len(out) = Len(timed) /\ DOMAIN out = 1..Len(timed)
  BY <1>1
<1> QED
  BY <1>1, <1>2, <1>3, <1>4

\* Nothing is said or timed before the run.
LEMMA NarrationStart == NarrationInit => NarrationInv
<1> SUFFICES ASSUME NarrationInit PROVE NarrationInv
  OBVIOUS
<1>1. PICK n \in 1..MaxLines : spoken \in [1..n -> VoiceTicks] /\ chars \in [1..n -> LineChars]
  BY DEF NarrationInit
<1>2. n \in Nat /\ VoiceTicks \subseteq Lengths /\ LineChars \subseteq Int
  BY NarrationAssumption DEF NarrationAssumption, Lengths
<1>3. spoken \in [1..n -> Lengths] /\ chars \in [1..n -> Int]
  BY <1>1, <1>2
<1>4. Spoken
  BY <1>2, <1>3 DEF Spoken
<1>5. Timed
  BY DEF NarrationInit, Timed, Spaced
<1>6. SkippedKeepsEstimate /\ PairedLines /\ TrackExists
  BY DEF NarrationInit, SkippedKeepsEstimate, PairedLines, TranslationsAligned, TrackExists
<1> QED
  BY <1>4, <1>5, <1>6 DEF NarrationInv

\* The voice lays its lines out; without it there is no timeline.
LEMMA VoiceKept == ASSUME NarrationInv, Voice \/ VoiceSkipped PROVE NarrationInv'
<1>1. Spoken /\ Timed /\ trans = <<>> /\ astatus = "pending" /\ nstep = "voice" /\ nstep' = "align"
      /\ UNCHANGED <<spoken, chars, astatus, trans>>
  BY DEF NarrationInv, Timed, PairedLines, Voice, VoiceSkipped
<1>2. Spoken'
  BY <1>1 DEF Spoken
<1>3. Timed'
  <2>1. CASE Voice
    <3>1. PICK target \in Durations : estimate' = FitDuration(spoken, target)
      BY <2>1 DEF Voice
    <3>2. target \in Nat /\ spoken \in Seq(Lengths)
      BY <1>1, NarrationAssumption DEF NarrationAssumption, Spoken
    <3>3. estimate' \in Seq(Audible) /\ Len(estimate') = Len(spoken) /\ Spaced(estimate')
      BY <3>1, <3>2, VoiceFits
    <3>4. timed' = estimate'
      BY <2>1 DEF Voice
    <3> QED
      BY <1>1, <3>3, <3>4 DEF Timed, Spaced
  <2>2. CASE VoiceSkipped
    BY <1>1, <2>2 DEF VoiceSkipped, Timed, Spaced
  <2> QED
    BY <2>1, <2>2
<1>4. SkippedKeepsEstimate' /\ PairedLines' /\ TrackExists'
  BY <1>1 DEF SkippedKeepsEstimate, PairedLines, TranslationsAligned, TrackExists
<1> QED
  BY <1>2, <1>3, <1>4 DEF NarrationInv

\* Alignment moves the cues, or says that it left them.
LEMMA AlignKept == ASSUME NarrationInv, Align PROVE NarrationInv'
<1>1. Spoken /\ Timed /\ trans = <<>> /\ timed = estimate /\ nstep' = "translate"
      /\ UNCHANGED <<spoken, chars, estimate, trans>>
  BY DEF NarrationInv, Timed, PairedLines, Align
<1> DEFINE Placed(segs) == segs \in Seq(Audible) /\ Len(segs) = Len(timed)
<1>2. Placed(timed)
  BY <1>1 DEF Timed
<1>3. ASSUME NEW heard \in Heard, heard # <<>> PROVE Placed(Remap(timed, heard))
  BY <1>2, <1>3, HeardIs, RemapAudible
<1>4. ASSUME NEW heard \in Heard, heard # <<>>, NEW words \in Heard
      PROVE  Placed(WordRemap(Remap(timed, heard), words))
  <2>1. Placed(Remap(timed, heard))
    BY <1>3, <1>4
  <2> QED
    BY <2>1, HeardIs, WordsAudible
<1> HIDE DEF Placed
<1>5. \E segs, status, mark : AlignTo(segs, status, mark) /\ Placed(segs)
                                /\ (status \in {"skipped", "disabled"} => segs = timed)
  <2>1. ASSUME NEW status, NEW mark, AlignTo(timed, status, mark)
        PROVE  \E segs, st, mk : AlignTo(segs, st, mk) /\ Placed(segs)
                                   /\ (st \in {"skipped", "disabled"} => segs = timed)
    BY <1>2, <2>1
  <2>2. ASSUME NEW heard \in Heard, WithSegments(heard)
        PROVE  \E segs, st, mk : AlignTo(segs, st, mk) /\ Placed(segs)
                                   /\ (st \in {"skipped", "disabled"} => segs = timed)
    <3>1. \/ AlignTo(timed, "skipped", fallback) \/ AlignTo(timed, "skipped", TRUE)
          \/ heard # <<>> /\ AlignTo(Remap(timed, heard), "success", TRUE)
      BY <2>2 DEF WithSegments
    <3>2. heard # <<>> => Placed(Remap(timed, heard))
      BY <1>3
    <3>3. "success" \notin {"skipped", "disabled"}
      OBVIOUS
    <3>4. CASE heard # <<>> /\ AlignTo(Remap(timed, heard), "success", TRUE)
      BY <3>2, <3>3, <3>4, Zenon
    <3> QED
      BY <2>1, <3>1, <3>4
  <2>3. ASSUME NEW heard \in Heard, NEW words \in Heard, NEW forced \in BOOLEAN,
               WithWhisperx(heard, words, forced)
        PROVE  \E segs, st, mk : AlignTo(segs, st, mk) /\ Placed(segs)
                                   /\ (st \in {"skipped", "disabled"} => segs = timed)
    <3> DEFINE mark == fallback \/ ~forced
               remapped == Remap(timed, heard)
               segs == IF forced /\ words # <<>> THEN WordRemap(remapped, words) ELSE remapped
               st == IF mark THEN (IF forced THEN astatus ELSE "failed") ELSE "success"
    <3>1. \/ \E mk : AlignTo(timed, "skipped", mk)
          \/ heard # <<>> /\ AlignTo(segs, st, mark)
      BY <2>3 DEF WithWhisperx
    <3>2. heard # <<>> => Placed(segs)
      BY <1>3, <1>4
    <3>3. st \notin {"skipped", "disabled"}
      <4>1. astatus = "pending"
        BY DEF NarrationInv, Timed, Align
      <4> QED
        BY <4>1
    <3> HIDE DEF segs, st, mark
    <3> QED
      BY <1>2, <3>1, <3>2, <3>3
  <2>4. \/ \E status, mark : AlignTo(timed, status, mark)
        \/ \E heard \in Heard : WithSegments(heard)
        \/ \E heard, words \in Heard, forced \in BOOLEAN : WithWhisperx(heard, words, forced)
    BY DEF Align, Recognize
  <2> QED
    BY <2>1, <2>2, <2>3, <2>4
<1>6. PICK segs, status, mark : AlignTo(segs, status, mark) /\ Placed(segs)
                                /\ (status \in {"skipped", "disabled"} => segs = timed)
  BY <1>5
<1>7. timed' \in Seq(Audible) /\ Len(timed') = Len(timed)
      /\ (astatus' \in {"skipped", "disabled"} => timed' = estimate')
  BY <1>1, <1>6 DEF AlignTo, Placed
<1>8. Spoken'
  BY <1>1 DEF Spoken
<1>9. Timed'
  <2>1. timed = <<>> => timed' = <<>>
    BY <1>2, <1>7 DEF Placed
  <2> QED
    BY <1>1, <1>7, <2>1 DEF Timed, Spaced
<1>10. SkippedKeepsEstimate' /\ PairedLines' /\ TrackExists'
  BY <1>1, <1>7 DEF SkippedKeepsEstimate, PairedLines, TranslationsAligned, TrackExists
<1> QED
  BY <1>8, <1>9, <1>10 DEF NarrationInv

\* What the translation stores is of each line, whichever chunks were answered.
LEMMA TranslateKept == ASSUME NarrationInv, Translate PROVE NarrationInv'
<1>1. Spoken /\ Timed /\ trans = <<>> /\ nstep' = "subtitle"
      /\ UNCHANGED <<spoken, chars, estimate, timed, astatus>>
  BY DEF NarrationInv, PairedLines, Translate
<1>2. Spoken' /\ Timed' /\ SkippedKeepsEstimate' /\ TrackExists'
  BY <1>1 DEF NarrationInv, Spoken, Timed, Spaced, SkippedKeepsEstimate, TrackExists
<1>3. Originals' = Originals
  BY <1>1 DEF Originals
<1>4. TranslationsAligned'
  <2>1. CASE trans' = <<>>
    BY <2>1 DEF TranslationsAligned
  <2>2. CASE trans' = Originals
    <3>1. timed \in Seq(Audible)
      BY <1>1 DEF Timed
    <3> QED
      BY <1>1, <1>3, <2>2, <3>1, OriginalLines DEF TranslationsAligned
  <2>3. CASE trans' = Translations(chars) /\ tstatus' = "success" /\ timed # <<>>
    <3>1. Len(timed) = Len(chars) /\ chars \in Seq(Int)
      BY <1>1, <2>3 DEF Timed, Spoken
    <3>2. DOMAIN trans' = 1..Len(chars) /\ Len(trans') = Len(timed')
          /\ \A i \in DOMAIN trans' : trans'[i].line = i
      BY <1>1, <2>3, <3>1, Rendered
    <3> QED
      BY <2>3, <3>2 DEF TranslationsAligned
  <2> QED
    BY <1>1, <2>1, <2>2, <2>3 DEF Translate, ViaLlm
<1> QED
  BY <1>1, <1>2, <1>4 DEF NarrationInv, PairedLines

\* The track to render is one that was written.
LEMMA SubtitleKept == ASSUME NarrationInv, Subtitle PROVE NarrationInv'
<1>1. /\ nstep' = "done"
      /\ UNCHANGED <<spoken, chars, estimate, timed, fallback, astatus, trans, tstatus>>
  BY DEF Subtitle
<1>2. Originals' = Originals
  BY <1>1 DEF Originals
<1>3. TrackExists'
  BY DEF Subtitle, TrackExists
<1> QED
  BY <1>1, <1>2, <1>3 DEF NarrationInv, Spoken, Timed, Spaced, SkippedKeepsEstimate, PairedLines,
                          TranslationsAligned

\* Every cue can be heard and follows the one before it in the estimate, a step that says
\* it did nothing left the estimate, every line has its own translation or none has one,
\* and the track to render exists: tts.py to subtitle.py, for any number of lines, any
\* durations and whatever is recognized.
THEOREM NarrationHolds == NarrationSpec => []NarrationSound
<1>1. NarrationInit => NarrationInv
  BY NarrationStart
<1>2. NarrationInv /\ [NarrationNext]_nvars => NarrationInv'
  <2> SUFFICES ASSUME NarrationInv, [NarrationNext]_nvars PROVE NarrationInv'
    OBVIOUS
  <2>1. CASE UNCHANGED nvars
    BY <2>1 DEF nvars, NarrationInv, Spoken, Timed, Spaced, SkippedKeepsEstimate, PairedLines,
                TranslationsAligned, Originals, TrackExists
  <2> QED
    BY <2>1, VoiceKept, AlignKept, TranslateKept, SubtitleKept DEF NarrationNext
<1>3. NarrationInv => NarrationSound
  <2> SUFFICES ASSUME NarrationInv PROVE NarrationSound
    OBVIOUS
  <2>1. EstimateContiguous
    <3> SUFFICES ASSUME NEW i \in DOMAIN estimate
                 PROVE  /\ estimate[i].start < estimate[i].end
                        /\ i > 1 => estimate[i].start >= estimate[i - 1].end + FloorPause
      BY DEF EstimateContiguous
    <3>1. estimate \in Seq(Audible) /\ Spaced(estimate)
      BY DEF NarrationInv, Timed
    <3>2. i \in 1..Len(estimate) /\ estimate[i] \in Audible
      BY <3>1
    <3>3. i > 1 => i \in 2..Len(estimate)
      BY <3>2
    <3> QED
      BY <3>1, <3>2, <3>3 DEF Audible, Spaced
  <2>2. CuesAudible
    BY DEF NarrationInv, Timed, CuesAudible, Audible
  <2> QED
    BY <2>1, <2>2 DEF NarrationInv, PairedLines, NarrationSound
<1> QED
  BY <1>1, <1>2, <1>3, PTL DEF NarrationSpec

-----------------------------------------------------------------------------
\* The checks of a run

\* A note is found under its key, and the others stay as they were.
LEMMA Noted ==
  ASSUME NEW key, NEW figure, Note(key, figure)
  PROVE  /\ DOMAIN figures' = {key} \cup DOMAIN figures
         /\ figures'[key] = figure
         /\ \A k \in DOMAIN figures \ {key} : figures'[k] = figures[k]
BY DEF Note, With

\* What is wrong with a script is a number.
LEMMA IssuesCount ==
  ASSUME NEW s \in Seq(Line)
  PROVE  ScriptIssues(s) \in Nat
<1> DEFINE A == {i \in DOMAIN s : s[i].len < 2 \/ s[i].len > UpperBound}
           B == {p \in (DOMAIN s) \X (DOMAIN s) : p[1] < p[2] /\ s[p[1]].gist = s[p[2]].gist}
<1>1. IsFiniteSet(DOMAIN s)
  BY FS_Interval
<1>2. Cardinality(A) \in Nat
  BY <1>1, FS_Subset, FS_CardinalityType
<1>3. Cardinality(B) \in Nat
  BY <1>1, FS_Product, FS_Subset, FS_CardinalityType
<1>4. ScriptIssues(s) = Cardinality(A) + Cardinality(B)
                          + (IF s # <<>> /\ s[1].len < 4 THEN 1 ELSE 0)
  BY DEF ScriptIssues, Count
<1> HIDE DEF A, B
<1> QED
  BY <1>2, <1>3, <1>4

\* A share of a whole is a percentage.
LEMMA SharePercent ==
  ASSUME NEW whole \in Nat, whole > 0, NEW part \in 0..whole
  PROVE  Share(part, whole) \in 0..100
<1>1. 0 <= 100 * part /\ 100 * part <= 100 * whole
  OBVIOUS
<1>2. (100 * part) \div whole \in 0..100
  BY <1>1
<1> QED
  BY <1>2 DEF Share

\* The mean of the points lies between their bounds, whichever are missing.
LEMMA MeanBetween ==
  ASSUME NEW scores, "script" \in DOMAIN scores, NEW lo \in Int, NEW hi \in Int,
         \A x \in DOMAIN scores : scores[x] \in lo..hi
  PROVE  Overall(scores) \in lo..hi
<1> DEFINE p == AddUp(Points(scores))
           w == AddUp(Weighed(scores))
           has(x) == IF x \in DOMAIN scores THEN Weight[x] ELSE 0
           won(x) == IF x \in DOMAIN scores THEN Weight[x] * scores[x] ELSE 0
           all == {"script", "audio", "alignment", "subtitle", "translation", "deliverable",
                   "video"}
<1>0. DOMAIN Weight = all
  BY DEF Weight
<1>1. \A x \in all : /\ has(x) \in Nat /\ won(x) \in Int
                      /\ lo * has(x) <= won(x) /\ won(x) <= hi * has(x)
  <2> SUFFICES ASSUME NEW x \in all, x \in DOMAIN scores
               PROVE  /\ Weight[x] \in Nat /\ Weight[x] * scores[x] \in Int
                      /\ lo * Weight[x] <= Weight[x] * scores[x]
                      /\ Weight[x] * scores[x] <= hi * Weight[x]
    <3>1. lo * 0 = 0 /\ hi * 0 = 0
      OBVIOUS
    <3> QED
      BY <3>1
  <2>1. Weight[x] \in {10, 15}
    BY DEF Weight
  <2>2. scores[x] \in Int /\ lo <= scores[x] /\ scores[x] <= hi
    OBVIOUS
  <2> HIDE DEF all
  <2> QED
    BY <2>1, <2>2
<1>2. has("script") = 10
  BY DEF Weight
<1> HIDE DEF has, won
<1>3. p = won("script") + won("audio") + won("alignment") + won("subtitle")
            + won("translation") + won("deliverable") + won("video")
  BY <1>0 DEF AddUp, Points, won
<1>4. w = has("script") + has("audio") + has("alignment") + has("subtitle")
            + has("translation") + has("deliverable") + has("video")
  BY <1>0 DEF AddUp, Weighed, has
<1>5. w \in Nat /\ p \in Int /\ w >= 10
  BY <1>1, <1>2, <1>3, <1>4
<1>6. /\ lo * w = lo * has("script") + lo * has("audio") + lo * has("alignment")
                    + lo * has("subtitle") + lo * has("translation")
                    + lo * has("deliverable") + lo * has("video")
      /\ hi * w = hi * has("script") + hi * has("audio") + hi * has("alignment")
                    + hi * has("subtitle") + hi * has("translation")
                    + hi * has("deliverable") + hi * has("video")
  BY <1>1, <1>4
<1>7. lo * w <= p /\ p <= hi * w
  <2>1. \A x \in all : lo * has(x) \in Int /\ hi * has(x) \in Int
    BY <1>1
  <2> QED
    BY <1>1, <1>3, <1>6, <2>1
<1> HIDE DEF p, w
<1>8. p \div w \in lo..hi
  BY <1>5, <1>7
<1> QED
  BY <1>8 DEF p, w, Overall

\* Some of the members of a sequence are at most all of them.
LEMMA SomeOfAll ==
  ASSUME NEW A, NEW s \in Seq(A), NEW T \in SUBSET DOMAIN s
  PROVE  IsFiniteSet(T) /\ Cardinality(T) \in 0..Len(s)
<1>1. DOMAIN s = 1..Len(s) /\ Len(s) \in Nat
  OBVIOUS
<1>2. IsFiniteSet(1..Len(s)) /\ Cardinality(1..Len(s)) = Len(s)
  BY <1>1, CountUpTo
<1> QED
  BY <1>1, <1>2, FS_Subset, FS_CardinalityType

\* what the metadata holds, and of which run
FiguresTrue ==
  /\ Known("script") => figures["script"] = ScriptIssues(screenplay)
  /\ Known("audio") => figures["audio"] = recording
  /\ Known("alignment") =>
       /\ figures["alignment"].total_segments \in Nat
       /\ figures["alignment"].low_confidence_count \in 0..figures["alignment"].total_segments
  /\ Known("untranslated") => figures["untranslated"] \in Nat
  /\ Known("subtitles") =>
       /\ "original" \in DOMAIN figures["subtitles"]
       /\ \A t \in {"original", "translated"} \cap DOMAIN figures["subtitles"] :
            "total_cues" \notin DOMAIN figures["subtitles"][t]

MadeTyped ==
  /\ inspect \in Inspection /\ footage \in Film
  /\ screenplay \in Seq(Line) /\ recording \in Seq(Segment) /\ captions \in Seq(Caption)

\* No dimension scores less than nothing or more than everything.
LEMMA ScorePercent ==
  ASSUME FiguresTrue, MadeTyped, NEW encoding, IsFiniteSet(encoding), NEW x \in Dimensions
  PROVE  Score(x, encoding) \in 0..100
<1>0. ASSUME NEW n \in Int, n <= 100 PROVE AtLeast0(n) \in 0..100
  BY <1>0 DEF AtLeast0
<1>1. CASE x = "script"
  <2>1. figures["script"] \in Nat
    BY <1>1, IssuesCount DEF Dimensions, FiguresTrue, MadeTyped
  <2>2. 100 - 10 * figures["script"] \in Int /\ 100 - 10 * figures["script"] <= 100
    BY <2>1
  <2> QED
    BY <1>0, <1>1, <2>2 DEF Score
<1>2. CASE x = "audio"
  <2>1. figures["audio"] \in Seq(Segment) /\ Len(figures["audio"]) > 0
    BY <1>2 DEF Dimensions, FiguresTrue, MadeTyped
  <2> DEFINE a == figures["audio"]
             T == {i \in DOMAIN a : SoundIssues(a[i]) = {}}
  <2>2. Cardinality(T) \in 0..Len(a) /\ Len(a) \in Nat
    BY <2>1, SomeOfAll
  <2>3. Score(x, encoding) = Share(Cardinality(T), Len(a))
    BY <1>2 DEF Score, Count
  <2> HIDE DEF T
  <2> QED
    BY <2>1, <2>2, <2>3, SharePercent
<1>3. CASE x = "alignment"
  <2> DEFINE a == figures["alignment"]
  <2>1. /\ a.total_segments \in Nat /\ a.total_segments > 0
        /\ a.total_segments - a.low_confidence_count \in 0..a.total_segments
    BY <1>3 DEF Dimensions, FiguresTrue
  <2>2. Score(x, encoding) = Share(a.total_segments - a.low_confidence_count, a.total_segments)
    BY <1>3 DEF Score
  <2> HIDE DEF a
  <2> QED
    BY <2>1, <2>2, SharePercent
<1>4. x # "subtitle"
  <2> SUFFICES ASSUME Known("subtitles"), TrackSum("total_cues") > 0 PROVE FALSE
    BY DEF Dimensions
  <2>1. TrackSum("total_cues") = 0
    BY DEF FiguresTrue, TrackSum, Get
  <2> QED
    BY <2>1
<1>5. CASE x = "translation"
  <2>1. figures["untranslated"] \in Nat
    BY <1>5 DEF Dimensions, FiguresTrue
  <2>2. 100 - 5 * figures["untranslated"] \in Int /\ 100 - 5 * figures["untranslated"] <= 100
    BY <2>1
  <2> QED
    BY <1>0, <1>5, <2>2 DEF Score
<1>6. CASE x = "deliverable"
  BY <1>6 DEF Score
<1>7. CASE x = "video"
  <2>1. Cardinality(encoding) \in Nat
    BY FS_CardinalityType
  <2>2. 100 - 15 * Cardinality(encoding) \in Int /\ 100 - 15 * Cardinality(encoding) <= 100
    BY <2>1
  <2> QED
    BY <1>0, <1>7, <2>2 DEF Score
<1> QED
  BY <1>1, <1>2, <1>3, <1>4, <1>5, <1>6, <1>7 DEF Dimensions, Weight

\* The dashboard's overall score lies between its worst dimension and its best.
LEMMA DashboardFits ==
  ASSUME FiguresTrue, MadeTyped, Known("script"), NEW encoding, IsFiniteSet(encoding)
  PROVE  LET d == Dashboard(encoding)
             all == {d.scores[x] : x \in DOMAIN d.scores}
         IN  /\ "script" \in DOMAIN d.scores
             /\ d.scores["script"] = AtLeast0(100 - 10 * ScriptIssues(screenplay))
             /\ d.overall \in Min(all) .. Max(all)
<1> DEFINE scores == [x \in Dimensions |-> Score(x, encoding)]
           all == {scores[x] : x \in DOMAIN scores}
<1>1. "script" \in Dimensions /\ Score("script", encoding) = AtLeast0(100 - 10 * ScriptIssues(screenplay))
  BY DEF Dimensions, Weight, Score, FiguresTrue
<1>2. \A x \in DOMAIN scores : scores[x] \in 0..100
  BY ScorePercent
<1>3. DOMAIN scores = Dimensions /\ scores["script"] = Score("script", encoding)
  BY <1>1
<1> HIDE DEF scores
<1>4. all \in SUBSET (0..100) /\ all # {} /\ all \in SUBSET Nat
  BY <1>1, <1>2, <1>3
<1>5. /\ Min(all) \in all /\ \A y \in all : Min(all) <= y
      /\ Max(all) \in all /\ \A y \in all : Max(all) >= y
  <2> HIDE DEF all
  <2>1. 100 \in Nat
    OBVIOUS
  <2> QED
    BY <1>4, <2>1, MinIsLeast, MaxIsGreatest
<1>6. Min(all) \in Int /\ Max(all) \in Int
  <2>1. \A y \in all : y \in Int
    BY <1>2
  <2> HIDE DEF all
  <2> QED
    BY <1>5, <2>1
<1>7. \A x \in DOMAIN scores : scores[x] \in Min(all)..Max(all)
  <2> SUFFICES ASSUME NEW x \in DOMAIN scores PROVE scores[x] \in Min(all)..Max(all)
    OBVIOUS
  <2>1. scores[x] \in all /\ scores[x] \in Int
    BY <1>2
  <2> HIDE DEF all
  <2> QED
    BY <1>5, <1>6, <2>1
<1>8. Overall(scores) \in Min(all)..Max(all)
  <2> HIDE DEF all
  <2> QED
    BY <1>1, <1>3, <1>6, <1>7, MeanBetween
<1>9. Dashboard(encoding).scores = scores /\ Dashboard(encoding).overall = Overall(scores)
  BY DEF Dashboard, scores
<1> QED
  BY <1>1, <1>3, <1>8, <1>9

\* Finitely many numbers have an upper bound.
LEMMA BoundedValues ==
  ASSUME NEW n \in Nat, NEW f, \A i \in 1..n : f[i] \in Nat
  PROVE  \E b \in Nat : \A i \in 1..n : f[i] <= b
<1> DEFINE Bounded(k) == \E b \in Nat : \A i \in 1..k : f[i] <= b
           B == {k \in Nat : k <= n => Bounded(k)}
<1>1. 0 \in B
  OBVIOUS
<1>2. \A k \in Nat : k \in B => k + 1 \in B
  <2>1. ASSUME NEW k \in Nat, k + 1 <= n, Bounded(k) PROVE Bounded(k + 1)
    <3>1. PICK b \in Nat : \A i \in 1..k : f[i] <= b
      BY <2>1
    <3>2. f[k + 1] \in Nat /\ b + f[k + 1] \in Nat
      BY <2>1
    <3>3. ASSUME NEW i \in 1..k + 1 PROVE f[i] <= b + f[k + 1]
      <4>1. f[i] \in Nat
        BY <2>1
      <4>2. i \in 1..k \/ i = k + 1
        OBVIOUS
      <4> QED
        BY <3>1, <3>2, <4>1, <4>2
    <3> QED
      BY <3>2, <3>3
  <2> HIDE DEF Bounded
  <2> QED
    BY <2>1
<1>3. \A k \in Nat : k \in B
  <2> HIDE DEF B
  <2> QED
    BY <1>1, <1>2, EveryNatural
<1>4. Bounded(n)
  <2> HIDE DEF Bounded
  <2> QED
    BY <1>3
<1> QED
  BY <1>4

\* The narration ends at some moment.
LEMMA ExpectedNumber ==
  ASSUME captions \in Seq(Caption)
  PROVE  Expected \in Nat
<1> DEFINE n == Len(captions)
           end == [i \in 1..n |-> captions[i].end]
           ends == {captions[i].end : i \in DOMAIN captions}
<1>1. n \in Nat /\ \A i \in 1..n : captions[i].end \in Nat
  <2>1. \A i \in 1..n : captions[i] \in Caption
    OBVIOUS
  <2> QED
    BY <2>1 DEF Caption
<1>2. \A i \in 1..n : end[i] = captions[i].end
  OBVIOUS
<1>3. PICK b \in Nat : \A i \in 1..n : end[i] <= b
  <2> HIDE DEF end, n
  <2> QED
    BY <1>1, <1>2, BoundedValues
<1>4. {0} \cup ends \in SUBSET (0..b) /\ {0} \cup ends # {}
  BY <1>1, <1>2, <1>3
<1>5. Max({0} \cup ends) \in {0} \cup ends
  <2> HIDE DEF ends
  <2> QED
    BY <1>4, MaxIsGreatest
<1>6. Max({0} \cup ends) \in Nat
  <2> HIDE DEF ends
  <2> QED
    BY <1>4, <1>5
<1> QED
  BY <1>6 DEF Expected

\* A film without issues was found, plays picture and sound, and has the right length.
LEMMA Playable ==
  ASSUME footage \in Film, Expected \in Nat, DeliverableIssues(footage) = {}
  PROVE  /\ footage.there /\ footage.video /\ footage.audio /\ footage.volume = "loud"
         /\ \/ footage.ticks = 0 \/ Expected = 0
            \/ 100 * footage.ticks \in 85 * Expected .. 125 * Expected
<1> DEFINE f == footage
<1>1. f.there
  BY DEF DeliverableIssues
<1>2. "no_video" \notin DeliverableIssues(f) => f.video
  BY <1>1 DEF DeliverableIssues
<1>3. "no_audio" \notin DeliverableIssues(f) => f.audio
  BY <1>1 DEF DeliverableIssues
<1>4. "silent" \notin DeliverableIssues(f) => f.volume # "silent"
  BY <1>1 DEF DeliverableIssues
<1>5. "volume_unknown" \notin DeliverableIssues(f) => f.volume # "unknown" \/ ~f.audio
  BY <1>1 DEF DeliverableIssues
<1>6. "too_short" \notin DeliverableIssues(f) =>
         Expected = 0 \/ f.ticks = 0 \/ 100 * f.ticks >= 85 * Expected
  BY <1>1 DEF DeliverableIssues, Film
<1>7. "too_long" \notin DeliverableIssues(f) => Expected = 0 \/ 100 * f.ticks <= 125 * Expected
  BY <1>1 DEF DeliverableIssues, Film
<1>8. f.volume \in {"loud", "silent", "unknown"} /\ f.ticks \in Nat
  BY DEF Film
<1>9. \A x : x \notin DeliverableIssues(f)
  OBVIOUS
<1> HIDE DEF f
<1>10. f.video /\ f.audio /\ f.volume = "loud"
  BY <1>2, <1>3, <1>4, <1>5, <1>8, <1>9
<1>11. Expected = 0 \/ f.ticks = 0 \/ 100 * f.ticks \in 85 * Expected .. 125 * Expected
  BY <1>6, <1>7, <1>8, <1>9
<1> QED
  BY <1>1, <1>10, <1>11 DEF f

\* The checks' inductive invariant: the figures of the script and of the recording
\* are those of the script and the recording the film is made of.
QualityInv ==
  /\ MadeTyped /\ FiguresTrue
  /\ qstep \in ToSet(Stations) \cup {"done", "refused", "rejected"}
  /\ qstep # "script" => Known("script")
  /\ qstep \notin {"script", "voice"} => Known("audio")
  /\ Gated => Known("gate")
  /\ QualitySound

LEMMA QualityStart == QualityInit => QualityInv
<1> SUFFICES ASSUME QualityInit PROVE QualityInv
  OBVIOUS
<1>1. MadeTyped
  BY QualityAssumption DEF QualityInit, MadeTyped, NoFilm, Film
<1>2. FiguresTrue /\ ~Gated /\ qstep = "script"
  BY DEF QualityInit, FiguresTrue, Known, Gated
<1>3. qstep \in ToSet(Stations)
  <2>1. Stations[1] = "script" /\ 1 \in DOMAIN Stations
    BY DEF Stations
  <2> QED
    BY <1>2, <2>1 DEF ToSet
<1> QED
  BY <1>1, <1>2, <1>3 DEF QualityInv, QualitySound, GateHonest, ReleasedIsPlayable, DashboardSound

\* Before the gate nothing is promised of the gate or of the film.
LEMMA ToTheGate ==
  ASSUME qstep' \in {"script", "voice", "align", "translate", "subtitle", "gate"}
  PROVE  ~Gated' /\ QualitySound' /\ qstep' \in ToSet(Stations)
<1>1. ~Gated' /\ QualitySound'
  BY DEF Gated, QualitySound, GateHonest, ReleasedIsPlayable, DashboardSound
<1>2. \A x \in {"script", "voice", "align", "translate", "subtitle", "gate"} :
        \E i \in DOMAIN Stations : Stations[i] = x
  BY DEF Stations
<1> QED
  BY <1>1, <1>2 DEF ToSet

LEMMA ScriptWritten == ASSUME QualityInv, WriteScript PROVE QualityInv'
<1>1. PICK s \in Scripts : screenplay' = s /\ Note("script", ScriptIssues(s))
  BY DEF WriteScript, StoreScript
<1>2. /\ qstep = "script" /\ qstep' = "voice"
      /\ UNCHANGED <<inspect, recording, captions, wording, footage>>
  BY DEF WriteScript, Made
<1>3. MadeTyped'
  BY <1>1, <1>2, QualityAssumption DEF QualityInv, MadeTyped
<1>4. /\ DOMAIN figures' = {"script"} \cup DOMAIN figures
      /\ figures'["script"] = ScriptIssues(screenplay')
      /\ \A k \in DOMAIN figures \ {"script"} : figures'[k] = figures[k]
  BY <1>1, Noted
<1>5. FiguresTrue'
  BY <1>2, <1>4 DEF QualityInv, FiguresTrue, Known
<1>6. Known("script")'
  BY <1>4 DEF Known
<1> QED
  BY <1>2, <1>3, <1>5, <1>6, ToTheGate DEF QualityInv

LEMMA VoiceRecorded == ASSUME QualityInv, Record PROVE QualityInv'
<1>1. PICK a \in Recorded : recording' = a /\ Note("audio", a)
  BY DEF Record
<1>2. /\ qstep = "voice" /\ qstep' = "align"
      /\ UNCHANGED <<inspect, screenplay, captions, wording, footage>>
  BY DEF Record, Made
<1>3. MadeTyped'
  BY <1>1, <1>2, QualityAssumption DEF QualityInv, MadeTyped
<1>4. /\ DOMAIN figures' = {"audio"} \cup DOMAIN figures
      /\ figures'["audio"] = recording'
      /\ \A k \in DOMAIN figures \ {"audio"} : figures'[k] = figures[k]
  BY <1>1, Noted
<1>5. FiguresTrue'
  BY <1>2, <1>4 DEF QualityInv, FiguresTrue, Known
<1>6. Known("script")' /\ Known("audio")'
  BY <1>2, <1>4 DEF QualityInv, Known
<1> QED
  BY <1>2, <1>3, <1>5, <1>6, ToTheGate DEF QualityInv

LEMMA CuesAligned == ASSUME QualityInv, AlignCues PROVE QualityInv'
<1>1. /\ qstep = "align" /\ qstep' = "translate"
      /\ UNCHANGED <<inspect, screenplay, recording, wording, footage>>
  BY DEF AlignCues, Made
<1>2. PICK cs \in Cued :
        \/ captions' = cs /\ Note("alignment", [total_segments |-> Len(cs),
                             low_confidence_count |-> Count(cs, Doubtful)])
        \/ captions' = [i \in DOMAIN cs |-> [cs[i] EXCEPT !.sure = 0]] /\ UNCHANGED figures
  BY DEF AlignCues
<1>3. cs \in Seq(Caption)
  BY QualityAssumption
<1>4. CASE /\ captions' = cs
           /\ Note("alignment", [total_segments |-> Len(cs),
                                 low_confidence_count |-> Count(cs, Doubtful)])
  <2> DEFINE T == {i \in DOMAIN cs : Doubtful(cs[i])}
  <2>1. Cardinality(T) \in 0..Len(cs) /\ Len(cs) \in Nat
    BY <1>3, SomeOfAll
  <2>2. Count(cs, Doubtful) = Cardinality(T)
    BY DEF Count
  <2> HIDE DEF T
  <2>3. /\ DOMAIN figures' = {"alignment"} \cup DOMAIN figures
        /\ figures'["alignment"] = [total_segments |-> Len(cs),
                                    low_confidence_count |-> Cardinality(T)]
        /\ \A k \in DOMAIN figures \ {"alignment"} : figures'[k] = figures[k]
    BY <1>4, <2>2, Noted
  <2>4. FiguresTrue'
    BY <1>1, <2>1, <2>3 DEF QualityInv, FiguresTrue, Known
  <2>5. MadeTyped' /\ Known("script")' /\ Known("audio")'
    BY <1>1, <1>3, <1>4, <2>3 DEF QualityInv, MadeTyped, Known
  <2> QED
    BY <1>1, <2>4, <2>5, ToTheGate DEF QualityInv
<1>5. CASE captions' = [i \in DOMAIN cs |-> [cs[i] EXCEPT !.sure = 0]] /\ UNCHANGED figures
  <2>1. captions' \in Seq(Caption)
    <3>1. \A i \in DOMAIN cs : [cs[i] EXCEPT !.sure = 0] \in Caption
      <4> SUFFICES ASSUME NEW c \in Caption PROVE [c EXCEPT !.sure = 0] \in Caption
        BY <1>3
      <4>1. 0 \in 0..100
        OBVIOUS
      <4> QED
        BY <4>1 DEF Caption
    <3>2. DOMAIN cs = 1..Len(cs) /\ Len(cs) \in Nat
      BY <1>3
    <3> QED
      BY <1>5, <3>1, <3>2
  <2>2. MadeTyped' /\ FiguresTrue' /\ Known("script")' /\ Known("audio")'
    BY <1>1, <1>5, <2>1 DEF QualityInv, MadeTyped, FiguresTrue, Known
  <2> QED
    BY <1>1, <2>2, ToTheGate DEF QualityInv
<1> QED
  BY <1>2, <1>4, <1>5

LEMMA CuesTranslated == ASSUME QualityInv, TranslateCues PROVE QualityInv'
<1>1. /\ qstep = "translate" /\ qstep' = "subtitle"
      /\ UNCHANGED <<inspect, screenplay, recording, captions, footage>>
  BY DEF TranslateCues, Made
<1>2. MadeTyped'
  BY <1>1 DEF QualityInv, MadeTyped
<1>3. CASE UNCHANGED figures
  BY <1>1, <1>2, <1>3, ToTheGate DEF QualityInv, FiguresTrue, Known
<1>4. CASE \E ts \in [DOMAIN captions -> {"same", "new"}] :
             Note("untranslated", Cardinality(Same(ts)))
  <2>1. PICK ts \in [DOMAIN captions -> {"same", "new"}] :
          Note("untranslated", Cardinality(Same(ts)))
    BY <1>4
  <2>2. Cardinality(Same(ts)) \in Nat
    <3>1. captions \in Seq(Caption) /\ Same(ts) \in SUBSET DOMAIN captions
      BY DEF QualityInv, MadeTyped, Same
    <3>2. Cardinality(Same(ts)) \in 0..Len(captions) /\ Len(captions) \in Nat
      BY <3>1, SomeOfAll
    <3> QED
      BY <3>2
  <2>3. /\ DOMAIN figures' = {"untranslated"} \cup DOMAIN figures
        /\ figures'["untranslated"] = Cardinality(Same(ts))
        /\ \A k \in DOMAIN figures \ {"untranslated"} : figures'[k] = figures[k]
    BY <2>1, Noted
  <2>4. FiguresTrue' /\ Known("script")' /\ Known("audio")'
    BY <1>1, <2>2, <2>3 DEF QualityInv, FiguresTrue, Known
  <2> QED
    BY <1>1, <1>2, <2>4, ToTheGate DEF QualityInv
<1> QED
  BY <1>3, <1>4 DEF TranslateCues

LEMMA CuesMeasured == ASSUME QualityInv, MeasureCues PROVE QualityInv'
<1>1. /\ qstep = "subtitle" /\ qstep' = "gate"
      /\ UNCHANGED <<inspect, screenplay, recording, captions, wording, footage>>
  BY DEF MeasureCues, Made
<1>2. \A cs : "total_cues" \notin DOMAIN Track(cs)
  BY DEF Track
<1> DEFINE one == [original |-> Track(captions)]
           both == [original |-> Track(captions), translated |-> Track(Translated),
                    display_fit |-> Count(Translated, LAMBDA c : ~Fits2Lines(c))]
<1>3. PICK held \in {one, both} : Note("subtitles", held)
  BY DEF MeasureCues
<1>4. /\ "original" \in DOMAIN held
      /\ \A t \in {"original", "translated"} \cap DOMAIN held :
           "total_cues" \notin DOMAIN held[t]
  BY <1>2
<1>5. /\ DOMAIN figures' = {"subtitles"} \cup DOMAIN figures
      /\ figures'["subtitles"] = held
      /\ \A k \in DOMAIN figures \ {"subtitles"} : figures'[k] = figures[k]
  BY <1>3, Noted
<1>6. FiguresTrue' /\ MadeTyped' /\ Known("script")' /\ Known("audio")'
  BY <1>1, <1>4, <1>5 DEF QualityInv, FiguresTrue, MadeTyped, Known
<1> QED
  BY <1>1, <1>6, ToTheGate DEF QualityInv

LEMMA LaterStations == {"render", "validate"} \subseteq ToSet(Stations)
<1>1. /\ 7 \in DOMAIN Stations /\ Stations[7] = "render"
      /\ 8 \in DOMAIN Stations /\ Stations[8] = "validate"
  BY DEF Stations
<1> QED
  BY <1>1 DEF ToSet

LEMMA GateJudges == ASSUME QualityInv, Gate PROVE QualityInv'
<1>1. /\ qstep = "gate" /\ qstep' \in {"refused", "render"}
      /\ UNCHANGED <<inspect, screenplay, recording, captions, wording, footage, retakes>>
      /\ GateSkipped' = GateSkipped
  BY DEF Gate, GateSkipped
<1>2. /\ Known("script") /\ figures["script"] = ScriptIssues(screenplay)
      /\ Known("audio") /\ figures["audio"] = recording
  BY <1>1 DEF QualityInv, FiguresTrue
<1>3. /\ "script" \in GateIssues <=> ScriptIssues(screenplay) > MaxScriptIssues
      /\ "audio" \in GateIssues <=> \E i \in DOMAIN recording : recording[i].clip > 100
  BY <1>2 DEF GateIssues
<1>4. CASE GateSkipped
  <2>1. UNCHANGED figures /\ qstep' = "render" /\ ~Gated'
    BY <1>1, <1>4 DEF Gate, Gated
  <2>2. MadeTyped' /\ FiguresTrue' /\ Known("script")' /\ Known("audio")'
    BY <1>1, <2>1, <1>2 DEF QualityInv, MadeTyped, FiguresTrue, Known
  <2> QED
    BY <2>1, <2>2, LaterStations DEF QualityInv, QualitySound, GateHonest, ReleasedIsPlayable,
                                     DashboardSound
<1>5. CASE ~GateSkipped
  <2>1. Note("gate", GateIssues) /\ (inspect.strict /\ qstep' # "refused" => GateIssues = {})
    BY <1>5 DEF Gate
  <2>2. /\ DOMAIN figures' = {"gate"} \cup DOMAIN figures
        /\ figures'["gate"] = GateIssues
        /\ \A k \in DOMAIN figures \ {"gate"} : figures'[k] = figures[k]
    BY <2>1, Noted
  <2>3. MadeTyped' /\ FiguresTrue' /\ Known("script")' /\ Known("audio")' /\ Known("gate")'
    BY <1>1, <2>2, <1>2 DEF QualityInv, MadeTyped, FiguresTrue, Known
  <2>4. GateHonest'
    BY <1>1, <1>3, <2>1, <2>2 DEF GateHonest
  <2>5. qstep' \in ToSet(Stations) \cup {"refused"} /\ qstep' # "done"
    BY <1>1, LaterStations
  <2> QED
    BY <1>1, <2>3, <2>4, <2>5 DEF QualityInv, QualitySound, ReleasedIsPlayable, DashboardSound
<1> QED
  BY <1>4, <1>5

LEMMA FilmRendered == ASSUME QualityInv, RenderFilm PROVE QualityInv'
<1>1. /\ qstep = "render" /\ qstep' = "validate" /\ footage' \in Films
      /\ UNCHANGED <<inspect, screenplay, recording, captions, wording, figures>>
      /\ GateSkipped' = GateSkipped
  BY DEF RenderFilm, Made, GateSkipped
<1>2. MadeTyped' /\ FiguresTrue' /\ Known("script")' /\ Known("audio")'
  BY <1>1, QualityAssumption DEF QualityInv, MadeTyped, FiguresTrue, Known
<1>3. Gated <=> Gated'
  BY <1>1 DEF Gated
<1>4. GateHonest' /\ (Gated => Known("gate"))'
  BY <1>1, <1>3 DEF QualityInv, QualitySound, GateHonest, Known
<1> QED
  BY <1>1, <1>2, <1>4, LaterStations DEF QualityInv, QualitySound, ReleasedIsPlayable,
                                         DashboardSound

LEMMA FilmValidated == ASSUME QualityInv, Validate PROVE QualityInv'
<1> DEFINE issues == DeliverableIssues(footage)
           encoding == EncodingIssues(footage)
<1>1. /\ qstep = "validate" /\ qstep' \in {"done", "rejected"}
      /\ UNCHANGED <<inspect, screenplay, recording, captions, wording, footage, retakes>>
      /\ GateSkipped' = GateSkipped /\ Validates' = Validates /\ Expected' = Expected
  BY DEF Validate, GateSkipped, Validates, Expected
<1>2. Known("script") /\ Known("audio") /\ MadeTyped /\ FiguresTrue /\ GateHonest
  BY <1>1 DEF QualityInv, QualitySound
<1>3. MadeTyped' /\ (Gated <=> Gated')
  BY <1>1, <1>2 DEF MadeTyped, Gated
<1>4. ASSUME DOMAIN figures \subseteq DOMAIN figures',
             \A k \in DOMAIN figures \ {"report", "video", "dashboard"} : figures'[k] = figures[k],
             DOMAIN figures' \subseteq DOMAIN figures \cup {"report", "video", "dashboard"}
      PROVE  /\ FiguresTrue' /\ Known("script")' /\ Known("audio")'
             /\ GateHonest' /\ (Gated => Known("gate"))'
  <2>1. FiguresTrue' /\ Known("script")' /\ Known("audio")'
    BY <1>1, <1>2, <1>4 DEF FiguresTrue, Known
  <2>2. GateHonest' /\ (Gated => Known("gate"))'
    BY <1>1, <1>2, <1>3, <1>4 DEF QualityInv, GateHonest, Known
  <2> QED
    BY <2>1, <2>2
<1>5. CASE ~Validates
  <2>1. UNCHANGED figures /\ ~Validates'
    BY <1>1, <1>5 DEF Validate
  <2> QED
    BY <1>1, <1>3, <1>4, <2>1 DEF QualityInv, QualitySound, ReleasedIsPlayable, DashboardSound
<1>6. CASE Validates /\ issues # {}
  <2>1. qstep' = "rejected" /\ Note("report", issues)
    BY <1>6 DEF Validate
  <2>2. /\ DOMAIN figures' = {"report"} \cup DOMAIN figures
        /\ \A k \in DOMAIN figures \ {"report"} : figures'[k] = figures[k]
    <3> HIDE DEF issues
    <3> QED
      BY <2>1, Noted
  <2> QED
    BY <1>3, <1>4, <2>1, <2>2 DEF QualityInv, QualitySound, ReleasedIsPlayable, DashboardSound
<1>7. CASE Validates /\ issues = {}
  <2>1. /\ qstep' = "done"
        /\ figures' = With(With(With(figures, "report", issues), "video", encoding),
                           "dashboard", Dashboard(encoding))
    BY <1>7 DEF Validate
  <2> DEFINE board == Dashboard(encoding)
  <2>2. IsFiniteSet(encoding)
    <3>1. encoding \in SUBSET {"codec", "resolution", "aspect", "bitrate", "4k"}
      BY DEF EncodingIssues
    <3>2. IsFiniteSet({"codec", "resolution", "aspect", "bitrate", "4k"})
      <4>1. IsFiniteSet({"codec"} \cup {"resolution"} \cup {"aspect"} \cup {"bitrate"} \cup {"4k"})
        <5>1. IsFiniteSet({"codec"} \cup {"resolution"})
          BY FS_Singleton, FS_Union
        <5>2. IsFiniteSet({"codec"} \cup {"resolution"} \cup {"aspect"})
          BY <5>1, FS_Singleton, FS_Union
        <5>3. IsFiniteSet({"codec"} \cup {"resolution"} \cup {"aspect"} \cup {"bitrate"})
          BY <5>2, FS_Singleton, FS_Union
        <5> QED
          BY <5>3, FS_Singleton, FS_Union
      <4>2. {"codec"} \cup {"resolution"} \cup {"aspect"} \cup {"bitrate"} \cup {"4k"}
              = {"codec", "resolution", "aspect", "bitrate", "4k"}
        OBVIOUS
      <4> QED
        BY <4>1, <4>2
    <3> HIDE DEF encoding
    <3> QED
      BY <3>1, <3>2, FS_Subset
  <2> HIDE DEF encoding, issues
  <2>3. /\ DOMAIN figures' = DOMAIN figures \cup {"report", "video", "dashboard"}
        /\ \A k \in DOMAIN figures \ {"report", "video", "dashboard"} : figures'[k] = figures[k]
        /\ figures'["dashboard"] = board
    <3> HIDE DEF board
    <3>1. figures' = With(With(With(figures, "report", issues), "video", encoding), "dashboard", board)
      BY <2>1 DEF board
    <3> QED
      BY <3>1 DEF With
  <2>4. LET all == {board.scores[x] : x \in DOMAIN board.scores}
        IN  /\ "script" \in DOMAIN board.scores
            /\ board.scores["script"] = AtLeast0(100 - 10 * ScriptIssues(screenplay))
            /\ board.overall \in Min(all) .. Max(all)
    BY <1>2, <2>2, DashboardFits
  <2>5. DashboardSound'
    <3> HIDE DEF board
    <3>1. figures'["dashboard"] = board /\ screenplay' = screenplay
      BY <1>1, <2>3
    <3> QED
      BY <2>4, <3>1 DEF DashboardSound
  <2>6. ReleasedIsPlayable'
    <3>1. Expected \in Nat
      BY <1>2, ExpectedNumber DEF MadeTyped
    <3>2. /\ footage.there /\ footage.video /\ footage.audio /\ footage.volume = "loud"
          /\ \/ footage.ticks = 0 \/ Expected = 0
             \/ 100 * footage.ticks \in 85 * Expected .. 125 * Expected
      BY <1>2, <1>7, <3>1, Playable DEF MadeTyped, issues
    <3> QED
      BY <1>1, <3>2 DEF ReleasedIsPlayable
  <2> QED
    BY <1>3, <1>4, <2>1, <2>3, <2>5, <2>6 DEF QualityInv, QualitySound
<1> QED
  BY <1>5, <1>6, <1>7

\* A rerun begins at a step before the gate, or with the gate passed.
LEMMA Retaken == ASSUME QualityInv, NEW i \in DOMAIN Stations, Retake(i) PROVE QualityInv'
<1>1. /\ qstep \in {"done", "refused", "rejected"} /\ qstep' = Stations[i]
      /\ (qstep = "refused" => i <= 6)
      /\ UNCHANGED <<inspect, screenplay, recording, captions, wording, footage, figures>>
      /\ GateSkipped' = GateSkipped
  BY DEF Retake, GateSkipped
<1>2. MadeTyped' /\ FiguresTrue' /\ Known("script")' /\ Known("audio")'
  BY <1>1 DEF QualityInv, MadeTyped, FiguresTrue, Known
<1>3. qstep' \in ToSet(Stations) /\ qstep' # "done"
  BY <1>1 DEF ToSet, Stations
<1>4. i > 6 => qstep # "refused" /\ qstep' # "refused"
  BY <1>1 DEF Stations
<1>5. i <= 6 => ~Gated'
  BY <1>1 DEF Gated, Stations
<1>6. GateHonest' /\ (Gated => Known("gate"))'
  <2>1. CASE i <= 6
    BY <1>5, <2>1 DEF GateHonest
  <2>2. CASE i > 6
    <3>1. Gated' => Gated
      BY <1>1 DEF Gated
    <3> QED
      BY <1>1, <1>4, <2>2, <3>1 DEF QualityInv, QualitySound, GateHonest, Known
  <2> QED
    BY <2>1, <2>2 DEF Stations
<1> QED
  BY <1>2, <1>3, <1>6 DEF QualityInv, QualitySound, ReleasedIsPlayable, DashboardSound

\* The checks of a run are about that run, and stop what they are there to stop
\* (pipeline/qa_gate.py, pipeline/qa.py, utils/quality_dashboard.py): the gate judges the
\* script and the recording of the film, a film that passed can be watched and heard, and
\* the dashboard's score lies between its dimensions; for any scripts, recordings, cues,
\* films and settings and any number of reruns.
THEOREM QualityHolds == QualitySpec => []QualitySound
<1>1. QualityInit => QualityInv
  BY QualityStart
<1>2. QualityInv /\ [QualityNext]_qvars => QualityInv'
  <2>1. ASSUME QualityInv, QualityNext PROVE QualityInv'
    BY <2>1, ScriptWritten, VoiceRecorded, CuesAligned, CuesTranslated, CuesMeasured,
       GateJudges, FilmRendered, FilmValidated, Retaken DEF QualityNext
  <2>2. ASSUME QualityInv, UNCHANGED qvars PROVE QualityInv'
    <3>1. MadeTyped' /\ FiguresTrue'
      BY <2>2 DEF QualityInv, qvars, MadeTyped, FiguresTrue, Known
    <3>2. GateHonest' /\ ReleasedIsPlayable' /\ DashboardSound'
      BY <2>2 DEF QualityInv, QualitySound, qvars, GateHonest, ReleasedIsPlayable,
         DashboardSound, Gated, GateSkipped, Validates, Expected
    <3> QED
      BY <2>2, <3>1, <3>2 DEF QualityInv, QualitySound, qvars, Known, Gated, GateSkipped
  <2> QED
    BY <2>1, <2>2
<1>3. QualityInv => QualitySound
  BY DEF QualityInv
<1> QED
  BY <1>1, <1>2, <1>3, PTL DEF QualitySpec

-----------------------------------------------------------------------------
\* The lines of a script

LinearOn(P, R) ==
  /\ \A i \in P : <<i, i>> \notin R
  /\ \A i, j \in P : i # j => <<i, j>> \in R \/ <<j, i>> \in R
  /\ \A i, j, k \in P : <<i, j>> \in R /\ <<j, k>> \in R => <<i, k>> \in R

\* the elements with fewer than k before them
Early(P, R, k) == {i \in P : Cardinality({j \in P : <<j, i>> \in R}) < k}

\* In a finite set with a linear order exactly k elements have fewer than k before them.
LEMMA RanksFill ==
  ASSUME NEW P, IsFiniteSet(P), NEW R, LinearOn(P, R)
  PROVE  \A k \in 0..Cardinality(P) : Cardinality(Early(P, R, k)) = k
<1> DEFINE before(i) == {j \in P : <<j, i>> \in R}
           r == [i \in P |-> Cardinality(before(i))]
           A(k) == {i \in P : r[i] < k}
           size == Cardinality(P)
           S == {k \in Nat : k <= size => Cardinality(A(k)) = k}
<1>0. /\ \A i \in P : <<i, i>> \notin R
      /\ \A i, j \in P : i # j => <<i, j>> \in R \/ <<j, i>> \in R
      /\ \A i, j, k \in P : <<i, j>> \in R /\ <<j, k>> \in R => <<i, k>> \in R
  BY DEF LinearOn
<1>1. \A i \in P : IsFiniteSet(before(i)) /\ r[i] = Cardinality(before(i)) /\ r[i] \in Nat
  BY FS_Subset, FS_CardinalityType
<1>2. ASSUME NEW i \in P, NEW j \in P, <<i, j>> \in R PROVE r[i] < r[j]
  <2>1. before(i) \subseteq before(j) /\ i \in before(j) /\ i \notin before(i)
    BY <1>0, <1>2
  <2> HIDE DEF before
  <2>2. Cardinality(before(i)) <= Cardinality(before(j))
        /\ (Cardinality(before(i)) = Cardinality(before(j)) => before(i) = before(j))
    BY <1>1, <2>1, FS_Subset
  <2> QED
    BY <1>1, <2>1, <2>2
<1>3. 0 \in S
  <2>1. A(0) = {}
    <3> HIDE DEF before, r
    <3> QED
      BY <1>1
  <2> HIDE DEF A
  <2> QED
    BY <2>1, FS_EmptySet
<1>4. \A k \in Nat : k \in S => k + 1 \in S
  <2>1. ASSUME NEW k \in Nat, k < size, Cardinality(A(k)) = k
        PROVE  Cardinality(A(k + 1)) = k + 1
    <3> DEFINE rest == P \ A(k)
               ranks == {r[i] : i \in rest}
    <3>1. A(k) \subseteq P /\ IsFiniteSet(A(k))
      BY FS_Subset
    <3>2. rest # {}
      <4> SUFFICES ASSUME P \subseteq A(k) PROVE FALSE
        OBVIOUS
      <4>1. P = A(k)
        BY <3>1
      <4> HIDE DEF A
      <4> QED
        BY <2>1, <4>1, FS_CardinalityType
    <3>3. ranks \in SUBSET Nat /\ ranks # {}
      <4>1. rest \subseteq P
        OBVIOUS
      <4> HIDE DEF before, r, rest
      <4> QED
        BY <1>1, <3>2, <4>1
    <3>4. PICK x \in rest : \A y \in rest : r[x] <= r[y]
      <4>1. PICK m \in ranks : \A y \in ranks : m <= y
        <5> HIDE DEF ranks
        <5> QED
          BY <3>3, LeastNatural
      <4> HIDE DEF before, r, rest
      <4> QED
        BY <4>1
    <3>5. x \in P /\ r[x] >= k
      <4> HIDE DEF before, r
      <4> QED
        BY <1>1
    <3>6. before(x) = A(k)
      <4>1. ASSUME NEW y \in before(x) PROVE y \in A(k)
        <5>1. y \in P /\ r[y] < r[x]
          BY <1>2, <3>5
        <5> HIDE DEF before, r, A
        <5> QED
          BY <1>1, <3>4, <5>1
      <4>2. ASSUME NEW y \in A(k) PROVE y \in before(x)
        <5>1. y \in P /\ r[y] < k
          OBVIOUS
        <5>2. y # x /\ ~(<<x, y>> \in R)
          <6> HIDE DEF before, r
          <6> QED
            BY <1>1, <1>2, <3>5, <5>1
        <5> QED
          BY <1>0, <3>5, <5>1, <5>2
      <4> QED
        BY <4>1, <4>2
    <3>7. r[x] = k
      BY <2>1, <3>6
    <3>8. A(k + 1) = A(k) \cup {x}
      <4>1. ASSUME NEW z \in A(k + 1), z # x PROVE z \in A(k)
        <5>1. z \in P /\ r[z] \in Nat /\ r[z] < k + 1 /\ r[z] # k
          <6>1. z \in P /\ r[z] < k + 1
            BY <4>1
          <6>2. r[z] # r[x]
            <7>1. <<z, x>> \in R \/ <<x, z>> \in R
              BY <1>0, <3>5, <4>1, <6>1
            <7>2. r[z] < r[x] \/ r[x] < r[z]
              <8> HIDE DEF r
              <8> QED
                BY <1>2, <3>5, <6>1, <7>1
            <7> HIDE DEF before, r
            <7> QED
              BY <1>1, <3>5, <6>1, <7>2
          <6> HIDE DEF before, r
          <6> QED
            BY <1>1, <3>7, <6>1, <6>2
        <5> HIDE DEF before, r
        <5> QED
          BY <5>1
      <4>2. ASSUME NEW z \in A(k) PROVE z \in A(k + 1)
        <5> HIDE DEF before, r
        <5> QED
          BY <1>1
      <4>3. x \in A(k + 1)
        <5> HIDE DEF before, r
        <5> QED
          BY <3>5, <3>7
      <4> QED
        BY <4>1, <4>2, <4>3
    <3> HIDE DEF A
    <3> QED
      BY <2>1, <3>1, <3>8, FS_AddElement
  <2>2. size \in Nat
    BY FS_CardinalityType
  <2> HIDE DEF A, size
  <2> QED
    BY <2>1, <2>2
<1>5. size \in Nat
  BY FS_CardinalityType
<1>6. \A k \in Nat : k \in S
  <2> HIDE DEF S
  <2> QED
    BY <1>3, <1>4, EveryNatural
<1>7. \A k \in 0..size : Cardinality(A(k)) = k
  <2> HIDE DEF A, size
  <2> QED
    BY <1>5, <1>6
<1> QED
  <2>1. \A k : Early(P, R, k) = A(k)
    BY DEF Early
  <2> QED
    BY <1>7, <2>1

\* Of the lengths of some lines one is the least that more than half of them do not exceed.
LEMMA MedianExists ==
  ASSUME NEW m \in Nat, NEW P \in SUBSET (1..m), IsFiniteSet(P), Cardinality(P) > 0,
         NEW f, \A i \in 1..m : f[i] \in Nat
  PROVE  \E i \in P :
           /\ Cardinality({k \in P : f[k] <= f[i]}) > Cardinality(P) \div 2
           /\ \A j \in P : f[j] < f[i]
                => Cardinality({k \in P : f[k] <= f[j]}) <= Cardinality(P) \div 2
<1> DEFINE b == [i \in P |-> Cardinality({k \in P : f[k] <= f[i]})]
           half == Cardinality(P) \div 2
           values == {f[i] : i \in P}
           most == {i \in P : b[i] > half}
           lengths == {f[i] : i \in most}
<1>1. Cardinality(P) \in Nat /\ half \in Nat /\ half < Cardinality(P)
  <2>1. Cardinality(P) \in Nat
    BY FS_CardinalityType
  <2> QED
    BY <2>1
<1>2. \A i \in P : f[i] \in Nat /\ b[i] \in Nat
  <2> SUFFICES ASSUME NEW i \in P PROVE f[i] \in Nat /\ b[i] \in Nat
    OBVIOUS
  <2>1. Cardinality({k \in P : f[k] <= f[i]}) \in Nat
    BY FS_Subset, FS_CardinalityType
  <2> QED
    BY <2>1
<1>3. P # {}
  BY FS_EmptySet
<1>4. PICK top \in P : \A i \in P : f[i] <= f[top]
  <2>1. PICK u \in Nat : \A i \in 1..m : f[i] <= u
    BY BoundedValues
  <2>2. values \in SUBSET (0..u) /\ values # {}
    BY <1>2, <1>3, <2>1
  <2>3. Max(values) \in values /\ \A x \in values : Max(values) >= x
    <3> HIDE DEF values
    <3> QED
      BY <2>2, MaxIsGreatest
  <2>4. PICK top \in P : Max(values) = f[top]
    BY <2>3
  <2>5. \A i \in P : f[i] <= f[top]
    <3> SUFFICES ASSUME NEW i \in P PROVE f[i] <= f[top]
      OBVIOUS
    <3>1. f[top] >= f[i]
      BY <2>3, <2>4
    <3> QED
      BY <1>2, <3>1
  <2> QED
    BY <2>5
<1>5. top \in most
  <2>1. {k \in P : f[k] <= f[top]} = P
    BY <1>4
  <2> QED
    BY <1>1, <2>1
<1>6. lengths \in SUBSET Nat /\ lengths # {}
  BY <1>2, <1>5
<1>7. PICK l \in lengths : \A x \in lengths : l <= x
  <2> HIDE DEF lengths
  <2> QED
    BY <1>6, LeastNatural
<1>8. PICK i \in most : l = f[i]
  OBVIOUS
<1>9. \A j \in P : f[j] < f[i] => b[j] <= half
  <2> SUFFICES ASSUME NEW j \in P, f[j] < f[i], ~(b[j] <= half) PROVE FALSE
    OBVIOUS
  <2>1. j \in most
    BY <1>1, <1>2
  <2>2. f[i] <= f[j]
    BY <1>7, <1>8, <2>1
  <2> QED
    BY <1>2, <1>8, <2>2
<1>10. b[i] > half /\ i \in P
  OBVIOUS
<1> QED
  BY <1>9, <1>10

\* Every place up to their number is the rank of one position.
LEMMA EveryRank ==
  ASSUME NEW n \in Nat, NEW K \in SUBSET (1..n)
  PROVE  /\ IsFiniteSet(K) /\ Cardinality(K) \in 0..n
         /\ \A i \in K : Rank(K, i) \in 1..Cardinality(K)
         /\ \A i, j \in K : i # j => Rank(K, i) # Rank(K, j)
         /\ \A k \in 1..Cardinality(K) : \E i \in K : Rank(K, i) = k
<1> DEFINE R == {p \in Nat \X Nat : p[1] < p[2]}
           before(i) == {j \in K : <<j, i>> \in R}
           r == [i \in K |-> Cardinality(before(i))]
           size == Cardinality(K)
<1>1. IsFiniteSet(K) /\ size \in 0..n
  <2>1. IsFiniteSet(1..n) /\ Cardinality(1..n) = n
    BY CountUpTo
  <2>2. IsFiniteSet(K) /\ size <= n
    BY <2>1, FS_Subset
  <2>3. size \in Nat
    BY <2>2, FS_CardinalityType
  <2> HIDE DEF size
  <2> QED
    BY <2>2, <2>3
<1>2. \A i \in K : i \in Nat
  OBVIOUS
<1>3. ASSUME NEW i \in K
      PROVE  /\ before(i) = {j \in K : j < i}
             /\ IsFiniteSet(before(i)) /\ r[i] \in Nat /\ Rank(K, i) = r[i] + 1
  <2>1. before(i) = {j \in K : j < i}
    BY <1>2
  <2>2. {j \in K : j <= i} = before(i) \cup {i} /\ i \notin before(i)
    <3>1. \A j \in K : j <= i <=> j < i \/ j = i
      BY <1>2
    <3>2. ~(i < i)
      BY <1>2
    <3> HIDE DEF before
    <3> QED
      BY <2>1, <3>1, <3>2
  <2>3. IsFiniteSet(before(i)) /\ r[i] = Cardinality(before(i)) /\ r[i] \in Nat
    BY <1>1, FS_Subset, FS_CardinalityType
  <2> HIDE DEF before, r
  <2> QED
    BY <2>1, <2>2, <2>3, FS_AddElement DEF Rank
<1>4. \A k \in 0..size : Cardinality({i \in K : r[i] < k}) = k
  <2>1. LinearOn(K, R)
    BY <1>2 DEF LinearOn
  <2>2. \A k : Early(K, R, k) = {i \in K : r[i] < k}
    BY DEF Early
  <2> HIDE DEF R, before, r
  <2>3. \A k \in 0..size : Cardinality(Early(K, R, k)) = k
    BY <1>1, <2>1, RanksFill
  <2> QED
    BY <2>2, <2>3
<1> HIDE DEF before, r, R
<1>5. ASSUME NEW k \in 1..size PROVE \E i \in K : r[i] = k - 1
  <2> SUFFICES ASSUME \A i \in K : r[i] # k - 1 PROVE FALSE
    OBVIOUS
  <2>1. {i \in K : r[i] < k} = {i \in K : r[i] < k - 1}
    <3>1. \A i \in K : r[i] < k <=> r[i] < k - 1
      <4> SUFFICES ASSUME NEW i \in K PROVE r[i] < k <=> r[i] < k - 1
        OBVIOUS
      <4>1. r[i] \in Nat /\ r[i] # k - 1 /\ k \in Int
        BY <1>1, <1>3
      <4> QED
        BY <4>1
    <3> QED
      BY <3>1
  <2>2. k \in 0..size /\ k - 1 \in 0..size
    BY <1>1
  <2>3. Cardinality({i \in K : r[i] < k}) = k /\ Cardinality({i \in K : r[i] < k - 1}) = k - 1
    BY <1>4, <2>2
  <2> QED
    BY <2>1, <2>3
<1>6. ASSUME NEW i \in K, NEW j \in K, i < j PROVE r[i] < r[j]
  <2>1. before(i) \subseteq before(j) /\ i \in before(j) /\ i \notin before(i)
    <3>1. before(i) = {x \in K : x < i} /\ before(j) = {x \in K : x < j}
      BY <1>3
    <3>2. \A x \in K : x < i => x < j
      BY <1>2, <1>6
    <3>3. ~(i < i)
      BY <1>2
    <3> QED
      BY <1>6, <3>1, <3>2, <3>3
  <2>2. r[i] = Cardinality(before(i)) /\ r[j] = Cardinality(before(j))
    BY DEF r
  <2>3. r[i] <= r[j] /\ (r[i] = r[j] => before(i) = before(j))
    BY <1>3, <2>1, <2>2, FS_Subset
  <2> QED
    BY <1>3, <2>1, <2>3
<1>7. ASSUME NEW i \in K PROVE r[i] < size
  <2>1. before(i) \subseteq K /\ i \in K /\ i \notin before(i)
    BY <1>2, <1>3
  <2>2. r[i] = Cardinality(before(i))
    BY DEF r
  <2>3. r[i] <= size /\ (r[i] = size => before(i) = K)
    BY <1>1, <2>1, <2>2, FS_Subset
  <2> QED
    BY <1>1, <1>3, <2>1, <2>3
<1>8. \A i \in K : Rank(K, i) \in 1..size
  BY <1>1, <1>3, <1>7
<1>9. \A i, j \in K : i # j => Rank(K, i) # Rank(K, j)
  <2> SUFFICES ASSUME NEW i \in K, NEW j \in K, i # j PROVE r[i] # r[j]
    BY <1>3
  <2>1. i < j \/ j < i
    BY <1>2
  <2> QED
    BY <1>3, <1>6, <2>1
<1>10. \A k \in 1..size : \E i \in K : Rank(K, i) = k
  BY <1>3, <1>5
<1> QED
  BY <1>1, <1>8, <1>9, <1>10

\* What is taken from a sequence are the members at those positions, in their order.
LEMMA TakenIs ==
  ASSUME NEW S, NEW s \in Seq(S), NEW K \in SUBSET DOMAIN s
  PROVE  /\ Taken(s, K) \in Seq(S) /\ Len(Taken(s, K)) = Cardinality(K)
         /\ Cardinality(K) \in 0..Len(s)
         /\ \A i \in K : /\ Rank(K, i) \in 1..Cardinality(K)
                         /\ Taken(s, K)[Rank(K, i)] = s[i]
<1> DEFINE size == Cardinality(K)
<1>1. Len(s) \in Nat /\ K \in SUBSET (1..Len(s))
  OBVIOUS
<1>2. /\ size \in 0..Len(s)
      /\ \A i \in K : Rank(K, i) \in 1..size
      /\ \A i, j \in K : i # j => Rank(K, i) # Rank(K, j)
      /\ \A k \in 1..size : \E i \in K : Rank(K, i) = k
  BY <1>1, EveryRank
<1>3. \A k \in 1..size : Nth(K, k) \in K /\ Rank(K, Nth(K, k)) = k
  BY <1>2 DEF Nth
<1>4. Taken(s, K) = [k \in 1..size |-> s[Nth(K, k)]]
  BY DEF Taken
<1>5. \A k \in 1..size : s[Nth(K, k)] \in S
  BY <1>1, <1>3
<1>6. Taken(s, K) \in Seq(S) /\ Len(Taken(s, K)) = size
  <2>1. size \in Nat
    BY <1>2
  <2> HIDE DEF size
  <2> QED
    BY <1>4, <1>5, <2>1
<1>7. \A i \in K : Taken(s, K)[Rank(K, i)] = s[i]
  <2> SUFFICES ASSUME NEW i \in K PROVE Taken(s, K)[Rank(K, i)] = s[i]
    OBVIOUS
  <2>1. Rank(K, i) \in 1..size /\ Nth(K, Rank(K, i)) = i
    BY <1>2, <1>3
  <2> HIDE DEF size
  <2> QED
    BY <1>4, <2>1
<1> QED
  BY <1>2, <1>6, <1>7

\* A draft is trimmed to n text, or left as it is; the hooks stay, and the end of a long one.
LEMMA KeptIs ==
  ASSUME NEW text \in Seq(Nat), NEW n \in Nat
  PROVE  /\ Kept(text, n) \in SUBSET DOMAIN text
         /\ Cardinality(Kept(text, n)) = IF Len(text) <= n THEN Len(text) ELSE n
         /\ \A i \in 1..Len(text) : i <= 3 /\ i <= n => i \in Kept(text, n)
         /\ n > 4 /\ Len(text) > n + 1 => Len(text) \in Kept(text, n)
<1> DEFINE m == Len(text)
<1>0. m \in Nat /\ DOMAIN text = 1..m /\ \A i \in 1..m : text[i] \in Nat
  OBVIOUS
<1>1. CASE m <= n
  <2>1. Kept(text, n) = 1..m
    BY <1>1 DEF Kept
  <2>2. Cardinality(1..m) = m
    BY <1>0, CountUpTo
  <2> QED
    BY <1>0, <1>1, <2>1, <2>2
<1>2. CASE m > n
  <2> DEFINE hooks == Min({3, n})
             tail == IF n > hooks + 1 /\ m > n + 1 THEN {m} ELSE {}
             locked == (1..hooks) \cup tail
             rest == (1..m) \ locked
             below(l) == Cardinality({i \in rest : text[i] <= l})
             median == text[CHOOSE i \in rest :
                               /\ below(text[i]) > Cardinality(rest) \div 2
                               /\ \A j \in rest : text[j] < text[i]
                                    => below(text[j]) <= Cardinality(rest) \div 2]
             Nearer(i, j) ==
               LET a == Distance(text[i], median)
                   b == Distance(text[j], median)
               IN  a < b \/ (a = b /\ i < j)
             need == n - Cardinality(locked)
             R == {p \in rest \X rest : Nearer(p[1], p[2])}
             chosen == Early(rest, R, need)
  <2>1. Kept(text, n) = locked \cup {i \in rest : Cardinality({j \in rest : Nearer(j, i)}) < need}
    BY <1>0, <1>2 DEF Kept
  <2>2. hooks \in Nat /\ hooks <= n /\ hooks <= 3 /\ (n >= 3 => hooks = 3) /\ (n < 3 => hooks = n)
    <3>1. {3, n} \in SUBSET Nat /\ {3, n} # {}
      OBVIOUS
    <3> QED
      BY <3>1, MinIsLeast
  <2> HIDE DEF hooks
  <2>3. /\ locked \subseteq 1..m /\ IsFiniteSet(locked) /\ Cardinality(locked) \in 0..n
    <3>1. IsFiniteSet(1..hooks) /\ Cardinality(1..hooks) = hooks
      BY <2>2, CountUpTo
    <3>2. m \notin 1..hooks /\ 1..hooks \subseteq 1..m /\ (tail # {} => m \in 1..m)
      BY <1>0, <1>2, <2>2
    <3>3. CASE tail = {}
      <4>1. locked = 1..hooks
        BY <3>3
      <4> HIDE DEF locked
      <4> QED
        BY <2>2, <3>1, <3>2, <4>1
    <3>4. CASE n > hooks + 1 /\ tail = {m}
      <4>1. IsFiniteSet(locked) /\ Cardinality(locked) = hooks + 1
        BY <3>1, <3>2, <3>4, FS_AddElement
      <4> QED
        BY <2>2, <3>2, <3>4, <4>1
    <3> QED
      BY <3>3, <3>4
  <2>4. IsFiniteSet(rest) /\ Cardinality(rest) = m - Cardinality(locked) /\ Cardinality(rest) > 0
    <3>1. IsFiniteSet(1..m) /\ Cardinality(1..m) = m
      BY <1>0, CountUpTo
    <3>2. Cardinality(locked) \in Nat /\ Cardinality(locked) < m
      BY <1>0, <1>2, <2>3
    <3>3. (1..m) \cap locked = locked
      BY <2>3
    <3> HIDE DEF locked, m
    <3>4. IsFiniteSet(rest) /\ Cardinality(rest) = m - Cardinality((1..m) \cap locked)
      BY <2>3, <3>1, FS_Difference
    <3>5. IsFiniteSet(rest) /\ Cardinality(rest) = m - Cardinality(locked) /\ m \in Nat
      BY <1>0, <3>3, <3>4
    <3> HIDE DEF rest
    <3> QED
      BY <3>2, <3>5
  <2>5. rest \subseteq 1..m /\ rest \cap locked = {}
    OBVIOUS
  <2> HIDE DEF locked
  <2>6. median \in Nat
    <3>1. PICK i \in rest : /\ below(text[i]) > Cardinality(rest) \div 2
                            /\ \A j \in rest : text[j] < text[i]
                                 => below(text[j]) <= Cardinality(rest) \div 2
      BY <1>0, <2>4, <2>5, MedianExists
    <3> DEFINE c == CHOOSE k \in rest :
                      /\ below(text[k]) > Cardinality(rest) \div 2
                      /\ \A j \in rest : text[j] < text[k]
                           => below(text[j]) <= Cardinality(rest) \div 2
    <3>2. c \in rest
      BY <3>1
    <3> HIDE DEF c, rest
    <3>3. text[c] \in Nat
      BY <1>0, <2>5, <3>2
    <3> QED
      BY <3>3 DEF c
  <2> HIDE DEF median
  <2>7. LinearOn(rest, R)
    <3> DEFINE d(i) == Distance(text[i], median)
    <3>1. \A i \in rest : i \in Nat /\ d(i) \in Nat
      <4> SUFFICES ASSUME NEW i \in rest PROVE i \in Nat /\ d(i) \in Nat
        OBVIOUS
      <4>1. i \in 1..m /\ text[i] \in Nat
        BY <1>0, <2>5
      <4> QED
        BY <2>6, <4>1 DEF Distance
    <3>2. \A i, j \in rest : <<i, j>> \in R <=> d(i) < d(j) \/ (d(i) = d(j) /\ i < j)
      OBVIOUS
    <3> HIDE DEF d, R, rest
    <3> QED
      BY <3>1, <3>2 DEF LinearOn
  <2>8. need \in 0..Cardinality(rest)
    BY <1>0, <1>2, <2>3, <2>4
  <2>9. {i \in rest : Cardinality({j \in rest : Nearer(j, i)}) < need} = chosen
    <3>1. \A i \in rest : {j \in rest : Nearer(j, i)} = {j \in rest : <<j, i>> \in R}
      OBVIOUS
    <3> HIDE DEF rest, R, Nearer, need
    <3> QED
      BY <3>1 DEF Early
  <2>10. Cardinality(chosen) = need /\ chosen \subseteq rest
    <3> HIDE DEF rest, R, need
    <3> QED
      BY <2>4, <2>7, <2>8, RanksFill DEF Early
  <2>11. Kept(text, n) = locked \cup chosen
    BY <2>1, <2>9
  <2> HIDE DEF rest, R, Nearer, need, chosen
  <2>12. Kept(text, n) \subseteq 1..m
    BY <2>3, <2>5, <2>10, <2>11
  <2>13. Cardinality(Kept(text, n)) = n
    <3>1. locked \cap chosen = {}
      BY <2>5, <2>10
    <3>2. IsFiniteSet(chosen)
      BY <2>4, <2>10, FS_Subset
    <3>3. Cardinality(locked \cup chosen) = Cardinality(locked) + Cardinality(chosen) - Cardinality({})
      BY <2>3, <3>1, <3>2, FS_Union
    <3>4. Cardinality({}) = 0
      BY FS_EmptySet
    <3> QED
      BY <2>3, <2>10, <2>11, <3>3, <3>4 DEF need
  <2>14. \A i \in 1..m : i <= 3 /\ i <= n => i \in locked
    <3>1. \A i \in 1..m : i <= 3 /\ i <= n => i \in 1..hooks
      BY <1>0, <2>2
    <3>2. 1..hooks \subseteq locked
      BY DEF locked
    <3> QED
      BY <3>1, <3>2
  <2>15. n > 4 /\ m > n + 1 => m \in locked
    BY <2>2 DEF locked
  <2>16. m > n => ~(m <= n)
    BY <1>0
  <2>17. locked \subseteq Kept(text, n)
    BY <2>11
  <2> HIDE DEF locked
  <2> QED
    BY <1>0, <1>2, <2>12, <2>13, <2>14, <2>15, <2>16, <2>17
<1> QED
  BY <1>0, <1>1, <1>2

\* The beats that are kept are texts, no two of them alike.
Unlike(bs) == \A i, j \in DOMAIN bs : i # j => ~Similar(bs[i], bs[j])

LEMMA OneMoreText ==
  ASSUME NEW S, NEW s \in Seq(S), NEW b \in S
  PROVE  /\ Append(s, b) \in Seq(S) /\ Len(Append(s, b)) = Len(s) + 1
         /\ \A k \in 1..Len(s) : Append(s, b)[k] = s[k]
         /\ Append(s, b)[Len(s) + 1] = b
<1>1. Append(s, b)[Len(s) + 1] = b
  OBVIOUS
<1>2. \A k \in 1..Len(s) : Append(s, b)[k] = s[k]
  OBVIOUS
<1> QED
  BY <1>1, <1>2, AppendProperties

LEMMA DedupUnlike ==
  ASSUME NEW list \in Seq(STRING)
  PROVE  Dedup(list) \in Seq(STRING) /\ Unlike(Dedup(list))
<1> DEFINE n == Len(list)
           A == Seq(STRING)
           Keep(s, b) == IF \E k \in DOMAIN s : Similar(s[k], b) THEN s ELSE Append(s, b)
           Next(g, i) == IF i = 0 THEN <<>> ELSE Keep(g[i - 1], list[i])
           Grows(g) == g = [i \in 0..n |-> Next(g, i)]
           step == [p \in A \X (1..n) |-> Keep(p[1], list[p[2]])]
           F == CHOOSE f : Grows(f)
           Good == {s \in A : Unlike(s)}
<1>1. n \in Nat /\ <<>> \in A /\ \A i \in 1..n : list[i] \in STRING
  OBVIOUS
<1>2. \A s \in A, b \in STRING : Keep(s, b) \in A
  <2> SUFFICES ASSUME NEW s \in A, NEW b \in STRING PROVE Append(s, b) \in A
    OBVIOUS
  <2> QED
    BY AppendProperties
<1>3. step \in [A \X (1..n) -> A]
  <2>1. \A p \in A \X (1..n) : Keep(p[1], list[p[2]]) \in A
    <3> HIDE DEF A, Keep, n
    <3> QED
      BY <1>1, <1>2
  <2> HIDE DEF A, Keep, n
  <2> QED
    BY <2>1
<1>4. PICK g : g \in Goes(n, A, <<>>, step)
  <2> HIDE DEF n, step, A
  <2> QED
    BY <1>1, <1>3, Folded
<1>5. g \in [0..n -> A] /\ g[0] = <<>> /\ \A i \in 1..n : g[i] = step[<<g[i - 1], i>>]
  <2> HIDE DEF n, step, A
  <2> QED
    BY <1>4 DEF Goes
<1>6. \A i \in 0..n : g[i] = Next(g, i)
  <2> SUFFICES ASSUME NEW i \in 0..n, i # 0 PROVE g[i] = Keep(g[i - 1], list[i])
    BY <1>5
  <2>1. i \in 1..n /\ i - 1 \in 0..n
    OBVIOUS
  <2> HIDE DEF A, Keep, n
  <2>2. <<g[i - 1], i>> \in A \X (1..n)
    BY <1>5, <2>1
  <2> QED
    BY <1>5, <2>1, <2>2
<1>7. Grows(g)
  <2> HIDE DEF Next, n, A
  <2> QED
    BY <1>5, <1>6
<1>8. Grows(F)
  <2> HIDE DEF Grows
  <2> QED
    BY <1>7
<1>9. Dedup(list) = F[n]
  BY DEF Dedup
<1>10. \A i \in 0..n : F[i] = Next(F, i)
  <2> HIDE DEF Next, F
  <2> QED
    BY <1>8
<1> HIDE DEF F
<1>11. ASSUME NEW s \in Good, NEW b \in STRING PROVE Keep(s, b) \in Good
  <2>1. CASE \E k \in DOMAIN s : Similar(s[k], b)
    BY <2>1
  <2>2. CASE \A k \in DOMAIN s : ~Similar(s[k], b)
    <3>0. s \in Seq(STRING) /\ b \in STRING
      OBVIOUS
    <3>1. Keep(s, b) = Append(s, b) /\ Append(s, b) \in A
      <4>1. Append(s, b) \in Seq(STRING)
        BY <3>0, AppendProperties
      <4> QED
        BY <2>2, <4>1
    <3>2. ASSUME NEW i \in DOMAIN Append(s, b), NEW j \in DOMAIN Append(s, b), i # j
          PROVE  ~Similar(Append(s, b)[i], Append(s, b)[j])
      <4>1. /\ DOMAIN Append(s, b) = 1..Len(s) + 1 /\ DOMAIN s = 1..Len(s) /\ Len(s) \in Nat
            /\ Append(s, b)[Len(s) + 1] = b
            /\ \A k \in 1..Len(s) : Append(s, b)[k] = s[k]
        <5>1. /\ Append(s, b) \in Seq(STRING) /\ Len(Append(s, b)) = Len(s) + 1
              /\ \A k \in 1..Len(s) : Append(s, b)[k] = s[k]
              /\ Append(s, b)[Len(s) + 1] = b
          BY <3>0, OneMoreText
        <5>2. \A q \in Seq(STRING) : DOMAIN q = 1..Len(q) /\ Len(q) \in Nat
          OBVIOUS
        <5> QED
          BY ONLY <3>0, <5>1, <5>2
      <4>2. \A x, y : Similar(x, y) => Similar(y, x)
        BY ScriptAssumption DEF Similar
      <4>3. Unlike(s)
        OBVIOUS
      <4>4. CASE i \in 1..Len(s) /\ j \in 1..Len(s)
        BY <3>2, <4>1, <4>3, <4>4 DEF Unlike
      <4>5. CASE i = Len(s) + 1 /\ j \in 1..Len(s)
        BY <2>2, <4>1, <4>2, <4>5
      <4>6. CASE j = Len(s) + 1 /\ i \in 1..Len(s)
        BY <2>2, <4>1, <4>6
      <4>7. (i \in 1..Len(s) \/ i = Len(s) + 1) /\ (j \in 1..Len(s) \/ j = Len(s) + 1)
        BY <3>2, <4>1
      <4> QED
        BY <3>2, <4>4, <4>5, <4>6, <4>7
    <3>3. Append(s, b) \in A
      BY <3>1
    <3> QED
      BY <3>1, <3>2 DEF Unlike
  <2> QED
    BY <2>1, <2>2
<1>12. F[0] \in Good
  <2>1. F[0] = <<>>
    BY <1>1, <1>10
  <2> QED
    BY <2>1 DEF Unlike
<1>13. \A i \in 1..n : F[i - 1] \in Good => F[i] \in Good
  <2> SUFFICES ASSUME NEW i \in 1..n, F[i - 1] \in Good PROVE F[i] \in Good
    OBVIOUS
  <2>1. F[i] = Keep(F[i - 1], list[i]) /\ list[i] \in STRING
    BY <1>1, <1>10
  <2> HIDE DEF Good, Keep
  <2> QED
    BY <1>11, <2>1
<1>14. F[n] \in Good
  <2>1. n \in Nat
    BY <1>1
  <2> HIDE DEF Good, n
  <2>2. \A i \in 0..n : F[i] \in Good
    BY <1>12, <1>13, <2>1, FoldedTyped
  <2> QED
    BY <2>1, <2>2
<1> QED
  BY <1>9, <1>14

\* what the prompt cache holds: answers to the prompt whose key they are under
Entries ==
  [key : {<<"research", <<>>>>}, raw : {<<"info">>, Bad}]
    \cup [key : {<<"beats", <<>>>>}, raw : BeatLists \cup {Bad}]
    \cup [key : {<<"expand", bs>> : bs \in Seq(STRING)}, raw : Drafts \cup {Bad}]

\* Storing an entry leaves entries.
LEMMA Stored ==
  ASSUME cache \in Seq(Entries), NEW key, NEW raw, [key |-> key, raw |-> raw] \in Entries
  PROVE  StoreEntry(key, raw) \in Seq(Entries)
<1> DEFINE K == {i \in DOMAIN cache : cache[i].key # key}
           others == Taken(cache, K)
           all == Append(others, [key |-> key, raw |-> raw])
           from == Max({1, Len(all) - MaxEntries + 1})
<1>1. others \in Seq(Entries)
  <2>1. K \in SUBSET DOMAIN cache
    OBVIOUS
  <2> HIDE DEF K
  <2> QED
    BY <2>1, TakenIs
<1> HIDE DEF others
<1>2. all \in Seq(Entries) /\ Len(all) \in Nat /\ Len(all) > 0
  <2> HIDE DEF Entries
  <2> QED
    BY <1>1
<1> HIDE DEF all
<1>3. MaxEntries \in Nat \ {0}
  BY ScriptAssumption
<1>4. from \in 1..Len(all)
  <2>1. Len(all) - MaxEntries + 1 \in Int /\ Len(all) - MaxEntries + 1 <= Len(all)
    BY <1>2, <1>3
  <2>2. from \in Int /\ from >= 1 /\ from \in {1, Len(all) - MaxEntries + 1}
    <3>1. 1 \in Int
      OBVIOUS
    <3>2. from \in {1, Len(all) - MaxEntries + 1} /\ from >= 1
      BY <2>1, <3>1, MaxOfTwo
    <3> HIDE DEF from
    <3> QED
      BY <2>1, <3>2
  <2> QED
    BY <1>2, <2>1, <2>2
<1> HIDE DEF from
<1>5. SubSeq(all, from, Len(all)) \in Seq(Entries)
  <2> HIDE DEF Entries
  <2> QED
    BY <1>2, <1>4
<1> QED
  BY <1>5 DEF StoreEntry, others, all, from

\* A prompt is answered by one of its answers, from the cache or not.
LEMMA Answered ==
  ASSUME cache \in Seq(Entries), NEW key, NEW answers, NEW r \in Responses(key, answers),
         \A a \in answers : [key |-> key, raw |-> a] \in Entries,
         \A e \in Entries : e.key = key => e.raw \in answers
  PROVE  r.raw \in answers /\ r.cache \in Seq(Entries)
<1>1. CASE Cached(key) # {}
  <2>1. \A e \in Cached(key) : e \in Entries /\ e.key = key
    <3> HIDE DEF Entries
    <3> QED
      BY DEF Cached
  <2>2. r \in [raw : {e.raw : e \in Cached(key)}, cache : {cache}]
    BY <1>1 DEF Responses
  <2> HIDE DEF Entries, Cached
  <2> QED
    BY <2>1, <2>2
<1>2. CASE Cached(key) = {}
  <2>1. PICK a \in answers : r = [raw |-> a, cache |-> StoreEntry(key, a)]
    BY <1>2 DEF Responses
  <2>2. StoreEntry(key, a) \in Seq(Entries)
    BY Stored
  <2> QED
    BY <2>1, <2>2
<1> QED
  BY <1>1, <1>2

\* The lines that are left after a cut are lengths.
LEMMA CutIs ==
  ASSUME NEW raw \in Seq(Nat), NEW at \in 0..MaxChars
  PROVE  Cut(raw, at) \in Seq(Nat)
<1> DEFINE cut == [i \in DOMAIN raw |-> IF raw[i] > MaxChars THEN at ELSE raw[i]]
           K == {i \in DOMAIN cut : cut[i] > 0}
<1>0. MaxChars \in Nat
  BY ScriptAssumption
<1>1. cut \in Seq(Nat)
  <2>1. at \in Nat
    BY <1>0
  <2>2. DOMAIN raw = 1..Len(raw) /\ Len(raw) \in Nat
    OBVIOUS
  <2>3. \A i \in DOMAIN raw : (IF raw[i] > MaxChars THEN at ELSE raw[i]) \in Nat
    BY <2>1
  <2> QED
    BY <2>2, <2>3
<1>2. K \in SUBSET DOMAIN cut
  OBVIOUS
<1>3. Cut(raw, at) = Taken(cut, K)
  BY DEF Cut
<1> HIDE DEF cut, K
<1> QED
  BY <1>1, <1>2, <1>3, TakenIs

\* what a script under way has established
ScriptHeld ==
  /\ cache \in Seq(Entries)
  /\ DOMAIN made = DOMAIN NotMade
  /\ scripting \in {"research", "beats", "expand", "judge", "done", "raised"}
  /\ scripting \in {"expand", "judge"} =>
       made.meta = beats /\ beats \in Seq(STRING) /\ Unlike(beats)
  /\ scripting = "judge" => draft \in Seq(Nat)
  /\ scripting # "done" => made.source = "none"

ScriptInv == ScriptHeld /\ ScriptSound

LEMMA ScriptStart == ScriptInit => ScriptInv
BY DEF ScriptInit, ScriptInv, ScriptHeld, ScriptSound, NotMade

\* An attempt that failed is followed by another, by the mock script, or by an error.
LEMMA AfterFailure ==
  ASSUME ScriptHeld, scripting # "done", NEW kind, AttemptFails(kind), cache' \in Seq(Entries)
  PROVE  ScriptInv'
<1>1. CASE try < Tries
  BY <1>1 DEF AttemptFails, ScriptHeld, ScriptInv, ScriptSound
<1>2. CASE ~(try < Tries)
  BY <1>2 DEF AttemptFails, ScriptHeld, ScriptInv, ScriptSound, NotMade
<1> QED
  BY <1>1, <1>2

LEMMA EntryDropped == ASSUME ScriptInv, DropEntry PROVE ScriptInv'
<1>1. PICK i \in DOMAIN cache : cache' = RemoveAt(cache, i)
  BY DEF DropEntry
<1>2. cache' \in Seq(Entries)
  <2>1. cache \in Seq(Entries) /\ Len(cache) \in Nat /\ i \in 1..Len(cache)
    BY DEF ScriptInv, ScriptHeld
  <2> HIDE DEF Entries
  <2>2. SubSeq(cache, 1, i - 1) \in Seq(Entries) /\ SubSeq(cache, i + 1, Len(cache)) \in Seq(Entries)
    BY <2>1
  <2> QED
    BY <1>1, <2>2 DEF RemoveAt
<1> QED
  BY <1>2 DEF DropEntry, ScriptInv, ScriptHeld, ScriptSound

LEMMA Researched ==
  ASSUME ScriptInv, Research \/ ResearchCallFails \/ SkipResearch
  PROVE  ScriptInv'
<1> USE DEF ScriptInv, ScriptHeld
<1>1. scripting = "research"
  BY DEF Research, ResearchCallFails, SkipResearch
<1>2. ASSUME NEW raw, ResearchAnswered(raw), cache' \in Seq(Entries) PROVE ScriptInv'
  BY <1>1, <1>2 DEF ResearchAnswered, ScriptSound, NotMade
<1>3. CASE Research
  <2> DEFINE answers == {<<"info">>, Bad}
             key == <<"research", <<>>>>
  <2>1. PICK r \in Responses(key, answers) : cache' = r.cache /\ ResearchAnswered(r.raw)
    BY <1>3 DEF Research
  <2>2. \A a \in answers : [key |-> key, raw |-> a] \in Entries
    BY DEF Entries
  <2>3. \A e \in Entries : e.key = key => e.raw \in answers
    BY DEF Entries
  <2> HIDE DEF key, answers
  <2>4. cache' \in Seq(Entries)
    BY <2>1, <2>2, <2>3, Answered
  <2> QED
    BY <1>2, <2>1, <2>4
<1>4. CASE ResearchCallFails
  BY <1>2, <1>4 DEF ResearchCallFails
<1>5. CASE SkipResearch
  BY <1>5 DEF SkipResearch, ScriptSound, NotMade
<1> QED
  BY <1>3, <1>4, <1>5

LEMMA BeatsPlotted == ASSUME ScriptInv, PlotBeats PROVE ScriptInv'
<1> DEFINE answers == BeatLists \cup {Bad}
           key == <<"beats", <<>>>>
<1>1. PICK r \in Responses(key, answers) : cache' = r.cache /\ BeatsAnswered(r.raw)
  BY DEF PlotBeats
<1>2. \A a \in answers : [key |-> key, raw |-> a] \in Entries
  BY DEF Entries
<1>3. \A e \in Entries : e.key = key => e.raw \in answers
  BY DEF Entries
<1>4. r.raw \in answers /\ cache' \in Seq(Entries)
  <2> HIDE DEF key, answers
  <2> QED
    BY <1>1, <1>2, <1>3, Answered DEF ScriptInv, ScriptHeld
<1>5. CASE r.raw = Bad
  BY <1>1, <1>4, <1>5, AfterFailure DEF PlotBeats, BeatsAnswered, ScriptInv
<1>6. CASE r.raw # Bad
  <2>1. r.raw \in Seq(STRING)
    BY <1>4, <1>6, ScriptAssumption
  <2>2. Dedup(r.raw) \in Seq(STRING) /\ Unlike(Dedup(r.raw))
    BY <2>1, DedupUnlike
  <2>3. /\ beats' = Dedup(r.raw) /\ made' = [made EXCEPT !.meta = Dedup(r.raw)]
        /\ scripting = "beats" /\ scripting' = "expand"
    BY <1>1, <1>6 DEF PlotBeats, BeatsAnswered
  <2> QED
    BY <1>4, <2>2, <2>3 DEF ScriptInv, ScriptHeld, ScriptSound, NotMade
<1> QED
  BY <1>5, <1>6

LEMMA Expanded == ASSUME ScriptInv, Expand PROVE ScriptInv'
<1> DEFINE answers == Drafts \cup {Bad}
           key == <<"expand", beats>>
<1>1. PICK r \in Responses(key, answers) : cache' = r.cache /\ DraftAnswered(r.raw)
  BY DEF Expand
<1>0. scripting = "expand" /\ beats \in Seq(STRING) /\ beats' = beats
  BY DEF Expand, ScriptInv, ScriptHeld
<1>2. \A a \in answers : [key |-> key, raw |-> a] \in Entries
  BY <1>0 DEF Entries
<1>3. \A e \in Entries : e.key = key => e.raw \in answers
  BY DEF Entries
<1>4. r.raw \in answers /\ cache' \in Seq(Entries)
  <2> HIDE DEF key, answers
  <2> QED
    BY <1>1, <1>2, <1>3, Answered DEF ScriptInv, ScriptHeld
<1>5. r.raw \in Seq(Nat)
  <2>1. \A d \in Drafts : d \in Seq(Nat \ {0})
    BY ScriptAssumption
  <2>2. \A d \in Seq(Nat \ {0}) : d \in Seq(Nat)
    OBVIOUS
  <2>3. Bad \in Seq(Nat)
    BY DEF Bad
  <2>4. r.raw \in Drafts \/ r.raw = Bad
    BY <1>4
  <2> HIDE DEF answers, key
  <2> QED
    BY <2>1, <2>2, <2>3, <2>4
<1>6. PICK at \in 0..MaxChars :
        IF Cut(r.raw, at) = <<>> THEN AttemptFails("logic") /\ UNCHANGED draft
        ELSE draft' = Cut(r.raw, at) /\ scripting' = "judge" /\ UNCHANGED <<try, made>>
  BY <1>1 DEF DraftAnswered
<1>7. CASE AttemptFails("logic")
  BY <1>0, <1>4, <1>7, AfterFailure DEF ScriptInv
<1>8. CASE draft' = Cut(r.raw, at) /\ scripting' = "judge" /\ UNCHANGED <<try, made>>
  <2>1. draft' \in Seq(Nat)
    BY <1>5, <1>8, CutIs
  <2> QED
    BY <1>0, <1>4, <1>8, <2>1 DEF ScriptInv, ScriptHeld, ScriptSound
<1> QED
  BY <1>6, <1>7, <1>8

\* A draft that is taken keeps its hooks and the end of a long one, and no more lines
\* than there are beats.
LEMMA Trimmed ==
  ASSUME NEW text \in Seq(Nat), NEW n \in Nat
  PROVE  LET out == Trim(text, n)
             k == Min({3, Len(out)})
         IN  /\ Len(out) = Min({Len(text), n})
             /\ SubSeq(out, 1, k) = SubSeq(text, 1, k)
             /\ n > 4 /\ Len(text) > n + 1 => Last(out) = Last(text)
<1> DEFINE K == Kept(text, n)
           m == Len(text)
           out == Trim(text, n)
           k == Min({3, Len(out)})
<1>1. /\ K \in SUBSET DOMAIN text
      /\ Cardinality(K) = IF m <= n THEN m ELSE n
      /\ \A i \in 1..m : i <= 3 /\ i <= n => i \in K
      /\ n > 4 /\ m > n + 1 => m \in K
  BY KeptIs
<1> HIDE DEF K
<1>2. /\ out \in Seq(Nat) /\ Len(out) = Cardinality(K)
      /\ \A i \in K : Rank(K, i) \in 1..Cardinality(K) /\ out[Rank(K, i)] = text[i]
  BY <1>1, TakenIs DEF Trim, K
<1> HIDE DEF out
<1>3. m \in Nat /\ DOMAIN text = 1..m /\ Len(out) \in Nat
  BY <1>2
<1>4. Len(out) = Min({m, n}) /\ Len(out) <= m /\ Len(out) <= n
  <2>1. {m, n} \in SUBSET Nat /\ {m, n} # {}
    BY <1>3
  <2>2. Min({m, n}) \in {m, n} /\ Min({m, n}) <= m /\ Min({m, n}) <= n
    BY <2>1, MinIsLeast
  <2> QED
    BY <1>1, <1>2, <1>3, <2>2
<1>5. k \in Nat /\ k <= 3 /\ k <= Len(out) /\ k <= m /\ k <= n
  <2>1. {3, Len(out)} \in SUBSET Nat /\ {3, Len(out)} # {}
    BY <1>3
  <2>2. k \in {3, Len(out)} /\ k <= 3 /\ k <= Len(out)
    BY <2>1, MinIsLeast
  <2> HIDE DEF k
  <2> QED
    BY <1>3, <1>4, <2>2
<1> HIDE DEF k
<1>6. \A i \in 1..k : out[i] = text[i]
  <2> SUFFICES ASSUME NEW i \in 1..k PROVE out[i] = text[i]
    OBVIOUS
  <2>1. i \in K /\ \A j \in 1..i : j \in K
    BY <1>1, <1>3, <1>5
  <2>2. {j \in K : j <= i} = 1..i
    BY <1>1, <1>3, <2>1
  <2>3. Rank(K, i) = i
    <3>1. i \in Nat
      BY <1>5
    <3> QED
      BY <2>2, <3>1, CountUpTo DEF Rank
  <2> QED
    BY <1>2, <2>1, <2>3
<1>7. SubSeq(out, 1, k) = SubSeq(text, 1, k)
  <2>1. SubSeq(out, 1, k) = [i \in 1..k |-> out[i]]
    BY <1>2, <1>3, <1>5
  <2>2. SubSeq(text, 1, k) = [i \in 1..k |-> text[i]]
    BY <1>3, <1>5
  <2> QED
    BY <1>6, <2>1, <2>2
<1>8. ASSUME n > 4, m > n + 1 PROVE Last(out) = Last(text)
  <2>1. {j \in K : j <= m} = K /\ m \in K
    BY <1>1, <1>3, <1>8
  <2>2. Rank(K, m) = Len(out)
    BY <1>2, <2>1 DEF Rank
  <2> QED
    BY <1>2, <2>1, <2>2 DEF Last
<1> QED
  BY <1>4, <1>7, <1>8 DEF out, k

LEMMA ScriptJudged ==
  ASSUME ScriptInv, NEW advice \in {"pass", "retry"}, Judge(advice)
  PROVE  ScriptInv'
<1>1. /\ scripting = "judge" /\ UNCHANGED <<cache, beats, draft, written>>
      /\ made.meta = beats /\ beats \in Seq(STRING) /\ Unlike(beats) /\ draft \in Seq(Nat)
  BY DEF Judge, ScriptInv, ScriptHeld
<1>2. CASE advice = "pass" \/ try = Tries
  <2> DEFINE text == Trim(draft, Len(beats))
  <2>1. /\ scripting' = "done" /\ UNCHANGED try
        /\ made' = [made EXCEPT !.source = "llm", !.lines = text, !.of = draft,
                                !.judged = draft, !.verdict = advice, !.qa = QaIssues(text)]
    BY <1>2 DEF Judge, Accept
  <2>2. /\ Len(text) = Min({Len(draft), Len(beats)})
        /\ SubSeq(text, 1, Min({3, Len(text)})) = SubSeq(draft, 1, Min({3, Len(text)}))
        /\ Len(beats) > 4 /\ Len(draft) > Len(beats) + 1 => Last(text) = Last(draft)
    <3>1. Len(beats) \in Nat
      BY <1>1
    <3> QED
      BY <1>1, <3>1, Trimmed
  <2> HIDE DEF text
  <2>3. DOMAIN made = DOMAIN NotMade
    BY DEF ScriptInv, ScriptHeld
  <2>4. /\ made'.source = "llm" /\ made'.lines = text /\ made'.of = draft /\ made'.judged = draft
        /\ made'.verdict = advice /\ made'.qa = QaIssues(text) /\ made'.meta = beats
        /\ DOMAIN made' = DOMAIN NotMade
    BY <1>1, <2>1, <2>3 DEF NotMade
  <2>5. ScriptHeld'
    BY <1>1, <2>1, <2>4 DEF ScriptInv, ScriptHeld
  <2>6. ScriptSound'
    BY <1>1, <1>2, <2>1, <2>2, <2>4 DEF ScriptSound, Unlike
  <2> QED
    BY <2>5, <2>6 DEF ScriptInv
<1>3. CASE ~(advice = "pass" \/ try = Tries)
  BY <1>1, <1>3 DEF Judge, ScriptInv, ScriptHeld, ScriptSound, NotMade
<1> QED
  BY <1>2, <1>3

LEMMA CallFailed ==
  ASSUME ScriptInv, NEW kind \in {"network", "logic"}, CallFails(kind)
  PROVE  ScriptInv'
BY AfterFailure DEF CallFails, ScriptInv, ScriptHeld

LEMMA NextBegun == ASSUME ScriptInv, NextScript PROVE ScriptInv'
BY DEF NextScript, ScriptInv, ScriptHeld, ScriptSound, NotMade

\* A script that is handed on is trimmed to its beats, none like another, keeps its hooks
\* and its ending, was judged and counted as it is, and was taken against the judge's advice
\* only when no attempt was left (pipeline/script.py, utils/prompt_cache.py); for any
\* answers, limits, caches and number of attempts.
THEOREM ScriptHolds == ScriptSpec => []ScriptSound
<1>1. ScriptInit => ScriptInv
  BY ScriptStart
<1>2. ScriptInv /\ [ScriptNext]_pvars => ScriptInv'
  <2>1. ASSUME ScriptInv, ScriptNext PROVE ScriptInv'
    BY <2>1, EntryDropped, Researched, BeatsPlotted, Expanded, CallFailed, ScriptJudged,
       NextBegun DEF ScriptNext
  <2>2. ASSUME ScriptInv, UNCHANGED pvars PROVE ScriptInv'
    BY <2>2 DEF pvars, ScriptInv, ScriptHeld, ScriptSound
  <2> QED
    BY <2>1, <2>2
<1>3. ScriptInv => ScriptSound
  BY DEF ScriptInv
<1> QED
  BY <1>1, <1>2, <1>3, PTL DEF ScriptSpec

-----------------------------------------------------------------------------
\* Footage for every line

Footage == {s \in [start : 0..VideoEnd, end : 0..VideoEnd] : s.start < s.end}
Narrated == {l \in [start : Nat, end : Nat] : l.start < l.end}

\* scenes that cover the video from its start to an instant, without gap or overlap
Tiles(seq, to) ==
  /\ seq \in Seq(Footage) /\ seq # <<>>
  /\ seq[1].start = 0 /\ seq[Len(seq)].end = to
  /\ \A k \in 2..Len(seq) : seq[k].start = seq[k - 1].end

\* The members of a set by their places.
LEMMA NthIs ==
  ASSUME NEW n \in Nat, NEW K \in SUBSET (1..n)
  PROVE  /\ Cardinality(K) \in 0..n
         /\ \A k \in 1..Cardinality(K) : Nth(K, k) \in K
         /\ \A k \in 2..Cardinality(K) : Nth(K, k - 1) < Nth(K, k)
         /\ \A i \in K : (\A j \in K : j <= i) => Cardinality(K) >= 1 /\ Nth(K, Cardinality(K)) = i
<1> DEFINE size == Cardinality(K)
<1>1. /\ IsFiniteSet(K) /\ size \in 0..n
      /\ \A i \in K : Rank(K, i) \in 1..size
      /\ \A i, j \in K : i # j => Rank(K, i) # Rank(K, j)
      /\ \A k \in 1..size : \E i \in K : Rank(K, i) = k
  BY EveryRank
<1>2. \A k \in 1..size : Nth(K, k) \in K /\ Rank(K, Nth(K, k)) = k
  BY <1>1 DEF Nth
<1>0. \A i \in K : i \in Nat
  OBVIOUS
<1> HIDE DEF size
<1>3. ASSUME NEW k \in 2..size PROVE Nth(K, k - 1) < Nth(K, k)
  <2> DEFINE x == Nth(K, k - 1)
             y == Nth(K, k)
  <2>1. x \in K /\ y \in K /\ Rank(K, x) = k - 1 /\ Rank(K, y) = k /\ x \in Nat /\ y \in Nat
    <3>1. k - 1 \in 1..size /\ k \in 1..size
      BY <1>1
    <3>2. x \in K /\ y \in K /\ Rank(K, x) = k - 1 /\ Rank(K, y) = k
      BY <1>2, <3>1
    <3> QED
      BY <1>0, <3>2
  <2> HIDE DEF x, y
  <2>2. CASE y <= x
    <3>1. {j \in K : j <= y} \subseteq {j \in K : j <= x}
      <4>1. \A j \in Nat : j <= y => j <= x
        BY <2>1, <2>2
      <4> QED
        BY <1>0, <4>1
    <3>2. IsFiniteSet({j \in K : j <= x})
      BY <1>1, FS_Subset
    <3>3. Rank(K, y) <= Rank(K, x)
      BY <3>1, <3>2, FS_Subset DEF Rank
    <3> QED
      BY <1>1, <2>1, <3>3
  <2> QED
    BY <2>1, <2>2 DEF x, y
<1>4. ASSUME NEW i \in K, \A j \in K : j <= i PROVE size >= 1 /\ Nth(K, size) = i
  <2>1. {j \in K : j <= i} = K
    BY <1>4
  <2>2. Rank(K, i) = size /\ size \in 1..size
    BY <1>1, <2>1 DEF Rank, size
  <2>3. size >= 1 /\ Nth(K, size) \in K /\ Rank(K, Nth(K, size)) = Rank(K, i)
    BY <1>1, <1>2, <2>2
  <2> QED
    BY <1>1, <2>3
<1> QED
  BY <1>1, <1>2, <1>3, <1>4 DEF size

\* The scenes between the cuts cover the video.
LEMMA ScenesTile ==
  ASSUME NEW cuts \in SUBSET Cuts
  PROVE  Tiles(ScenesAt(cuts), VideoEnd)
<1> DEFINE ends == cuts \cup {VideoEnd}
           m == Cardinality(ends)
           scene(k) == [start |-> IF k = 1 THEN 0 ELSE Nth(ends, k - 1), end |-> Nth(ends, k)]
           seq == [k \in 1..m |-> scene(k)]
<1>1. VideoEnd \in Nat \ {0} /\ ends \in SUBSET (1..VideoEnd) /\ VideoEnd \in ends
      /\ \A j \in ends : j <= VideoEnd
  BY ClipAssumption
<1> HIDE DEF ends
<1>2. /\ m \in 0..VideoEnd
      /\ \A k \in 1..m : Nth(ends, k) \in ends
      /\ \A k \in 2..m : Nth(ends, k - 1) < Nth(ends, k)
      /\ m >= 1 /\ Nth(ends, m) = VideoEnd
  BY <1>1, NthIs
<1>3. ScenesAt(cuts) = seq
  BY DEF ScenesAt, ends
<1>4. \A k \in 1..m : Nth(ends, k) \in 1..VideoEnd
  BY <1>1, <1>2
<1> HIDE DEF m
<1>5. ASSUME NEW k \in 1..m PROVE scene(k) \in Footage
  <2>1. CASE k = 1
    BY <1>1, <1>4, <2>1 DEF Footage
  <2>2. CASE k # 1
    <3>1. k \in 2..m /\ k - 1 \in 1..m
      BY <1>2, <2>2
    <3>2. Nth(ends, k - 1) \in 1..VideoEnd /\ Nth(ends, k) \in 1..VideoEnd /\ Nth(ends, k - 1) < Nth(ends, k)
      BY <1>2, <1>4, <3>1
    <3> QED
      BY <1>1, <2>2, <3>2 DEF Footage
  <2> QED
    BY <2>1, <2>2
<1>6. seq \in Seq(Footage) /\ Len(seq) = m /\ seq # <<>>
  <2>1. seq \in [1..m -> Footage] /\ m \in Nat
    BY <1>2, <1>5
  <2>2. seq \in Seq(Footage) /\ Len(seq) = m
    BY <2>1
  <2> HIDE DEF seq
  <2> QED
    BY <1>2, <2>2
<1>7. seq[1].start = 0 /\ seq[m].end = VideoEnd
  BY <1>2
<1>8. \A k \in 2..m : seq[k].start = seq[k - 1].end
  BY <1>2
<1> HIDE DEF seq
<1> QED
  BY <1>3, <1>6, <1>7, <1>8 DEF Tiles

\* what is merged of scenes that reach from 0 to an instant, and what waits
Merged == [out : Seq(Footage), pending : BOOLEAN, from : 0..VideoEnd, upto : 0..VideoEnd]
LongOnes(out, min) == \A k \in 1..Len(out) : Dur(out[k]) >= min
Joined(out, upto) ==
  /\ out = <<>> => upto = 0
  /\ out # <<>> => Tiles(out, upto)
MergedTo(acc, upto, min) ==
  /\ acc \in Merged /\ LongOnes(acc.out, min)
  /\ acc.pending => acc.from < acc.upto /\ acc.upto = upto
  /\ Joined(acc.out, IF acc.pending THEN acc.from ELSE upto)

\* One more piece of footage that begins where the others end.
LEMMA OneMorePiece ==
  ASSUME NEW out \in Seq(Footage), NEW at, Joined(out, at), NEW s \in Footage, s.start = at
  PROVE  Append(out, s) \in Seq(Footage) /\ Tiles(Append(out, s), s.end)
<1> DEFINE n == Len(out)
           all == Append(out, s)
<1>1. /\ n \in Nat /\ all \in Seq(Footage) /\ Len(all) = n + 1 /\ all[n + 1] = s
      /\ \A k \in 1..n : all[k] = out[k]
  OBVIOUS
<1>2. CASE out = <<>>
  <2>1. n = 0 /\ at = 0
    BY <1>2 DEF Joined
  <2> HIDE DEF all, n
  <2>2. all # <<>> /\ 2..Len(all) = {}
    <3>1. Len(all) = 1 /\ Len(<<>>) = 0
      BY <1>1, <2>1
    <3>2. 2..1 = {}
      OBVIOUS
    <3> QED
      BY <3>1, <3>2
  <2> QED
    BY <1>1, <2>1, <2>2 DEF Tiles, all
<1>3. CASE out # <<>>
  <2>1. Tiles(out, at) /\ n >= 1
    BY <1>3 DEF Joined
  <2> HIDE DEF all, n
  <2>2. all[1].start = 0 /\ all # <<>>
    BY <1>1, <2>1 DEF Tiles
  <2>3. ASSUME NEW k \in 2..n + 1 PROVE all[k].start = all[k - 1].end
    <3>1. CASE k = n + 1
      BY <1>1, <2>1, <3>1 DEF Tiles, n
    <3>2. CASE k # n + 1
      <4>1. k \in 2..n /\ k \in 1..n /\ k - 1 \in 1..n
        BY <1>1, <3>2
      <4> QED
        BY <1>1, <2>1, <4>1 DEF Tiles, n
    <3> QED
      BY <3>1, <3>2
  <2> QED
    BY <1>1, <2>2, <2>3 DEF Tiles, all
<1> QED
  BY <1>2, <1>3

\* One more scene is merged or waits.
LEMMA MergedOnce ==
  ASSUME NEW acc, NEW upto, NEW min \in Nat, MergedTo(acc, upto, min),
         NEW s \in Footage, s.start = upto
  PROVE  MergedTo(MergeNext(acc, s, min), s.end, min)
<1> DEFINE from == IF acc.pending THEN acc.from ELSE s.start
           grown == [start |-> from, end |-> s.end]
<1>1. /\ acc.out \in Seq(Footage) /\ acc.pending \in BOOLEAN /\ acc.from \in 0..VideoEnd
      /\ acc.upto \in 0..VideoEnd
      /\ LongOnes(acc.out, min) /\ VideoEnd \in Nat
      /\ s.start \in 0..VideoEnd /\ s.end \in 0..VideoEnd /\ s.start < s.end
  BY ClipAssumption DEF MergedTo, Merged, Footage
<1>2. from \in 0..VideoEnd /\ from <= s.start /\ from < s.end /\ Joined(acc.out, from)
  BY <1>1 DEF MergedTo
<1>3. grown \in Footage
  BY <1>1, <1>2 DEF Footage
<1>4. CASE Dur(s) >= min
  <2> DEFINE out == Append(acc.out, grown)
             next == [out |-> out, pending |-> FALSE, from |-> 0, upto |-> 0]
  <2>1. MergeNext(acc, s, min) = next
    BY <1>4 DEF MergeNext
  <2>2. out \in Seq(Footage) /\ Tiles(out, s.end)
    <3> HIDE DEF from
    <3>1. grown.start = from /\ grown.end = s.end
      OBVIOUS
    <3> HIDE DEF grown
    <3> QED
      BY <1>1, <1>2, <1>3, <3>1, OneMorePiece
  <2>3. Dur(grown) >= min
    <3> HIDE DEF from
    <3> QED
      BY <1>1, <1>2, <1>4 DEF Dur
  <2>4. LongOnes(out, min)
    <3> HIDE DEF from, grown
    <3> QED
      BY <1>1, <1>3, <2>3 DEF LongOnes
  <2> HIDE DEF out
  <2>5. next \in Merged
    BY <1>1, <2>2 DEF Merged
  <2>6. Joined(out, s.end)
    BY <2>2 DEF Joined, Tiles
  <2> QED
    BY <2>1, <2>4, <2>5, <2>6 DEF MergedTo
<1>5. CASE ~(Dur(s) >= min)
  <2> DEFINE next == [out |-> acc.out, pending |-> TRUE, from |-> from, upto |-> s.end]
  <2>1. MergeNext(acc, s, min) = next
    BY <1>5 DEF MergeNext
  <2> HIDE DEF from
  <2> QED
    BY <1>1, <1>2, <2>1 DEF MergedTo, Merged
<1> QED
  BY <1>4, <1>5

\* What is merged of all the scenes reaches from the start to the end.
LEMMA AllMerged ==
  ASSUME NEW seq, Tiles(seq, VideoEnd), NEW min \in Nat
  PROVE  MergedTo(Merging(seq, min), VideoEnd, min)
<1> DEFINE n == Len(seq)
           A == [out : Seq([start : 0..VideoEnd, end : 0..VideoEnd]), pending : BOOLEAN,
                 from : 0..VideoEnd, upto : 0..VideoEnd]
           Goal(a, i) == MergeNext(a, seq[i], min)
           Next(g, i) == IF i = 0 THEN NoneMerged ELSE Goal(g[i - 1], i)
           Grows(g) == g = [i \in 0..n |-> Next(g, i)]
           step == [p \in A \X (1..n) |-> Goal(p[1], p[2])]
           end(i) == IF i = 0 THEN 0 ELSE seq[i].end
<1>1. /\ n \in Nat /\ n >= 1 /\ VideoEnd \in Nat /\ \A i \in 1..n : seq[i] \in Footage
      /\ seq \in Seq(Footage)
  <2>1. seq \in Seq(Footage) /\ seq # <<>> /\ VideoEnd \in Nat
    BY ClipAssumption DEF Tiles
  <2> QED
    BY <2>1
<1>2. \A i \in 1..n : seq[i].start = end(i - 1)
  <2> SUFFICES ASSUME NEW i \in 1..n PROVE seq[i].start = end(i - 1)
    OBVIOUS
  <2>1. CASE i = 1
    BY <2>1 DEF Tiles
  <2>2. CASE i # 1
    <3>1. i \in 2..n /\ i - 1 # 0
      BY <1>1, <2>2
    <3> QED
      BY <3>1 DEF Tiles
  <2> QED
    BY <2>1, <2>2
<1>3. \A a \in A : \A i \in 1..n : Goal(a, i) \in A
  <2> SUFFICES ASSUME NEW a \in A, NEW i \in 1..n PROVE MergeNext(a, seq[i], min) \in A
    OBVIOUS
  <2> DEFINE B == [start : 0..VideoEnd, end : 0..VideoEnd]
             s == seq[i]
             from == IF a.pending THEN a.from ELSE s.start
             grown == [start |-> from, end |-> s.end]
  <2>1. s.start \in 0..VideoEnd /\ s.end \in 0..VideoEnd /\ 0 \in 0..VideoEnd
    BY <1>1 DEF Footage
  <2>2. a.out \in Seq(B) /\ a.pending \in BOOLEAN /\ a.from \in 0..VideoEnd
    OBVIOUS
  <2> HIDE DEF s
  <2>3. from \in 0..VideoEnd /\ grown \in B
    BY <2>1, <2>2
  <2> HIDE DEF from, grown, B
  <2>4. Append(a.out, grown) \in Seq(B)
    BY <2>2, <2>3
  <2>5. MergeNext(a, s, min) = IF Dur(s) >= min
          THEN [out |-> Append(a.out, grown), pending |-> FALSE, from |-> 0, upto |-> 0]
          ELSE [out |-> a.out, pending |-> TRUE, from |-> from, upto |-> s.end]
    BY DEF MergeNext, from, grown
  <2>6. A = [out : Seq(B), pending : BOOLEAN, from : 0..VideoEnd, upto : 0..VideoEnd]
    BY DEF B
  <2> HIDE DEF A
  <2>7. MergeNext(a, s, min) \in A
    BY <2>1, <2>2, <2>3, <2>4, <2>5, <2>6
  <2> QED
    BY <2>7 DEF s
<1>4. NoneMerged \in A
  BY <1>1 DEF NoneMerged
<1> HIDE DEF Goal, A, n
<1>5. step \in [A \X (1..n) -> A]
  BY <1>3
<1>6. PICK g : g \in Goes(n, A, NoneMerged, step)
  <2> HIDE DEF step
  <2> QED
    BY <1>1, <1>4, <1>5, Folded
<1>7. /\ g \in [0..n -> A] /\ g[0] = NoneMerged
      /\ \A i \in 1..n : g[i] = step[<<g[i - 1], i>>]
  <2> HIDE DEF step
  <2> QED
    BY <1>6 DEF Goes
<1>8. Grows(g)
  <2>1. \A i \in 0..n : g[i] = Next(g, i)
    <3> SUFFICES ASSUME NEW i \in 0..n, i # 0 PROVE g[i] = Goal(g[i - 1], i)
      BY <1>7
    <3>1. i \in 1..n /\ i - 1 \in 0..n
      BY <1>1
    <3>2. <<g[i - 1], i>> \in A \X (1..n)
      BY <1>7, <3>1
    <3> QED
      BY <1>7, <3>1, <3>2
  <2> HIDE DEF Next
  <2> QED
    BY <1>7, <2>1
<1> DEFINE f == CHOOSE h : Grows(h)
<1>9. Grows(f)
  <2> HIDE DEF Grows
  <2> QED
    BY <1>8
<1>10. Merging(seq, min) = f[n]
  BY DEF Merging, Goal, n
<1>11. \A i \in 0..n : f[i] = Next(f, i)
  <2> HIDE DEF Next, f
  <2> QED
    BY <1>9
<1> HIDE DEF f
<1> DEFINE S == {m \in Nat : m <= n => MergedTo(f[m], end(m), min)}
<1>12. 0 \in S
  <2>1. f[0] = NoneMerged
    BY <1>1, <1>11
  <2>2. MergedTo(NoneMerged, 0, min)
    <3>1. 1..Len(<<>>) = {} /\ <<>> \in Seq(Footage) /\ 0 \in 0..VideoEnd
      BY <1>1
    <3> QED
      BY <3>1 DEF MergedTo, NoneMerged, Merged, LongOnes, Joined
  <2> QED
    BY <2>1, <2>2
<1>13. \A m \in Nat : m \in S => m + 1 \in S
  <2> SUFFICES ASSUME NEW m \in Nat, m + 1 <= n, MergedTo(f[m], end(m), min)
               PROVE  MergedTo(f[m + 1], end(m + 1), min)
    BY <1>1
  <2>1. m + 1 \in 1..n /\ m + 1 \in 0..n /\ m + 1 # 0 /\ (m + 1) - 1 = m
    BY <1>1
  <2>2. f[m + 1] = MergeNext(f[m], seq[m + 1], min)
    BY <1>11, <2>1 DEF Goal
  <2>3. seq[m + 1] \in Footage /\ seq[m + 1].start = end(m) /\ end(m + 1) = seq[m + 1].end
    BY <1>1, <1>2, <2>1
  <2> HIDE DEF end
  <2> QED
    BY <2>2, <2>3, MergedOnce
<1>14. n \in S
  <2> HIDE DEF S
  <2> QED
    BY <1>1, <1>12, <1>13, EveryNatural
<1>15. end(n) = VideoEnd
  BY <1>1 DEF Tiles, n
<1> HIDE DEF end
<1> QED
  BY <1>1, <1>10, <1>14, <1>15

\* Merged scenes cover the video; if there are several, each lasts the least there is.
LEMMA MergeTiles ==
  ASSUME NEW seq, Tiles(seq, VideoEnd), NEW min \in Nat
  PROVE  /\ Tiles(MergeShort(seq, min), VideoEnd)
         /\ Len(MergeShort(seq, min)) > 1 => LongOnes(MergeShort(seq, min), min)
<1> DEFINE run == Merging(seq, min)
           out == run.out
           n == Len(out)
           longer == [out EXCEPT ![n].end = run.upto]
           rest == [start |-> run.from, end |-> run.upto]
<1>1. MergedTo(run, VideoEnd, min)
  BY AllMerged
<1>2. MergeShort(seq, min) = IF ~run.pending THEN out ELSE IF n = 0 THEN <<rest>> ELSE longer
  BY DEF MergeShort
<1> HIDE DEF run
<1>3. /\ out \in Seq(Footage) /\ run.pending \in BOOLEAN /\ run.from \in 0..VideoEnd
      /\ run.upto \in 0..VideoEnd /\ VideoEnd \in Nat \ {0} /\ LongOnes(out, min)
  BY <1>1, ClipAssumption DEF MergedTo, Merged
<1>4. CASE ~run.pending
  <2>1. out # <<>> /\ Tiles(out, VideoEnd)
    BY <1>1, <1>3, <1>4 DEF MergedTo, Joined
  <2> QED
    BY <1>2, <1>3, <1>4, <2>1
<1>5. CASE run.pending /\ n = 0
  <2>1. run.from = 0 /\ run.upto = VideoEnd
    BY <1>1, <1>3, <1>5 DEF MergedTo, Joined
  <2>2. rest \in Footage /\ rest.start = 0 /\ rest.end = VideoEnd
    BY <1>3, <2>1 DEF Footage
  <2> HIDE DEF rest
  <2>3. <<rest>> \in Seq(Footage) /\ Len(<<rest>>) = 1 /\ <<rest>>[1] = rest /\ <<rest>> # <<>>
        /\ 2..1 = {}
    BY <2>2
  <2>4. Tiles(<<rest>>, VideoEnd)
    BY <2>2, <2>3 DEF Tiles
  <2> QED
    BY <1>2, <1>5, <2>3, <2>4
<1>6. CASE run.pending /\ n # 0
  <2>1. n \in Nat /\ n >= 1 /\ DOMAIN out = 1..n /\ out # <<>>
    BY <1>3, <1>6
  <2>2. Tiles(out, run.from) /\ run.from < run.upto /\ run.upto = VideoEnd
    BY <1>1, <1>6, <2>1 DEF MergedTo, Joined
  <2>3. \A k \in 1..n : /\ out[k] \in Footage
                        /\ out[k].start \in 0..VideoEnd /\ out[k].end \in 0..VideoEnd
                        /\ out[k].start < out[k].end /\ out[k].end - out[k].start >= min
    BY <1>3 DEF Footage, LongOnes, Dur
  <2>4. /\ longer \in [1..n -> [start : 0..VideoEnd, end : 0..VideoEnd]]
        /\ longer[n] = [start |-> out[n].start, end |-> run.upto]
        /\ \A k \in 1..n : k # n => longer[k] = out[k]
    <3>1. out[n] = [start |-> out[n].start, end |-> out[n].end]
      BY <2>1, <2>3 DEF Footage
    <3>2. [out[n] EXCEPT !.end = run.upto] = [start |-> out[n].start, end |-> run.upto]
      BY <3>1
    <3>3. longer = [k \in 1..n |-> IF k = n THEN [start |-> out[n].start, end |-> run.upto]
                                   ELSE out[k]]
      BY <2>1, <3>2
    <3>4. \A k \in 1..n : out[k] \in [start : 0..VideoEnd, end : 0..VideoEnd]
      BY <2>3 DEF Footage
    <3> HIDE DEF longer, n
    <3> QED
      BY <1>3, <2>1, <2>3, <3>3, <3>4
  <2> HIDE DEF longer, n
  <2>5. out[n].end = run.from
    BY <2>2 DEF Tiles, n
  <2>6. ASSUME NEW k \in 1..n PROVE longer[k] \in Footage /\ Dur(longer[k]) >= min
    <3>1. CASE k = n
      <4>1. longer[k] = [start |-> out[n].start, end |-> VideoEnd]
        BY <2>2, <2>4, <3>1
      <4>2. out[n].start \in 0..VideoEnd /\ out[n].start < VideoEnd
            /\ VideoEnd - out[n].start >= min
        BY <1>3, <2>1, <2>2, <2>3, <2>5
      <4> QED
        BY <1>3, <4>1, <4>2 DEF Footage, Dur
    <3>2. CASE k # n
      BY <2>3, <2>4, <3>2 DEF Dur
    <3> QED
      BY <3>1, <3>2
  <2>7. longer \in Seq(Footage) /\ Len(longer) = n /\ longer # <<>>
    <3>1. longer \in [1..n -> Footage]
      BY <2>4, <2>6
    <3>2. longer \in Seq(Footage) /\ Len(longer) = n
      BY <2>1, <3>1
    <3> QED
      BY <2>1, <3>2
  <2>8. longer[1].start = 0 /\ longer[n].end = VideoEnd
    <3>1. out[1].start = 0
      BY <2>2 DEF Tiles
    <3>2. longer[1].start = out[1].start
      BY <2>1, <2>4
    <3> QED
      BY <2>2, <2>4, <3>1, <3>2
  <2>9. ASSUME NEW k \in 2..n PROVE longer[k].start = longer[k - 1].end
    <3>1. k \in 1..n /\ k - 1 \in 1..n /\ k - 1 # n
      BY <2>1
    <3>2. longer[k].start = out[k].start /\ longer[k - 1] = out[k - 1]
      BY <2>4, <3>1
    <3> QED
      BY <2>2, <3>2 DEF Tiles, n
  <2> QED
    BY <1>2, <1>6, <2>6, <2>7, <2>8, <2>9 DEF Tiles, LongOnes
<1> QED
  BY <1>3, <1>4, <1>5, <1>6

\* The greater of one and another number.
LEMMA FromOne ==
  ASSUME NEW x \in Int
  PROVE  Max({1, x}) = IF x >= 1 THEN x ELSE 1
<1> DEFINE m == IF x >= 1 THEN x ELSE 1
<1>1. m \in {1, x} /\ \A y \in {1, x} : m >= y
  OBVIOUS
<1>2. \A z \in {1, x} : (\A y \in {1, x} : z >= y) => z = m
  OBVIOUS
<1> HIDE DEF m
<1> QED
  BY <1>1, <1>2 DEF Max, m

\* The span of some footage begins with the first and ends with the last of it.
LEMMA SpanIs ==
  ASSUME NEW seq \in Seq(Footage), seq # <<>>
  PROVE  /\ SpanOf(seq) \in Footage
         /\ \A k \in DOMAIN seq : /\ SpanOf(seq).start <= seq[k].start
                                  /\ seq[k].end <= SpanOf(seq).end
<1> DEFINE starts == {seq[k].start : k \in DOMAIN seq}
           ends == {seq[k].end : k \in DOMAIN seq}
<1>1. /\ VideoEnd \in Nat /\ DOMAIN seq = 1..Len(seq) /\ Len(seq) \in Nat /\ 1 \in DOMAIN seq
      /\ \A k \in DOMAIN seq : /\ seq[k].start \in 0..VideoEnd /\ seq[k].end \in 0..VideoEnd
                               /\ seq[k].start < seq[k].end
  BY ClipAssumption DEF Footage
<1>2. starts \in SUBSET Nat /\ starts # {} /\ ends \in SUBSET (0..VideoEnd) /\ ends # {}
  BY <1>1
<1>3. SpanOf(seq) = [start |-> Min(starts), end |-> Max(ends)]
  BY DEF SpanOf
<1>4. Min(starts) \in starts /\ \A x \in starts : Min(starts) <= x
  <2> HIDE DEF starts
  <2> QED
    BY <1>2, MinIsLeast
<1>5. Max(ends) \in ends /\ \A x \in ends : Max(ends) >= x
  <2> HIDE DEF ends
  <2> QED
    BY <1>1, <1>2, MaxIsGreatest
<1>6. \A k \in DOMAIN seq : Min(starts) <= seq[k].start /\ Max(ends) >= seq[k].end
  BY <1>4, <1>5
<1>7. Min(starts) \in 0..VideoEnd /\ Max(ends) \in 0..VideoEnd
  <2>1. \A x \in starts : x \in 0..VideoEnd
    BY <1>1
  <2> HIDE DEF starts, ends
  <2> QED
    BY <1>2, <1>4, <1>5, <2>1
<1> HIDE DEF starts, ends
<1>8. Min(starts) < Max(ends) /\ \A k \in DOMAIN seq : seq[k].end <= Max(ends)
  BY <1>1, <1>6, <1>7
<1> QED
  BY <1>3, <1>6, <1>7, <1>8 DEF Footage

\* A filter leaves footage, and some.
LEMMA WhereIs ==
  ASSUME NEW seq \in Seq(Footage), seq # <<>>, NEW K \in SUBSET DOMAIN seq
  PROVE  Where(seq, K) \in Seq(Footage) /\ Where(seq, K) # <<>>
<1>1. Taken(seq, K) \in Seq(Footage)
  BY TakenIs
<1> QED
  BY <1>1 DEF Where, UnlessNone

\* The end of a window lies behind its beginning, however short the footage.
LEMMA SharesGrow ==
  ASSUME NEW x \in 0..100, NEW y \in 0..100, x < y, NEW d \in Nat \ {0}
  PROVE  /\ (x * d) \div 100 \in Nat /\ (y * d + 99) \div 100 \in Nat
         /\ (x * d) \div 100 < (y * d + 99) \div 100 /\ (y * d + 99) \div 100 <= d
<1> DEFINE a == x * d
           b == y * d
<1>1. PICK e \in Nat : e > 0 /\ y = x + e
  <2>1. y - x \in Nat /\ y - x > 0 /\ y = x + (y - x)
    OBVIOUS
  <2> QED
    BY <2>1
<1>2. PICK r \in Nat : 100 = y + r
  <2>1. 100 - y \in Nat /\ 100 = y + (100 - y)
    OBVIOUS
  <2> QED
    BY <2>1
<1>3. b = a + e * d /\ e * d \in Nat /\ e * d > 0
  BY <1>1
<1>4. 100 * d = b + r * d /\ r * d \in Nat
  BY <1>2
<1>5. a \in Nat /\ b \in Nat
  OBVIOUS
<1> HIDE DEF a, b
<1>6. a < b /\ b <= 100 * d
  BY <1>3, <1>4, <1>5
<1>7. /\ a \div 100 \in Nat /\ (b + 99) \div 100 \in Nat
      /\ a \div 100 < (b + 99) \div 100 /\ (b + 99) \div 100 <= d
  BY <1>5, <1>6
<1> QED
  BY <1>7 DEF a, b

\* So does the window.
LEMMA HighlightIs ==
  ASSUME NEW seq \in Seq(Footage), seq # <<>>, NEW window \in Windows
  PROVE  Highlight(seq, window) \in Seq(Footage) /\ Highlight(seq, window) # <<>>
<1> DEFINE span == SpanOf(seq)
           from == span.start + (window[1] * Dur(span)) \div 100
           to == span.start + (window[2] * Dur(span) + 99) \div 100
           K == {k \in DOMAIN seq : seq[k].end > from /\ seq[k].start < to}
           inside == Taken(seq, K)
           cut(s) == [start |-> IF s.start > from THEN s.start ELSE from,
                      end |-> IF s.end < to THEN s.end ELSE to]
           out == [k \in DOMAIN inside |-> cut(inside[k])]
<1>1. /\ VideoEnd \in Nat /\ window[1] \in 0..100 /\ window[2] \in 0..100 /\ window[1] < window[2]
  BY ClipAssumption
<1>2. /\ span.start \in 0..VideoEnd /\ span.end \in 0..VideoEnd /\ Dur(span) \in Nat \ {0}
      /\ span.start + Dur(span) = span.end
  <2>1. span \in Footage
    BY SpanIs
  <2> HIDE DEF span
  <2>2. span.start \in 0..VideoEnd /\ span.end \in 0..VideoEnd /\ span.start < span.end
    BY <2>1 DEF Footage
  <2>3. Dur(span) = span.end - span.start
    BY DEF Dur
  <2> QED
    BY <1>1, <2>2, <2>3
<1>3. from \in Nat /\ to \in Nat /\ from < to /\ to <= VideoEnd
  <2> DEFINE d == Dur(span)
             a == (window[1] * d) \div 100
             b == (window[2] * d + 99) \div 100
  <2>1. d \in Nat \ {0} /\ span.start + d <= VideoEnd /\ span.start \in Nat
    BY <1>1, <1>2
  <2> HIDE DEF d
  <2>2. a \in Nat /\ b \in Nat /\ a < b /\ b <= d
    BY <1>1, <2>1, SharesGrow
  <2>3. from = span.start + a /\ to = span.start + b
    BY DEF d
  <2> HIDE DEF a, b, from, to, span
  <2> QED
    BY <1>1, <2>1, <2>2, <2>3, SMTT(20)
<1> HIDE DEF from, to, span
<1>4. inside \in Seq(Footage) /\ \A k \in DOMAIN inside : \E i \in K : inside[k] = seq[i]
  <2>1. K \in SUBSET DOMAIN seq
    OBVIOUS
  <2> HIDE DEF K
  <2>2. inside \in Seq(Footage) /\ Len(inside) = Cardinality(K) /\ Cardinality(K) \in 0..Len(seq)
    BY <2>1, TakenIs
  <2>3. \A k \in 1..Cardinality(K) : Nth(K, k) \in K
    BY <2>1, NthIs
  <2>4. \A k \in 1..Cardinality(K) : inside[k] = seq[Nth(K, k)]
    BY DEF Taken
  <2> HIDE DEF inside
  <2> QED
    BY <2>2, <2>3, <2>4
<1>5. ASSUME NEW k \in DOMAIN inside PROVE cut(inside[k]) \in Footage
  <2>1. PICK i \in DOMAIN seq : inside[k] = seq[i] /\ seq[i].end > from /\ seq[i].start < to
    BY <1>4, <1>5
  <2>2. /\ seq[i].start \in 0..VideoEnd /\ seq[i].end \in 0..VideoEnd
        /\ seq[i].start < seq[i].end
    BY DEF Footage
  <2> HIDE DEF inside
  <2> QED
    BY <1>1, <1>3, <2>1, <2>2 DEF Footage
<1>6. out \in Seq(Footage) /\ (inside # <<>> => out # <<>>)
  <2> HIDE DEF inside, cut
  <2>1. out \in [1..Len(inside) -> Footage] /\ Len(inside) \in Nat
    BY <1>4, <1>5
  <2>2. out \in Seq(Footage) /\ Len(out) = Len(inside)
    BY <2>1
  <2> HIDE DEF out
  <2> QED
    BY <1>4, <2>2
<1>7. Highlight(seq, window) = IF inside = <<>> THEN seq ELSE out
  BY DEF Highlight, from, to, span
<1> QED
  BY <1>6, <1>7

\* There is always something to choose from.
LEMMA PoolIs ==
  ASSUME Tiles(scenes, VideoEnd), NEW opt \in Options
  PROVE  Pool(opt) \in Seq(Footage) /\ Pool(opt) # <<>>
<1> DEFINE min == MergeMin(opt.merge, opt.zone)
           merged == IF min > 0 THEN MergeShort(scenes, min) ELSE scenes
<1>1. opt.merge \in Nat /\ opt.window \in Windows
  BY ClipAssumption DEF Options
<1>2. min \in Nat
  <2> DEFINE x == (opt.merge * IF opt.zone = "hook" THEN 60 ELSE 140) \div 100
  <2>1. x \in Nat
    BY <1>1
  <2>2. min = IF opt.merge = 0 \/ opt.zone = "none" THEN opt.merge ELSE Max({MergeFloor, x})
    BY DEF MergeMin
  <2> HIDE DEF x, min
  <2>3. MergeFloor \in Nat
    BY ClipAssumption
  <2>4. Max({MergeFloor, x}) \in Nat
    <3> DEFINE y == IF MergeFloor >= x THEN MergeFloor ELSE x
    <3>1. y \in {MergeFloor, x} /\ \A z \in {MergeFloor, x} : y >= z
      BY <2>1, <2>3
    <3>2. \E m \in {MergeFloor, x} : \A z \in {MergeFloor, x} : m >= z
      BY <3>1
    <3> QED
      BY <2>1, <2>3, <3>2 DEF Max
  <2> QED
    BY <1>1, <2>2, <2>4
<1> HIDE DEF min
<1>3. merged \in Seq(Footage) /\ merged # <<>>
  BY <1>2, MergeTiles DEF Tiles
<1> HIDE DEF merged
<1> DEFINE large == DropTiny(merged)
           later == SkipIntro(large, opt.intro)
           light == DropDark(later, opt.dark)
<1>4. large \in Seq(Footage) /\ large # <<>>
  BY <1>3, WhereIs DEF DropTiny
<1> HIDE DEF large
<1>5. later \in Seq(Footage) /\ later # <<>>
  BY <1>4, WhereIs DEF SkipIntro
<1> HIDE DEF later
<1>6. light \in Seq(Footage) /\ light # <<>>
  BY <1>5, WhereIs DEF DropDark
<1> HIDE DEF light
<1>7. Pool(opt) = Highlight(light, opt.window)
  BY DEF Pool, light, later, large, merged, min
<1> QED
  BY <1>1, <1>6, <1>7, HighlightIs

\* the clamps there are: the jobs' and the one of swapped clips
Speeds == (1..100) \X {n \in Nat : n >= 100}

\* A window of footage for a line: inside the video, at a speed within a clamp unless
\* there is too little of it.
Showable(w, dur, end, within) ==
  /\ w.start \in Nat /\ w.end \in Nat /\ w.start < w.end /\ w.end <= end
  /\ 100 * Dur(w) <= within[2] * dur
  /\ 100 * Dur(w) >= within[1] * dur \/ (w.start = 0 /\ w.end = end)

\* Footage is clamped so that it can be shown with its line.
LEMMA ClampFits ==
  ASSUME NEW s \in Footage, NEW dur \in Nat \ {0}, NEW end \in Nat, s.end <= end,
         NEW within \in Speeds
  PROVE  Showable(ClampWindow(s, dur, end, within), dur, end, within)
<1> DEFINE d == Dur(s)
           a == within[1] * dur
           b == within[2] * dur
           fast == 100 * d > b
           target == IF fast THEN (dur * within[2]) \div 100
                     ELSE (dur * within[1] + 99) \div 100
           left == (s.start + s.end - target) \div 2
           from == IF left < 0 THEN 0 ELSE left
           to == from + target
           early == [start |-> from, end |-> to]
           late == [start |-> IF end < target THEN 0 ELSE end - target, end |-> end]
<1>1. s.start \in Nat /\ s.end \in Nat /\ s.start < s.end /\ d = s.end - s.start /\ d \in Nat
  BY ClipAssumption DEF Footage, Dur
<1>2. ClampWindow(s, dur, end, within) =
        IF a <= 100 * d /\ 100 * d <= b THEN s
        ELSE IF to <= end THEN early ELSE late
  BY DEF ClampWindow
<1>3. /\ a \in Nat /\ b \in Nat /\ 0 < a /\ a <= 100 * dur /\ 100 * dur <= b
      /\ dur * within[1] = a /\ dur * within[2] = b
  <2> DEFINE least == within[1]
             most == within[2]
  <2>1. least \in Nat /\ 1 <= least /\ least <= 100 /\ most \in Nat /\ 100 <= most
    BY DEF Speeds
  <2> HIDE DEF least, most
  <2>2. \A n \in Nat : n >= 1 => least * n \in Nat /\ 0 < least * n /\ least * n <= 100 * n
    BY <2>1
  <2>3. \A n \in Nat : n >= 1 => most * n \in Nat /\ 100 * n <= most * n
    BY <2>1
  <2>4. \A n \in Nat : n * least = least * n /\ n * most = most * n
    BY <2>1
  <2> QED
    BY <2>2, <2>3, <2>4 DEF least, most
<1>4. target = IF fast THEN b \div 100 ELSE (a + 99) \div 100
  BY <1>3
<1> HIDE DEF d, a, b, target
<1>5. target \in Nat /\ target > 0 /\ 100 * target <= b /\ 100 * target >= a
  <2>1. CASE fast
    <3>1. target = b \div 100
      BY <1>4, <2>1
    <3> HIDE DEF fast
    <3> QED
      BY <1>3, <3>1
  <2>2. CASE ~fast
    <3>1. target = (a + 99) \div 100
      BY <1>4, <2>2
    <3> HIDE DEF fast
    <3> QED
      BY <1>3, <3>1
  <2> QED
    BY <2>1, <2>2
<1>6. left \in Int /\ from \in Nat
  <2>1. s.start + s.end - target \in Int
    BY <1>1, <1>5
  <2> QED
    BY <2>1
<1>7. CASE a <= 100 * d /\ 100 * d <= b
  BY <1>1, <1>2, <1>7 DEF Showable, d, a, b
<1>8. ASSUME NEW w, ClampWindow(s, dur, end, within) = w,
             w.start \in Nat, w.end \in Nat, w.start < w.end, w.end <= end,
             100 * Dur(w) <= b, 100 * Dur(w) >= a \/ (w.start = 0 /\ w.end = end)
      PROVE  Showable(ClampWindow(s, dur, end, within), dur, end, within)
  BY <1>8 DEF Showable, a, b
<1>9. CASE ~(a <= 100 * d /\ 100 * d <= b) /\ to <= end
  <2>1. Dur(early) = target /\ early.start = from /\ early.end = to
    <3>1. (from + target) - from = target
      <4> HIDE DEF from
      <4> QED
        BY <1>5, <1>6
    <3> HIDE DEF from
    <3> QED
      BY <3>1 DEF Dur
  <2>2. ClampWindow(s, dur, end, within) = early
    BY <1>2, <1>9
  <2>3. from < to /\ to \in Nat
    <3> HIDE DEF from
    <3> QED
      BY <1>5, <1>6
  <2> HIDE DEF early, from, to
  <2> QED
    BY <1>5, <1>6, <1>8, <1>9, <2>1, <2>2, <2>3
<1>10. CASE ~(a <= 100 * d /\ 100 * d <= b) /\ ~(to <= end)
  <2>1. ClampWindow(s, dur, end, within) = late
    BY <1>2, <1>10
  <2>2. end > 0
    BY <1>1
  <2> HIDE DEF to
  <2>3. CASE end < target
    <3>1. late.start = 0 /\ late.end = end /\ Dur(late) = end
      BY <2>3 DEF Dur
    <3>2. 100 * end <= b
      BY <1>3, <1>5, <2>3
    <3>3. PICK w : w = late
      OBVIOUS
    <3> HIDE DEF late
    <3> QED
      BY <1>8, <2>1, <2>2, <3>1, <3>2, <3>3
  <2>4. CASE ~(end < target)
    <3>1. late.start = end - target /\ late.end = end /\ Dur(late) = target
      BY <1>5, <2>4 DEF Dur
    <3> HIDE DEF late
    <3> QED
      BY <1>5, <1>8, <2>1, <2>2, <2>4, <3>1
  <2> QED
    BY <2>3, <2>4
<1> HIDE DEF to
<1> QED
  BY <1>7, <1>9, <1>10

\* In a linear order of finitely many something comes first.
LEMMA FirstOf ==
  ASSUME NEW P, IsFiniteSet(P), P # {}, NEW R, LinearOn(P, R)
  PROVE  \E x \in P : \A y \in P : <<y, x>> \notin R
<1>1. Cardinality(P) \in Nat /\ Cardinality(P) # 0
  BY FS_CardinalityType, FS_EmptySet
<1>2. 1 \in 0..Cardinality(P)
  BY <1>1
<1>3. Cardinality(Early(P, R, 1)) = 1
  BY <1>2, RanksFill
<1>4. Early(P, R, 1) # {}
  BY <1>3, FS_EmptySet
<1>5. PICK x \in P : Cardinality({j \in P : <<j, x>> \in R}) < 1
  BY <1>4 DEF Early
<1> DEFINE before == {j \in P : <<j, x>> \in R}
<1>6. IsFiniteSet(before)
  BY FS_Subset
<1>7. Cardinality(before) \in Nat /\ Cardinality(before) < 1
  BY <1>5, <1>6, FS_CardinalityType
<1>8. Cardinality(before) = 0
  <2> HIDE DEF before
  <2> QED
    BY <1>7
<1>9. before = {}
  <2> HIDE DEF before
  <2> QED
    BY <1>6, <1>8, FS_EmptySet
<1> QED
  BY <1>9

\* A likeness is a percentage.
LEMMA SimPercent ==
  ASSUME NEW opt, NEW i, NEW k
  PROVE  Sim(opt, i, k) \in 0..100
BY ClipAssumption DEF Sim

\* Two candidates are never as good as each other.
LEMMA BetterIsLinear ==
  ASSUME NEW P \in SUBSET Nat, NEW opt, NEW i
  PROVE  LinearOn(P, {p \in P \X P : Better(opt, i, p[1], p[2])})
<1> DEFINE R == {p \in P \X P : Better(opt, i, p[1], p[2])}
<1>1. \A x \in P : x \in Nat /\ Sim(opt, i, x) \in Nat
  BY SimPercent
<1>2. \A x, y \in P : <<x, y>> \in R <=> Better(opt, i, x, y)
  OBVIOUS
<1> HIDE DEF R
<1>3. \A x \in P : <<x, x>> \notin R
  BY <1>1, <1>2 DEF Better
<1>4. \A x, y \in P : x # y => <<x, y>> \in R \/ <<y, x>> \in R
  BY <1>1, <1>2 DEF Better
<1>5. \A x, y, z \in P : <<x, y>> \in R /\ <<y, z>> \in R => <<x, z>> \in R
  BY <1>1, <1>2 DEF Better
<1> QED
  BY <1>3, <1>4, <1>5 DEF LinearOn, R

\* A line belongs to an act.
LEMMA ActIs ==
  ASSUME Len(lines) \in 1..MaxNarrated, NEW i \in 1..Len(lines)
  PROVE  ActOf(i) \in DOMAIN ActWeights
<1> DEFINE n == Len(lines)
           acts(m, j) == {a \in DOMAIN ActWeights : SumSeq(SubSeq(ActCounts(m), 1, a)) >= j}
                            \cup {Len(ActWeights)}
<1>1. DOMAIN ActWeights = 1..Len(ActWeights) /\ Len(ActWeights) \in Nat \ {0}
  BY ClipAssumption
<1>2. acts(n, i) \in SUBSET Nat /\ acts(n, i) # {} /\ acts(n, i) \subseteq DOMAIN ActWeights
  BY <1>1
<1>3. Min(acts(n, i)) \in acts(n, i)
  <2> HIDE DEF acts
  <2> QED
    BY <1>2, MinIsLeast
<1>4. ActOf(i) = Min(acts(n, i))
  BY DEF ActOf, ActsOf
<1> QED
  BY <1>2, <1>3, <1>4

\* The scenes a line may choose from.
LEMMA ChoicesAre ==
  ASSUME Len(lines) \in 1..MaxNarrated, NEW seq \in Seq(Footage), seq # <<>>, NEW opt,
         NEW i \in 1..Len(lines)
  PROVE  SceneChoices(seq, opt, i) \subseteq DOMAIN seq /\ SceneChoices(seq, opt, i) # {}
<1>1. ActOf(i) \in DOMAIN ActWeights
  BY ActIs
<1>2. 1 \in DOMAIN seq
  OBVIOUS
<1>3. \A b : ActBucket(seq, b) \subseteq DOMAIN seq
  BY DEF ActBucket
<1> QED
  BY <1>1, <1>2, <1>3 DEF SceneChoices

\* The bonus for a place in the film is a number.
LEMMA RhythmIs ==
  ASSUME NEW seq \in Seq(Footage), seq # <<>>, NEW zone, NEW k \in DOMAIN seq
  PROVE  Rhythm(seq, zone, k) \in Int
<1> DEFINE span == SpanOf(seq)
           u == 50 * (seq[k].start + seq[k].end - 2 * span.start)
           pos == u \div Dur(span)
           centre == IF zone = "hook" THEN 15 ELSE 85
           far == Abs(pos - centre)
<1>1. span.start \in Int /\ Dur(span) \in Nat \ {0}
  <2>1. span \in Footage
    BY SpanIs
  <2> HIDE DEF span
  <2>2. span.start \in Nat /\ span.end \in Nat /\ span.start < span.end
    BY <2>1, ClipAssumption DEF Footage
  <2>3. Dur(span) = span.end - span.start
    BY DEF Dur
  <2> QED
    BY <2>2, <2>3
<1>2. seq[k].start \in Int /\ seq[k].end \in Int
  <2>1. seq[k] \in Footage
    OBVIOUS
  <2> QED
    BY <2>1, ClipAssumption DEF Footage
<1> DEFINE d == Dur(span)
<1> HIDE DEF span
<1>3. u \in Int /\ d \in Nat \ {0}
  BY <1>1, <1>2
<1> HIDE DEF u, d
<1>4. u \div d \in Int
  BY <1>3
<1>5. pos \in Int /\ centre \in Int
  BY <1>4 DEF d
<1> HIDE DEF pos, centre
<1>6. far \in Int
  BY <1>5 DEF Abs
<1> HIDE DEF far
<1>7. (15 * (100 - far)) \div 100 \in Int
  BY <1>6
<1>8. Rhythm(seq, zone, k) = IF zone = "none" THEN 0 ELSE (15 * (100 - far)) \div 100
  BY DEF Rhythm, RhythmMax, far, pos, centre, u, span
<1> QED
  BY <1>7, <1>8

\* The scene that is preferred is one of the footage.
LEMMA PreferredIs ==
  ASSUME Len(lines) \in 1..MaxNarrated, NEW seq \in Seq(Footage), seq # <<>>, NEW opt,
         NEW i \in 1..Len(lines), NEW recent
  PROVE  Preferred(seq, opt, i, recent) \in DOMAIN seq
<1> DEFINE all == SceneChoices(seq, opt, i)
           R == {p \in all \X all : Better(opt, i, p[1], p[2])}
           ranked == Ranked(seq, opt, i)
           Adj(k) == Sim(opt, i, k) + Rhythm(seq, opt.zone, k)
                       - IF k \in recent THEN ReusePenalty ELSE 0
           Prefers(x, y) == Adj(x) > Adj(y) \/ (Adj(x) = Adj(y) /\ Better(opt, i, x, y))
           Q == {p \in ranked \X ranked : Prefers(p[1], p[2])}
<1>1. all \subseteq DOMAIN seq /\ all # {} /\ all \in SUBSET Nat /\ IsFiniteSet(all)
  <2>1. DOMAIN seq = 1..Len(seq) /\ Len(seq) \in Nat
    OBVIOUS
  <2>2. IsFiniteSet(DOMAIN seq)
    BY <2>1, CountUpTo
  <2>3. all \subseteq DOMAIN seq /\ all # {}
    BY ChoicesAre
  <2> QED
    BY <2>1, <2>2, <2>3, FS_Subset
<1>2. TopK \in Nat \ {0}
  BY ClipAssumption
<1>3. ranked = {k \in all : Cardinality({l \in all : Better(opt, i, l, k)}) < TopK}
  BY DEF Ranked
<1>4. LinearOn(all, R)
  BY <1>1, BetterIsLinear
<1> HIDE DEF all
<1>5. ranked \subseteq all /\ ranked # {} /\ IsFiniteSet(ranked)
  <2>1. PICK x \in all : \A y \in all : <<y, x>> \notin R
    <3> HIDE DEF R
    <3> QED
      BY <1>1, <1>4, FirstOf
  <2>2. {l \in all : Better(opt, i, l, x)} = {}
    BY <2>1
  <2>3. x \in ranked
    BY <1>2, <1>3, <2>2, FS_EmptySet
  <2>4. ranked \subseteq all
    BY <1>3
  <2> HIDE DEF ranked
  <2> QED
    BY <1>1, <2>3, <2>4, FS_Subset
<1> HIDE DEF ranked
<1>6. \A k \in ranked : k \in Nat /\ Adj(k) \in Int
  <2> SUFFICES ASSUME NEW k \in ranked PROVE k \in Nat /\ Adj(k) \in Int
    OBVIOUS
  <2>1. k \in Nat /\ k \in DOMAIN seq
    BY <1>1, <1>5
  <2>2. Sim(opt, i, k) \in Int /\ Rhythm(seq, opt.zone, k) \in Int
    BY <2>1, SimPercent, RhythmIs
  <2> QED
    BY <2>1, <2>2 DEF ReusePenalty
<1>7. LinearOn(ranked, {p \in ranked \X ranked : Better(opt, i, p[1], p[2])})
  BY <1>1, <1>5, BetterIsLinear, ZenonT(20)
<1> HIDE DEF Adj
<1>8. /\ \A x \in ranked : ~Better(opt, i, x, x)
      /\ \A x, y \in ranked : x # y => Better(opt, i, x, y) \/ Better(opt, i, y, x)
      /\ \A x, y, z \in ranked : Better(opt, i, x, y) /\ Better(opt, i, y, z) => Better(opt, i, x, z)
  BY <1>7 DEF LinearOn
<1>9. LinearOn(ranked, Q)
  <2>1. \A x, y \in ranked : <<x, y>> \in Q <=> Prefers(x, y)
    OBVIOUS
  <2> HIDE DEF Q
  <2>2. \A x \in ranked : <<x, x>> \notin Q
    BY <1>6, <1>8, <2>1
  <2>3. \A x, y \in ranked : x # y => <<x, y>> \in Q \/ <<y, x>> \in Q
    BY <1>6, <1>8, <2>1
  <2>4. \A x, y, z \in ranked : <<x, y>> \in Q /\ <<y, z>> \in Q => <<x, z>> \in Q
    BY <1>6, <1>8, <2>1
  <2> QED
    BY <2>2, <2>3, <2>4 DEF LinearOn
<1>10. PICK x \in ranked : \A y \in ranked : <<y, x>> \notin Q
  <2> HIDE DEF Q
  <2> QED
    BY <1>5, <1>9, FirstOf
<1>11. \A y \in ranked : ~Prefers(y, x)
  BY <1>10
<1>12. Preferred(seq, opt, i, recent) = CHOOSE k \in ranked : \A l \in ranked : ~Prefers(l, k)
  BY DEF Preferred, Adj, ranked
<1> HIDE DEF Prefers
<1>13. Preferred(seq, opt, i, recent) \in ranked
  BY <1>11, <1>12
<1> QED
  BY <1>1, <1>5, <1>13

\* Line by line a scene is taken, for each of them.
LEMMA GreedyIs ==
  ASSUME Len(lines) \in 1..MaxNarrated, NEW seq \in Seq(Footage), seq # <<>>, NEW opt
  PROVE  Greedy(seq, opt) \in Seq(DOMAIN seq) /\ Len(Greedy(seq, opt)) = Len(lines)
<1> DEFINE n == Len(lines)
           A == Seq(DOMAIN seq)
           Goal(a, i) == Take(seq, opt, a, i)
           Next(g, i) == IF i = 0 THEN <<>> ELSE Goal(g[i - 1], i)
           Grows(g) == g = [i \in 0..n |-> Next(g, i)]
           step == [p \in A \X (1..n) |-> Goal(p[1], p[2])]
<1>1. n \in Nat
  BY ClipAssumption
<1>2. \A a \in A : \A i \in 1..n : Goal(a, i) \in A /\ Len(Goal(a, i)) = Len(a) + 1
  <2> SUFFICES ASSUME NEW a \in A, NEW i \in 1..n
               PROVE  Take(seq, opt, a, i) \in A /\ Len(Take(seq, opt, a, i)) = Len(a) + 1
    OBVIOUS
  <2> DEFINE recent == {a[j] : j \in Max({1, i - ReuseWindow})..i - 1}
             k == Preferred(seq, opt, i, recent)
  <2>1. k \in DOMAIN seq
    <3> HIDE DEF recent
    <3> QED
      BY PreferredIs
  <2>2. Take(seq, opt, a, i) = Append(a, k)
    BY DEF Take
  <2> HIDE DEF k
  <2> QED
    BY <2>1, <2>2
<1>3. <<>> \in A
  OBVIOUS
<1> HIDE DEF Goal, A, n
<1>4. step \in [A \X (1..n) -> A]
  BY <1>2
<1>5. PICK g : g \in Goes(n, A, <<>>, step)
  <2> HIDE DEF step
  <2> QED
    BY <1>1, <1>3, <1>4, Folded
<1>6. /\ g \in [0..n -> A] /\ g[0] = <<>>
      /\ \A i \in 1..n : g[i] = step[<<g[i - 1], i>>]
  <2> HIDE DEF step
  <2> QED
    BY <1>5 DEF Goes
<1>7. Grows(g)
  <2>1. \A i \in 0..n : g[i] = Next(g, i)
    <3> SUFFICES ASSUME NEW i \in 0..n, i # 0 PROVE g[i] = Goal(g[i - 1], i)
      BY <1>6
    <3>1. i \in 1..n /\ i - 1 \in 0..n
      BY <1>1
    <3>2. <<g[i - 1], i>> \in A \X (1..n)
      BY <1>6, <3>1
    <3> QED
      BY <1>6, <3>1, <3>2
  <2> HIDE DEF Next
  <2> QED
    BY <1>6, <2>1
<1> DEFINE f == CHOOSE h : Grows(h)
<1>8. Grows(f)
  <2> HIDE DEF Grows
  <2> QED
    BY <1>7
<1>9. Greedy(seq, opt) = f[n]
  BY DEF Greedy, Goal, n
<1>10. \A i \in 0..n : f[i] = Next(f, i)
  <2> HIDE DEF Next, f
  <2> QED
    BY <1>8
<1> HIDE DEF f
<1> DEFINE S == {m \in Nat : m <= n => f[m] \in A /\ Len(f[m]) = m}
<1>11. 0 \in S
  <2>1. f[0] = <<>>
    BY <1>1, <1>10
  <2> QED
    BY <1>3, <2>1
<1>12. \A m \in Nat : m \in S => m + 1 \in S
  <2> SUFFICES ASSUME NEW m \in Nat, m + 1 <= n, f[m] \in A, Len(f[m]) = m
               PROVE  f[m + 1] \in A /\ Len(f[m + 1]) = m + 1
    BY <1>1
  <2>1. m + 1 \in 1..n /\ m + 1 \in 0..n /\ m + 1 # 0 /\ (m + 1) - 1 = m
    BY <1>1
  <2>2. f[m + 1] = Goal(f[m], m + 1)
    BY <1>10, <2>1
  <2> QED
    BY <1>2, <2>1, <2>2
<1>13. n \in S
  <2> HIDE DEF S
  <2> QED
    BY <1>1, <1>11, <1>12, EveryNatural
<1> QED
  BY <1>1, <1>9, <1>13 DEF n, A

\* So does the heuristic.
LEMMA HeuristicIs ==
  ASSUME NEW seq \in Seq(Footage), seq # <<>>, NEW opt, NEW i
  PROVE  Heuristic(seq, opt, i) \in DOMAIN seq
<1>1. DOMAIN seq \in SUBSET Nat /\ 1 \in DOMAIN seq
  OBVIOUS
<1>2. ASSUME NEW among \in SUBSET DOMAIN seq, among # {}, NEW at
      PROVE  Around(seq, among, at) \in among
  <2> DEFINE hits == {k \in among : seq[k].start <= at /\ at <= seq[k].end}
             from == IF hits = {} THEN among ELSE hits
  <2>1. from \in SUBSET Nat /\ from # {} /\ from \subseteq among
    BY <1>1, <1>2
  <2>2. Around(seq, among, at) = Min(from)
    BY DEF Around
  <2> HIDE DEF from
  <2> QED
    BY <2>1, <2>2, MinIsLeast
<1> DEFINE bucket == IF ActBucket(seq, ActOf(i)) = {} THEN DOMAIN seq ELSE ActBucket(seq, ActOf(i))
<1>3. bucket \in SUBSET DOMAIN seq /\ bucket # {}
  BY <1>1 DEF ActBucket
<1>4. \A at : Around(seq, DOMAIN seq, at) \in DOMAIN seq /\ Around(seq, bucket, at) \in DOMAIN seq
  <2> HIDE DEF bucket
  <2> QED
    BY <1>1, <1>2, <1>3
<1> QED
  BY <1>4 DEF Heuristic

Told == lines \in Seq(Narrated) /\ Len(lines) \in 1..MaxNarrated /\ clamp \in Clamps
Clips(seq) == [scene : DOMAIN seq, start : Nat, end : Nat,
               source : {"embedding", "heuristic"}, score : 0..100, swapped : BOOLEAN]

\* the clamp a clip was cut within
CutWithin(c) == IF c.swapped THEN SwapClamp ELSE clamp
Fitting(seq, i, c) == Showable(c, Dur(lines[i]), SpanOf(seq).end, CutWithin(c))
CutFor(seq, cs) ==
  /\ cs \in Seq(Clips(seq)) /\ Len(cs) = Len(lines)
  /\ \A i \in 1..Len(lines) : Fitting(seq, i, cs[i])

\* A scene cut for a line can be shown with it.
LEMMA ClipIs ==
  ASSUME Told, NEW seq \in Seq(Footage), seq # <<>>, NEW i \in 1..Len(lines),
         NEW k \in DOMAIN seq, NEW source \in {"embedding", "heuristic"}, NEW score \in 0..100,
         NEW swapped \in BOOLEAN
  PROVE  /\ Clip(seq, i, k, source, score, swapped) \in Clips(seq)
         /\ Clip(seq, i, k, source, score, swapped).scene = k
         /\ Fitting(seq, i, Clip(seq, i, k, source, score, swapped))
<1> DEFINE dur == Dur(lines[i])
           end == SpanOf(seq).end
           within == IF swapped THEN SwapClamp ELSE clamp
           w == ClampWindow(seq[k], dur, end, within)
           clip == [scene |-> k, start |-> w.start, end |-> w.end, source |-> source,
                    score |-> score, swapped |-> swapped]
<1>1. dur \in Nat \ {0}
  <2>1. lines[i] \in Narrated
    BY DEF Told
  <2>2. lines[i].start \in Nat /\ lines[i].end \in Nat /\ lines[i].start < lines[i].end
    BY <2>1 DEF Narrated
  <2> QED
    BY <2>2 DEF Dur
<1>2. end \in Nat /\ seq[k] \in Footage /\ seq[k].end <= end
  <2>1. SpanOf(seq) \in Footage /\ seq[k].end <= SpanOf(seq).end
    BY SpanIs
  <2>2. SpanOf(seq).end \in Nat
    BY <2>1, ClipAssumption DEF Footage
  <2> QED
    BY <2>1, <2>2
<1>3. within \in Speeds
  <2>1. clamp \in Speeds
    BY ClipAssumption DEF Told, Speeds
  <2>2. SwapClamp \in Speeds
    BY DEF SwapClamp, Speeds
  <2> QED
    BY <2>1, <2>2
<1> HIDE DEF dur, end, within
<1>4. Showable(w, dur, end, within)
  BY <1>1, <1>2, <1>3, ClampFits
<1> HIDE DEF w
<1>5. clip \in Clips(seq) /\ clip.scene = k /\ CutWithin(clip) = within
  <2>1. w.start \in Nat /\ w.end \in Nat
    BY <1>4 DEF Showable
  <2>2. clip \in Clips(seq)
    BY <2>1 DEF Clips
  <2>3. clip.scene = k /\ clip.swapped = swapped
    OBVIOUS
  <2> HIDE DEF clip
  <2> QED
    BY <2>2, <2>3 DEF CutWithin, within
<1>6. Showable(clip, dur, end, within)
  <2>1. clip.start = w.start /\ clip.end = w.end /\ Dur(clip) = Dur(w)
    BY DEF Dur
  <2> HIDE DEF clip
  <2> QED
    BY <1>4, <2>1 DEF Showable
<1>7. Clip(seq, i, k, source, score, swapped) = clip
  BY DEF Clip, w, dur, end, within
<1> HIDE DEF clip
<1> QED
  BY <1>5, <1>6, <1>7 DEF dur, end, Fitting

\* Every line gets such a clip.
LEMMA MatchedIs ==
  ASSUME Told, NEW seq \in Seq(Footage), seq # <<>>, NEW opt
  PROVE  CutFor(seq, Matched(seq, opt))
<1> DEFINE n == Len(lines)
           ranked == opt.captions = "real" /\ Len(seq) > 1
           taken == IF ranked THEN Greedy(seq, opt) ELSE <<>>
           likely(i) == ranked /\ Sim(opt, i, taken[i]) >= MinScore
           clip(i) == IF likely(i)
                      THEN Clip(seq, i, taken[i], "embedding", Sim(opt, i, taken[i]), FALSE)
                      ELSE Clip(seq, i, Heuristic(seq, opt, i), "heuristic", 100, FALSE)
           out == [i \in 1..n |-> clip(i)]
<1>1. n \in Nat /\ DOMAIN lines = 1..n
  BY DEF Told
<1>2. Matched(seq, opt) = out
  BY <1>1 DEF Matched
<1>3. ranked => \A i \in 1..n : taken[i] \in DOMAIN seq
  <2> SUFFICES ASSUME ranked PROVE \A i \in 1..n : taken[i] \in DOMAIN seq
    OBVIOUS
  <2>1. taken = Greedy(seq, opt)
    OBVIOUS
  <2>2. taken \in Seq(DOMAIN seq) /\ Len(taken) = n
    BY <2>1, GreedyIs DEF Told
  <2> HIDE DEF taken
  <2> QED
    BY <2>2
<1> HIDE DEF taken, ranked
<1>4. ASSUME NEW i \in 1..n
      PROVE  clip(i) \in Clips(seq) /\ Fitting(seq, i, clip(i))
  <2>1. CASE likely(i)
    <3>1. taken[i] \in DOMAIN seq /\ Sim(opt, i, taken[i]) \in 0..100
      BY <1>3, <2>1, SimPercent
    <3> QED
      BY <2>1, <3>1, ClipIs
  <2>2. CASE ~likely(i)
    <3>1. Heuristic(seq, opt, i) \in DOMAIN seq /\ 100 \in 0..100
      BY HeuristicIs
    <3> QED
      BY <2>2, <3>1, ClipIs
  <2> QED
    BY <2>1, <2>2
<1> HIDE DEF clip
<1>5. out \in Seq(Clips(seq)) /\ Len(out) = n
  <2>1. out \in [1..n -> Clips(seq)]
    BY <1>4
  <2> HIDE DEF out, n
  <2> QED
    BY <1>1, <2>1
<1>6. \A i \in 1..n : out[i] = clip(i)
  OBVIOUS
<1> HIDE DEF out
<1> QED
  BY <1>2, <1>4, <1>5, <1>6 DEF CutFor

\* The lines a clip is compared with end with its own.
LEMMA RecentIs ==
  ASSUME NEW i \in Nat \ {0}
  PROVE  /\ Recent(i) = (IF i - ReuseWindow + 1 >= 1 THEN i - ReuseWindow + 1 ELSE 1)..i
         /\ i \in Recent(i) /\ Recent(i) \subseteq 1..i /\ IsFiniteSet(Recent(i))
<1>1. ReuseWindow \in Nat \ {0}
  BY ClipAssumption
<1>2. Recent(i) = (IF i - ReuseWindow + 1 >= 1 THEN i - ReuseWindow + 1 ELSE 1)..i
  BY <1>1, FromOne DEF Recent
<1>3. i \in Recent(i) /\ Recent(i) \subseteq 1..i
  BY <1>1, <1>2
<1>4. IsFiniteSet(1..i)
  BY CountUpTo
<1> QED
  BY <1>2, <1>3, <1>4, FS_Subset

\* a scene shown too often only where no other is left
Various(seq, cs, i) ==
  Uses(cs, i) > MaxReuse => DOMAIN seq \subseteq {cs[j].scene : j \in Recent(i)}

\* So can a scene that takes another's place.
LEMMA SwappedIs ==
  ASSUME Told, NEW seq \in Seq(Footage), seq # <<>>, NEW i \in 1..Len(lines),
         NEW k \in DOMAIN seq, NEW source \in {"embedding", "heuristic"}, NEW score \in 0..100
  PROVE  /\ Clip(seq, i, k, source, score, TRUE) \in Clips(seq)
         /\ Clip(seq, i, k, source, score, TRUE).scene = k
         /\ Fitting(seq, i, Clip(seq, i, k, source, score, TRUE))
<1>1. TRUE \in BOOLEAN
  OBVIOUS
<1>2. Clip(seq, i, k, source, score, TRUE) \in Clips(seq)
  BY <1>1, ClipIs, ZenonT(30)
<1>3. Clip(seq, i, k, source, score, TRUE).scene = k
  BY DEF Clip
<1>4. Fitting(seq, i, Clip(seq, i, k, source, score, TRUE))
  BY <1>1, ClipIs, ZenonT(30)
<1> QED
  BY <1>2, <1>3, <1>4

\* Exchanging the scene of a line makes it so, and changes no other line.
LEMMA VariedIs ==
  ASSUME Told, NEW seq \in Seq(Footage), seq # <<>>, NEW cs, CutFor(seq, cs),
         NEW i \in 1..Len(lines)
  PROVE  /\ CutFor(seq, Varied(seq, cs, i))
         /\ Various(seq, Varied(seq, cs, i), i)
         /\ \A j \in 1..Len(lines) : j # i => Varied(seq, cs, i)[j] = cs[j]
<1> DEFINE n == Len(lines)
           unused == DOMAIN seq \ {cs[j].scene : j \in Recent(i)}
           near == {k \in unused : \A l \in unused :
                      Abs(k - cs[i].scene) <= Abs(l - cs[i].scene)}
           new == Clip(seq, i, Min(near), cs[i].source, cs[i].score, TRUE)
           out == [cs EXCEPT ![i] = new]
<1>1. n \in Nat /\ i \in 1..n /\ i \in Nat \ {0} /\ DOMAIN cs = 1..n
      /\ \A j \in 1..n : cs[j] \in Clips(seq)
  BY DEF Told, CutFor
<1>2. DOMAIN seq \in SUBSET Nat
  OBVIOUS
<1>3. i \in Recent(i) /\ Recent(i) \subseteq 1..i /\ Recent(i) \subseteq 1..n
      /\ IsFiniteSet(Recent(i))
  BY <1>1, RecentIs
<1>4. Varied(seq, cs, i) = IF Uses(cs, i) <= MaxReuse \/ unused = {} THEN cs ELSE out
  BY DEF Varied
<1>5. MaxReuse \in Nat \ {0} /\ \A ds : Uses(ds, i) \in Nat
  <2>1. \A ds : IsFiniteSet({j \in Recent(i) : ds[j].scene = ds[i].scene})
    BY <1>3, FS_Subset
  <2> QED
    BY <2>1, FS_CardinalityType, ClipAssumption DEF Uses
<1>6. CASE Uses(cs, i) <= MaxReuse \/ unused = {}
  <2>1. Various(seq, cs, i)
    BY <1>5, <1>6 DEF Various
  <2> QED
    BY <1>4, <1>6, <2>1
<1>7. CASE ~(Uses(cs, i) <= MaxReuse \/ unused = {})
  <2> DEFINE far == {Abs(k - cs[i].scene) : k \in unused}
  <2>1. \A k \in unused : k \in Nat /\ Abs(k - cs[i].scene) \in Nat
    <3>1. cs[i].scene \in Nat
      BY <1>1, <1>2 DEF Clips
    <3> QED
      BY <1>2, <3>1 DEF Abs
  <2>2. PICK least \in far : \A x \in far : least <= x
    <3>1. far \in SUBSET Nat /\ far # {}
      BY <1>7, <2>1
    <3> HIDE DEF far
    <3> QED
      BY <3>1, LeastNatural
  <2>3. PICK k \in unused : least = Abs(k - cs[i].scene)
    BY <2>2
  <2>4. k \in near
    BY <2>2, <2>3
  <2>5. near \in SUBSET Nat /\ near # {}
    BY <2>1, <2>4
  <2>6. Min(near) \in near
    <3> HIDE DEF near
    <3> QED
      BY <2>5, MinIsLeast
  <2>7. Min(near) \in unused
    BY <2>6
  <2>8. Min(near) \in DOMAIN seq
    BY <2>7
  <2>9. cs[i].source \in {"embedding", "heuristic"} /\ cs[i].score \in 0..100
    BY <1>1 DEF Clips
  <2> HIDE DEF near
  <2>10. /\ new \in Clips(seq) /\ new.scene = Min(near)
         /\ Fitting(seq, i, new)
    <3> DEFINE m == Min(near)
               source == cs[i].source
               score == cs[i].score
    <3>1. m \in DOMAIN seq /\ source \in {"embedding", "heuristic"} /\ score \in 0..100
      BY <2>8, <2>9
    <3> HIDE DEF m, source, score
    <3>2. Clip(seq, i, m, source, score, TRUE) \in Clips(seq)
      BY <3>1, SwappedIs, ZenonT(30)
    <3>3. Clip(seq, i, m, source, score, TRUE).scene = m
      BY DEF Clip
    <3>4. Fitting(seq, i, Clip(seq, i, m, source, score, TRUE))
      BY <3>1, SwappedIs, ZenonT(30)
    <3> QED
      BY <3>2, <3>3, <3>4 DEF m, source, score
  <2> HIDE DEF new
  <2>11. /\ out \in Seq(Clips(seq)) /\ Len(out) = n /\ out[i] = new
         /\ \A j \in 1..n : j # i => out[j] = cs[j]
    <3>1. cs \in Seq(Clips(seq)) /\ Len(cs) = n
      BY DEF CutFor
    <3> QED
      BY <1>1, <2>10, <3>1
  <2> HIDE DEF out
  <2>12. CutFor(seq, out)
    BY <2>10, <2>11 DEF CutFor
  <2>13. \A j \in Recent(i) : out[j].scene = out[i].scene => j = i
    <3> SUFFICES ASSUME NEW j \in Recent(i), out[j].scene = out[i].scene, j # i PROVE FALSE
      OBVIOUS
    <3>1. cs[j].scene = Min(near)
      BY <1>3, <2>10, <2>11
    <3>2. Min(near) \in {cs[x].scene : x \in Recent(i)}
      BY <3>1
    <3> QED
      BY <2>7, <3>2
  <2>14. {j \in Recent(i) : out[j].scene = out[i].scene} = {i}
    BY <1>3, <2>13
  <2>15. Uses(out, i) = 1
    BY <2>14, FS_Singleton DEF Uses
  <2>16. Various(seq, out, i)
    BY <1>5, <2>15 DEF Various
  <2> QED
    BY <1>4, <1>7, <2>11, <2>12, <2>16
<1> QED
  BY <1>6, <1>7

\* What holds of a line is about that line and those before it.
LEMMA SameSoFar ==
  ASSUME NEW seq, NEW n \in Nat, NEW cs, NEW ds, NEW i \in 1..n,
         \A j \in 1..i : ds[j] = cs[j], Various(seq, cs, i)
  PROVE  Various(seq, ds, i)
<1>1. \A j \in Recent(i) : ds[j] = cs[j]
  BY RecentIs
<1>2. ds[i] = cs[i]
  BY RecentIs
<1>3. {ds[j].scene : j \in Recent(i)} = {cs[j].scene : j \in Recent(i)}
  BY <1>1
<1>4. {j \in Recent(i) : ds[j].scene = ds[i].scene} = {j \in Recent(i) : cs[j].scene = cs[i].scene}
  BY <1>1, <1>2
<1> QED
  BY <1>3, <1>4 DEF Various, Uses

\* In the end it holds of every line.
LEMMA DiversifyIs ==
  ASSUME Told, NEW seq \in Seq(Footage), seq # <<>>, NEW cs, CutFor(seq, cs)
  PROVE  /\ CutFor(seq, Diversify(seq, cs))
         /\ Len(seq) > 1 => \A i \in 1..Len(lines) : Various(seq, Diversify(seq, cs), i)
<1> DEFINE n == Len(lines)
           A == {ds \in Seq(Clips(seq)) : CutFor(seq, ds)}
           Goal(a, i) == Varied(seq, a, i)
           Next(g, i) == IF i = 0 THEN cs ELSE Goal(g[i - 1], i)
           Grows(g) == g = [i \in 0..n |-> Next(g, i)]
           step == [p \in A \X (1..n) |-> Goal(p[1], p[2])]
<1>0. CASE Len(seq) <= 1
  <2>1. Diversify(seq, cs) = cs /\ ~(Len(seq) > 1)
    BY <1>0 DEF Diversify
  <2> QED
    BY <2>1
<1>1. n \in Nat /\ Len(cs) = n
  BY DEF Told, CutFor
<1>2. \A a \in A : \A i \in 1..n : Goal(a, i) \in A
  <2> SUFFICES ASSUME NEW a \in A, NEW i \in 1..n PROVE Varied(seq, a, i) \in A
    OBVIOUS
  <2>1. CutFor(seq, Varied(seq, a, i))
    BY VariedIs
  <2> QED
    BY <2>1 DEF CutFor
<1>3. cs \in A
  BY DEF CutFor
<1> HIDE DEF Goal, A, n
<1>4. step \in [A \X (1..n) -> A]
  BY <1>2
<1>5. PICK g : g \in Goes(n, A, cs, step)
  <2> HIDE DEF step
  <2> QED
    BY <1>1, <1>3, <1>4, Folded
<1>6. /\ g \in [0..n -> A] /\ g[0] = cs
      /\ \A i \in 1..n : g[i] = step[<<g[i - 1], i>>]
  <2> HIDE DEF step
  <2> QED
    BY <1>5 DEF Goes
<1>7. Grows(g)
  <2>1. \A i \in 0..n : g[i] = Next(g, i)
    <3> SUFFICES ASSUME NEW i \in 0..n, i # 0 PROVE g[i] = Goal(g[i - 1], i)
      BY <1>6
    <3>1. i \in 1..n /\ i - 1 \in 0..n
      BY <1>1
    <3>2. <<g[i - 1], i>> \in A \X (1..n)
      BY <1>6, <3>1
    <3> QED
      BY <1>6, <3>1, <3>2
  <2> HIDE DEF Next
  <2> QED
    BY <1>6, <2>1
<1> DEFINE f == CHOOSE h : Grows(h)
<1>8. Grows(f)
  <2> HIDE DEF Grows
  <2> QED
    BY <1>7
<1>9. CASE Len(seq) > 1
  <2>1. Diversify(seq, cs) = f[n]
    <3>1. Len(seq) \in Nat /\ ~(Len(seq) <= 1)
      BY <1>9
    <3> QED
      BY <1>1, <3>1 DEF Diversify, Goal
  <2>2. \A i \in 0..n : f[i] = Next(f, i)
    <3> HIDE DEF Next, f
    <3> QED
      BY <1>8
  <2> HIDE DEF f
  <2> DEFINE Done(ds, m) == \A j \in 1..m : Various(seq, ds, j)
             S == {m \in Nat : m <= n => f[m] \in A /\ Done(f[m], m)}
  <2>3. 0 \in S
    <3>1. f[0] = cs /\ 1..0 = {}
      BY <1>1, <2>2
    <3> QED
      BY <1>3, <3>1
  <2>4. \A m \in Nat : m \in S => m + 1 \in S
    <3> SUFFICES ASSUME NEW m \in Nat, m + 1 <= n, f[m] \in A, Done(f[m], m)
                 PROVE  f[m + 1] \in A /\ Done(f[m + 1], m + 1)
      BY <1>1
    <3>1. m + 1 \in 1..n /\ m + 1 \in 0..n /\ m + 1 # 0 /\ (m + 1) - 1 = m
      BY <1>1
    <3>2. f[m + 1] = Goal(f[m], m + 1)
      BY <2>2, <3>1
    <3>3. f[m + 1] \in A
      BY <1>2, <3>1, <3>2
    <3>4. Various(seq, f[m + 1], m + 1) /\ \A j \in 1..n : j # m + 1 => f[m + 1][j] = f[m][j]
      <4>1. CutFor(seq, f[m]) /\ m + 1 \in 1..Len(lines)
        BY <3>1 DEF A, n
      <4> QED
        BY <3>2, <4>1, VariedIs DEF Goal, n
    <3>5. ASSUME NEW j \in 1..m PROVE Various(seq, f[m + 1], j)
      <4>1. \A x \in 1..j : f[m + 1][x] = f[m][x]
        BY <1>1, <3>1, <3>4
      <4> QED
        BY <4>1, SameSoFar
    <3>6. \A j \in 1..m + 1 : j \in 1..m \/ j = m + 1
      OBVIOUS
    <3> QED
      BY <3>3, <3>4, <3>5, <3>6
  <2>5. n \in S
    <3> HIDE DEF S
    <3> QED
      BY <1>1, <2>3, <2>4, EveryNatural
  <2> QED
    BY <1>1, <2>1, <2>5 DEF A, n
<1>10. Len(seq) <= 1 \/ Len(seq) > 1
  OBVIOUS
<1> QED
  BY <1>0, <1>9, <1>10

-----------------------------------------------------------------------------
\* The ratings

\* The known sides of a clip bound its rating.
LEMMA CompositeBetween ==
  ASSUME NEW e \in (0..100) \cup {NoScore}, NEW r \in (0..100) \cup {NoScore}, NEW d \in 0..100
  PROVE  /\ Composite(e, r, d) \in 0..100
         /\ \E x, y \in {e, r, d} \ {NoScore} :
              x <= Composite(e, r, d) /\ Composite(e, r, d) <= y
<1> DEFINE E == IF e = -1 THEN 0 ELSE 60
           R == IF r = -1 THEN 0 ELSE 25
           c == (e * E + r * R + d * 15) \div (E + R + 15)
           known == {e, r, d} \ {-1}
<1>0. Composite(e, r, d) = c /\ NoScore = -1
  BY DEF Composite, NoScore
<1>1. CASE e = -1 /\ r = -1
  <2>1. c = (15 * d) \div 15
    BY <1>1
  <2>2. (15 * d) \div 15 = d /\ d \in known
    OBVIOUS
  <2> QED
    BY <1>0, <2>1, <2>2
<1>2. CASE e # -1 /\ r = -1
  <2>1. c = (60 * e + 15 * d) \div 75 /\ e \in 0..100
    BY <1>0, <1>2
  <2>2. e \in known /\ d \in known
    BY <1>2
  <2> DEFINE m == (60 * e + 15 * d) \div 75
  <2>3. m \in 0..100 /\ (e <= m \/ d <= m) /\ (m <= e \/ m <= d)
    BY <2>1
  <2> HIDE DEF c, known
  <2> QED
    BY <1>0, <2>1, <2>2, <2>3 DEF known
<1>3. CASE e = -1 /\ r # -1
  <2>1. c = (25 * r + 15 * d) \div 40 /\ r \in 0..100
    BY <1>0, <1>3
  <2>2. r \in known /\ d \in known
    BY <1>3
  <2> DEFINE m == (25 * r + 15 * d) \div 40
  <2>3. m \in 0..100 /\ (r <= m \/ d <= m) /\ (m <= r \/ m <= d)
    BY <2>1
  <2> HIDE DEF c, known
  <2> QED
    BY <1>0, <2>1, <2>2, <2>3 DEF known
<1>4. CASE e # -1 /\ r # -1
  <2>1. c = (60 * e + 25 * r + 15 * d) \div 100 /\ e \in 0..100 /\ r \in 0..100
    BY <1>0, <1>4
  <2>2. e \in known /\ r \in known /\ d \in known
    BY <1>4
  <2> DEFINE m == (60 * e + 25 * r + 15 * d) \div 100
  <2>3. m \in 0..100 /\ (e <= m \/ r <= m \/ d <= m) /\ (m <= e \/ m <= r \/ m <= d)
    BY <2>1
  <2> HIDE DEF c, known
  <2> QED
    BY <1>0, <2>1, <2>2, <2>3 DEF known
<1> QED
  BY <1>1, <1>2, <1>3, <1>4

\* Variety is rated down only where it could not be had.
LEMMA RatedDown ==
  ASSUME Told, NEW seq \in Seq(Footage), seq # <<>>, NEW cs, CutFor(seq, cs),
         Len(seq) > 1 => \A i \in 1..Len(lines) : Various(seq, cs, i),
         NEW i \in 1..Len(lines)
  PROVE  /\ DiversityScore(cs, i) \in 0..100
         /\ DiversityScore(cs, i) < 100 =>
              \E j \in Max({1, i - ReuseWindow})..i - 1 :
                 DOMAIN seq \subseteq {cs[k].scene : k \in Recent(j)}
<1> DEFINE from == IF i - ReuseWindow >= 1 THEN i - ReuseWindow ELSE 1
           earlier == from..i - 1
           before == {j \in earlier : cs[j].scene = cs[i].scene}
           over == Cardinality(before) - MaxReuse
           Most(x) == IF x >= 0 THEN x ELSE 0
<1>1. /\ ReuseWindow \in Nat \ {0} /\ MaxReuse \in Nat \ {0} /\ i \in Nat \ {0}
      /\ Len(lines) \in Nat
  BY ClipAssumption DEF Told
<1>2. Max({1, i - ReuseWindow}) = from
  BY <1>1, FromOne
<1>3. /\ from \in Nat \ {0} /\ earlier \subseteq 1..i - 1 /\ IsFiniteSet(before)
      /\ Cardinality(before) \in Nat /\ before \subseteq earlier
  <2>1. from \in Nat \ {0} /\ earlier \subseteq 1..i - 1
    BY <1>1
  <2>2. IsFiniteSet(1..i - 1)
    BY <1>1, CountUpTo, FS_EmptySet
  <2>3. before \subseteq 1..i - 1 /\ before \subseteq earlier
    BY <2>1
  <2>4. IsFiniteSet(before)
    BY <2>2, <2>3, FS_Subset
  <2> QED
    BY <2>1, <2>3, <2>4, FS_CardinalityType
<1>4. DiversityScore(cs, i) = Most(100 - 15 * Most(over))
  <2>1. \A x \in Int : Max({0, x}) = Most(x)
    <3> SUFFICES ASSUME NEW x \in Int PROVE Max({0, x}) = Most(x)
      OBVIOUS
    <3>1. Most(x) \in {0, x} /\ \A y \in {0, x} : Most(x) >= y
      OBVIOUS
    <3>2. \A z \in {0, x} : (\A y \in {0, x} : z >= y) => z = Most(x)
      OBVIOUS
    <3> HIDE DEF Most
    <3> QED
      BY <3>1, <3>2 DEF Max
  <2>2. DiversityScore(cs, i) = Max({0, 100 - 15 * Max({0, over})})
    BY <1>2 DEF DiversityScore, ReusePenalty
  <2>3. over \in Int
    BY <1>1, <1>3
  <2>4. Max({0, over}) = Most(over)
    BY <2>1, <2>3
  <2>5. 100 - 15 * Most(over) \in Int
    BY <2>3
  <2> HIDE DEF over, Most
  <2> QED
    BY <2>1, <2>2, <2>4, <2>5
<1>5. DiversityScore(cs, i) \in 0..100 /\ (DiversityScore(cs, i) < 100 => Cardinality(before) > MaxReuse)
  <2>1. over \in Int /\ (over > 0 => Cardinality(before) > MaxReuse)
    BY <1>1, <1>3
  <2> HIDE DEF over
  <2>2. Most(over) \in Nat /\ (Most(over) > 0 => over > 0)
    BY <2>1
  <2> DEFINE m == Most(over)
  <2> HIDE DEF Most, m
  <2>3. m \in Nat
    BY <2>2 DEF m
  <2>4. Most(100 - 15 * m) \in 0..100 /\ (Most(100 - 15 * m) < 100 => m > 0)
    BY <2>3 DEF Most
  <2> QED
    BY <1>4, <2>1, <2>2, <2>4 DEF m
<1>6. ASSUME Cardinality(before) > MaxReuse
      PROVE  \E j \in earlier : DOMAIN seq \subseteq {cs[k].scene : k \in Recent(j)}
  <2>1. before # {}
    <3> SUFFICES ASSUME before = {} PROVE FALSE
      OBVIOUS
    <3>1. Cardinality({}) = 0
      BY FS_EmptySet
    <3>2. Cardinality(before) = 0
      BY <3>1
    <3> HIDE DEF before
    <3> QED
      BY <1>1, <1>6, <3>2
  <2>2. PICK j \in before : \A x \in before : x <= j
    <3>1. before \in SUBSET (1..i - 1) /\ i - 1 \in Nat
      BY <1>1, <1>3
    <3> HIDE DEF before
    <3> QED
      BY <2>1, <3>1, GreatestNumber
  <2>3. j \in earlier /\ cs[j].scene = cs[i].scene /\ j \in Nat \ {0} /\ j <= i - 1
        /\ j \in 1..Len(lines)
    BY <1>1, <1>3
  <2>4. before \subseteq {k \in Recent(j) : cs[k].scene = cs[j].scene}
    <3> SUFFICES ASSUME NEW k \in before PROVE k \in Recent(j) /\ cs[k].scene = cs[j].scene
      OBVIOUS
    <3>1. k \in Nat /\ k >= from /\ k <= j /\ cs[k].scene = cs[i].scene
      BY <1>3, <2>2
    <3>2. Recent(j) = (IF j - ReuseWindow + 1 >= 1 THEN j - ReuseWindow + 1 ELSE 1)..j
      BY <2>3, RecentIs
    <3>3. (IF j - ReuseWindow + 1 >= 1 THEN j - ReuseWindow + 1 ELSE 1) <= from
      BY <1>1, <2>3
    <3> HIDE DEF from
    <3> QED
      BY <1>1, <1>3, <2>3, <3>1, <3>2, <3>3
  <2>5. IsFiniteSet({k \in Recent(j) : cs[k].scene = cs[j].scene})
    BY <2>3, RecentIs, FS_Subset
  <2>6. Uses(cs, j) > MaxReuse
    <3>1. Uses(cs, j) \in Nat /\ Cardinality(before) <= Uses(cs, j)
      BY <2>4, <2>5, FS_Subset, FS_CardinalityType DEF Uses
    <3> QED
      BY <1>1, <1>3, <1>6, <3>1
  <2>7. CASE Len(seq) > 1
    <3>1. Various(seq, cs, j)
      BY <2>3, <2>7
    <3> QED
      BY <2>3, <2>6, <3>1 DEF Various
  <2>8. CASE ~(Len(seq) > 1)
    <3>1. DOMAIN seq = {1}
      <4>1. Len(seq) \in Nat /\ Len(seq) # 0 /\ DOMAIN seq = 1..Len(seq)
        OBVIOUS
      <4>2. Len(seq) = 1
        BY <2>8, <4>1
      <4> QED
        BY <4>1, <4>2
    <3>2. cs[j].scene = 1 /\ j \in Recent(j)
      <4>1. cs[j] \in Clips(seq)
        BY <2>3 DEF CutFor
      <4> QED
        BY <2>3, <3>1, <4>1, RecentIs DEF Clips
    <3>3. 1 \in {cs[k].scene : k \in Recent(j)}
      BY <3>2
    <3> QED
      BY <2>3, <3>1, <3>3
  <2> QED
    BY <2>7, <2>8
<1> QED
  BY <1>2, <1>5, <1>6

\* Whatever is rated is rated fairly.
LEMMA RatedIs ==
  ASSUME Told, NEW seq \in Seq(Footage), seq # <<>>, NEW cs, CutFor(seq, cs),
         Len(seq) > 1 => \A i \in 1..Len(lines) : Various(seq, cs, i), NEW opt
  PROVE  LET q == Rated(cs, opt)
         IN  /\ DOMAIN q = 1..Len(lines)
             /\ \A i \in 1..Len(lines) :
                  /\ q[i].diversity < 100 =>
                       \E j \in Max({1, i - ReuseWindow})..i - 1 :
                          DOMAIN seq \subseteq {cs[k].scene : k \in Recent(j)}
                  /\ \E x, y \in {q[i].embedding, q[i].rhythm, q[i].diversity} \ {NoScore} :
                       x <= q[i].composite /\ q[i].composite <= y
<1> DEFINE n == Len(lines)
           e(i) == IF cs[i].source = "embedding" THEN cs[i].score ELSE NoScore
           r(i) == IF cs[i].source = "embedding" /\ opt.zone # "none" THEN 80 ELSE NoScore
           d(i) == DiversityScore(cs, i)
           c(i) == Composite(e(i), r(i), d(i))
           rating(i) == [embedding |-> e(i), rhythm |-> r(i), diversity |-> d(i), composite |-> c(i)]
           q == [i \in 1..n |-> rating(i)]
<1>1. DOMAIN cs = 1..n
  BY DEF CutFor, Told
<1>2. Rated(cs, opt) = q
  BY <1>1 DEF Rated
<1>3. ASSUME NEW i \in 1..n
      PROVE  /\ e(i) \in (0..100) \cup {NoScore} /\ r(i) \in (0..100) \cup {NoScore}
             /\ d(i) \in 0..100
             /\ d(i) < 100 => \E j \in Max({1, i - ReuseWindow})..i - 1 :
                                DOMAIN seq \subseteq {cs[k].scene : k \in Recent(j)}
  <2>1. cs[i] \in Clips(seq)
    BY DEF CutFor
  <2>2. cs[i].score \in 0..100
    BY <2>1 DEF Clips
  <2>3. e(i) \in (0..100) \cup {NoScore} /\ r(i) \in (0..100) \cup {NoScore}
    BY <2>2
  <2> QED
    BY <2>3, RatedDown
<1> HIDE DEF e, r, d
<1>4. ASSUME NEW i \in 1..n
      PROVE  \E x, y \in {e(i), r(i), d(i)} \ {NoScore} : x <= c(i) /\ c(i) <= y
  <2>1. e(i) \in (0..100) \cup {NoScore} /\ r(i) \in (0..100) \cup {NoScore} /\ d(i) \in 0..100
    BY <1>3
  <2> DEFINE a == e(i)
             b == r(i)
             v == d(i)
  <2>2. a \in (0..100) \cup {NoScore} /\ b \in (0..100) \cup {NoScore} /\ v \in 0..100
    BY <2>1
  <2>3. c(i) = Composite(a, b, v)
    OBVIOUS
  <2> HIDE DEF a, b, v, c
  <2>4. \E x, y \in {a, b, v} \ {NoScore} : x <= Composite(a, b, v) /\ Composite(a, b, v) <= y
    BY <2>2, CompositeBetween, ZenonT(60)
  <2> QED
    BY <2>3, <2>4 DEF a, b, v
<1> HIDE DEF c
<1>5. \A i \in 1..n : /\ q[i].embedding = e(i) /\ q[i].rhythm = r(i)
                      /\ q[i].diversity = d(i) /\ q[i].composite = c(i)
  OBVIOUS
<1>6. DOMAIN q = 1..n
  OBVIOUS
<1> HIDE DEF q, n
<1> QED
  BY <1>2, <1>3, <1>4, <1>5, <1>6 DEF n

-----------------------------------------------------------------------------
\* The steps

ClipInv ==
  /\ Told
  /\ scenes # <<>> => Tiles(scenes, VideoEnd)
  /\ mstep # "done" => clips = <<>> /\ quality = <<>>
  /\ ClipsSound

\* Lines follow each other and last their time.
LEMMA TimelineIs ==
  ASSUME NEW n \in 1..MaxNarrated, NEW durs \in [1..n -> LineTicks]
  PROVE  Timeline(durs) \in Seq(Narrated) /\ Len(Timeline(durs)) = n
<1> DEFINE Goal(a, i) == a + durs[i]
           Next(g, i) == IF i = 0 THEN 0 ELSE Goal(g[i - 1], i)
           Grows(g) == g = [i \in 0..n |-> Next(g, i)]
           step == [p \in Nat \X (1..n) |-> Goal(p[1], p[2])]
<1>1. n \in Nat /\ \A i \in 1..n : durs[i] \in Nat \ {0}
  <2>1. MaxNarrated \in Nat /\ LineTicks \subseteq Nat \ {0}
    BY ClipAssumption
  <2>2. \A i \in 1..n : durs[i] \in LineTicks
    OBVIOUS
  <2>3. \A i \in 1..n : durs[i] \in Nat \ {0}
    BY <2>1, <2>2
  <2>4. n \in Nat
    BY <2>1
  <2> QED
    BY <2>3, <2>4
<1>2. durs \in Seq(Nat) /\ Len(durs) = n /\ DOMAIN durs = 1..n
  <2>1. durs \in [1..n -> Nat]
    BY <1>1
  <2> QED
    BY <1>1, <2>1
<1>3. step \in [Nat \X (1..n) -> Nat]
  <2>1. \A a \in Nat : \A i \in 1..n : Goal(a, i) \in Nat
    BY <1>1
  <2> HIDE DEF Goal
  <2> QED
    BY <2>1
<1>4. PICK g : g \in Goes(n, Nat, 0, step)
  <2> DEFINE A == Nat
  <2>1. 0 \in A /\ n \in Nat /\ step \in [A \X (1..n) -> A]
    BY <1>1, <1>3
  <2>2. \E g : g \in Goes(n, A, 0, step)
    <3> HIDE DEF step, A
    <3> QED
      BY <2>1, Folded
  <2> QED
    BY <2>2
<1>5. /\ g \in [0..n -> Nat] /\ g[0] = 0
      /\ \A i \in 1..n : g[i] = step[<<g[i - 1], i>>]
  <2> HIDE DEF step
  <2> QED
    BY <1>4 DEF Goes
<1>6. Grows(g)
  <2>1. \A i \in 0..n : g[i] = Next(g, i)
    <3> SUFFICES ASSUME NEW i \in 0..n, i # 0 PROVE g[i] = Goal(g[i - 1], i)
      BY <1>5
    <3>1. i \in 1..n /\ i - 1 \in 0..n
      BY <1>1
    <3>2. <<g[i - 1], i>> \in Nat \X (1..n)
      BY <1>5, <3>1
    <3> HIDE DEF Goal
    <3> QED
      BY <1>5, <3>1, <3>2
  <2> HIDE DEF Next
  <2> QED
    BY <1>5, <2>1
<1> DEFINE f == CHOOSE h : Grows(h)
<1>7. Grows(f)
  <2> HIDE DEF Grows
  <2> QED
    BY <1>6
<1>8. \A i \in 0..n : f[i] = Next(f, i)
  <2> HIDE DEF Next, f
  <2> QED
    BY <1>7
<1> DEFINE out == [i \in 1..n |-> [start |-> f[i - 1], end |-> f[i]]]
<1>9. Timeline(durs) = out
  BY <1>2 DEF Timeline
<1> HIDE DEF f
<1>10. \A i \in 1..n : f[i] = f[i - 1] + durs[i]
  <2> SUFFICES ASSUME NEW i \in 1..n PROVE f[i] = f[i - 1] + durs[i]
    OBVIOUS
  <2>1. i \in 0..n /\ i # 0
    BY <1>1
  <2> QED
    BY <1>8, <2>1
<1>11. \A i \in 0..n : f[i] \in Nat
  <2>1. f[0] \in Nat
    BY <1>1, <1>8
  <2>2. \A i \in 1..n : f[i - 1] \in Nat => f[i] \in Nat
    BY <1>1, <1>10
  <2> QED
    BY <1>1, <2>1, <2>2, FoldedTyped
<1>12. \A i \in 1..n : [start |-> f[i - 1], end |-> f[i]] \in Narrated
  <2> SUFFICES ASSUME NEW i \in 1..n PROVE [start |-> f[i - 1], end |-> f[i]] \in Narrated
    OBVIOUS
  <2>1. i \in 0..n /\ i - 1 \in 0..n
    BY <1>1
  <2>2. f[i - 1] \in Nat /\ f[i] \in Nat
    BY <1>11, <2>1
  <2>3. f[i - 1] < f[i]
    BY <1>1, <1>10, <2>2
  <2> QED
    BY <2>2, <2>3 DEF Narrated
<1>13. out \in [1..n -> Narrated]
  BY <1>12
<1> HIDE DEF out
<1> QED
  BY <1>1, <1>9, <1>13

\* Before anything is detected there is nothing to be wrong.
LEMMA ClipStart == ClipInit => ClipInv
<1> SUFFICES ASSUME ClipInit PROVE ClipInv
  OBVIOUS
<1>1. PICK n \in 1..MaxNarrated : \E durs \in [1..n -> LineTicks] : lines = Timeline(durs)
  BY DEF ClipInit
<1>2. PICK durs \in [1..n -> LineTicks] : lines = Timeline(durs)
  BY <1>1
<1>3. Told
  BY <1>2, TimelineIs DEF Told, ClipInit
<1> QED
  BY <1>3 DEF ClipInit, ClipInv, ClipsSound, MergeCovers, ClipsPlayable, ClipsDiverse, RatingsFair

\* Scenes that cover the video cover it when the short ones are merged.
Covered(seq) ==
  \A min \in MergeMins \ {0} :
    LET m == MergeShort(seq, min)
    IN  /\ m[1].start = 0 /\ m[Len(m)].end = VideoEnd
        /\ \A k \in 2..Len(m) : m[k].start = m[k - 1].end
        /\ Len(m) > 1 => \A k \in DOMAIN m : Dur(m[k]) >= min

\* They do, by the way they are merged.
LEMMA CoversMerged ==
  ASSUME NEW seq, Tiles(seq, VideoEnd)
  PROVE  Covered(seq)
<1> SUFFICES ASSUME NEW min \in MergeMins \ {0}
             PROVE  LET m == MergeShort(seq, min)
                    IN  /\ m[1].start = 0 /\ m[Len(m)].end = VideoEnd
                        /\ \A k \in 2..Len(m) : m[k].start = m[k - 1].end
                        /\ Len(m) > 1 => \A k \in DOMAIN m : Dur(m[k]) >= min
  BY DEF Covered
<1> DEFINE m == MergeShort(seq, min)
<1>1. min \in Nat
  BY ClipAssumption
<1>2. Tiles(m, VideoEnd) /\ (Len(m) > 1 => LongOnes(m, min))
  BY <1>1, MergeTiles
<1> HIDE DEF m
<1>3. DOMAIN m = 1..Len(m)
  BY <1>2 DEF Tiles
<1> QED
  BY <1>2, <1>3 DEF Tiles, LongOnes, m

\* Detecting scenes keeps the invariant: whatever is found covers the video.
LEMMA ScenesDetected == ASSUME ClipInv, Detect PROVE ClipInv'
<1>1. scenes' # <<>> => Tiles(scenes', VideoEnd)
  <2>1. CASE UNCHANGED scenes
    BY <2>1 DEF ClipInv
  <2>2. CASE \E cuts \in SUBSET Cuts : scenes' = ScenesAt(cuts)
    BY <2>2, ScenesTile
  <2> QED
    BY <2>1, <2>2 DEF Detect
<1>2. MergeCovers'
  <2>1. scenes' # <<>> => Covered(scenes')
    BY <1>1, CoversMerged
  <2> QED
    BY <2>1 DEF MergeCovers, Covered, MergeShort, Merging, MergeNext, NoneMerged, Dur
<1>3. Told' /\ clips' = <<>> /\ quality' = <<>>
  BY DEF ClipInv, Detect, Told
<1> QED
  BY <1>1, <1>2, <1>3 DEF ClipInv, ClipsSound, ClipsPlayable, ClipsDiverse, RatingsFair, Tiles, Footage

\* Whatever the options, the clips of a run and their ratings are sound.
LEMMA ClipsMatched ==
  ASSUME Told, Tiles(scenes, VideoEnd), NEW opt \in Options, NEW seq, NEW cs,
         seq = Pool(opt), cs = Diversify(seq, Matched(seq, opt))
  PROVE  /\ seq \in Seq(Footage) /\ seq # <<>> /\ CutFor(seq, cs)
         /\ Len(seq) > 1 => \A i \in 1..Len(lines) : Various(seq, cs, i)
<1>1. seq \in Seq(Footage) /\ seq # <<>>
  BY PoolIs
<1>2. CutFor(seq, Matched(seq, opt))
  BY <1>1, MatchedIs
<1> QED
  BY <1>1, <1>2, DiversifyIs

\* So matching keeps the invariant.
LEMMA LinesMatched == ASSUME ClipInv, Match PROVE ClipInv'
<1>1. /\ mstep = "match" /\ mstep' = "done" /\ lines' = lines /\ scenes' = scenes
      /\ clamp' = clamp
  BY DEF Match
<1>2. Told' /\ (scenes' # <<>> => Tiles(scenes', VideoEnd)) /\ MergeCovers'
  BY <1>1 DEF ClipInv, ClipsSound, Told, MergeCovers
<1>3. clips = <<>> /\ quality = <<>>
  BY <1>1 DEF ClipInv
<1>4. CASE clips' = clips /\ quality' = quality
  <2>1. clips' = <<>> /\ quality' = <<>>
    BY <1>3, <1>4
  <2> QED
    BY <1>1, <1>2, <2>1
    DEF ClipInv, ClipsSound, ClipsPlayable, ClipsDiverse, RatingsFair, Tiles, Footage
<1>5. CASE /\ scenes # <<>>
           /\ \E opt \in Options :
                /\ pool' = Pool(opt) /\ clips' = Diversify(pool', Matched(pool', opt))
                /\ quality' = Aggregate(Rated(clips', opt)) \/ quality' = quality
  <2>1. PICK opt \in Options :
          /\ pool' = Pool(opt) /\ clips' = Diversify(pool', Matched(pool', opt))
          /\ quality' = Aggregate(Rated(clips', opt)) \/ quality' = quality
    BY <1>5
  <2>2. Told /\ Tiles(scenes, VideoEnd)
    BY <1>5 DEF ClipInv
  <2>3. /\ pool' \in Seq(Footage) /\ pool' # <<>> /\ CutFor(pool', clips')
        /\ Len(pool') > 1 => \A i \in 1..Len(lines) : Various(pool', clips', i)
    BY <2>1, <2>2, ClipsMatched
  <2>4. DOMAIN clips' = 1..Len(lines) /\ Len(clips') = Len(lines)
    BY <2>2, <2>3 DEF CutFor, Told
  <2>5. ClipsPlayable'
    <3>1. \A i \in 1..Len(lines) : Fitting(pool', i, clips'[i])
      BY <2>3 DEF CutFor
    <3> DEFINE end == SpanOf(pool').end
    <3>2. ASSUME NEW i \in 1..Len(lines)
          PROVE  LET c == clips'[i]
                 IN  /\ 0 <= c.start /\ c.start < c.end /\ c.end <= end
                     /\ 100 * Dur(c) <= CutWithin(c)[2] * Dur(lines[i])
                     /\ \/ 100 * Dur(c) >= CutWithin(c)[1] * Dur(lines[i])
                        \/ c.start = 0 /\ c.end = end
      <4> DEFINE c == clips'[i]
      <4>1. Showable(c, Dur(lines[i]), end, CutWithin(c))
        BY <3>1 DEF Fitting
      <4> HIDE DEF c, end
      <4> QED
        BY <4>1 DEF Showable, c
    <3> QED
      BY <1>1, <2>4, <3>2 DEF ClipsPlayable, CutWithin
  <2>6. ClipsDiverse'
    BY <2>3, <2>4 DEF ClipsDiverse, Various, Uses, Recent
  <2>7. RatingsFair'
    <3>1. CASE quality' = quality
      BY <1>3, <3>1 DEF RatingsFair
    <3>2. CASE quality' = Aggregate(Rated(clips', opt))
      <4> DEFINE q == Rated(clips', opt)
      <4>1. quality'.ratings = q
        BY <3>2 DEF Aggregate
      <4>2. /\ DOMAIN q = 1..Len(lines)
            /\ \A i \in 1..Len(lines) :
                 /\ q[i].diversity < 100 =>
                      \E j \in Max({1, i - ReuseWindow})..i - 1 :
                         DOMAIN pool' \subseteq {clips'[k].scene : k \in Recent(j)}
                 /\ \E x, y \in {q[i].embedding, q[i].rhythm, q[i].diversity} \ {NoScore} :
                      x <= q[i].composite /\ q[i].composite <= y
        BY <2>2, <2>3, RatedIs
      <4> HIDE DEF q
      <4> QED
        BY <4>1, <4>2 DEF RatingsFair, Recent
    <3> QED
      BY <2>1, <3>1, <3>2
  <2> QED
    BY <1>1, <1>2, <2>5, <2>6, <2>7 DEF ClipInv, ClipsSound, Tiles, Footage
<1> QED
  BY <1>4, <1>5 DEF Match

\* A step of something else changes nothing here.
LEMMA ClipsRest == ASSUME ClipInv, UNCHANGED mvars PROVE ClipInv'
<1>1. /\ mstep' = mstep /\ lines' = lines /\ clamp' = clamp /\ scenes' = scenes /\ pool' = pool
      /\ clips' = clips /\ quality' = quality
  BY DEF mvars
<1>2. Told' /\ (scenes' # <<>> => Tiles(scenes', VideoEnd))
  BY <1>1 DEF ClipInv, Told
<1>3. MergeCovers'
  BY <1>1 DEF ClipInv, ClipsSound, MergeCovers
<1>4. ClipsPlayable'
  BY <1>1 DEF ClipInv, ClipsSound, ClipsPlayable
<1>5. ClipsDiverse'
  BY <1>1 DEF ClipInv, ClipsSound, ClipsDiverse
<1>6. RatingsFair'
  <2> DEFINE Fair(all, cs, seq) ==
               all # <<>> =>
                 LET q == all.ratings
                 IN  \A i \in DOMAIN q :
                       /\ q[i].diversity < 100 =>
                            \E j \in Max({1, i - ReuseWindow})..i - 1 :
                               DOMAIN seq \subseteq {cs[k].scene : k \in Recent(j)}
                       /\ \E x, y \in {q[i].embedding, q[i].rhythm, q[i].diversity} \ {NoScore} :
                            x <= q[i].composite /\ q[i].composite <= y
  <2>1. RatingsFair = Fair(quality, clips, pool) /\ RatingsFair' = Fair(quality', clips', pool')
    BY DEF RatingsFair
  <2> HIDE DEF Fair
  <2> QED
    BY <1>1, <2>1 DEF ClipInv, ClipsSound
<1> QED
  BY <1>1, <1>2, <1>3, <1>4, <1>5, <1>6 DEF ClipInv, ClipsSound, Tiles, Footage

\* Footage is matched completely, playably and with variety, and rated for it: merging
\* covers the video, every line has a clip, at a speed within the job's clamp or, when its
\* scene was swapped, within the fixed one (fallback.py:175), no scene is shown too often
\* while another is free, and only that is rated down (match/__init__.py,
\* match/fallback.py, utils/match_quality.py), for every film, narration, clamp and option.
THEOREM ClipsHolds == ClipSpec => []ClipsSound
<1>1. ClipInit => ClipInv
  BY ClipStart
<1>2. ClipInv /\ [ClipNext]_mvars => ClipInv'
  BY ScenesDetected, LinesMatched, ClipsRest DEF ClipNext
<1>3. ClipInv => ClipsSound
  BY DEF ClipInv
<1> QED
  BY <1>1, <1>2, <1>3, PTL DEF ClipSpec

-----------------------------------------------------------------------------
\* The order of the registry

\* every member of s stands in the relation R to those behind it
Follows(s, R) == \A i, j \in DOMAIN s : i < j => <<s[i], s[j]>> \in R

\* Of two sequences one comes behind the other.
LEMMA Joining ==
  ASSUME NEW S, NEW s \in Seq(S), NEW t \in Seq(S)
  PROVE  /\ s \o t \in Seq(S) /\ ToSet(s \o t) = ToSet(s) \cup ToSet(t)
         /\ \A i \in 1..(Len(s) + Len(t)) :
              (s \o t)[i] = IF i <= Len(s) THEN s[i] ELSE t[i - Len(s)]
         /\ Len(s) \in Nat /\ Len(t) \in Nat /\ Len(s \o t) = Len(s) + Len(t)
         /\ DOMAIN s = 1..Len(s) /\ DOMAIN t = 1..Len(t) /\ DOMAIN (s \o t) = 1..(Len(s) + Len(t))
<1> DEFINE m == Len(s)
           n == Len(t)
           st == s \o t
<1>1. /\ m \in Nat /\ n \in Nat /\ st \in Seq(S) /\ Len(st) = m + n
      /\ \A i \in 1..(m + n) : st[i] = IF i <= m THEN s[i] ELSE t[i - m]
  OBVIOUS
<1>2. DOMAIN s = 1..m /\ DOMAIN t = 1..n /\ DOMAIN st = 1..(m + n)
  BY <1>1
<1> HIDE DEF st, m, n
<1>3. \A i \in 1..m : i \in 1..(m + n) /\ st[i] = s[i]
  BY <1>1
<1>4. \A i \in 1..n : i + m \in 1..(m + n) /\ st[i + m] = t[i]
  BY <1>1
<1>5. \A i \in 1..(m + n) : i \in 1..m \/ (i - m \in 1..n /\ i = (i - m) + m)
  BY <1>1
<1>6. ToSet(st) = ToSet(s) \cup ToSet(t)
  <2>1. ToSet(st) \subseteq ToSet(s) \cup ToSet(t)
    BY <1>2, <1>3, <1>4, <1>5 DEF ToSet
  <2>2. ToSet(s) \subseteq ToSet(st) /\ ToSet(t) \subseteq ToSet(st)
    BY <1>2, <1>3, <1>4 DEF ToSet
  <2> QED
    BY <2>1, <2>2
<1> QED
  BY <1>1, <1>2, <1>6 DEF st, m, n

\* A relation that holds within two sequences and between them holds in both together.
LEMMA JoinedFollows ==
  ASSUME NEW S, NEW s \in Seq(S), NEW t \in Seq(S),
         NEW R, Follows(s, R), Follows(t, R), ToSet(s) \X ToSet(t) \subseteq R
  PROVE  s \o t \in Seq(S) /\ Follows(s \o t, R)
<1> DEFINE m == Len(s)
           n == Len(t)
           st == s \o t
<1>1. /\ m \in Nat /\ n \in Nat /\ DOMAIN s = 1..m /\ DOMAIN t = 1..n /\ DOMAIN st = 1..(m + n)
      /\ \A i \in 1..(m + n) : st[i] = IF i <= m THEN s[i] ELSE t[i - m]
      /\ st \in Seq(S)
  BY Joining
<1> HIDE DEF st, m, n
<1>2. \A i \in 1..m : st[i] = s[i]
  BY <1>1
<1>3. \A i \in 1..(m + n) : i \in 1..m \/ (i - m \in 1..n /\ st[i] = t[i - m])
  BY <1>1
<1>4. Follows(st, R)
  <2> SUFFICES ASSUME NEW i \in 1..(m + n), NEW j \in 1..(m + n), i < j
               PROVE  <<st[i], st[j]>> \in R
    BY <1>1 DEF Follows
  <2>1. CASE i \in 1..m /\ j \in 1..m
    BY <1>1, <1>2, <2>1 DEF Follows
  <2>2. CASE i \in 1..m /\ j - m \in 1..n /\ st[j] = t[j - m]
    <3>1. s[i] \in ToSet(s) /\ t[j - m] \in ToSet(t)
      BY <1>1, <2>2 DEF ToSet
    <3> QED
      BY <1>2, <2>2, <3>1
  <2>3. CASE i - m \in 1..n /\ st[i] = t[i - m] /\ j - m \in 1..n /\ st[j] = t[j - m]
    <3>1. i - m < j - m
      BY <1>1
    <3> QED
      BY <1>1, <2>3, <3>1 DEF Follows
  <2> QED
    BY <1>1, <1>3, <2>1, <2>2, <2>3
<1> QED
  BY <1>1, <1>4 DEF st

\* One member, in a row with no other.
LEMMA Alone ==
  ASSUME NEW S, NEW e \in S
  PROVE  <<e>> \in Seq(S) /\ ToSet(<<e>>) = {e} /\ \A R : Follows(<<e>>, R)
<1>1. <<e>> \in Seq(S) /\ DOMAIN <<e>> = {1} /\ <<e>>[1] = e
  OBVIOUS
<1> QED
  BY <1>1 DEF ToSet, Follows

\* The members of a set in their order.
LEMMA NthGrows ==
  ASSUME NEW n \in Nat, NEW K \in SUBSET (1..n)
  PROVE  /\ Cardinality(K) \in 0..n
         /\ \A k \in 1..Cardinality(K) : Nth(K, k) \in K
         /\ \A k, l \in 1..Cardinality(K) : k < l => Nth(K, k) < Nth(K, l)
         /\ \A i \in K : \E k \in 1..Cardinality(K) : Nth(K, k) = i
<1> DEFINE size == Cardinality(K)
<1>1. /\ IsFiniteSet(K) /\ size \in 0..n
      /\ \A i \in K : Rank(K, i) \in 1..size
      /\ \A i, j \in K : i # j => Rank(K, i) # Rank(K, j)
      /\ \A k \in 1..size : \E i \in K : Rank(K, i) = k
  BY EveryRank
<1>2. \A k \in 1..size : Nth(K, k) \in K /\ Rank(K, Nth(K, k)) = k
  BY <1>1 DEF Nth
<1> HIDE DEF size
<1>3. ASSUME NEW k \in 1..size, NEW l \in 1..size, k < l PROVE Nth(K, k) < Nth(K, l)
  <2> DEFINE x == Nth(K, k)
             y == Nth(K, l)
  <2>0. \A i \in K : i \in Nat
    OBVIOUS
  <2>1. x \in K /\ y \in K /\ Rank(K, x) = k /\ Rank(K, y) = l /\ x \in Nat /\ y \in Nat
    BY <1>2, <2>0
  <2> HIDE DEF x, y
  <2> SUFFICES ASSUME y <= x PROVE FALSE
    BY <2>1 DEF x, y
  <2>2. {j \in K : j <= y} \subseteq {j \in K : j <= x}
    <3>1. \A j \in K : j \in Nat
      OBVIOUS
    <3>2. \A j \in Nat : j <= y => j <= x
      BY <2>1
    <3> QED
      BY <3>1, <3>2
  <2>3. IsFiniteSet({j \in K : j <= x})
    BY <1>1, FS_Subset
  <2>4. Rank(K, y) <= Rank(K, x)
    BY <2>2, <2>3, FS_Subset DEF Rank
  <2> QED
    BY <1>1, <1>3, <2>1, <2>4
<1>4. ASSUME NEW i \in K PROVE \E k \in 1..size : Nth(K, k) = i
  <2>1. Rank(K, i) \in 1..size /\ Nth(K, Rank(K, i)) = i
    BY <1>1, <1>2
  <2> QED
    BY <2>1
<1> QED
  BY <1>1, <1>2, <1>3, <1>4 DEF size

\* What is taken of a sequence keeps its order.
LEMMA TakenInOrder ==
  ASSUME NEW S, NEW s \in Seq(S), NEW K \in SUBSET DOMAIN s
  PROVE  /\ Taken(s, K) \in Seq({s[i] : i \in K}) /\ Len(Taken(s, K)) \in 0..Len(s)
         /\ ToSet(Taken(s, K)) = {s[i] : i \in K}
         /\ \A R : (\A i, j \in K : i < j => <<s[i], s[j]>> \in R) => Follows(Taken(s, K), R)
         /\ Distinct(s) => Distinct(Taken(s, K))
<1> DEFINE size == Cardinality(K)
           t == Taken(s, K)
<1>1. Len(s) \in Nat /\ K \in SUBSET (1..Len(s)) /\ DOMAIN s = 1..Len(s)
  OBVIOUS
<1>2. /\ size \in 0..Len(s)
      /\ \A k \in 1..size : Nth(K, k) \in K
      /\ \A k, l \in 1..size : k < l => Nth(K, k) < Nth(K, l)
      /\ \A i \in K : \E k \in 1..size : Nth(K, k) = i
  BY <1>1, NthGrows
<1>3. t = [k \in 1..size |-> s[Nth(K, k)]]
  BY DEF Taken
<1> HIDE DEF t, size
<1>4. size \in Nat /\ t \in Seq({s[i] : i \in K}) /\ Len(t) = size /\ DOMAIN t = 1..size
  BY <1>1, <1>2, <1>3
<1>5. \A k \in 1..size : t[k] = s[Nth(K, k)]
  BY <1>3
<1>6. ToSet(t) = {s[i] : i \in K}
  <2>1. ToSet(t) = {t[k] : k \in 1..size}
    BY <1>4 DEF ToSet
  <2>2. {t[k] : k \in 1..size} = {s[Nth(K, k)] : k \in 1..size}
    BY <1>5
  <2>3. {s[Nth(K, k)] : k \in 1..size} = {s[i] : i \in K}
    BY <1>2
  <2> QED
    BY <2>1, <2>2, <2>3
<1>7. ASSUME NEW R, \A i, j \in K : i < j => <<s[i], s[j]>> \in R PROVE Follows(t, R)
  BY <1>2, <1>4, <1>5, <1>7 DEF Follows
<1>8. Distinct(s) => Distinct(t)
  <2> SUFFICES ASSUME Distinct(s), NEW k \in 1..size, NEW l \in 1..size, t[k] = t[l], k # l
               PROVE  FALSE
    BY <1>4 DEF Distinct
  <2>1. Nth(K, k) = Nth(K, l)
    <3>1. Nth(K, k) \in DOMAIN s /\ Nth(K, l) \in DOMAIN s
      BY <1>2
    <3> QED
      BY <1>5, <3>1 DEF Distinct
  <2>2. k < l \/ l < k
    BY <1>4
  <2>3. Nth(K, k) \in Nat /\ Nth(K, l) \in Nat
    BY <1>1, <1>2
  <2> QED
    BY <1>2, <2>1, <2>2, <2>3
<1> QED
  BY <1>2, <1>4, <1>6, <1>7, <1>8 DEF t, size

\* names are keys of the registry
KeyedByName ==
  /\ registry \in Seq(Declaration)
  /\ \A i, j \in DOMAIN registry : registry[i].name = registry[j].name => i = j

Registrants == ToSet(registry)

\* The entries and their names belong together.
LEMMA EntriesNamed ==
  ASSUME KeyedByName
  PROVE  /\ Registrants \subseteq Declaration /\ registry \in Seq(Registrants)
         /\ \A e, f \in Registrants : e.name = f.name => e = f
         /\ Registered = {e.name : e \in Registrants} /\ Registered \subseteq StepNames
         /\ \A e \in Registrants : EntryOf(e.name) = e
         /\ Distinct(registry)
<1>1. registry \in Seq(Declaration) /\ DOMAIN registry = 1..Len(registry)
  BY DEF KeyedByName
<1>2. Registrants = {registry[i] : i \in DOMAIN registry}
  BY DEF Registrants, ToSet
<1>3. Registrants \subseteq Declaration /\ registry \in Seq(Registrants)
  BY <1>1, <1>2
<1>4. \A e, f \in Registrants : e.name = f.name => e = f
  BY <1>2 DEF KeyedByName
<1>5. Registered = {e.name : e \in Registrants}
  BY <1>2 DEF Registered
<1>6. Registered \subseteq StepNames
  BY <1>3, <1>5 DEF Declaration
<1>7. \A e \in Registrants : EntryOf(e.name) = e
  BY <1>4 DEF EntryOf, Registrants
<1>8. Distinct(registry)
  BY DEF Distinct, KeyedByName
<1> QED
  BY <1>3, <1>4, <1>5, <1>6, <1>7, <1>8

\* What is taken of the registry: some entries, in any relation that all of them are in.
LEMMA SomeEntries ==
  ASSUME KeyedByName, NEW K \in SUBSET DOMAIN registry
  PROVE  /\ Taken(registry, K) \in Seq(Registrants)
         /\ ToSet(Taken(registry, K)) = {registry[k] : k \in K}
         /\ {registry[k] : k \in K} \subseteq Registrants
         /\ \A R : (\A e, f \in {registry[k] : k \in K} : e # f => <<e, f>> \in R)
              => Follows(Taken(registry, K), R)
         /\ Distinct(Taken(registry, K))
<1> DEFINE es == {registry[k] : k \in K}
<1>1. /\ registry \in Seq(Registrants) /\ Distinct(registry) /\ DOMAIN registry \subseteq Int
  BY EntriesNamed
<1>2. es \subseteq Registrants
  BY DEF Registrants, ToSet
<1>3. /\ Taken(registry, K) \in Seq(es) /\ ToSet(Taken(registry, K)) = es
      /\ \A R : (\A i, j \in K : i < j => <<registry[i], registry[j]>> \in R)
           => Follows(Taken(registry, K), R)
      /\ Distinct(Taken(registry, K))
  <2>1. /\ Taken(registry, K) \in Seq({registry[k] : k \in K})
        /\ ToSet(Taken(registry, K)) = {registry[k] : k \in K}
        /\ Distinct(registry) => Distinct(Taken(registry, K))
    BY <1>1, TakenInOrder
  <2>2. \A R : (\A i, j \in K : i < j => <<registry[i], registry[j]>> \in R)
                 => Follows(Taken(registry, K), R)
    BY <1>1, TakenInOrder
  <2> QED
    BY <1>1, <2>1, <2>2
<1>4. ASSUME NEW R, \A e, f \in es : e # f => <<e, f>> \in R PROVE Follows(Taken(registry, K), R)
  <2>1. \A i, j \in K : i < j => registry[i] # registry[j]
    BY <1>1 DEF Distinct
  <2>2. \A i, j \in K : i < j => <<registry[i], registry[j]>> \in R
    BY <1>4, <2>1
  <2> QED
    BY <1>3, <2>2
<1>5. Taken(registry, K) \in Seq(Registrants)
  <2> HIDE DEF es
  <2> QED
    BY <1>2, <1>3
<1> QED
  BY <1>2, <1>3, <1>4, <1>5

\* where a step has to stand: on the even numbers the built-in steps, between them the
\* plugins that name one
BuiltinNames == {c.name : c \in ToSet(Builtins)}
Spot(e, k) ==
  \E i \in DOMAIN Builtins :
    \/ e = Builtins[i] /\ k = 2 * i
    \/ e.after = Builtins[i].name /\ k = 2 * i + 1
    \/ e.before = Builtins[i].name /\ e.after \notin BuiltinNames /\ k = 2 * i - 1
Spots == {p \in Registrants \X Registrants :
            p[1] # p[2] /\ \A k, l \in Int : Spot(p[1], k) /\ Spot(p[2], l) => k <= l}

\* The built-in steps.
LEMMA BuiltinsAre ==
  ASSUME KeyedByName
  PROVE  /\ Builtins \in Seq(Registrants) /\ Distinct(Builtins)
         /\ ToSet(Builtins) = {e \in Registrants : Builtin(e)}
         /\ \A i, j \in DOMAIN Builtins : Builtins[i].name = Builtins[j].name => i = j
         /\ \A i \in DOMAIN Builtins : /\ Builtins[i] \in Registrants /\ Builtin(Builtins[i])
                                       /\ Builtins[i].name \in BuiltinNames
         /\ NoStep \notin BuiltinNames
<1> DEFINE K == {k \in DOMAIN registry : Builtin(registry[k])}
<1>1. /\ Builtins \in Seq(Registrants) /\ Distinct(Builtins)
      /\ ToSet(Builtins) = {registry[k] : k \in K}
  BY SomeEntries DEF Builtins
<1>2. ToSet(Builtins) = {e \in Registrants : Builtin(e)}
  BY <1>1 DEF Registrants, ToSet
<1>3. \A i \in DOMAIN Builtins : Builtins[i] \in ToSet(Builtins)
  BY DEF ToSet
<1>4. /\ \A e, f \in Registrants : e.name = f.name => e = f
      /\ \A e \in Registrants : e.name \in StepNames
  BY EntriesNamed DEF Declaration
<1>5. \A i, j \in DOMAIN Builtins : Builtins[i].name = Builtins[j].name => i = j
  BY <1>1, <1>2, <1>3, <1>4 DEF Distinct
<1>6. NoStep \notin BuiltinNames
  BY <1>2, <1>4, CatalogAssumption DEF BuiltinNames
<1> QED
  BY <1>1, <1>2, <1>3, <1>5, <1>6 DEF BuiltinNames

\* A step has one place to stand at most.
LEMMA OneSpot ==
  ASSUME KeyedByName, NEW e \in Registrants, NEW k, NEW l, Spot(e, k), Spot(e, l)
  PROVE  k = l /\ k \in Int
<1>1. PICK i \in DOMAIN Builtins :
        \/ e = Builtins[i] /\ k = 2 * i
        \/ e.after = Builtins[i].name /\ k = 2 * i + 1
        \/ e.before = Builtins[i].name /\ e.after \notin BuiltinNames /\ k = 2 * i - 1
  BY DEF Spot
<1>2. PICK j \in DOMAIN Builtins :
        \/ e = Builtins[j] /\ l = 2 * j
        \/ e.after = Builtins[j].name /\ l = 2 * j + 1
        \/ e.before = Builtins[j].name /\ e.after \notin BuiltinNames /\ l = 2 * j - 1
  BY DEF Spot
<1>3. /\ \A x \in DOMAIN Builtins : /\ Builtin(Builtins[x]) /\ Builtins[x].name \in BuiltinNames
                                    /\ x \in Int
      /\ NoStep \notin BuiltinNames
      /\ \A x, y \in DOMAIN Builtins : Builtins[x].name = Builtins[y].name => x = y
  BY BuiltinsAre
<1>4. i = j
  BY <1>1, <1>2, <1>3 DEF Builtin
<1>5. CASE e = Builtins[i]
  BY <1>1, <1>2, <1>3, <1>4, <1>5 DEF Builtin
<1>6. CASE e.after = Builtins[i].name
  BY <1>1, <1>2, <1>3, <1>4, <1>6 DEF Builtin
<1>7. CASE e.before = Builtins[i].name /\ e.after \notin BuiltinNames
  BY <1>1, <1>2, <1>3, <1>4, <1>7 DEF Builtin
<1> QED
  BY <1>1, <1>5, <1>6, <1>7

\* First come the built-in steps, each followed by the plugins that go after it.
LEMMA BuiltinsThenAfter ==
  ASSUME KeyedByName
  PROVE  /\ BuiltinsAndAfter \in Seq(Registrants) /\ Follows(BuiltinsAndAfter, Spots)
         /\ ToSet(BuiltinsAndAfter) =
              {e \in Registrants : Builtin(e) \/ e.after \in BuiltinNames}
<1> DEFINE n == Len(Builtins)
           A == Seq(Registrants)
           Goal(a, i) == a \o <<Builtins[i]>> \o After(Builtins[i])
           Next(g, i) == IF i = 0 THEN <<>> ELSE Goal(g[i - 1], i)
           Grows(g) == g = [i \in 0..n |-> Next(g, i)]
           step == [p \in A \X (1..n) |-> Goal(p[1], p[2])]
           upto(i) == {e \in Registrants : \E j \in 1..i : e = Builtins[j] \/ e.after = Builtins[j].name}
<1>0. n \in Nat
  BY BuiltinsAre
<1>1. /\ n \in Nat /\ DOMAIN Builtins = 1..n /\ Builtins \in Seq(Registrants)
      /\ \A i \in 1..n : Builtins[i] \in Registrants /\ Builtin(Builtins[i])
      /\ \A i, j \in 1..n : Builtins[i].name = Builtins[j].name => i = j
      /\ ToSet(Builtins) = {e \in Registrants : Builtin(e)}
  BY BuiltinsAre
<1>2. ASSUME NEW i \in 1..n
      PROVE  /\ After(Builtins[i]) \in A
             /\ ToSet(After(Builtins[i])) = {e \in Registrants : e.after = Builtins[i].name}
             /\ Follows(After(Builtins[i]), Spots)
  <2> DEFINE K == {k \in DOMAIN registry : registry[k].after = Builtins[i].name}
             es == {registry[k] : k \in K}
  <2>1. After(Builtins[i]) = Taken(registry, K) /\ K \in SUBSET DOMAIN registry
    BY DEF After
  <2>2. es = {e \in Registrants : e.after = Builtins[i].name}
    BY DEF Registrants, ToSet
  <2>3. \A e, f \in es : e # f => <<e, f>> \in Spots
    <3> SUFFICES ASSUME NEW e \in es, NEW f \in es, e # f, NEW k \in Int, NEW l \in Int,
                        Spot(e, k), Spot(f, l)
                 PROVE  k <= l
      BY <2>2 DEF Spots
    <3>1. Spot(e, 2 * i + 1) /\ Spot(f, 2 * i + 1)
      BY <1>1, <2>2 DEF Spot
    <3>2. k = 2 * i + 1 /\ l = 2 * i + 1
      BY <2>2, <3>1, OneSpot
    <3> QED
      BY <3>2
  <2>4. /\ Taken(registry, K) \in A /\ ToSet(Taken(registry, K)) = es
        /\ (\A e, f \in es : e # f => <<e, f>> \in Spots) => Follows(Taken(registry, K), Spots)
    <3> HIDE DEF K
    <3> QED
      BY <2>1, SomeEntries
  <2> HIDE DEF es, K
  <2> QED
    BY <2>1, <2>2, <2>3, <2>4
<1>3. <<>> \in A
  OBVIOUS
<1>4. \A a \in A : \A i \in 1..n :
        /\ Goal(a, i) \in A
        /\ ToSet(Goal(a, i)) = ToSet(a) \cup {Builtins[i]} \cup ToSet(After(Builtins[i]))
  <2> SUFFICES ASSUME NEW a \in A, NEW i \in 1..n
               PROVE  /\ Goal(a, i) \in A
                      /\ ToSet(Goal(a, i)) = ToSet(a) \cup {Builtins[i]} \cup ToSet(After(Builtins[i]))
    OBVIOUS
  <2>1. <<Builtins[i]>> \in A /\ ToSet(<<Builtins[i]>>) = {Builtins[i]}
    BY <1>1, Alone
  <2>2. a \o <<Builtins[i]>> \in A /\ ToSet(a \o <<Builtins[i]>>) = ToSet(a) \cup {Builtins[i]}
    <3> DEFINE c == <<Builtins[i]>>
    <3>1. c \in Seq(Registrants) /\ ToSet(c) = {Builtins[i]}
      BY <2>1
    <3> HIDE DEF c
    <3>2. a \o c \in Seq(Registrants) /\ ToSet(a \o c) = ToSet(a) \cup ToSet(c)
      BY <3>1, Joining
    <3> QED
      BY <3>1, <3>2 DEF c
  <2> DEFINE ab == a \o <<Builtins[i]>>
  <2>3. ab \in A /\ After(Builtins[i]) \in A
    BY <1>2, <2>2
  <2>4. ToSet(ab \o After(Builtins[i])) = ToSet(ab) \cup ToSet(After(Builtins[i]))
        /\ ab \o After(Builtins[i]) \in A
    <3> HIDE DEF ab
    <3> QED
      BY <2>3, Joining
  <2> QED
    BY <2>2, <2>4
<1>5. ASSUME NEW i \in 1..n, NEW a \in A, ToSet(a) = upto(i - 1), Follows(a, Spots)
      PROVE  ToSet(Goal(a, i)) = upto(i) /\ Follows(Goal(a, i), Spots)
  <2> DEFINE b == Builtins[i]
  <2>1. ToSet(Goal(a, i)) = upto(i)
    <3>1. ToSet(Goal(a, i)) = upto(i - 1) \cup {b} \cup {e \in Registrants : e.after = b.name}
      BY <1>2, <1>4, <1>5
    <3>2. /\ b \in Registrants /\ i \in 1..i
          /\ \A j \in 1..i : j = i \/ j \in 1..(i - 1)
          /\ \A j \in 1..(i - 1) : j \in 1..i
      BY <1>1
    <3> HIDE DEF b, Goal
    <3> QED
      BY <3>1, <3>2 DEF b
  <2>2. b \in Registrants /\ Spot(b, 2 * i)
    BY <1>1 DEF Spot
  <2>3. \A f \in Registrants : f.after = b.name => Spot(f, 2 * i + 1) /\ f # b
    <3> SUFFICES ASSUME NEW f \in Registrants, f.after = b.name
                 PROVE  Spot(f, 2 * i + 1) /\ f # b
      OBVIOUS
    <3>1. Spot(f, 2 * i + 1)
      BY <1>1 DEF Spot
    <3>2. 2 * i + 1 # 2 * i
      BY <1>1
    <3> QED
      BY <2>2, <3>1, <3>2, OneSpot
  <2>4. ASSUME NEW e \in upto(i - 1) PROVE \E k \in Int : Spot(e, k) /\ k < 2 * i
    <3>1. PICK j \in 1..(i - 1) : e = Builtins[j] \/ e.after = Builtins[j].name
      OBVIOUS
    <3>2. j \in 1..n /\ 2 * j < 2 * i /\ 2 * j + 1 < 2 * i /\ 2 * j \in Int /\ 2 * j + 1 \in Int
      BY <1>1
    <3>3. Spot(e, 2 * j) \/ Spot(e, 2 * j + 1)
      BY <1>1, <3>1, <3>2 DEF Spot
    <3> QED
      BY <3>2, <3>3
  <2> HIDE DEF upto
  <2>5. ASSUME NEW e \in Registrants, NEW f \in Registrants, NEW k \in Int, NEW l \in Int,
               Spot(e, k), Spot(f, l), k < l
        PROVE  <<e, f>> \in Spots
    <3>1. \A x \in Int : Spot(e, x) => x = k
      BY <2>5, OneSpot
    <3>2. \A y \in Int : Spot(f, y) => y = l
      BY <2>5, OneSpot
    <3>3. e # f
      BY <2>5, <3>1
    <3>4. \A x, y \in Int : Spot(e, x) /\ Spot(f, y) => x <= y
      BY <2>5, <3>1, <3>2
    <3> QED
      BY <3>3, <3>4 DEF Spots
  <2>6. ToSet(a) \subseteq Registrants
    BY <1>5 DEF upto
  <2>7. Follows(a \o <<b>>, Spots) /\ a \o <<b>> \in A /\ ToSet(a \o <<b>>) = ToSet(a) \cup {b}
    <3>1. <<b>> \in A /\ ToSet(<<b>>) = {b} /\ Follows(<<b>>, Spots)
      BY <2>2, Alone
    <3>2. ToSet(a) \X {b} \subseteq Spots
      <4> SUFFICES ASSUME NEW e \in ToSet(a) PROVE <<e, b>> \in Spots
        OBVIOUS
      <4>1. PICK k \in Int : Spot(e, k) /\ k < 2 * i
        BY <1>5, <2>4
      <4>2. 2 * i \in Int
        OBVIOUS
      <4> QED
        BY <2>2, <2>5, <2>6, <4>1, <4>2
    <3> HIDE DEF b
    <3>3. ToSet(a) \X ToSet(<<b>>) \subseteq Spots
      BY <3>1, <3>2
    <3>4. /\ a \o <<b>> \in Seq(Registrants)
          /\ ToSet(a \o <<b>>) = ToSet(a) \cup ToSet(<<b>>)
      BY <3>1, Joining, ZenonT(20)
    <3>5. Follows(a \o <<b>>, Spots)
      BY <1>5, <3>1, <3>3, JoinedFollows
    <3> QED
      BY <3>1, <3>4, <3>5
  <2>8. (ToSet(a) \cup {b}) \X ToSet(After(b)) \subseteq Spots
    <3> SUFFICES ASSUME NEW e \in ToSet(a) \cup {b}, NEW f \in ToSet(After(b)) PROVE <<e, f>> \in Spots
      OBVIOUS
    <3>1. f \in Registrants /\ f.after = b.name
      BY <1>2
    <3>2. Spot(f, 2 * i + 1) /\ 2 * i + 1 \in Int /\ 2 * i \in Int
      BY <2>3, <3>1
    <3>3. \E k \in Int : Spot(e, k) /\ k < 2 * i + 1
      <4>1. CASE e = b
        BY <2>2, <3>2, <4>1
      <4>2. CASE e \in ToSet(a)
        <5>1. PICK k \in Int : Spot(e, k) /\ k < 2 * i
          BY <1>5, <2>4, <4>2
        <5> QED
          BY <5>1
      <4> QED
        BY <4>1, <4>2
    <3> QED
      BY <2>2, <2>5, <2>6, <3>1, <3>2, <3>3
  <2>9. After(b) \in A /\ Follows(After(b), Spots)
    BY <1>2
  <2>10. Follows((a \o <<b>>) \o After(b), Spots)
    <3> DEFINE ab == a \o <<b>>
               c == After(b)
    <3>1. /\ ab \in Seq(Registrants) /\ Follows(ab, Spots) /\ ToSet(ab) \X ToSet(c) \subseteq Spots
          /\ c \in Seq(Registrants) /\ Follows(c, Spots)
      BY <2>7, <2>8, <2>9
    <3> HIDE DEF ab, c
    <3>2. Follows(ab \o c, Spots)
      BY <3>1, JoinedFollows
    <3> QED
      BY <3>2 DEF ab, c
  <2> QED
    BY <2>1, <2>10
<1> HIDE DEF Goal, A, n, upto
<1>6. step \in [A \X (1..n) -> A]
  BY <1>4
<1>7. PICK g : g \in Goes(n, A, <<>>, step)
  <2> HIDE DEF step
  <2> QED
    BY <1>0, <1>3, <1>6, Folded
<1>8. /\ g \in [0..n -> A] /\ g[0] = <<>>
      /\ \A i \in 1..n : g[i] = step[<<g[i - 1], i>>]
  <2> HIDE DEF step
  <2> QED
    BY <1>7 DEF Goes
<1>9. Grows(g)
  <2>1. \A i \in 0..n : g[i] = Next(g, i)
    <3> SUFFICES ASSUME NEW i \in 0..n, i # 0 PROVE g[i] = Goal(g[i - 1], i)
      BY <1>8
    <3>1. i \in 1..n /\ i - 1 \in 0..n
      BY <1>1
    <3>2. <<g[i - 1], i>> \in A \X (1..n)
      BY <1>8, <3>1
    <3> QED
      BY <1>8, <3>1, <3>2
  <2> HIDE DEF Next
  <2> QED
    BY <1>8, <2>1
<1> DEFINE f == CHOOSE h : Grows(h)
<1>10. Grows(f)
  <2> HIDE DEF Grows
  <2> QED
    BY <1>9
<1>11. BuiltinsAndAfter = f[n]
  BY DEF BuiltinsAndAfter, Goal, n
<1>12. \A i \in 0..n : f[i] = Next(f, i)
  <2> HIDE DEF Next, f
  <2> QED
    BY <1>10
<1> HIDE DEF f
<1> DEFINE S == {m \in Nat : m <= n => f[m] \in A /\ ToSet(f[m]) = upto(m) /\ Follows(f[m], Spots)}
<1>13. 0 \in S
  <2>1. f[0] = <<>> /\ DOMAIN <<>> = {} /\ 1..0 = {}
    BY <1>1, <1>12
  <2> QED
    BY <1>3, <2>1 DEF upto, ToSet, Follows
<1>14. \A m \in Nat : m \in S => m + 1 \in S
  <2> SUFFICES ASSUME NEW m \in Nat, m + 1 <= n, f[m] \in A, ToSet(f[m]) = upto(m), Follows(f[m], Spots)
               PROVE  f[m + 1] \in A /\ ToSet(f[m + 1]) = upto(m + 1) /\ Follows(f[m + 1], Spots)
    BY <1>1
  <2>1. m + 1 \in 1..n /\ m + 1 \in 0..n /\ m + 1 # 0 /\ (m + 1) - 1 = m
    BY <1>1
  <2>2. f[m + 1] = Goal(f[m], m + 1)
    BY <1>12, <2>1
  <2>3. f[m + 1] \in A
    BY <1>4, <2>1, <2>2
  <2> QED
    BY <1>5, <2>1, <2>2, <2>3
<1>15. n \in S
  <2> HIDE DEF S
  <2> QED
    BY <1>1, <1>13, <1>14, EveryNatural
<1>16. BuiltinsAndAfter \in A /\ ToSet(BuiltinsAndAfter) = upto(n) /\ Follows(BuiltinsAndAfter, Spots)
  BY <1>1, <1>11, <1>15
<1>17. upto(n) = {e \in Registrants : Builtin(e) \/ e.after \in BuiltinNames}
  <2>1. \A e \in Registrants : Builtin(e) <=> \E j \in 1..n : e = Builtins[j]
    BY <1>1 DEF ToSet
  <2>2. BuiltinNames = {Builtins[j].name : j \in 1..n}
    BY <1>1 DEF BuiltinNames, ToSet
  <2> QED
    BY <2>1, <2>2 DEF upto
<1> QED
  BY <1>16, <1>17 DEF A

\* The steps a callable belongs to: it is one if no callable belongs to two.
LEMMA Bearers ==
  ASSUME KeyedByName, NEW e \in Registrants
  PROVE  /\ FirstWith(e.func) \in Registrants /\ LastWith(e.func) \in Registrants
         /\ NoAlias => FirstWith(e.func) = e /\ LastWith(e.func) = e
         /\ \A i, j \in DOMAIN registry :
              registry[i].func = registry[j].func /\ i < j => LastWith(e.func) # registry[i]
<1> DEFINE K == Sharing(e.func)
<1>1. /\ registry \in Seq(Registrants) /\ DOMAIN registry = 1..Len(registry) /\ Len(registry) \in Nat
      /\ Distinct(registry)
  BY EntriesNamed
<1>2. \A k \in DOMAIN registry : registry[k] \in Registrants
  BY DEF Registrants, ToSet
<1>3. PICK i \in DOMAIN registry : registry[i] = e
  BY DEF Registrants, ToSet
<1>4. K \in SUBSET (1..Len(registry)) /\ i \in K /\ \A k \in K : registry[k].func = e.func
  BY <1>1, <1>3 DEF Sharing
<1>5. \A k \in DOMAIN registry : registry[k].func = e.func => k \in K
  BY DEF Sharing
<1> HIDE DEF K
<1>6. K \in SUBSET (0..Len(registry)) /\ K \in SUBSET Nat /\ K # {}
  BY <1>1, <1>4
<1>7. Min(K) \in K /\ Max(K) \in K /\ \A x \in K : Max(K) >= x
  BY <1>1, <1>6, MinIsLeast, MaxIsGreatest
<1>8. FirstWith(e.func) = registry[Min(K)] /\ LastWith(e.func) = registry[Max(K)]
  BY DEF FirstWith, LastWith, K
<1>9. NoAlias => FirstWith(e.func) = e /\ LastWith(e.func) = e
  <2>1. \A k \in K : k \in DOMAIN registry /\ registry[k].func = registry[i].func
    BY <1>1, <1>3, <1>4
  <2>2. NoAlias => \A k \in K : k = i
    BY <2>1 DEF NoAlias
  <2> QED
    BY <1>3, <1>7, <1>8, <2>2
<1>10. ASSUME NEW x \in DOMAIN registry, NEW y \in DOMAIN registry,
              registry[x].func = registry[y].func, x < y, LastWith(e.func) = registry[x]
       PROVE  FALSE
  <2>1. Max(K) \in DOMAIN registry /\ registry[Max(K)] = registry[x]
    BY <1>1, <1>4, <1>7, <1>8, <1>10
  <2>2. Max(K) = x
    BY <1>1, <1>10, <2>1 DEF Distinct
  <2>3. registry[y].func = e.func
    BY <1>4, <1>7, <1>10, <2>2
  <2>4. y \in K
    BY <1>5, <1>10, <2>3
  <2>5. x >= y /\ x \in Int /\ y \in Int
    BY <1>1, <1>7, <2>2, <2>4
  <2> QED
    BY <1>10, <2>5
<1> QED
  BY <1>2, <1>1, <1>4, <1>7, <1>8, <1>9, <1>10

\* Whatever belongs before a step has its place right before it.
LEMMA JustBefore ==
  ASSUME KeyedByName, NEW y \in Registrants, ~Builtin(y), y.after \notin BuiltinNames,
         NEW z \in Registrants, y.before = z.name, NEW l, Spot(y, l)
  PROVE  /\ l \in Int /\ Spot(z, l + 1)
         /\ \A x \in Registrants, k \in Int : x # z /\ Spot(x, k) /\ k <= l + 1 => k <= l
<1>1. /\ \A i \in DOMAIN Builtins : /\ Builtins[i] \in Registrants /\ Builtin(Builtins[i])
                                    /\ Builtins[i].name \in BuiltinNames /\ i \in Int
      /\ \A e, f \in Registrants : e.name = f.name => e = f
  BY BuiltinsAre, EntriesNamed
<1>2. PICK m \in DOMAIN Builtins : y.before = Builtins[m].name /\ l = 2 * m - 1
  BY <1>1 DEF Spot
<1>3. z = Builtins[m]
  BY <1>1, <1>2
<1>4. l \in Int /\ l + 1 = 2 * m /\ m \in Int
  BY <1>1, <1>2
<1>5. Spot(z, l + 1)
  BY <1>3, <1>4 DEF Spot
<1>6. ASSUME NEW x \in Registrants, NEW k \in Int, x # z, Spot(x, k), k <= l + 1 PROVE k <= l
  <2>1. PICK i \in DOMAIN Builtins : (x = Builtins[i] /\ k = 2 * i) \/ k = 2 * i + 1 \/ k = 2 * i - 1
    BY <1>6 DEF Spot
  <2>2. i \in Int
    BY <1>1
  <2>3. CASE x = Builtins[i] /\ k = 2 * i
    <3>1. i # m
      BY <1>3, <1>6, <2>3
    <3> QED
      BY <1>4, <1>6, <2>2, <2>3, <3>1
  <2>4. CASE k = 2 * i + 1 \/ k = 2 * i - 1
    BY <1>4, <1>6, <2>2, <2>4
  <2> QED
    BY <2>1, <2>3, <2>4
<1> QED
  BY <1>4, <1>5, <1>6

\* a list to which plugins are added, and what they are added to as far as its i-th member
Listed(list) ==
  /\ list \in Seq(Registrants) /\ Follows(list, Spots)
  /\ ToSet(list) = {e \in Registrants : Builtin(e) \/ e.after \in BuiltinNames}
Reached(list, i) ==
  {list[j] : j \in 1..i} \cup
  {e \in Registrants \ ToSet(list) : \E j \in 1..i : e.before = list[j].name}

\* One more member of the list, with the plugins before it.
LEMMA OneMoreListed ==
  ASSUME KeyedByName, NoAlias, NEW list, Listed(list), NEW i \in 1..Len(list),
         NEW a \in Seq(Registrants), ToSet(a) = Reached(list, i - 1), Follows(a, Spots),
         NEW b, b = Before(list[i], ToSet(list) \cup ToSet(a))
  PROVE  /\ b \in Seq(Registrants)
         /\ ToSet(a \o b \o <<list[i]>>) = Reached(list, i)
         /\ Follows(a \o b \o <<list[i]>>, Spots)
<1> DEFINE z == list[i]
           placed == ToSet(list) \cup ToSet(a)
           K == {k \in DOMAIN registry : registry[k] \notin placed
                                         /\ registry[k].before = FirstWith(z.func).name}
           es == {registry[k] : k \in K}
<1>1. /\ list \in Seq(Registrants) /\ DOMAIN list = 1..Len(list) /\ Len(list) \in Nat /\ i \in DOMAIN list
      /\ \A j \in DOMAIN list : list[j] \in Registrants /\ list[j] \in ToSet(list)
      /\ \A j \in DOMAIN list : j < i => <<list[j], z>> \in Spots
      /\ \A j, h \in DOMAIN list : j < h => <<list[j], list[h]>> \in Spots
      /\ \A e \in Registrants \ ToSet(list) : ~Builtin(e) /\ e.after \notin BuiltinNames
  BY DEF Listed, Follows, ToSet
<1>2. z \in Registrants /\ FirstWith(z.func) = z
  BY <1>1, Bearers
<1>3. b = Taken(registry, K) /\ K \in SUBSET DOMAIN registry
  BY DEF Before
<1>4. es = {e \in Registrants : e \notin ToSet(list) /\ e \notin ToSet(a) /\ e.before = z.name}
  BY <1>2 DEF Registrants, ToSet
<1>5. /\ b \in Seq(Registrants) /\ ToSet(b) = es
      /\ (\A e, f \in es : e # f => <<e, f>> \in Spots) => Follows(b, Spots)
  <2> HIDE DEF K
  <2> QED
    BY <1>3, SomeEntries
<1> HIDE DEF z, es, K, placed
<1>6. \A e \in ToSet(a) :
        /\ e \in Registrants
        /\ \/ \E j \in DOMAIN list : j < i /\ e = list[j]
           \/ e \notin ToSet(list) /\ \E j \in DOMAIN list : j < i /\ e.before = list[j].name
  <2>1. \A j \in 1..(i - 1) : j \in DOMAIN list /\ j < i
    BY <1>1
  <2> QED
    BY <1>1, <2>1 DEF Reached
<1>7. /\ \A e \in es : e \in Registrants /\ e \notin ToSet(list) /\ e \notin ToSet(a) /\ e.before = z.name
      /\ z \in ToSet(list)
  BY <1>1, <1>4 DEF z
<1>8. \A e, f \in Registrants, k, l \in Int : <<e, f>> \in Spots /\ Spot(e, k) /\ Spot(f, l) => k <= l /\ e # f
  BY DEF Spots
<1>9. \A e, f \in Registrants : <<e, f>> \in Spots => e # f
  BY DEF Spots
<1>10. \A e, f \in es : e # f => <<e, f>> \in Spots
  <2> SUFFICES ASSUME NEW e \in es, NEW f \in es, e # f, NEW k \in Int, NEW l \in Int,
                      Spot(e, k), Spot(f, l)
               PROVE  k <= l
    BY <1>7 DEF Spots
  <2>1. Spot(z, k + 1) /\ Spot(z, l + 1)
    BY <1>1, <1>2, <1>7, JustBefore
  <2>2. k + 1 = l + 1
    BY <1>2, <2>1, OneSpot
  <2> QED
    BY <2>2
<1>11. ASSUME NEW e \in ToSet(a), NEW f \in es PROVE <<e, f>> \in Spots
  <2> SUFFICES ASSUME NEW k \in Int, NEW l \in Int, Spot(e, k), Spot(f, l)
               PROVE  k <= l
    BY <1>6, <1>7 DEF Spots
  <2>1. Spot(z, l + 1) /\ \A x \in Registrants, h \in Int : x # z /\ Spot(x, h) /\ h <= l + 1 => h <= l
    BY <1>1, <1>2, <1>7, JustBefore
  <2>2. CASE \E j \in DOMAIN list : j < i /\ e = list[j]
    <3>1. <<e, z>> \in Spots /\ e \in Registrants
      BY <1>1, <2>2
    <3>2. k <= l + 1 /\ e # z
      BY <1>2, <1>8, <1>9, <2>1, <3>1
    <3> QED
      BY <2>1, <3>1, <3>2
  <2>3. CASE e \notin ToSet(list) /\ \E j \in DOMAIN list : j < i /\ e.before = list[j].name
    <3>1. PICK j \in DOMAIN list : j < i /\ e.before = list[j].name
      BY <2>3
    <3>2. Spot(list[j], k + 1)
      BY <1>1, <1>6, <2>3, <3>1, JustBefore
    <3>3. list[j] \in Registrants /\ <<list[j], z>> \in Spots /\ k + 1 \in Int /\ l + 1 \in Int
      BY <1>1, <3>1
    <3>4. k + 1 <= l + 1
      BY <1>2, <1>8, <2>1, <3>2, <3>3
    <3> QED
      BY <3>4
  <2> QED
    BY <1>6, <2>2, <2>3
<1>12. ASSUME NEW e \in ToSet(a) PROVE <<e, z>> \in Spots
  <2>1. CASE \E j \in DOMAIN list : j < i /\ e = list[j]
    BY <1>1, <2>1
  <2>2. CASE e \notin ToSet(list) /\ \E j \in DOMAIN list : j < i /\ e.before = list[j].name
    <3> SUFFICES ASSUME NEW k \in Int, NEW l \in Int, Spot(e, k), Spot(z, l) PROVE k <= l
      BY <1>2, <1>6, <1>7, <2>2 DEF Spots
    <3>1. PICK j \in DOMAIN list : j < i /\ e.before = list[j].name
      BY <2>2
    <3>2. Spot(list[j], k + 1)
      BY <1>1, <1>6, <2>2, <3>1, JustBefore
    <3>3. list[j] \in Registrants /\ <<list[j], z>> \in Spots /\ k + 1 \in Int
      BY <1>1, <3>1
    <3>4. k + 1 <= l
      BY <1>2, <1>8, <3>2, <3>3
    <3> QED
      BY <3>4
  <2> QED
    BY <1>6, <2>1, <2>2
<1>13. ASSUME NEW e \in es PROVE <<e, z>> \in Spots
  <2> SUFFICES ASSUME NEW k \in Int, NEW l \in Int, Spot(e, k), Spot(z, l) PROVE k <= l
    BY <1>2, <1>7 DEF Spots
  <2>1. Spot(z, k + 1)
    BY <1>1, <1>2, <1>7, JustBefore
  <2>2. k + 1 = l
    BY <1>2, <2>1, OneSpot
  <2> QED
    BY <2>2
<1>14. Follows(b, Spots)
  BY <1>5, <1>10
<1>15. a \o b \in Seq(Registrants) /\ Follows(a \o b, Spots) /\ ToSet(a \o b) = ToSet(a) \cup es
  <2>1. ToSet(a) \X ToSet(b) \subseteq Spots
    BY <1>5, <1>11
  <2>2. a \o b \in Seq(Registrants) /\ ToSet(a \o b) = ToSet(a) \cup ToSet(b)
    <3>1. b \in Seq(Registrants)
      BY <1>5
    <3> QED
      BY ONLY <3>1, a \in Seq(Registrants), Joining
  <2>3. Follows(a \o b, Spots)
    BY <1>5, <1>14, <2>1, JoinedFollows
  <2> QED
    BY <1>5, <2>2, <2>3
<1> DEFINE ab == a \o b
           c == <<z>>
<1>16. ab \in Seq(Registrants) /\ Follows(ab, Spots) /\ ToSet(ab) = ToSet(a) \cup es
  BY <1>15
<1>17. c \in Seq(Registrants) /\ ToSet(c) = {z} /\ Follows(c, Spots)
  BY <1>2, Alone
<1> HIDE DEF ab, c
<1>18. ToSet(ab \o c) = ToSet(a) \cup es \cup {z}
  <2>1. ToSet(ab \o c) = ToSet(ab) \cup ToSet(c)
    BY <1>16, <1>17, Joining
  <2> QED
    BY <1>16, <1>17, <2>1
<1>19. Follows(ab \o c, Spots)
  <2>1. ToSet(ab) \X ToSet(c) \subseteq Spots
    BY <1>12, <1>13, <1>16, <1>17
  <2> QED
    BY <1>16, <1>17, <2>1, JoinedFollows
<1>20. ToSet(a) \cup es \cup {z} = Reached(list, i)
  <2>1. /\ i \in 1..i /\ \A j \in 1..i : j = i \/ j \in 1..(i - 1)
        /\ \A j \in 1..(i - 1) : j \in 1..i
    BY <1>1
  <2>2. \A e : e \in Reached(list, i) <=>
          \/ e \in Reached(list, i - 1) \/ e = z
          \/ e \in Registrants \ ToSet(list) /\ e.before = z.name
    BY <2>1 DEF Reached, z
  <2>3. \A e : e \in es <=> e \in Registrants \ ToSet(list) /\ e.before = z.name /\ e \notin ToSet(a)
    BY <1>4
  <2> QED
    BY <2>2, <2>3
<1> QED
  BY <1>5, <1>18, <1>19, <1>20 DEF ab, c, z

\* The plugins that go before a step are put there, once.
LEMMA PluginsBefore ==
  ASSUME KeyedByName, NEW list \in Seq(Registrants)
  PROVE  /\ WithBefore(list) \in Seq(Registrants)
         /\ NoAlias /\ Listed(list)
              => /\ ToSet(WithBefore(list)) = Reached(list, Len(list))
                 /\ Follows(WithBefore(list), Spots)
<1> DEFINE n == Len(list)
           A == Seq(Registrants)
           among(a, i) == Before(list[i], ToSet(list) \cup ToSet(a))
           Goal(a, i) == a \o among(a, i) \o <<list[i]>>
           Next(g, i) == IF i = 0 THEN <<>> ELSE Goal(g[i - 1], i)
           Grows(g) == g = [i \in 0..n |-> Next(g, i)]
           step == [p \in A \X (1..n) |-> Goal(p[1], p[2])]
<1>0. n \in Nat
  OBVIOUS
<1>1. \A i \in 1..n : list[i] \in Registrants
  OBVIOUS
<1>2. \A a \in A : \A i \in 1..n : Goal(a, i) \in A
  <2> SUFFICES ASSUME NEW a \in A, NEW i \in 1..n PROVE Goal(a, i) \in A
    OBVIOUS
  <2> DEFINE K == {k \in DOMAIN registry : registry[k] \notin ToSet(list) \cup ToSet(a)
                                         /\ registry[k].before = FirstWith(list[i].func).name}
             b == Taken(registry, K)
             c == <<list[i]>>
  <2>1. among(a, i) = b
    BY DEF Before
  <2>2. K \in SUBSET DOMAIN registry
    OBVIOUS
  <2> HIDE DEF K
  <2>3. b \in Seq(Registrants)
    BY <2>2, SomeEntries
  <2>4. c \in Seq(Registrants)
    BY <1>1
  <2> HIDE DEF b, c
  <2>5. a \o b \in Seq(Registrants)
    BY <2>3
  <2>6. a \o b \o c \in Seq(Registrants)
    BY <2>4, <2>5
  <2> QED
    BY <2>1, <2>6 DEF c
<1>3. <<>> \in A
  OBVIOUS
<1>4. ASSUME NoAlias, Listed(list), NEW i \in 1..n, NEW a \in A, ToSet(a) = Reached(list, i - 1),
             Follows(a, Spots)
      PROVE  ToSet(Goal(a, i)) = Reached(list, i) /\ Follows(Goal(a, i), Spots)
  <2> DEFINE b == among(a, i)
  <2>1. b = Before(list[i], ToSet(list) \cup ToSet(a))
    OBVIOUS
  <2> HIDE DEF b
  <2>2. ToSet(a \o b \o <<list[i]>>) = Reached(list, i) /\ Follows(a \o b \o <<list[i]>>, Spots)
    BY <1>4, <2>1, OneMoreListed
  <2> QED
    BY <2>2 DEF b
<1> HIDE DEF Goal, A, n
<1>6. step \in [A \X (1..n) -> A]
  BY <1>2
<1>7. PICK g : g \in Goes(n, A, <<>>, step)
  <2> HIDE DEF step
  <2> QED
    BY <1>0, <1>3, <1>6, Folded
<1>8. /\ g \in [0..n -> A] /\ g[0] = <<>>
      /\ \A i \in 1..n : g[i] = step[<<g[i - 1], i>>]
  <2> HIDE DEF step
  <2> QED
    BY <1>7 DEF Goes
<1>9. Grows(g)
  <2>1. \A i \in 0..n : g[i] = Next(g, i)
    <3> SUFFICES ASSUME NEW i \in 0..n, i # 0 PROVE g[i] = Goal(g[i - 1], i)
      BY <1>8
    <3>1. i \in 1..n /\ i - 1 \in 0..n
      BY <1>0
    <3>2. <<g[i - 1], i>> \in A \X (1..n)
      BY <1>8, <3>1
    <3> QED
      BY <1>8, <3>1, <3>2
  <2> HIDE DEF Next
  <2> QED
    BY <1>8, <2>1
<1> DEFINE f == CHOOSE h : Grows(h)
<1>10. Grows(f)
  <2> HIDE DEF Grows
  <2> QED
    BY <1>9
<1>11. WithBefore(list) = f[n]
  BY DEF WithBefore, Goal, n
<1>12. \A i \in 0..n : f[i] = Next(f, i)
  <2> HIDE DEF Next, f
  <2> QED
    BY <1>10
<1> HIDE DEF f
<1> DEFINE S == {m \in Nat : m <= n =>
                   /\ f[m] \in A
                   /\ NoAlias /\ Listed(list)
                        => ToSet(f[m]) = Reached(list, m) /\ Follows(f[m], Spots)}
<1>13. 0 \in S
  <2>1. f[0] = <<>> /\ DOMAIN <<>> = {} /\ 1..0 = {}
    BY <1>0, <1>12
  <2>2. ToSet(f[0]) = Reached(list, 0) /\ Follows(f[0], Spots)
    BY <2>1 DEF Reached, ToSet, Follows
  <2> QED
    BY <1>3, <2>1, <2>2
<1>14. \A m \in Nat : m \in S => m + 1 \in S
  <2> SUFFICES ASSUME NEW m \in Nat, m \in S, m + 1 <= n
               PROVE  /\ f[m + 1] \in A
                      /\ NoAlias /\ Listed(list)
                           => ToSet(f[m + 1]) = Reached(list, m + 1) /\ Follows(f[m + 1], Spots)
    BY <1>0
  <2>0. f[m] \in A /\ (NoAlias /\ Listed(list) => ToSet(f[m]) = Reached(list, m) /\ Follows(f[m], Spots))
    BY <1>0
  <2>1. m + 1 \in 1..n /\ m + 1 \in 0..n /\ m + 1 # 0 /\ (m + 1) - 1 = m
    BY <1>0
  <2>2. f[m + 1] = Goal(f[m], m + 1)
    BY <1>12, <2>1
  <2>3. f[m + 1] \in A
    BY <1>2, <2>0, <2>1, <2>2
  <2>4. NoAlias /\ Listed(list)
           => ToSet(Goal(f[m], m + 1)) = Reached(list, m + 1) /\ Follows(Goal(f[m], m + 1), Spots)
    BY <1>4, <2>0, <2>1
  <2> QED
    BY <2>2, <2>3, <2>4
<1>15. n \in S
  <2> HIDE DEF S
  <2> QED
    BY <1>0, <1>13, <1>14, EveryNatural
<1> QED
  BY <1>0, <1>11, <1>15 DEF A, n

\* All steps are in the order, and if no callable has two names each has its place.
LEMMA StepsInOrder ==
  ASSUME KeyedByName
  PROVE  /\ OrderedSteps \in Seq(Registrants)
         /\ NoAlias => Follows(OrderedSteps, Spots) /\ ToSet(OrderedSteps) = Registrants
<1> DEFINE list == BuiltinsAndAfter
           placed == WithBefore(list)
           K == {k \in DOMAIN registry : registry[k] \notin ToSet(placed)}
           rest == Taken(registry, K)
           es == {registry[k] : k \in K}
<1>1. Listed(list)
  BY BuiltinsThenAfter DEF Listed
<1>2. OrderedSteps = placed \o rest
  BY DEF OrderedSteps
<1> HIDE DEF list
<1>3. /\ placed \in Seq(Registrants)
      /\ NoAlias => ToSet(placed) = Reached(list, Len(list)) /\ Follows(placed, Spots)
  BY <1>1, PluginsBefore DEF Listed
<1> HIDE DEF placed
<1>4. /\ rest \in Seq(Registrants) /\ ToSet(rest) = es
      /\ (\A e, f \in es : e # f => <<e, f>> \in Spots) => Follows(rest, Spots)
  <2>1. K \in SUBSET DOMAIN registry
    OBVIOUS
  <2> HIDE DEF K
  <2> QED
    BY <2>1, SomeEntries
<1>5. es = Registrants \ ToSet(placed)
  BY DEF Registrants, ToSet
<1> HIDE DEF rest, es
<1>6. placed \o rest \in Seq(Registrants) /\ ToSet(placed \o rest) = ToSet(placed) \cup ToSet(rest)
  <2>1. placed \in Seq(Registrants) /\ rest \in Seq(Registrants)
    BY <1>3, <1>4
  <2> QED
    BY ONLY <2>1, Joining
<1>7. ASSUME NoAlias PROVE Follows(placed \o rest, Spots)
  <2>1. \A e \in es, k \in Int : ~Spot(e, k)
    <3> SUFFICES ASSUME NEW e \in Registrants, e \notin Reached(list, Len(list)), NEW k \in Int, Spot(e, k)
                 PROVE  FALSE
      BY <1>3, <1>5, <1>7
    <3>1. DOMAIN list = 1..Len(list)
      BY <1>1 DEF Listed
    <3>2. ToSet(list) \subseteq Reached(list, Len(list))
      BY <3>1 DEF Reached, ToSet
    <3>3. e \notin ToSet(list)
      BY <3>2
    <3>4. ~Builtin(e) /\ e.after \notin BuiltinNames
      BY <1>1, <3>3 DEF Listed
    <3>5. PICK i \in DOMAIN Builtins : e.before = Builtins[i].name
      BY <3>4, BuiltinsAre DEF Spot
    <3>6. Builtins[i] \in ToSet(list)
      BY <1>1, BuiltinsAre DEF Listed
    <3>7. PICK j \in 1..Len(list) : list[j] = Builtins[i]
      BY <3>1, <3>6 DEF ToSet
    <3>8. e \in Reached(list, Len(list))
      BY <3>3, <3>5, <3>7 DEF Reached
    <3> QED
      BY <3>8
  <2>2. \A e, f \in Registrants : e # f /\ f \in es => <<e, f>> \in Spots
    BY <2>1 DEF Spots
  <2>3. Follows(rest, Spots)
    BY <1>4, <1>5, <2>2
  <2>4. ToSet(placed) \subseteq Registrants
    BY <1>3 DEF ToSet
  <2>5. ToSet(placed) \X ToSet(rest) \subseteq Spots
    BY <1>4, <1>5, <2>2, <2>4
  <2>6. placed \in Seq(Registrants) /\ rest \in Seq(Registrants) /\ Follows(placed, Spots)
    BY <1>3, <1>4, <1>7
  <2> QED
    BY ONLY <2>3, <2>5, <2>6, JoinedFollows
<1>8. ToSet(placed) \cup ToSet(rest) = Registrants
  <2>1. ToSet(placed) \subseteq Registrants
    BY <1>3 DEF ToSet
  <2> QED
    BY <1>4, <1>5, <2>1
<1> QED
  BY <1>2, <1>6, <1>7, <1>8

\* So do the names: each once, or else not all of them.
LEMMA NamesInOrder ==
  ASSUME KeyedByName
  PROVE  /\ OrderedNames \in Seq(Registered)
         /\ Registered \subseteq ToSet(OrderedNames) => NoAlias
         /\ NoAlias => /\ Distinct(OrderedNames) /\ ToSet(OrderedNames) = Registered
                       /\ \A e, f \in Registrants : <<e, f>> \notin Spots =>
                            \A x, y \in DOMAIN OrderedNames :
                              OrderedNames[x] = e.name /\ OrderedNames[y] = f.name => y <= x
<1> DEFINE steps == OrderedSteps
           names == OrderedNames
<1>1. /\ steps \in Seq(Registrants)
      /\ NoAlias => Follows(steps, Spots) /\ ToSet(steps) = Registrants
  BY StepsInOrder
<1>2. /\ Len(steps) \in Nat /\ DOMAIN steps = 1..Len(steps)
      /\ \A i \in DOMAIN steps : steps[i] \in Registrants
  BY <1>1
<1>3. names = [i \in DOMAIN steps |-> LastWith(steps[i].func).name]
  BY DEF OrderedNames
<1> HIDE DEF steps, names
<1>4. \A e \in Registrants : LastWith(e.func) \in Registrants /\ (NoAlias => LastWith(e.func) = e)
  BY Bearers
<1>5. /\ \A e \in Registrants : e.name \in Registered
      /\ \A e, f \in Registrants : e.name = f.name => e = f
      /\ Registered = {e.name : e \in Registrants}
  BY EntriesNamed
<1>6. names \in Seq(Registered) /\ DOMAIN names = DOMAIN steps
  <2>1. \A i \in 1..Len(steps) : LastWith(steps[i].func).name \in Registered
    BY <1>2, <1>4, <1>5
  <2> QED
    BY <1>2, <1>3, <2>1
<1>7. ASSUME Registered \subseteq ToSet(names) PROVE NoAlias
  <2> SUFFICES ASSUME NEW i \in DOMAIN registry, NEW j \in DOMAIN registry,
                      registry[i].func = registry[j].func, i < j
               PROVE  FALSE
    <3>1. \A i, j \in DOMAIN registry : i < j \/ j < i \/ i = j
      BY DEF KeyedByName
    <3> QED
      BY <3>1 DEF NoAlias
  <2>1. registry[i] \in Registrants /\ registry[i].name \in Registered
    BY DEF Registrants, ToSet, Registered
  <2>2. PICK x \in DOMAIN names : names[x] = registry[i].name
    BY <1>7, <2>1 DEF ToSet
  <2>3. LastWith(steps[x].func) = registry[i]
    BY <1>2, <1>3, <1>4, <1>5, <1>6, <2>1, <2>2
  <2> QED
    BY <1>2, <1>6, <2>2, <2>3, Bearers
<1>8. ASSUME NoAlias PROVE \A i \in DOMAIN names : names[i] = steps[i].name
  BY <1>2, <1>3, <1>4, <1>6, <1>8
<1>9. ASSUME NoAlias
      PROVE  \A i, j \in DOMAIN names : i < j => <<steps[i], steps[j]>> \in Spots /\ names[i] # names[j]
  <2> SUFFICES ASSUME NEW i \in DOMAIN names, NEW j \in DOMAIN names, i < j
               PROVE  <<steps[i], steps[j]>> \in Spots /\ names[i] # names[j]
    OBVIOUS
  <2>1. <<steps[i], steps[j]>> \in Spots
    BY <1>1, <1>6, <1>9 DEF Follows
  <2>2. steps[i] # steps[j]
    BY <2>1 DEF Spots
  <2> QED
    BY <1>2, <1>5, <1>6, <1>8, <1>9, <2>1, <2>2
<1>10. ASSUME NoAlias PROVE Distinct(names)
  <2>1. \A i, j \in DOMAIN names : i < j \/ j < i \/ i = j
    BY <1>2, <1>6
  <2> QED
    BY <1>9, <1>10, <2>1 DEF Distinct
<1>11. ASSUME NoAlias PROVE ToSet(names) = Registered
  <2>1. ToSet(names) = {names[i] : i \in DOMAIN steps}
    BY <1>6 DEF ToSet
  <2>2. Registrants = {steps[i] : i \in DOMAIN steps}
    BY <1>1, <1>11 DEF ToSet
  <2>3. \A i \in DOMAIN steps : names[i] = steps[i].name
    BY <1>6, <1>8, <1>11
  <2> QED
    BY <1>5, <2>1, <2>2, <2>3
<1>12. ASSUME NoAlias, NEW e \in Registrants, NEW f \in Registrants, <<e, f>> \notin Spots,
              NEW x \in DOMAIN names, NEW y \in DOMAIN names, names[x] = e.name, names[y] = f.name
       PROVE  y <= x
  <2>1. steps[x] = e /\ steps[y] = f
    BY <1>2, <1>5, <1>6, <1>8, <1>12
  <2>2. ~(x < y)
    BY <1>9, <1>12, <2>1
  <2>3. x \in Int /\ y \in Int
    BY <1>2, <1>6
  <2> QED
    BY <2>2, <2>3
<1> QED
  BY <1>6, <1>7, <1>10, <1>11, <1>12 DEF names

\* what is asked of the order o
Sides(o, b, entries) ==
  LET spot(n) == CHOOSE i \in DOMAIN o : o[i] = n
      at == [n \in ToSet(o) |-> spot(n)]
  IN  /\ Distinct(o)
      /\ \A e \in entries, i \in DOMAIN b :
           /\ i > 1 => at[b[i - 1].name] < at[b[i].name]
           /\ e.after = b[i].name =>
                /\ at[b[i].name] < at[e.name]
                /\ i < Len(b) => at[e.name] < at[b[i + 1].name]
           /\ e.before = b[i].name /\ e.after \notin {c.name : c \in ToSet(b)} =>
                /\ at[e.name] < at[b[i].name]
                /\ i > 1 => at[b[i - 1].name] < at[e.name]
Beside(o) == NoAlias => ToSet(o) = Registered /\ Sides(o, Builtins, ToSet(registry))

\* Plugins stand beside the steps they name.
LEMMA StepsBeside == ASSUME KeyedByName PROVE Beside(OrderedNames)
<1> SUFFICES ASSUME NoAlias PROVE Beside(OrderedNames)
  BY DEF Beside
<1> DEFINE o == OrderedNames
           b == Builtins
           spot(n) == CHOOSE i \in DOMAIN o : o[i] = n
           at == [n \in ToSet(o) |-> spot(n)]
<1>1. /\ o \in Seq(Registered) /\ Distinct(o) /\ ToSet(o) = Registered
      /\ \A e, f \in Registrants : <<e, f>> \notin Spots =>
           \A x, y \in DOMAIN o : o[x] = e.name /\ o[y] = f.name => y <= x
  BY NamesInOrder
<1> HIDE DEF o
<1>2. \A n \in Registered : at[n] \in DOMAIN o /\ o[at[n]] = n
  <2>1. \A n \in Registered : \E i \in DOMAIN o : o[i] = n
    BY <1>1 DEF ToSet
  <2>2. \A n \in Registered : at[n] = spot(n)
    BY <1>1
  <2>3. \A n \in Registered : spot(n) \in DOMAIN o /\ o[spot(n)] = n
    BY <2>1
  <2> HIDE DEF at, spot
  <2> QED
    BY <2>2, <2>3
<1> HIDE DEF at
<1>3. \A e \in Registrants : e.name \in Registered
  BY EntriesNamed
<1>4. ASSUME NEW e \in Registrants, NEW f \in Registrants, NEW k \in Int, NEW l \in Int,
             Spot(e, k), Spot(f, l), k < l
      PROVE  at[e.name] < at[f.name]
  <2>1. <<f, e>> \notin Spots
    BY <1>4 DEF Spots
  <2>2. at[e.name] <= at[f.name]
    BY <1>1, <1>2, <1>3, <2>1
  <2>3. e # f
    BY <1>4, OneSpot
  <2>4. e.name # f.name
    BY <2>3, EntriesNamed
  <2>5. at[e.name] # at[f.name]
    BY <1>2, <1>3, <2>4
  <2>6. at[e.name] \in Int /\ at[f.name] \in Int
    BY <1>1, <1>2, <1>3
  <2> QED
    BY <2>2, <2>5, <2>6
<1>5. /\ b \in Seq(Registrants) /\ DOMAIN b = 1..Len(b) /\ Len(b) \in Nat
      /\ \A i \in DOMAIN b : b[i] \in Registrants /\ Spot(b[i], 2 * i) /\ 2 * i \in Int
  <2>1. b \in Seq(Registrants)
    BY BuiltinsAre
  <2>2. \A i \in DOMAIN b : b[i] \in Registrants /\ Spot(b[i], 2 * i) /\ 2 * i \in Int
    BY BuiltinsAre DEF Spot
  <2> QED
    BY <2>1, <2>2
<1>6. ASSUME NEW e \in Registrants, NEW i \in DOMAIN b
      PROVE  /\ i > 1 => at[b[i - 1].name] < at[b[i].name]
             /\ e.after = b[i].name =>
                  /\ at[b[i].name] < at[e.name]
                  /\ i < Len(b) => at[e.name] < at[b[i + 1].name]
             /\ e.before = b[i].name /\ e.after \notin BuiltinNames =>
                  /\ at[e.name] < at[b[i].name]
                  /\ i > 1 => at[b[i - 1].name] < at[e.name]
  <2>1. i \in Int /\ b[i] \in Registrants /\ Spot(b[i], 2 * i) /\ 2 * i \in Int
    BY <1>5
  <2>2. i > 1 => b[i - 1] \in Registrants /\ Spot(b[i - 1], 2 * (i - 1)) /\ 2 * (i - 1) \in Int
    <3>1. i > 1 => i - 1 \in DOMAIN b
      BY <1>5
    <3> HIDE DEF b
    <3> QED
      BY <1>5, <3>1
  <2>3. i < Len(b) => b[i + 1] \in Registrants /\ Spot(b[i + 1], 2 * (i + 1)) /\ 2 * (i + 1) \in Int
    <3>1. i < Len(b) => i + 1 \in DOMAIN b
      BY <1>5
    <3> HIDE DEF b
    <3> QED
      BY <1>5, <3>1
  <2>4. e.after = b[i].name => Spot(e, 2 * i + 1)
    BY DEF Spot
  <2>5. e.before = b[i].name /\ e.after \notin BuiltinNames => Spot(e, 2 * i - 1)
    BY DEF Spot
  <2>6. /\ 2 * i + 1 \in Int /\ 2 * i - 1 \in Int /\ 2 * i < 2 * i + 1 /\ 2 * i - 1 < 2 * i
        /\ 2 * (i - 1) < 2 * i - 1 /\ 2 * (i - 1) < 2 * i /\ 2 * i + 1 < 2 * (i + 1)
    BY <2>1
  <2> HIDE DEF b
  <2>7. i > 1 => at[b[i - 1].name] < at[b[i].name]
    BY <1>4, <2>1, <2>2, <2>6
  <2>8. e.after = b[i].name => at[b[i].name] < at[e.name]
    BY <1>4, <2>1, <2>4, <2>6
  <2>9. e.after = b[i].name /\ i < Len(b) => at[e.name] < at[b[i + 1].name]
    BY <1>4, <2>3, <2>4, <2>6
  <2>10. e.before = b[i].name /\ e.after \notin BuiltinNames => at[e.name] < at[b[i].name]
    BY <1>4, <2>1, <2>5, <2>6
  <2>11. e.before = b[i].name /\ e.after \notin BuiltinNames /\ i > 1 => at[b[i - 1].name] < at[e.name]
    BY <1>4, <2>2, <2>5, <2>6
  <2> QED
    BY <2>7, <2>8, <2>9, <2>10, <2>11
<1>7. BuiltinNames = {c.name : c \in ToSet(b)} /\ Registrants = ToSet(registry)
  BY DEF BuiltinNames, Registrants
<1> HIDE DEF b
<1> QED
  BY <1>1, <1>6, <1>7 DEF Beside, Sides, o, b, at

-----------------------------------------------------------------------------
\* Cycles

\* Where every dependency points backwards nothing waits for itself.
LEMMA BackwardsIsAcyclic == ASSUME Numbered, Backwards PROVE ~Cyclic
<1> SUFFICES ASSUME NEW U \in (SUBSET Registered) \ {{}}, \A n \in U : Deps(n) \cap U # {}
             PROVE  FALSE
  BY DEF Cyclic
<1>1. PICK u \in U : \A v \in U : Place(u) <= Place(v)
  BY FirstOfSteps
<1>2. PICK d : d \in Deps(u) /\ d \in U
  OBVIOUS
<1>3. Place(d) < Place(u)
  BY <1>2 DEF Backwards
<1>4. Place(d) \in Nat /\ Place(u) \in Nat
  BY PlaceNat
<1> QED
  BY <1>1, <1>2, <1>3, <1>4

\* What is left when nothing is ready waits for itself.
LEMMA LeftIsCyclic ==
  ASSUME NEW done, Registered \ done # {}, \A n \in Registered \ done : ~(Deps(n) \subseteq done)
  PROVE  Cyclic
<1> DEFINE U == Registered \ done
<1>1. U \in (SUBSET Registered) \ {{}}
  OBVIOUS
<1>2. \A n \in U : Deps(n) \cap U # {}
  BY DEF Deps
<1> QED
  BY <1>1, <1>2 DEF Cyclic

\* There are as many steps as entries.
LEMMA RegistryCount ==
  ASSUME KeyedByName
  PROVE  IsFiniteSet(Registered) /\ Cardinality(Registered) = Len(registry)
<1> DEFINE names == [i \in DOMAIN registry |-> registry[i].name]
<1>1. registry \in Seq(Declaration) /\ DOMAIN registry = 1..Len(registry) /\ Len(registry) \in Nat
  BY DEF KeyedByName
<1>2. names \in Seq(StepNames) /\ Len(names) = Len(registry) /\ DOMAIN names = DOMAIN registry
  <2>1. \A i \in 1..Len(registry) : registry[i].name \in StepNames
    BY <1>1, EntriesNamed DEF Registered
  <2> QED
    BY <1>1, <2>1
<1>3. ToSet(names) = Registered
  BY <1>2 DEF ToSet, Registered
<1>4. Distinct(names)
  BY <1>2 DEF Distinct, KeyedByName
<1> HIDE DEF names
<1> QED
  BY <1>2, <1>3, <1>4, RangeFinite

\* topological_order() has emitted all steps exactly if it has emitted as many.
LEMMA AllEmitted ==
  ASSUME KeyedByName, TopoInv
  PROVE  Len(topo) = Len(registry) <=> Registered \subseteq Emitted
<1>1. IsFiniteSet(Registered) /\ Cardinality(Registered) = Len(registry)
  BY RegistryCount
<1>2. topo \in Seq(Registered) /\ Distinct(topo) /\ Emitted \subseteq Registered
  BY DEF TopoInv, TopoSound
<1>3. Cardinality(Emitted) = Len(topo)
  BY <1>2, RangeFinite DEF Emitted
<1>4. Cardinality(Emitted) = Cardinality(Registered) => Emitted = Registered
  BY <1>1, <1>2, FS_Subset
<1> QED
  BY <1>1, <1>2, <1>3, <1>4

\* Numbers that grow and are no more than their count are their places.
LEMMA OneByOne ==
  ASSUME NEW n \in Nat, NEW p \in [1..n -> 1..n], \A i, j \in 1..n : i < j => p[i] < p[j]
  PROVE  \A i \in 1..n : p[i] = i
<1> DEFINE S == {m \in Nat : m \in 1..n => p[m] >= m}
           T == {m \in Nat : n - m \in 1..n => p[n - m] <= n - m}
<1>1. \A m \in Nat : m \in S
  <2>1. 0 \in S
    OBVIOUS
  <2>2. \A m \in Nat : m \in S => m + 1 \in S
    <3> SUFFICES ASSUME NEW m \in Nat, m \in 1..n => p[m] >= m, m + 1 \in 1..n
                 PROVE  p[m + 1] >= m + 1
      OBVIOUS
    <3>1. CASE m = 0
      BY <3>1
    <3>2. CASE m # 0
      <4>1. m \in 1..n /\ m < m + 1 /\ p[m] \in Int /\ p[m + 1] \in Int
        BY <3>2
      <4>2. p[m] < p[m + 1]
        BY <4>1
      <4> QED
        BY <4>1, <4>2
    <3> QED
      BY <3>1, <3>2
  <2> HIDE DEF S
  <2> QED
    BY <2>1, <2>2, EveryNatural
<1>2. \A m \in Nat : m \in T
  <2>1. 0 \in T
    <3>1. n \in 1..n => p[n] \in 1..n
      OBVIOUS
    <3> QED
      BY <3>1
  <2>2. \A m \in Nat : m \in T => m + 1 \in T
    <3> SUFFICES ASSUME NEW m \in Nat, m \in T, n - (m + 1) \in 1..n
                 PROVE  p[n - (m + 1)] <= n - (m + 1)
      OBVIOUS
    <3> DEFINE y == n - m
               x == n - (m + 1)
    <3>1. x \in 1..n /\ y \in 1..n /\ x < y /\ y = x + 1
      OBVIOUS
    <3>2. p[y] <= y
      BY <3>1
    <3> HIDE DEF x, y
    <3>3. p[x] < p[y] /\ p[x] \in Int /\ p[y] \in Int
      BY <3>1
    <3>4. p[x] <= x
      BY <3>1, <3>2, <3>3
    <3> QED
      BY <3>4 DEF x
  <2> HIDE DEF T
  <2> QED
    BY <2>1, <2>2, EveryNatural
<1>3. ASSUME NEW i \in 1..n PROVE p[i] = i
  <2>1. p[i] >= i /\ p[i] \in Int
    BY <1>1
  <2>2. n - i \in Nat /\ n - (n - i) = i
    OBVIOUS
  <2>3. p[i] <= i
    BY <1>2, <2>2
  <2> QED
    BY <2>1, <2>3
<1> QED
  BY <1>3

\* If the dependencies point backwards the topological order is the linear order.
LEMMA SortedIsLinear ==
  ASSUME KeyedByName, TopoInv, ordered \in Seq(StepNames), Distinct(ordered),
         ToSet(ordered) = Registered, Emitted = Registered,
         \A i, j \in DOMAIN topo : i < j => Place(topo[i]) <= Place(topo[j])
  PROVE  topo = ordered
<1> DEFINE n == Len(ordered)
           p == [i \in 1..n |-> Place(topo[i])]
<1>1. /\ topo \in Seq(Registered) /\ Distinct(topo) /\ ToSet(topo) = Registered
  BY DEF TopoInv, TopoSound, Emitted
<1>2. Len(topo) = n /\ n \in Nat /\ DOMAIN topo = 1..n /\ DOMAIN ordered = 1..n
  <2>1. Cardinality(Registered) = Len(topo)
    BY <1>1, RangeFinite
  <2>2. Cardinality(Registered) = n
    BY RangeFinite
  <2>3. DOMAIN topo = 1..Len(topo) /\ DOMAIN ordered = 1..n /\ n \in Nat
    BY <1>1
  <2> QED
    BY <2>1, <2>2, <2>3
<1> HIDE DEF n
<1>3. ASSUME NEW x \in 1..n PROVE Place(ordered[x]) = x
  <2>1. IsLast(ordered[x], x) /\ \A i \in DOMAIN ordered : IsLast(ordered[x], i) => i = x
    BY <1>2 DEF IsLast, Distinct
  <2>2. x \in DOMAIN ordered
    BY <1>2
  <2>3. \E i \in DOMAIN ordered : IsLast(ordered[x], i)
    BY <2>1, <2>2
  <2>4. Place(ordered[x]) = CHOOSE i \in DOMAIN ordered : IsLast(ordered[x], i)
    BY <2>3 DEF Place
  <2> QED
    BY <2>1, <2>3, <2>4
<1>4. \A i \in 1..n : p[i] \in 1..n /\ topo[i] = ordered[p[i]]
  <2> SUFFICES ASSUME NEW i \in 1..n PROVE Place(topo[i]) \in 1..n /\ topo[i] = ordered[Place(topo[i])]
    OBVIOUS
  <2>1. topo[i] \in ToSet(ordered)
    BY <1>1, <1>2 DEF ToSet
  <2>2. PICK x \in 1..n : ordered[x] = topo[i]
    BY <1>2, <2>1 DEF ToSet
  <2> QED
    BY <1>3, <2>2
<1>5. p \in [1..n -> 1..n] /\ \A i, j \in 1..n : i < j => p[i] < p[j]
  <2>1. p \in [1..n -> 1..n]
    BY <1>4
  <2>2. ASSUME NEW i \in 1..n, NEW j \in 1..n, i < j PROVE p[i] < p[j]
    <3>1. p[i] <= p[j]
      BY <1>2, <2>2
    <3>2. topo[i] # topo[j]
      BY <1>1, <1>2, <2>2 DEF Distinct
    <3>3. p[i] # p[j] /\ p[i] \in Int /\ p[j] \in Int
      BY <1>4, <3>2
    <3> HIDE DEF p
    <3> QED
      BY <3>1, <3>3
  <2> QED
    BY <2>1, <2>2
<1> HIDE DEF p
<1>6. \A i \in 1..n : p[i] = i
  BY <1>2, <1>5, OneByOne
<1>7. \A i \in 1..n : topo[i] = ordered[i]
  BY <1>4, <1>6
<1> QED
  BY <1>1, <1>2, <1>7

-----------------------------------------------------------------------------
\* The waves

\* what has been emitted, in waves, each step once and behind what it depends on
Listing ==
  /\ waves \in Seq(Seq(StepNames))
  /\ \A w \in DOMAIN waves : ToSet(waves[w]) \subseteq ToSet(ordered) /\ Len(waves[w]) <= Len(ordered)
Behind(d, w) == \E x \in 1..(w - 1) : d \in ToSet(waves[x])
Layers ==
  /\ \A w, x \in DOMAIN waves : \A i \in DOMAIN waves[w], j \in DOMAIN waves[x] :
       waves[w][i] = waves[x][j] => w = x /\ i = j
  /\ \A w \in DOMAIN waves : \A n \in ToSet(waves[w]) :
       /\ \A d \in Deps(n) : Behind(d, w)
       /\ w > 1 => \E d \in Deps(n) : d \in ToSet(waves[w - 1])
  /\ \A n \in Registered \ Layered : waves # <<>> => \E d \in Deps(n) : ~Behind(d, Len(waves))

\* In-degrees count the dependencies that are not emitted yet.
LEMMA DegreeIs ==
  ASSUME KeyedByName, Listing, ordered \in Seq(StepNames),
         \A w, x \in DOMAIN waves : \A i \in DOMAIN waves[w], j \in DOMAIN waves[x] :
           waves[w][i] = waves[x][j] => w = x /\ i = j,
         NEW n
  PROVE  Degree(n) = 0 <=> Deps(n) \subseteq Layered
<1> DEFINE P == {p \in Emissions : waves[p[1]][p[2]] \in Deps(n)}
           D == Deps(n) \cap Layered
           f == [p \in P |-> waves[p[1]][p[2]]]
<1>1. /\ waves \in Seq(Seq(StepNames)) /\ DOMAIN waves = 1..Len(waves) /\ Len(waves) \in Nat
      /\ Len(ordered) \in Nat
      /\ \A w \in DOMAIN waves : waves[w] \in Seq(StepNames) /\ Len(waves[w]) <= Len(ordered)
  BY DEF Listing
<1>2. IsFiniteSet(P)
  <2>1. IsFiniteSet(1..Len(waves)) /\ IsFiniteSet(1..Len(ordered))
    BY <1>1, CountUpTo
  <2>2. IsFiniteSet((1..Len(waves)) \X (1..Len(ordered)))
    BY <2>1, FS_Product
  <2>3. P \subseteq (1..Len(waves)) \X (1..Len(ordered))
    BY <1>1 DEF Emissions
  <2> HIDE DEF P
  <2> QED
    BY <2>2, <2>3, FS_Subset
<1>3. \A p \in Emissions : p[1] \in DOMAIN waves /\ p[2] \in DOMAIN waves[p[1]] /\ p = <<p[1], p[2]>>
  BY DEF Emissions
<1>4. \A w \in DOMAIN waves : \A i \in DOMAIN waves[w] : <<w, i>> \in Emissions
  <2> SUFFICES ASSUME NEW w \in DOMAIN waves, NEW i \in DOMAIN waves[w] PROVE i \in 1..Len(ordered)
    BY DEF Emissions
  <2>1. waves[w] \in Seq(StepNames) /\ Len(waves[w]) <= Len(ordered)
    BY <1>1
  <2> QED
    BY <1>1, <2>1
<1>5. f \in Bijection(P, D)
  <2>1. \A p \in P : f[p] \in D
    BY <1>3 DEF Layered, ToSet
  <2>2. \A p, q \in P : f[p] = f[q] => p = q
    <3> SUFFICES ASSUME NEW p \in P, NEW q \in P, waves[p[1]][p[2]] = waves[q[1]][q[2]] PROVE p = q
      OBVIOUS
    <3>1. p[1] = q[1] /\ p[2] = q[2]
      BY <1>3
    <3> QED
      BY <1>3, <3>1
  <2>3. \A d \in D : \E p \in P : f[p] = d
    <3> SUFFICES ASSUME NEW d \in D PROVE \E p \in P : waves[p[1]][p[2]] = d
      OBVIOUS
    <3>1. PICK w \in DOMAIN waves : d \in ToSet(waves[w])
      BY DEF Layered
    <3>2. PICK i \in DOMAIN waves[w] : waves[w][i] = d
      BY <3>1 DEF ToSet
    <3>3. <<w, i>> \in P
      BY <1>4, <3>2
    <3> QED
      BY <3>2, <3>3
  <2>4. f \in [P -> D]
    BY <2>1
  <2> HIDE DEF f, P, D
  <2> QED
    BY <2>2, <2>3, <2>4 DEF Bijection, Injection, Surjection, IsInjective
<1>6. IsFiniteSet(Deps(n))
  <2>1. IsFiniteSet(Registered)
    BY RegistryCount
  <2> QED
    BY <2>1, FS_Subset DEF Deps
<1> HIDE DEF P
<1>7. IsFiniteSet(D) /\ Cardinality(D) = Cardinality(P)
  <2> HIDE DEF D, f
  <2> QED
    BY <1>2, <1>5, FS_Bijection DEF ExistsBijection
<1>8. D \subseteq Deps(n) /\ Cardinality(D) \in Nat /\ Cardinality(Deps(n)) \in Nat
      /\ (Cardinality(D) = Cardinality(Deps(n)) => D = Deps(n))
  <2>1. D \subseteq Deps(n)
    OBVIOUS
  <2> HIDE DEF D
  <2> QED
    BY <1>6, <1>7, <2>1, FS_Subset, FS_CardinalityType
<1>9. Degree(n) = Cardinality(Deps(n)) - Cardinality(D)
  BY <1>7 DEF Degree, P
<1>10. Deps(n) \subseteq Layered <=> D = Deps(n)
  OBVIOUS
<1> HIDE DEF D
<1> QED
  BY <1>8, <1>9, <1>10

\* Each wave lists steps of the order.
LEMMA WaveListed ==
  ASSUME Listing, ordered \in Seq(StepNames)
  PROVE  /\ Wave \in Seq(StepNames) /\ Len(Wave) <= Len(ordered)
         /\ ToSet(Wave) = {n \in ToSet(ordered) \ Layered : Degree(n) = 0}
         /\ Distinct(ordered) => Distinct(Wave)
         /\ Wave = <<>> <=> ToSet(Wave) = {}
<1> DEFINE K == {i \in DOMAIN ordered : ordered[i] \notin Layered /\ Degree(ordered[i]) = 0}
           es == {ordered[i] : i \in K}
           w == Taken(ordered, K)
<1>1. Wave = w
  BY DEF Wave
<1>2. es = {n \in ToSet(ordered) \ Layered : Degree(n) = 0} /\ es \subseteq StepNames
  BY DEF ToSet
<1>3. /\ w \in Seq(es) /\ Len(w) \in 0..Len(ordered) /\ ToSet(w) = es
      /\ Distinct(ordered) => Distinct(w)
  <2>1. K \in SUBSET DOMAIN ordered
    OBVIOUS
  <2> HIDE DEF K
  <2> QED
    BY <2>1, TakenInOrder
<1> HIDE DEF w, es, K
<1>4. w \in Seq(StepNames) /\ Len(w) <= Len(ordered) /\ DOMAIN w = 1..Len(w)
  BY <1>2, <1>3
<1>5. w = <<>> <=> ToSet(w) = {}
  <2>1. ToSet(w) = {} <=> DOMAIN w = {}
    BY DEF ToSet
  <2> QED
    BY <1>3, <1>4, <2>1
<1> QED
  BY <1>1, <1>2, <1>3, <1>4, <1>5

\* One more wave.
LEMMA OneMoreWave ==
  ASSUME KeyedByName, Listing, ordered \in Seq(StepNames), Wave # <<>>,
         waves' = Append(waves, Wave), UNCHANGED <<registry, ordered>>
  PROVE  /\ Listing'
         /\ Distinct(ordered) /\ ToSet(ordered) = Registered /\ Layers => Layers'
<1> DEFINE c == Len(waves)
<1>1. /\ Wave \in Seq(StepNames) /\ Len(Wave) <= Len(ordered)
      /\ ToSet(Wave) = {n \in ToSet(ordered) \ Layered : Degree(n) = 0}
      /\ Distinct(ordered) => Distinct(Wave)
  BY WaveListed
<1>2. /\ waves \in Seq(Seq(StepNames)) /\ c \in Nat /\ DOMAIN waves = 1..c
  BY DEF Listing
<1>3. /\ waves' \in Seq(Seq(StepNames)) /\ Len(waves') = c + 1 /\ DOMAIN waves' = 1..(c + 1)
      /\ waves'[c + 1] = Wave /\ \A w \in 1..c : waves'[w] = waves[w]
  BY <1>1, <1>2
<1> HIDE DEF c
<1>4. \A w \in 1..(c + 1) : w = c + 1 \/ w \in 1..c
  BY <1>2
<1>5. Listing'
  <2>1. \A w \in 1..(c + 1) : ToSet(waves'[w]) \subseteq ToSet(ordered) /\ Len(waves'[w]) <= Len(ordered)
    BY <1>1, <1>2, <1>3, <1>4 DEF Listing
  <2> QED
    BY <1>3, <2>1 DEF Listing
<1>6. ASSUME Distinct(ordered), ToSet(ordered) = Registered, Layers PROVE Layers'
  <2>1. /\ Registered' = Registered /\ \A n : Deps(n)' = Deps(n)
        /\ Layered' = Layered \cup ToSet(Wave)
    <3>1. Registered' = Registered /\ \A n : Deps(n)' = Deps(n)
      BY DEF Registered, Deps, EntryOf
    <3>2. Layered' = UNION {ToSet(waves'[w]) : w \in 1..(c + 1)}
      BY <1>3 DEF Layered
    <3>3. Layered = UNION {ToSet(waves[w]) : w \in 1..c}
      BY <1>2 DEF Layered
    <3>4. c + 1 \in 1..(c + 1) /\ \A w \in 1..c : w \in 1..(c + 1)
      BY <1>2
    <3> QED
      BY <1>3, <1>4, <3>1, <3>2, <3>3, <3>4
  <2>2. \A n \in Registered : Degree(n) = 0 <=> Deps(n) \subseteq Layered
    BY <1>6, DegreeIs DEF Layers
  <2>3. \A n : n \in ToSet(Wave) <=> n \in Registered \ Layered /\ Deps(n) \subseteq Layered
    BY <1>1, <1>6, <2>2
  <2>4. Layered = {n \in StepNames : Behind(n, c + 1)}
    <3>1. \A w \in 1..c : ToSet(waves[w]) \subseteq StepNames
      BY <1>2 DEF ToSet
    <3>2. (c + 1) - 1 = c
      BY <1>2
    <3> QED
      BY <1>2, <3>1, <3>2 DEF Layered, Behind
  <2>5. \A d : \A w \in 1..(c + 1) : Behind(d, w)' <=> Behind(d, w)
    <3>1. \A w \in 1..(c + 1) : \A x \in 1..(w - 1) : x \in 1..c
      BY <1>2
    <3> QED
      BY <1>3, <3>1 DEF Behind
  <2>6. ASSUME NEW w \in 1..(c + 1), NEW x \in 1..(c + 1), NEW i \in DOMAIN waves'[w],
               NEW j \in DOMAIN waves'[x], waves'[w][i] = waves'[x][j]
        PROVE  w = x /\ i = j
    <3>1. CASE w \in 1..c /\ x \in 1..c
      <4>1. /\ w \in DOMAIN waves /\ x \in DOMAIN waves /\ i \in DOMAIN waves[w] /\ j \in DOMAIN waves[x]
            /\ waves[w][i] = waves[x][j]
        BY <1>2, <1>3, <2>6, <3>1
      <4> QED
        BY <1>6, <4>1 DEF Layers
    <3>2. CASE w = c + 1 /\ x = c + 1
      BY <1>1, <1>3, <1>6, <2>6, <3>2 DEF Distinct
    <3>3. \A v \in 1..c : \A k \in DOMAIN waves[v] : waves[v][k] \in Layered
      BY <1>2 DEF Layered, ToSet
    <3>4. \A k \in DOMAIN Wave : Wave[k] \notin Layered
      <4>1. \A k \in DOMAIN Wave : Wave[k] \in ToSet(Wave)
        BY DEF ToSet
      <4> QED
        BY <2>3, <4>1
    <3>5. CASE w \in 1..c /\ x = c + 1
      BY <1>3, <2>6, <3>3, <3>4, <3>5
    <3>6. CASE w = c + 1 /\ x \in 1..c
      BY <1>3, <2>6, <3>3, <3>4, <3>6
    <3> QED
      BY <1>4, <3>1, <3>2, <3>5, <3>6
  <2>7. ASSUME NEW w \in 1..(c + 1), NEW n \in ToSet(waves'[w])
        PROVE  /\ \A d \in Deps(n) : Behind(d, w)
               /\ w > 1 => \E d \in Deps(n) : d \in ToSet(waves[w - 1])
    <3>1. CASE w \in 1..c
      <4>1. w \in DOMAIN waves /\ n \in ToSet(waves[w])
        BY <1>2, <1>3, <2>7, <3>1
      <4> QED
        BY <1>6, <4>1 DEF Layers
    <3>2. CASE w = c + 1
      <4>1. n \in Registered \ Layered /\ Deps(n) \subseteq Layered
        BY <1>3, <2>3, <2>7, <3>2
      <4>2. \A d \in Deps(n) : Behind(d, w)
        BY <2>4, <3>2, <4>1
      <4>3. ASSUME w > 1 PROVE \E d \in Deps(n) : d \in ToSet(waves[w - 1])
        <5>1. waves # <<>> /\ c >= 1 /\ w - 1 = c
          BY <1>2, <3>2, <4>3
        <5>2. PICK d \in Deps(n) : ~Behind(d, c)
          BY <1>6, <4>1, <5>1 DEF Layers, c
        <5>3. PICK x \in 1..(w - 1) : d \in ToSet(waves[x])
          BY <4>2 DEF Behind
        <5>4. x = c \/ x \in 1..(c - 1)
          BY <1>2, <5>1, <5>3
        <5> QED
          BY <5>1, <5>2, <5>3, <5>4 DEF Behind
      <4> QED
        BY <4>2, <4>3
    <3> QED
      BY <1>4, <3>1, <3>2
  <2>8. ASSUME NEW n \in Registered \ Layered' PROVE \E d \in Deps(n) : ~Behind(d, c + 1)
    <3>1. ~(Deps(n) \subseteq Layered)
      BY <2>1, <2>3, <2>8
    <3>2. PICK d \in Deps(n) : d \notin Layered
      BY <3>1
    <3>3. d \in StepNames
      BY EntriesNamed DEF Deps
    <3> QED
      BY <2>4, <3>2, <3>3
  <2>9. \A w, x \in DOMAIN waves' : \A i \in DOMAIN waves'[w], j \in DOMAIN waves'[x] :
          waves'[w][i] = waves'[x][j] => w = x /\ i = j
    BY <1>3, <2>6
  <2>10. \A w \in DOMAIN waves' : \A n \in ToSet(waves'[w]) :
           /\ \A d \in Deps(n)' : Behind(d, w)'
           /\ w > 1 => \E d \in Deps(n)' : d \in ToSet(waves'[w - 1])
    <3> SUFFICES ASSUME NEW w \in 1..(c + 1), NEW n \in ToSet(waves'[w])
                 PROVE  /\ \A d \in Deps(n) : Behind(d, w)'
                        /\ w > 1 => \E d \in Deps(n) : d \in ToSet(waves'[w - 1])
      BY <1>3, <2>1
    <3>1. \A d \in Deps(n) : Behind(d, w)'
      BY <2>5, <2>7
    <3>2. w > 1 => w - 1 \in 1..c
      BY <1>2
    <3> QED
      BY <1>3, <2>7, <3>1, <3>2
  <2>11. \A n \in Registered' \ Layered' : waves' # <<>> => \E d \in Deps(n)' : ~Behind(d, Len(waves))'
    <3>1. \A d : Behind(d, Len(waves))' <=> \E x \in 1..(Len(waves') - 1) : d \in ToSet(waves'[x])
      BY DEF Behind
    <3>2. \A d : Behind(d, c + 1) <=> \E x \in 1..c : d \in ToSet(waves[x])
      <4>1. (c + 1) - 1 = c
        BY <1>2
      <4> QED
        BY <4>1 DEF Behind
    <3>3. Len(waves') - 1 = c
      BY <1>2, <1>3
    <3>4. \A d : Behind(d, Len(waves))' <=> Behind(d, c + 1)
      BY <1>3, <3>1, <3>2, <3>3
    <3> QED
      BY <2>1, <2>8, <3>4
  <2> QED
    BY <2>9, <2>10, <2>11 DEF Layers
<1> QED
  BY <1>5, <1>6

-----------------------------------------------------------------------------
\* The groups of a wave

\* each step in one group, with steps it goes with
Members(gs) == UNION {ToSet(gs[k]) : k \in DOMAIN gs}
Parted(gs) ==
  /\ gs \in Seq(Seq(StepNames))
  /\ \A k, l \in DOMAIN gs : \A i \in DOMAIN gs[k], j \in DOMAIN gs[l] :
       gs[k][i] = gs[l][j] => k = l /\ i = j
  /\ \A k \in DOMAIN gs : \A i, j \in DOMAIN gs[k] :
       i # j => Compatible(EntryOf(gs[k][i]), EntryOf(gs[k][j]))

\* One more step finds a group.
LEMMA OneMoreFits ==
  ASSUME NEW gs, Parted(gs), NEW n \in StepNames, n \notin Members(gs)
  PROVE  Parted(FirstFit(gs, n)) /\ Members(FirstFit(gs, n)) = Members(gs) \cup {n}
<1> DEFINE fitting == {k \in DOMAIN gs : Fits(n, gs[k])}
           c == Len(gs)
<1>1. /\ gs \in Seq(Seq(StepNames)) /\ c \in Nat /\ DOMAIN gs = 1..c
      /\ \A k \in 1..c : gs[k] \in Seq(StepNames)
  BY DEF Parted
<1>2. \A k \in 1..c : \A i \in DOMAIN gs[k] : gs[k][i] # n
  BY <1>1 DEF Members, ToSet
<1> HIDE DEF c
<1>3. CASE fitting = {}
  <2> DEFINE t == Append(gs, <<n>>)
  <2>1. FirstFit(gs, n) = t
    BY <1>3 DEF FirstFit
  <2>2. /\ t \in Seq(Seq(StepNames)) /\ DOMAIN t = 1..(c + 1) /\ t[c + 1] = <<n>>
        /\ \A k \in 1..c : t[k] = gs[k]
    BY <1>1 DEF c
  <2>3. DOMAIN <<n>> = {1} /\ <<n>>[1] = n /\ ToSet(<<n>>) = {n}
    BY DEF ToSet
  <2>4. \A k \in 1..(c + 1) : k = c + 1 \/ k \in 1..c
    BY <1>1
  <2>5. c + 1 \in 1..(c + 1) /\ \A k \in 1..c : k \in 1..(c + 1)
    BY <1>1
  <2> HIDE DEF t
  <2>6. ASSUME NEW k \in 1..(c + 1), NEW l \in 1..(c + 1), NEW i \in DOMAIN t[k],
               NEW j \in DOMAIN t[l], t[k][i] = t[l][j]
        PROVE  k = l /\ i = j
    <3>1. CASE k \in 1..c /\ l \in 1..c
      <4>1. i \in DOMAIN gs[k] /\ j \in DOMAIN gs[l] /\ gs[k][i] = gs[l][j]
        BY <2>2, <2>6, <3>1
      <4> QED
        BY <1>1, <3>1, <4>1, ZenonT(20) DEF Parted
    <3>2. CASE k = c + 1 /\ l \in 1..c
      BY <1>2, <2>2, <2>3, <2>6, <3>2
    <3>3. CASE k \in 1..c /\ l = c + 1
      BY <1>2, <2>2, <2>3, <2>6, <3>3
    <3>4. CASE k = c + 1 /\ l = c + 1
      BY <2>2, <2>3, <2>6, <3>4
    <3> QED
      BY <2>4, <3>1, <3>2, <3>3, <3>4
  <2>7. ASSUME NEW k \in 1..(c + 1), NEW i \in DOMAIN t[k], NEW j \in DOMAIN t[k], i # j
        PROVE  Compatible(EntryOf(t[k][i]), EntryOf(t[k][j]))
    <3>1. CASE k \in 1..c
      <4>1. t[k] = gs[k] /\ i \in DOMAIN gs[k] /\ j \in DOMAIN gs[k] /\ k \in DOMAIN gs
        BY <1>1, <2>2, <3>1
      <4>2. Compatible(EntryOf(gs[k][i]), EntryOf(gs[k][j]))
        BY <2>7, <4>1 DEF Parted
      <4> QED
        BY <4>1, <4>2
    <3>2. CASE k = c + 1
      BY <2>2, <2>3, <2>7, <3>2
    <3> QED
      BY <2>4, <3>1, <3>2
  <2>8. Parted(t)
    BY <2>2, <2>6, <2>7 DEF Parted
  <2>9. Members(t) = Members(gs) \cup {n}
    <3>1. Members(t) = UNION {ToSet(t[k]) : k \in 1..(c + 1)}
      BY <2>2 DEF Members
    <3>2. Members(gs) = UNION {ToSet(gs[k]) : k \in 1..c}
      BY <1>1 DEF Members
    <3>3. ToSet(t[c + 1]) = {n} /\ \A k \in 1..c : ToSet(t[k]) = ToSet(gs[k])
      BY <2>2, <2>3
    <3>4. Members(t) \subseteq Members(gs) \cup {n}
      BY <2>4, <3>1, <3>2, <3>3
    <3>5. Members(gs) \cup {n} \subseteq Members(t)
      BY <2>5, <3>1, <3>2, <3>3
    <3> QED
      BY <3>4, <3>5
  <2> QED
    BY <2>1, <2>8, <2>9
<1>4. CASE fitting # {}
  <2> DEFINE m == Min(fitting)
             g == Append(gs[m], n)
             t == [gs EXCEPT ![m] = g]
  <2>1. FirstFit(gs, n) = t
    BY <1>4 DEF FirstFit
  <2>2. m \in 1..c /\ Fits(n, gs[m])
    <3>1. fitting \in SUBSET Nat
      BY <1>1
    <3> HIDE DEF fitting
    <3>2. m \in fitting
      BY <1>4, <3>1, MinIsLeast
    <3> QED
      BY <1>1, <3>2 DEF fitting
  <2> HIDE DEF m
  <2> DEFINE x == Len(gs[m])
  <2>3. /\ x \in Nat /\ DOMAIN gs[m] = 1..x /\ g \in Seq(StepNames) /\ DOMAIN g = 1..(x + 1)
        /\ g[x + 1] = n /\ \A i \in 1..x : g[i] = gs[m][i]
    BY <1>1, <2>2
  <2>4. \A i \in 1..(x + 1) : i = x + 1 \/ i \in 1..x
    BY <2>3
  <2>5. x + 1 \in 1..(x + 1) /\ \A i \in 1..x : i \in 1..(x + 1)
    BY <2>3
  <2> HIDE DEF x, g
  <2>6. /\ t \in Seq(Seq(StepNames)) /\ DOMAIN t = 1..c /\ t[m] = g
        /\ \A k \in 1..c : k # m => t[k] = gs[k]
    BY <1>1, <2>2, <2>3
  <2> HIDE DEF t
  <2>7. \A i \in 1..x : gs[m][i] # n
    BY <1>2, <2>2, <2>3
  <2>8. ASSUME NEW k \in 1..c, NEW l \in 1..c, NEW i \in DOMAIN t[k],
               NEW j \in DOMAIN t[l], t[k][i] = t[l][j]
        PROVE  k = l /\ i = j
    <3>0. \A a, b \in 1..c : \A y \in DOMAIN gs[a], z \in DOMAIN gs[b] :
            gs[a][y] = gs[b][z] => a = b /\ y = z
      BY <1>1 DEF Parted
    <3>1. CASE k # m /\ l # m
      <4>1. i \in DOMAIN gs[k] /\ j \in DOMAIN gs[l] /\ gs[k][i] = gs[l][j]
        BY <2>6, <2>8, <3>1
      <4> QED
        BY <3>0, <4>1
    <3>2. CASE k = m /\ l # m
      <4>1. i \in 1..(x + 1) /\ j \in DOMAIN gs[l] /\ g[i] = gs[l][j]
        BY <2>3, <2>6, <2>8, <3>2
      <4>2. i \in 1..x
        BY <1>2, <2>3, <2>4, <4>1
      <4> QED
        BY <2>2, <2>3, <3>0, <3>2, <4>1, <4>2
    <3>3. CASE k # m /\ l = m
      <4>1. j \in 1..(x + 1) /\ i \in DOMAIN gs[k] /\ g[j] = gs[k][i]
        BY <2>3, <2>6, <2>8, <3>3
      <4>2. j \in 1..x
        BY <1>2, <2>3, <2>4, <4>1
      <4> QED
        BY <2>2, <2>3, <3>0, <3>3, <4>1, <4>2
    <3>4. CASE k = m /\ l = m
      <4>1. i \in 1..(x + 1) /\ j \in 1..(x + 1) /\ g[i] = g[j]
        BY <2>3, <2>6, <2>8, <3>4
      <4>2. i = x + 1 <=> j = x + 1
        BY <2>3, <2>4, <2>7, <4>1
      <4>3. CASE i \in 1..x /\ j \in 1..x
        <5>1. i \in DOMAIN gs[m] /\ j \in DOMAIN gs[m] /\ gs[m][i] = gs[m][j]
          BY <2>3, <4>1, <4>3
        <5> QED
          BY <2>2, <3>0, <3>4, <5>1
      <4> QED
        BY <2>4, <3>4, <4>1, <4>2, <4>3
    <3> QED
      BY <3>1, <3>2, <3>3, <3>4
  <2>9. \A y \in ToSet(gs[m]) : /\ Compatible(EntryOf(n), EntryOf(y))
                                /\ Compatible(EntryOf(y), EntryOf(n))
    BY <2>2 DEF Fits, Compatible, ResourcesConflict
  <2>10. ASSUME NEW k \in 1..c, NEW i \in DOMAIN t[k], NEW j \in DOMAIN t[k], i # j
         PROVE  Compatible(EntryOf(t[k][i]), EntryOf(t[k][j]))
    <3>0. \A a \in 1..c : \A y, z \in DOMAIN gs[a] :
            y # z => Compatible(EntryOf(gs[a][y]), EntryOf(gs[a][z]))
      BY <1>1 DEF Parted
    <3>1. CASE k # m
      <4>1. t[k] = gs[k]
        BY <2>6, <3>1
      <4> QED
        BY <2>10, <3>0, <4>1
    <3>2. CASE k = m
      <4>1. t[k] = g /\ i \in 1..(x + 1) /\ j \in 1..(x + 1)
        BY <2>3, <2>6, <2>10, <3>2
      <4>2. \A y \in 1..x : g[y] = gs[m][y] /\ gs[m][y] \in ToSet(gs[m])
        BY <2>3 DEF ToSet
      <4>3. CASE i \in 1..x /\ j \in 1..x
        <5>1. Compatible(EntryOf(gs[m][i]), EntryOf(gs[m][j]))
          BY <2>2, <2>3, <2>10, <3>0, <4>3
        <5> QED
          BY <4>1, <4>2, <4>3, <5>1
      <4>4. CASE i = x + 1
        <5>1. j \in 1..x /\ g[i] = n
          BY <2>3, <2>4, <2>10, <4>1, <4>4
        <5> QED
          BY <2>9, <4>1, <4>2, <5>1
      <4>5. CASE j = x + 1
        <5>1. i \in 1..x /\ g[j] = n
          BY <2>3, <2>4, <2>10, <4>1, <4>5
        <5> QED
          BY <2>9, <4>1, <4>2, <5>1
      <4> QED
        BY <2>4, <4>1, <4>3, <4>4, <4>5
    <3> QED
      BY <3>1, <3>2
  <2>11. Parted(t)
    BY <2>6, <2>8, <2>10 DEF Parted
  <2>12. Members(t) = Members(gs) \cup {n}
    <3>1. Members(t) = UNION {ToSet(t[k]) : k \in 1..c}
      BY <2>6 DEF Members
    <3>2. Members(gs) = UNION {ToSet(gs[k]) : k \in 1..c}
      BY <1>1 DEF Members
    <3>3. ToSet(g) = ToSet(gs[m]) \cup {n}
      BY <2>3, <2>4, <2>5 DEF ToSet
    <3> QED
      BY <2>2, <2>6, <3>1, <3>2, <3>3
  <2> QED
    BY <2>1, <2>11, <2>12
<1> QED
  BY <1>3, <1>4

\* Each step of a wave finds a group.
LEMMA GroupedIs ==
  ASSUME NEW wave \in Seq(StepNames), Distinct(wave)
  PROVE  Parted(Grouped(wave)) /\ Members(Grouped(wave)) = ToSet(wave)
<1> DEFINE n == Len(wave)
           A == Seq(Seq(StepNames))
           Goal(a, i) == FirstFit(a, wave[i])
           Next(g, i) == IF i = 0 THEN <<>> ELSE Goal(g[i - 1], i)
           Grows(g) == g = [i \in 0..n |-> Next(g, i)]
           step == [p \in A \X (1..n) |-> Goal(p[1], p[2])]
           upto(i) == {wave[j] : j \in 1..i}
<1>0. n \in Nat /\ DOMAIN wave = 1..n
  OBVIOUS
<1>1. \A i \in 1..n : wave[i] \in StepNames
  OBVIOUS
<1>2. \A a \in A : \A i \in 1..n : Goal(a, i) \in A
  <2> SUFFICES ASSUME NEW a \in Seq(Seq(StepNames)), NEW i \in 1..n
               PROVE  FirstFit(a, wave[i]) \in Seq(Seq(StepNames))
    OBVIOUS
  <2> DEFINE fitting == {k \in DOMAIN a : Fits(wave[i], a[k])}
             v == wave[i]
  <2>1. v \in StepNames
    BY <1>1
  <2> HIDE DEF v
  <2>2. CASE fitting = {}
    BY <2>1, <2>2 DEF FirstFit, v
  <2>3. CASE fitting # {}
    <3>1. fitting \in SUBSET Nat
      OBVIOUS
    <3>2. Min(fitting) \in fitting
      <4> HIDE DEF fitting
      <4> QED
        BY <2>3, <3>1, MinIsLeast
    <3> DEFINE m == Min(fitting)
    <3>3. m \in DOMAIN a
      BY <3>2
    <3>4. FirstFit(a, wave[i]) = [a EXCEPT ![m] = Append(a[m], v)]
      BY <2>3 DEF FirstFit, v
    <3> HIDE DEF m
    <3>5. Append(a[m], v) \in Seq(StepNames)
      BY <2>1, <3>3
    <3> QED
      BY <3>3, <3>4, <3>5
  <2> QED
    BY <2>2, <2>3
<1>3. <<>> \in A
  OBVIOUS
<1>4. ASSUME NEW i \in 1..n, NEW a, Parted(a), Members(a) = upto(i - 1)
      PROVE  Parted(Goal(a, i)) /\ Members(Goal(a, i)) = upto(i)
  <2>1. wave[i] \notin Members(a)
    <3>1. \A j \in 1..(i - 1) : j \in DOMAIN wave /\ i \in DOMAIN wave /\ j # i
      BY <1>0
    <3> QED
      BY <1>4, <3>1 DEF Distinct
  <2>2. Parted(Goal(a, i)) /\ Members(Goal(a, i)) = upto(i - 1) \cup {wave[i]}
    BY <1>1, <1>4, <2>1, OneMoreFits
  <2>3. /\ i \in 1..i /\ \A j \in 1..i : j = i \/ j \in 1..(i - 1)
        /\ \A j \in 1..(i - 1) : j \in 1..i
    BY <1>0
  <2>4. upto(i) = upto(i - 1) \cup {wave[i]}
    BY <2>3
  <2> QED
    BY <2>2, <2>4
<1> HIDE DEF Goal, A, n, upto
<1>6. step \in [A \X (1..n) -> A]
  BY <1>2
<1>7. PICK g : g \in Goes(n, A, <<>>, step)
  <2> HIDE DEF step
  <2> QED
    BY <1>0, <1>3, <1>6, Folded
<1>8. /\ g \in [0..n -> A] /\ g[0] = <<>>
      /\ \A i \in 1..n : g[i] = step[<<g[i - 1], i>>]
  <2> HIDE DEF step
  <2> QED
    BY <1>7 DEF Goes
<1>9. Grows(g)
  <2>1. \A i \in 0..n : g[i] = Next(g, i)
    <3> SUFFICES ASSUME NEW i \in 0..n, i # 0 PROVE g[i] = Goal(g[i - 1], i)
      BY <1>8
    <3>1. i \in 1..n /\ i - 1 \in 0..n
      BY <1>0
    <3>2. <<g[i - 1], i>> \in A \X (1..n)
      BY <1>8, <3>1
    <3> QED
      BY <1>8, <3>1, <3>2
  <2> HIDE DEF Next
  <2> QED
    BY <1>8, <2>1
<1> DEFINE f == CHOOSE h : Grows(h)
<1>10. Grows(f)
  <2> HIDE DEF Grows
  <2> QED
    BY <1>9
<1>11. Grouped(wave) = f[n]
  BY DEF Grouped, Goal, n
<1>12. \A i \in 0..n : f[i] = Next(f, i)
  <2> HIDE DEF Next, f
  <2> QED
    BY <1>10
<1> HIDE DEF f
<1> DEFINE S == {m \in Nat : m <= n => Parted(f[m]) /\ Members(f[m]) = upto(m)}
<1>13. 0 \in S
  <2>1. f[0] = <<>> /\ DOMAIN <<>> = {} /\ 1..0 = {} /\ <<>> \in Seq(Seq(StepNames))
    BY <1>0, <1>12
  <2>2. Parted(f[0]) /\ Members(f[0]) = upto(0)
    BY <2>1 DEF Parted, Members, upto
  <2> QED
    BY <2>2
<1>14. \A m \in Nat : m \in S => m + 1 \in S
  <2> SUFFICES ASSUME NEW m \in Nat, m \in S, m + 1 <= n
               PROVE  Parted(f[m + 1]) /\ Members(f[m + 1]) = upto(m + 1)
    BY <1>0
  <2>0. Parted(f[m]) /\ Members(f[m]) = upto(m)
    BY <1>0
  <2>1. m + 1 \in 1..n /\ m + 1 \in 0..n /\ m + 1 # 0 /\ (m + 1) - 1 = m
    BY <1>0
  <2>2. f[m + 1] = Goal(f[m], m + 1)
    BY <1>12, <2>1
  <2> QED
    BY <1>4, <2>0, <2>1, <2>2
<1>15. n \in S
  <2> HIDE DEF S
  <2> QED
    BY <1>0, <1>13, <1>14, EveryNatural
<1>16. upto(n) = ToSet(wave)
  BY <1>0 DEF upto, ToSet
<1> QED
  BY <1>0, <1>11, <1>15, <1>16

\* The groups are sound as soon as all steps are layered.
LayerOf(n) == CHOOSE w \in DOMAIN waves : n \in ToSet(waves[w])
LEMMA GroupsAre ==
  ASSUME KeyedByName, Listing, Layers, Registered \subseteq Layered
  PROVE  /\ \A n \in Registered :
              /\ \A d \in Deps(n) : LayerOf(d) < LayerOf(n)
              /\ LayerOf(n) > 1 => \E d \in Deps(n) : LayerOf(d) = LayerOf(n) - 1
         /\ \A w \in DOMAIN waves :
              Members(Grouped(waves[w])) = ToSet(waves[w]) /\ Parted(Grouped(waves[w]))
<1>1. /\ waves \in Seq(Seq(StepNames)) /\ DOMAIN waves = 1..Len(waves) /\ Len(waves) \in Nat
      /\ \A w \in DOMAIN waves : waves[w] \in Seq(StepNames)
  BY DEF Listing
<1>2. \A w, x \in DOMAIN waves : \A n : n \in ToSet(waves[w]) /\ n \in ToSet(waves[x]) => w = x
  BY DEF Layers, ToSet
<1>3. \A n : \A w \in DOMAIN waves : n \in ToSet(waves[w]) => LayerOf(n) = w
  BY <1>2 DEF LayerOf
<1>4. \A n \in Registered : \E w \in DOMAIN waves : n \in ToSet(waves[w])
  BY DEF Layered
<1>5. ASSUME NEW n \in Registered
      PROVE  /\ \A d \in Deps(n) : LayerOf(d) < LayerOf(n)
             /\ LayerOf(n) > 1 => \E d \in Deps(n) : LayerOf(d) = LayerOf(n) - 1
  <2>1. PICK w \in DOMAIN waves : n \in ToSet(waves[w])
    BY <1>4
  <2>2. LayerOf(n) = w
    BY <1>3, <2>1
  <2>3. ASSUME NEW d \in Deps(n) PROVE LayerOf(d) < w
    <3>1. PICK x \in 1..(w - 1) : d \in ToSet(waves[x])
      BY <2>1 DEF Layers, Behind
    <3>2. x \in DOMAIN waves /\ x < w
      BY <1>1
    <3> QED
      BY <1>3, <3>1, <3>2
  <2>4. ASSUME w > 1 PROVE \E d \in Deps(n) : LayerOf(d) = w - 1
    <3>1. PICK d \in Deps(n) : d \in ToSet(waves[w - 1])
      BY <2>1, <2>4 DEF Layers
    <3>2. w - 1 \in DOMAIN waves
      BY <1>1, <2>4
    <3> QED
      BY <1>3, <3>1, <3>2
  <2> QED
    BY <2>2, <2>3, <2>4
<1>6. ASSUME NEW w \in DOMAIN waves
      PROVE  Members(Grouped(waves[w])) = ToSet(waves[w]) /\ Parted(Grouped(waves[w]))
  <2>1. Distinct(waves[w])
    BY DEF Layers, Distinct
  <2> QED
    BY <1>1, <2>1, GroupedIs
<1> QED
  BY <1>5, <1>6

-----------------------------------------------------------------------------
\* What holds of the graph

\* The order is what the registry makes of it, the waves list what is emitted, and the stages
\* are reached for what they say.
Arranged == Beside(ordered) /\ (Registered \subseteq ToSet(ordered) => NoAlias)
Stages == {"open", "topo", "sorted", "cycle", "waves", "layered", "grouped", "stuck"}
Ground ==
  /\ KeyedByName /\ stage \in Stages /\ ordered \in Seq(StepNames)
  /\ stage = "open" => ordered = <<>>
  /\ stage # "open" => Arranged
  /\ stage \in {"open", "topo", "sorted", "cycle"} => waves = <<>>
Done ==
  /\ stage = "sorted" => Registered \subseteq Emitted
  /\ Listing /\ (NoAlias => Layers)
  /\ stage \in {"layered", "grouped"} => Registered \subseteq Layered
  /\ GroupsSound /\ CycleIsReal
GraphInv == Ground /\ Done /\ TopoInv /\ Ascending /\ LowerSet

\* Nothing is layered at first.
LEMMA NoWaves == ASSUME waves = <<>> PROVE Listing /\ Layers
<1>1. DOMAIN waves = {} /\ waves \in Seq(Seq(StepNames))
  OBVIOUS
<1> QED
  BY <1>1 DEF Listing, Layers

LEMMA GraphStart == GraphInit => GraphInv
<1> SUFFICES ASSUME GraphInit PROVE GraphInv
  OBVIOUS
<1>1. registry = <<>> /\ stage = "open" /\ ordered = <<>> /\ topo = <<>> /\ waves = <<>>
  BY DEF GraphInit
<1>2. DOMAIN registry = {} /\ DOMAIN topo = {} /\ ordered \in Seq(StepNames)
      /\ registry \in Seq(Declaration) /\ topo \in Seq(Registered)
  BY <1>1
<1>3. Ground
  BY <1>1, <1>2 DEF Ground, KeyedByName, Stages
<1>4. Done
  BY <1>1, NoWaves DEF Done, GroupsSound, CycleIsReal
<1>5. TopoInv /\ Ascending /\ LowerSet
  BY <1>1, <1>2 DEF TopoInv, TopoSound, Distinct, Emitted, ToSet, Ascending, LowerSet
<1> QED
  BY <1>3, <1>4, <1>5 DEF GraphInv

\* What is said of the registry stays true while it does.
LEMMA SameRegistry ==
  ASSUME UNCHANGED registry
  PROVE  /\ KeyedByName' <=> KeyedByName
         /\ Registered' = Registered /\ \A n : Deps(n)' = Deps(n) /\ EntryOf(n)' = EntryOf(n)
         /\ NoAlias' <=> NoAlias
         /\ Cyclic' <=> Cyclic
         /\ Builtins' = Builtins
BY DEF KeyedByName, Registered, Deps, EntryOf, NoAlias, Cyclic, Builtins

LEMMA SameOrder ==
  ASSUME UNCHANGED <<registry, ordered>>
  PROVE  Arranged' <=> Arranged
<1>1. Registered' = Registered /\ Builtins' = Builtins /\ (NoAlias' <=> NoAlias)
  BY SameRegistry
<1> QED
  BY <1>1 DEF Arranged, Beside

LEMMA SameWaves ==
  ASSUME UNCHANGED <<registry, ordered, waves>>
  PROVE  /\ Listing' <=> Listing
         /\ Layers' <=> Layers
         /\ Layered' = Layered
<1>1. Registered' = Registered /\ \A n : Deps(n)' = Deps(n)
  BY SameRegistry
<1>2. Layered' = Layered /\ (Listing' <=> Listing)
  BY DEF Layered, Listing
<1>3. \A d, w : Behind(d, w)' <=> Behind(d, w)
  BY DEF Behind
<1>4. (\A n \in Registered \ Layered : waves # <<>> => \E d \in Deps(n) : ~Behind(d, Len(waves)))'
      <=> (\A n \in Registered \ Layered : waves # <<>> => \E d \in Deps(n) : ~Behind(d, Len(waves)))
  BY <1>1, <1>2 DEF Behind
<1>5. (\A w \in DOMAIN waves : \A n \in ToSet(waves[w]) :
         /\ \A d \in Deps(n) : Behind(d, w)
         /\ w > 1 => \E d \in Deps(n) : d \in ToSet(waves[w - 1]))'
      <=> (\A w \in DOMAIN waves : \A n \in ToSet(waves[w]) :
             /\ \A d \in Deps(n) : Behind(d, w)
             /\ w > 1 => \E d \in Deps(n) : d \in ToSet(waves[w - 1]))
  BY <1>1, <1>3
<1> QED
  BY <1>2, <1>4, <1>5 DEF Layers

\* Everything that is emitted or layered is settled.
LEMMA AdapterHolds == ASSUME GraphInv PROVE GraphSound
<1>1. Numbered
  BY DEF GraphInv, Ground, KeyedByName, Numbered
<1>2. PluginsBesideTargets
  BY DEF GraphInv, Ground, Arranged, Beside, Sides, PluginsBesideTargets
<1>3. Backwards => stage # "cycle"
  BY <1>1, BackwardsIsAcyclic DEF GraphInv, Done, CycleIsReal
<1>4. NoAlias /\ Backwards => stage # "stuck"
  BY <1>1, BackwardsIsAcyclic DEF GraphInv, Done, CycleIsReal
<1>5. ASSUME NoAlias, Backwards, stage = "sorted" PROVE topo = ordered
  <2>1. Distinct(ordered) /\ ToSet(ordered) = Registered
    BY <1>5 DEF GraphInv, Ground, Arranged, Beside, Sides
  <2>2. Emitted = Registered
    BY <1>5 DEF GraphInv, Done, TopoInv, TopoSound
  <2>3. \A i, j \in DOMAIN topo : i < j => Place(topo[i]) <= Place(topo[j])
    BY <1>5 DEF GraphInv, Ascending
  <2> QED
    BY <2>1, <2>2, <2>3, SortedIsLinear DEF GraphInv, Ground
<1> QED
  BY <1>2, <1>3, <1>4, <1>5 DEF GraphSound, LinearAdapter, GraphInv, Done, TopoInv

\* Entries come and go.
LEMMA RegistryKept ==
  ASSUME KeyedByName, (\E d \in Catalog : Register(d)) \/ (\E n \in StepNames : Unregister(n))
  PROVE  KeyedByName'
<1>1. registry \in Seq(Declaration) /\ DOMAIN registry = 1..Len(registry) /\ Len(registry) \in Nat
  BY DEF KeyedByName
<1>2. ASSUME NEW d \in Catalog, Register(d) PROVE KeyedByName'
  <2>1. d \in Declaration /\ registry' = Append(registry, d) /\ d.name \notin Registered
    BY <1>2, CatalogAssumption DEF Register
  <2> DEFINE c == Len(registry)
  <2>2. /\ registry' \in Seq(Declaration) /\ DOMAIN registry' = 1..(c + 1) /\ registry'[c + 1] = d
        /\ \A i \in 1..c : registry'[i] = registry[i]
        /\ \A i \in 1..(c + 1) : i = c + 1 \/ i \in 1..c
    BY <1>1, <2>1
  <2>3. \A i \in 1..c : registry[i].name # d.name
    BY <1>1, <2>1 DEF Registered
  <2>4. \A i, j \in 1..c : registry[i].name = registry[j].name => i = j
    BY <1>1 DEF KeyedByName
  <2> HIDE DEF c
  <2>5. \A i, j \in DOMAIN registry' : registry'[i].name = registry'[j].name => i = j
    BY <2>2, <2>3, <2>4
  <2> QED
    BY <2>2, <2>5 DEF KeyedByName
<1>3. ASSUME NEW n \in StepNames, Unregister(n) PROVE KeyedByName'
  <2> DEFINE K == {k \in DOMAIN registry : registry[k].name # n}
             t == Taken(registry, K)
  <2>1. registry' = t
    BY <1>3 DEF Unregister
  <2>2. K \in SUBSET DOMAIN registry
    OBVIOUS
  <2> HIDE DEF K
  <2>3. t \in Seq(Registrants) /\ Distinct(t)
    BY <2>2, SomeEntries
  <2>4. Registrants \subseteq Declaration /\ \A e, f \in Registrants : e.name = f.name => e = f
    BY EntriesNamed
  <2> HIDE DEF t
  <2>5. t \in Seq(Declaration) /\ \A i \in DOMAIN t : t[i] \in Registrants
    BY <2>3, <2>4
  <2>6. \A i, j \in DOMAIN t : t[i].name = t[j].name => i = j
    BY <2>3, <2>4, <2>5 DEF Distinct
  <2> QED
    BY <2>1, <2>5, <2>6 DEF KeyedByName
<1> QED
  BY <1>2, <1>3

\* An algorithm starts from the order of the registry.
LEMMA OrderArranged ==
  ASSUME KeyedByName, ordered' = OrderedNames, UNCHANGED registry
  PROVE  ordered' \in Seq(StepNames) /\ Arranged'
<1> DEFINE o == OrderedNames
<1>1. /\ o \in Seq(Registered) /\ Registered \subseteq StepNames
      /\ Registered \subseteq ToSet(o) => NoAlias
  BY NamesInOrder, EntriesNamed
<1>2. Beside(o)
  BY StepsBeside
<1>3. Registered' = Registered /\ Builtins' = Builtins /\ (NoAlias' <=> NoAlias) /\ ordered' = o
  BY SameRegistry
<1> HIDE DEF o
<1>4. ordered' \in Seq(StepNames)
  BY <1>1, <1>3
<1>5. Beside(ordered)'
  BY <1>2, <1>3 DEF Beside
<1> QED
  BY <1>1, <1>3, <1>4, <1>5 DEF Arranged

\* One lemma for each kind of step: the registry changes, an algorithm starts, it runs, it ends.
LEMMA GraphOpen ==
  ASSUME GraphInv, (\E d \in Catalog : Register(d)) \/ (\E n \in StepNames : Unregister(n))
  PROVE  Ground' /\ Done'
<1>1. KeyedByName'
  BY RegistryKept DEF GraphInv, Ground
<1>2. /\ stage = "open" /\ stage' = "open" /\ ordered' = ordered /\ waves' = waves
  BY DEF Register, Unregister
<1>3. ordered' = <<>> /\ waves' = <<>>
  BY <1>2 DEF GraphInv, Ground
<1>4. Ground'
  BY <1>1, <1>2, <1>3 DEF Ground, Stages
<1>5. DOMAIN waves' = {} /\ waves' \in Seq(Seq(StepNames))
  BY <1>3
<1>6. Listing' /\ Layers'
  BY <1>3, <1>5 DEF Listing, Layers
<1> QED
  BY <1>2, <1>4, <1>6 DEF Done, GroupsSound, CycleIsReal

LEMMA GraphBegins ==
  ASSUME GraphInv, StartTopo \/ StartWaves
  PROVE  Ground' /\ Done'
<1>1. /\ stage = "open" /\ stage' \in {"topo", "waves"} /\ ordered' = OrderedNames
      /\ UNCHANGED <<registry, waves>>
  BY DEF StartTopo, StartWaves
<1>2. KeyedByName /\ waves = <<>>
  BY <1>1 DEF GraphInv, Ground
<1>3. KeyedByName' /\ ordered' \in Seq(StepNames) /\ Arranged'
  BY <1>1, <1>2, SameRegistry, OrderArranged
<1>4. Ground'
  BY <1>1, <1>2, <1>3 DEF Ground, Stages
<1>5. waves' = <<>> /\ DOMAIN waves' = {} /\ waves' \in Seq(Seq(StepNames))
  BY <1>1, <1>2
<1>6. Listing' /\ Layers'
  BY <1>5 DEF Listing, Layers
<1> QED
  BY <1>1, <1>4, <1>6 DEF Done, GroupsSound, CycleIsReal

LEMMA TopoRuns ==
  ASSUME GraphInv, Pick \/ EndTopo
  PROVE  Ground' /\ Done'
<1>1. /\ UNCHANGED <<registry, ordered, waves>> /\ stage = "topo"
      /\ stage' \in {"topo", "sorted", "cycle"}
      /\ stage' # "topo" => /\ Ready(Emitted) = {} /\ topo' = topo
                            /\ stage' = "sorted" <=> Len(topo) = Len(registry)
  BY DEF Pick, EndTopo, Emitted
<1>2. /\ KeyedByName' = KeyedByName /\ (Arranged' <=> Arranged) /\ (Listing' <=> Listing)
      /\ (Layers' <=> Layers) /\ (NoAlias' <=> NoAlias) /\ (Cyclic' <=> Cyclic)
      /\ Registered' = Registered
  BY <1>1, SameRegistry, SameOrder, SameWaves DEF KeyedByName
<1>3. Ground'
  BY <1>1, <1>2 DEF GraphInv, Ground, Stages
<1>4. stage' # "topo" => (stage' = "sorted" <=> Registered \subseteq Emitted) /\ Emitted' = Emitted
  BY <1>1, AllEmitted DEF GraphInv, Ground, Emitted
<1>5. stage' = "cycle" => Cyclic
  <2> SUFFICES ASSUME stage' = "cycle" PROVE Cyclic
    OBVIOUS
  <2>1. Registered \ Emitted # {}
    BY <1>4
  <2>2. \A n \in Registered \ Emitted : ~(Deps(n) \subseteq Emitted)
    BY <1>1 DEF Ready
  <2> QED
    BY <2>1, <2>2, LeftIsCyclic
<1>6. Done'
  BY <1>1, <1>2, <1>4, <1>5 DEF GraphInv, Done, GroupsSound, CycleIsReal
<1> QED
  BY <1>3, <1>6

LEMMA WavesRun ==
  ASSUME GraphInv, EmitWave
  PROVE  Ground' /\ Done'
<1>1. /\ UNCHANGED <<registry, ordered, stage>> /\ stage = "waves"
      /\ Wave # <<>> /\ waves' = Append(waves, Wave)
  BY DEF EmitWave
<1>2. /\ KeyedByName' = KeyedByName /\ (Arranged' <=> Arranged) /\ (NoAlias' <=> NoAlias)
  BY <1>1, SameRegistry, SameOrder DEF KeyedByName
<1>3. Ground'
  BY <1>1, <1>2 DEF GraphInv, Ground
<1>4. Listing'
  BY <1>1, OneMoreWave DEF GraphInv, Ground, Done
<1>5. NoAlias' => Layers'
  <2>1. NoAlias => Distinct(ordered) /\ ToSet(ordered) = Registered
    BY <1>1 DEF GraphInv, Ground, Arranged, Beside, Sides
  <2> QED
    BY <1>1, <1>2, <2>1, OneMoreWave DEF GraphInv, Ground, Done
<1> QED
  BY <1>1, <1>3, <1>4, <1>5 DEF Done, GroupsSound, CycleIsReal

LEMMA WavesEnd ==
  ASSUME GraphInv, EndWaves
  PROVE  Ground' /\ Done'
<1>1. /\ UNCHANGED <<registry, ordered, waves>> /\ stage = "waves" /\ Wave = <<>>
      /\ stage' = IF Registered \subseteq Layered THEN "layered" ELSE "stuck"
  BY DEF EndWaves
<1>2. /\ KeyedByName' = KeyedByName /\ (Arranged' <=> Arranged) /\ (Listing' <=> Listing)
      /\ (Layers' <=> Layers) /\ (NoAlias' <=> NoAlias) /\ (Cyclic' <=> Cyclic)
      /\ Registered' = Registered /\ Layered' = Layered
  BY <1>1, SameRegistry, SameOrder, SameWaves DEF KeyedByName
<1>3. Ground'
  BY <1>1, <1>2 DEF GraphInv, Ground, Stages
<1>4. ASSUME NoAlias, stage' = "stuck" PROVE Cyclic
  <2>1. ToSet(ordered) = Registered /\ Layers /\ Listing /\ ordered \in Seq(StepNames) /\ KeyedByName
    BY <1>1, <1>4 DEF GraphInv, Ground, Done, Arranged, Beside
  <2>2. Registered \ Layered # {}
    BY <1>1, <1>4
  <2>3. \A n \in Registered \ Layered : Degree(n) # 0
    BY <1>1, <2>1, WaveListed
  <2>4. \A n : Degree(n) = 0 <=> Deps(n) \subseteq Layered
    BY <2>1, DegreeIs DEF Layers
  <2>5. \A n \in Registered \ Layered : ~(Deps(n) \subseteq Layered)
    BY <2>3, <2>4
  <2> QED
    BY <2>2, <2>5, LeftIsCyclic
<1>5. stage' = "layered" => Registered \subseteq Layered
  BY <1>1
<1>6. Done'
  BY <1>1, <1>2, <1>4, <1>5 DEF GraphInv, Done, GroupsSound, CycleIsReal
<1> QED
  BY <1>3, <1>6

LEMMA WavesGrouped ==
  ASSUME GraphInv, Group
  PROVE  Ground' /\ Done'
<1>1. /\ UNCHANGED <<registry, ordered, waves>> /\ stage = "layered" /\ stage' = "grouped"
      /\ groups' = [w \in DOMAIN waves |-> Grouped(waves[w])]
  BY DEF Group
<1>2. /\ KeyedByName' = KeyedByName /\ (Arranged' <=> Arranged) /\ (Listing' <=> Listing)
      /\ (Layers' <=> Layers) /\ (NoAlias' <=> NoAlias)
      /\ Registered' = Registered /\ Layered' = Layered
      /\ \A n : Deps(n)' = Deps(n) /\ EntryOf(n)' = EntryOf(n)
  BY <1>1, SameRegistry, SameOrder, SameWaves DEF KeyedByName
<1>3. Ground'
  BY <1>1, <1>2 DEF GraphInv, Ground, Stages
<1>4. Registered \subseteq Layered /\ Listing /\ KeyedByName /\ Arranged /\ (NoAlias => Layers)
  BY <1>1 DEF GraphInv, Ground, Done
<1>5. Layered \subseteq ToSet(ordered)
  BY <1>4 DEF Listing, Layered
<1>6. Layers
  BY <1>4, <1>5 DEF Arranged
<1>7. /\ \A n \in Registered :
           /\ \A d \in Deps(n) : LayerOf(d) < LayerOf(n)
           /\ LayerOf(n) > 1 => \E d \in Deps(n) : LayerOf(d) = LayerOf(n) - 1
      /\ \A w \in DOMAIN waves :
           Members(Grouped(waves[w])) = ToSet(waves[w]) /\ Parted(Grouped(waves[w]))
  BY <1>4, <1>6, GroupsAre
<1>8. DOMAIN groups' = DOMAIN waves /\ \A w \in DOMAIN waves : groups'[w] = Grouped(waves[w])
  BY <1>1
<1>9. \A n : WaveOf(n)' = LayerOf(n)
  BY <1>1, <1>8 DEF WaveOf, LayerOf
<1>10. ASSUME NEW w \in DOMAIN waves
       PROVE  /\ UNION {ToSet(groups'[w][k]) : k \in DOMAIN groups'[w]} = ToSet(waves'[w])
              /\ \A k, l \in DOMAIN groups'[w] :
                   \A i \in DOMAIN groups'[w][k], j \in DOMAIN groups'[w][l] :
                     groups'[w][k][i] = groups'[w][l][j] => k = l /\ i = j
              /\ \A k \in DOMAIN groups'[w] : \A i, j \in DOMAIN groups'[w][k] :
                   i # j => Compatible(EntryOf(groups'[w][k][i]), EntryOf(groups'[w][k][j]))
  <2> DEFINE g == Grouped(waves[w])
  <2>1. Members(g) = ToSet(waves[w]) /\ Parted(g)
    BY <1>7
  <2>2. groups'[w] = g /\ waves' = waves
    BY <1>1, <1>8
  <2> HIDE DEF g
  <2> QED
    BY <1>2, <2>1, <2>2 DEF Members, Parted
<1>11. GroupsSound'
  BY <1>1, <1>2, <1>7, <1>8, <1>9, <1>10 DEF GroupsSound
<1>12. Done'
  BY <1>1, <1>2, <1>4, <1>6, <1>11 DEF Done, CycleIsReal
<1> QED
  BY <1>3, <1>12

LEMMA GraphRests == ASSUME GraphInv, UNCHANGED gvars PROVE Ground' /\ Done'
<1>1. UNCHANGED <<registry, ordered, waves, stage, groups, topo>>
  BY DEF gvars
<1>2. /\ KeyedByName' = KeyedByName /\ (Arranged' <=> Arranged) /\ (Listing' <=> Listing)
      /\ (Layers' <=> Layers) /\ (NoAlias' <=> NoAlias) /\ (Cyclic' <=> Cyclic)
      /\ Registered' = Registered /\ Layered' = Layered /\ Emitted' = Emitted
      /\ \A n : Deps(n)' = Deps(n) /\ EntryOf(n)' = EntryOf(n)
  BY <1>1, SameRegistry, SameOrder, SameWaves DEF KeyedByName, Emitted
<1>3. Ground'
  BY <1>1, <1>2 DEF GraphInv, Ground
<1>4. GroupsSound'
  <2>1. \A n : WaveOf(n)' = WaveOf(n)
    BY <1>1 DEF WaveOf
  <2> QED
    BY <1>1, <1>2, <2>1 DEF GraphInv, Done, GroupsSound
<1>5. Done'
  BY <1>1, <1>2, <1>4 DEF GraphInv, Done, CycleIsReal
<1> QED
  BY <1>3, <1>5

\* For every catalog of declarations, and whatever is registered and unregistered, with
\* plugins before, after or beside the built-in steps, unknown names, two names for one
\* callable and cycles among the dependencies: the order of the registry keeps every plugin
\* on the side it asked for, the topological order is that order wherever it can be, the
\* waves and their groups respect dependencies and resources, and a cycle is reported for a
\* real one.
THEOREM GraphHolds == GraphSpec => []GraphSound
<1>1. GraphInit => GraphInv
  BY GraphStart
<1>2. GraphInv /\ [GraphNext]_gvars => GraphInv'
  <2> SUFFICES ASSUME GraphInv, [GraphNext]_gvars PROVE GraphInv'
    OBVIOUS
  <2>1. Numbered
    BY DEF GraphInv, Ground, KeyedByName, Numbered
  <2>2. TopoInv' /\ Ascending' /\ LowerSet'
    BY <2>1, TopoInvStep, AscendingStep DEF GraphInv
  <2>3. Ground' /\ Done'
    BY GraphOpen, GraphBegins, TopoRuns, WavesRun, WavesEnd, WavesGrouped, GraphRests
       DEF GraphNext, Compute
  <2> QED
    BY <2>2, <2>3 DEF GraphInv
<1>3. GraphInv => GraphSound
  BY AdapterHolds
<1> QED
  BY <1>1, <1>2, <1>3, PTL DEF GraphSpec
=============================================================================
