----------------------------- MODULE StepGraph -----------------------------
(***************************************************************************)
(* The step registry and what is computed from it: the execution order of  *)
(* built-in and plugin steps (pipeline/registry.py), Kahn's topological    *)
(* order with linear tie-breaking (pipeline/dag.py), and the waves and     *)
(* resource-compatible groups of the DAG analysis (dag_analysis.py).  The  *)
(* loops of the two Kahn algorithms are steps here; the ordering of the    *)
(* registry is a pure operator.                                            *)
(***************************************************************************)
EXTENDS Ranks, SequencesExt, FiniteSetsExt

CONSTANTS
  Catalog,   \* the declarations that may be registered, see Declaration
  StepNames, \* names of steps
  Callables, \* the functions behind them
  Resources, \* qualified ResourceRefs
  NoStep     \* the value of after and before when they are not given

\* A StepEntry.  Built-in steps have neither after nor before.
Declaration ==
  [name : StepNames, func : Callables, after : StepNames \cup {NoStep},
   before : StepNames \cup {NoStep}, deps : SUBSET StepNames,
   exclusive : BOOLEAN, reads : SUBSET Resources, writes : SUBSET Resources]

ASSUME CatalogAssumption == Catalog \subseteq Declaration /\ NoStep \notin StepNames

VARIABLES
  registry, \* the entries, in the order of the dict, which is that of seq
  stage,    \* "open", or the algorithm that runs and how it ended
  ordered,  \* the linear order the running algorithm was given
  topo,     \* result of topological_order()
  waves,    \* waves of theoretical_waves()
  groups    \* groups of resource_compatible_waves(), by wave

gvars == <<registry, stage, ordered, topo, waves, groups>>

GraphInit ==
  /\ registry = <<>> /\ stage = "open" /\ ordered = <<>>
  /\ topo = <<>> /\ waves = <<>> /\ groups = <<>>

Registered == {registry[i].name : i \in DOMAIN registry}
EntryOf(n) == CHOOSE e \in ToSet(registry) : e.name = n
Builtin(e) == e.after = NoStep /\ e.before = NoStep

-----------------------------------------------------------------------------
\* ordered_steps() and ordered_names()

\* built-in steps in order, each followed by the plugins that go after it
Builtins == Taken(registry, {k \in DOMAIN registry : Builtin(registry[k])})
After(e) == Taken(registry, {k \in DOMAIN registry : registry[k].after = e.name})
BuiltinsAndAfter ==
  LET run[i \in 0..Len(Builtins)] ==
        IF i = 0 THEN <<>> ELSE run[i - 1] \o <<Builtins[i]>> \o After(Builtins[i])
  IN  run[Len(Builtins)]

\* the entry a callable in the list is taken for, and the one it is named by
Sharing(f) == {k \in DOMAIN registry : registry[k].func = f}
FirstWith(f) == registry[Min(Sharing(f))]
LastWith(f)  == registry[Max(Sharing(f))]

\* (mutant: a plugin that is placed already is inserted once more)
WithBeforeTwice(list) ==
  FoldLeft(LAMBDA acc, e :
             acc \o Taken(registry, {k \in DOMAIN registry :
                            registry[k].before = FirstWith(e.func).name}) \o <<e>>,
           <<>>, list)

\* the plugins that go before a step of the list are put there
Before(e, placed) ==
  Taken(registry, {k \in DOMAIN registry : /\ registry[k] \notin placed
                                           /\ registry[k].before = FirstWith(e.func).name})
WithBefore(list) ==
  LET run[i \in 0..Len(list)] ==
        IF i = 0 THEN <<>>
        ELSE run[i - 1] \o Before(list[i], ToSet(list) \cup ToSet(run[i - 1])) \o <<list[i]>>
  IN  run[Len(list)]

\* what found no place goes to the end
OrderedSteps ==
  LET placed == WithBefore(BuiltinsAndAfter)
  IN  placed \o Taken(registry, {k \in DOMAIN registry : registry[k] \notin ToSet(placed)})

OrderedNames ==
  LET steps == OrderedSteps
  IN  [i \in DOMAIN steps |-> LastWith(steps[i].func).name]

\* A step's position: its last place in the linear order.  The names that are not in it,
\* because another one has the same callable, are numbered on from the number of those that
\* are, and may so come to stand beside one of them.
IsLast(n, i) == ordered[i] = n /\ \A j \in DOMAIN ordered : ordered[j] = n => j <= i
Displaced == {k \in DOMAIN registry : registry[k].name \notin ToSet(ordered)}
Place(n) ==
  IF \E i \in DOMAIN ordered : IsLast(n, i)
  THEN CHOOSE i \in DOMAIN ordered : IsLast(n, i)
  ELSE Cardinality(ToSet(ordered)) + Cardinality({k \in Displaced :
         \E l \in Displaced : k <= l /\ registry[l].name = n})

-----------------------------------------------------------------------------
\* the dependencies that count: those on registered steps
Deps(n) == EntryOf(n).deps \cap Registered

\* the steps whose in_degree is 0 once those in done are emitted
Ready(done) == {n \in Registered \ done : Deps(n) \subseteq done}

Register(d) ==
  /\ stage = "open" /\ d.name \notin Registered
  /\ registry' = Append(registry, d)
  /\ UNCHANGED <<stage, ordered, topo, waves, groups>>

Unregister(n) ==
  /\ stage = "open" /\ n \in Registered
  /\ registry' = Taken(registry, {k \in DOMAIN registry : registry[k].name # n})
  /\ UNCHANGED <<stage, ordered, topo, waves, groups>>

StartTopo ==
  /\ stage = "open" /\ registry # <<>>
  /\ stage' = "topo" /\ ordered' = OrderedNames
  /\ UNCHANGED <<registry, topo, waves, groups>>

\* one turn of Kahn's loop: the available step earliest in the linear order, any of
\* those at one place
Pick ==
  /\ stage = "topo"
  /\ \E n \in Ready(ToSet(topo)) :
       /\ \A m \in Ready(ToSet(topo)) : Place(n) <= Place(m)
       /\ topo' = Append(topo, n)
  /\ UNCHANGED <<registry, stage, ordered, waves, groups>>

\* nothing is available any more: all are emitted, or ValueError is raised
EndTopo ==
  /\ stage = "topo" /\ Ready(ToSet(topo)) = {}
  /\ stage' = IF Len(topo) = Len(registry) THEN "sorted" ELSE "cycle"
  /\ UNCHANGED <<registry, ordered, topo, waves, groups>>

StartWaves ==
  /\ stage = "open" /\ registry # <<>>
  /\ stage' = "waves" /\ ordered' = OrderedNames
  /\ UNCHANGED <<registry, topo, waves, groups>>

Layered == UNION {ToSet(waves[i]) : i \in DOMAIN waves}

\* in_degree: a step emitted twice, since its callable is listed twice, counts twice
Emissions == {p \in (DOMAIN waves) \X (1..Len(ordered)) : p[2] \in DOMAIN waves[p[1]]}
Degree(n) ==
  Cardinality(Deps(n)) - Cardinality({p \in Emissions : waves[p[1]][p[2]] \in Deps(n)})

\* a whole layer is emitted, in linear order
Wave ==
  Taken(ordered, {i \in DOMAIN ordered : ordered[i] \notin Layered /\ Degree(ordered[i]) = 0})

EmitWave ==
  /\ stage = "waves" /\ Wave # <<>>
  /\ waves' = Append(waves, Wave)
  /\ UNCHANGED <<registry, stage, ordered, topo, groups>>

\* nothing remains, or the remaining steps are stuck and ValueError is raised
EndWaves ==
  /\ stage = "waves" /\ Wave = <<>>
  /\ stage' = IF Registered \subseteq Layered THEN "layered" ELSE "stuck"
  /\ UNCHANGED <<registry, ordered, topo, waves, groups>>

-----------------------------------------------------------------------------
\* (mutant: only two writers of a resource conflict)
WritersConflict(a, b) == a.writes \cap b.writes # {}

\* resources_conflict() and concurrency_compatible()
ResourcesConflict(a, b) ==
  \/ a.writes \cap (b.reads \cup b.writes) # {}
  \/ b.writes \cap (a.reads \cup a.writes) # {}

Compatible(a, b) == ~a.exclusive /\ ~b.exclusive /\ ~ResourcesConflict(a, b)

Fits(n, g) == \A m \in ToSet(g) : Compatible(EntryOf(n), EntryOf(m))

\* first fit: the first group all of whose members go with n, or a new one
FirstFit(gs, n) ==
  LET fitting == {k \in DOMAIN gs : Fits(n, gs[k])}
  IN  IF fitting = {} THEN Append(gs, <<n>>)
                      ELSE [gs EXCEPT ![Min(fitting)] = Append(@, n)]
Grouped(wave) ==
  LET run[i \in 0..Len(wave)] == IF i = 0 THEN <<>> ELSE FirstFit(run[i - 1], wave[i])
  IN  run[Len(wave)]

Group ==
  /\ stage = "layered"
  /\ groups' = [w \in DOMAIN waves |-> Grouped(waves[w])]
  /\ stage' = "grouped"
  /\ UNCHANGED <<registry, ordered, topo, waves>>

Compute == Pick \/ EndTopo \/ EmitWave \/ EndWaves \/ Group

GraphNext ==
  \/ \E d \in Catalog : Register(d)
  \/ \E n \in StepNames : Unregister(n)
  \/ StartTopo \/ StartWaves \/ Compute

GraphSpec == GraphInit /\ [][GraphNext]_gvars
-----------------------------------------------------------------------------
\* Safety

Distinct(s) == \A i, j \in DOMAIN s : s[i] = s[j] => i = j

\* every callable belongs to one step
NoAlias == \A i, j \in DOMAIN registry :
             registry[i].func = registry[j].func => i = j

\* Every registered step is executed exactly once; the built-in steps keep their
\* order, whatever the plugins ask for; and a plugin that names a built-in step
\* runs on the side of it that it asked for, with no other built-in in between.
PluginsBesideTargets ==
  NoAlias /\ stage # "open" =>
    LET b == Builtins
        spot(n) == CHOOSE i \in DOMAIN ordered : ordered[i] = n
        at == [n \in ToSet(ordered) |-> spot(n)]
    IN  /\ Distinct(ordered) /\ ToSet(ordered) = Registered
        /\ \A e \in ToSet(registry), i \in DOMAIN b :
             /\ i > 1 => at[b[i - 1].name] < at[b[i].name]
             /\ e.after = b[i].name =>
                  /\ at[b[i].name] < at[e.name]
                  /\ i < Len(b) => at[e.name] < at[b[i + 1].name]
             /\ e.before = b[i].name /\ e.after \notin {c.name : c \in ToSet(b)} =>
                  /\ at[e.name] < at[b[i].name]
                  /\ i > 1 => at[b[i - 1].name] < at[e.name]

\* No step is emitted twice, or before a step it depends on.
Emitted == ToSet(topo)
TopoSound ==
  /\ Distinct(topo) /\ Emitted \subseteq Registered
  /\ \A j \in DOMAIN topo : \A d \in Deps(topo[j]) :
       \E i \in 1..(j - 1) : topo[i] = d

\* the declared dependencies all point backwards in the linear order
Backwards == \A n \in Registered : \A d \in Deps(n) : Place(d) < Place(n)

\* When no step depends on a later one the topological order is the linear order
\* ("linear adapter"), and no cycle is reported.
Ascending ==
  Backwards => \A i, j \in DOMAIN topo : i < j => Place(topo[i]) <= Place(topo[j])

LinearAdapter ==
  /\ Ascending
  /\ Backwards => stage # "cycle"
  /\ NoAlias /\ Backwards => stage # "stuck"
  /\ NoAlias /\ Backwards /\ stage = "sorted" => topo = ordered

\* Once the analysis is complete every step is in exactly one group of exactly
\* one wave, behind all its dependencies and in the earliest wave possible, and
\* the members of a group go with each other pairwise.
WaveOf(n) == CHOOSE w \in DOMAIN groups : n \in ToSet(waves[w])

GroupsSound ==
  stage = "grouped" =>
    /\ \A n \in Registered :
         /\ \A d \in Deps(n) : WaveOf(d) < WaveOf(n)
         /\ WaveOf(n) > 1 => \E d \in Deps(n) : WaveOf(d) = WaveOf(n) - 1
    /\ \A w \in DOMAIN groups :
         /\ UNION {ToSet(groups[w][k]) : k \in DOMAIN groups[w]} = ToSet(waves[w])
         /\ \A k, l \in DOMAIN groups[w] :
              \A i \in DOMAIN groups[w][k], j \in DOMAIN groups[w][l] :
                 groups[w][k][i] = groups[w][l][j] => k = l /\ i = j
         /\ \A k \in DOMAIN groups[w] : \A i, j \in DOMAIN groups[w][k] :
              i # j => Compatible(EntryOf(groups[w][k][i]), EntryOf(groups[w][k][j]))

\* An error is raised only for a real cycle: some set of steps each of which waits
\* for another of the set.  Of the analysis that is true only if no callable has two
\* names: the list at dag_analysis.py:107, which is to cover every step, leaves one out.
Cyclic == \E S \in (SUBSET Registered) \ {{}} : \A n \in S : Deps(n) \cap S # {}
CycleIsReal ==
  /\ stage = "cycle" => Cyclic
  /\ NoAlias /\ stage = "stuck" => Cyclic

\* What the plugins asked for, what the declared dependencies say and what the two
\* algorithms make of them agree: in the order, in the waves, in the cycles reported.
GraphSound ==
  PluginsBesideTargets /\ TopoSound /\ LinearAdapter /\ GroupsSound /\ CycleIsReal
=============================================================================
