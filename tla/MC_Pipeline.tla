---------------------------- MODULE MC_Pipeline ----------------------------
(* Instances of Pipeline, StepMerge and QualityGate for TLC.  They share no *)
(* state: a behaviour is a run of the pipeline, the construction of one     *)
(* registry, the comparison of two steps or the checks of a run, and leaves *)
(* the variables of the others as they are.                                 *)
EXTENDS Pipeline, BuiltinSteps, StepMerge, QualityGate

VARIABLE part \* "run", "graph", "canonical", "merge" or "checks"

\* a hard step, a soft one that preview mode skips, a hard one and a soft one
\* at the end
FourSteps == 4
ThreeSoft == {1, 3, 4}
Skippable == {1, 4}

\* every host, with and without --strict, preview mode, a switched-off step and
\* a pause at each kind of step
AnySetup ==
  [host : {"cloud"}, strict : BOOLEAN, preview : BOOLEAN, off : {{}, {2}, {4}},
   pause : {0}]
  \cup
  [host : {"cli", "interactive"}, strict : BOOLEAN, preview : {FALSE},
   off : {{}, {3}}, pause : {0, 2, 3}]

-----------------------------------------------------------------------------
\* Two built-in steps and two plugins that may name each other, a step of their
\* own kind or a step that is not registered; the first and the last of them
\* cannot run side by side.
Names == {"b1", "b2", "p", "q"}
Placing == [n \in {"p", "q"} |->
  IF n = "p" THEN {<<"b1", "none">>, <<"q", "none">>, <<"none", "b2">>, <<"b1", "b2">>,
                   <<"q", "b1">>}
             ELSE {<<"b1", "none">>, <<"p", "none">>, <<"none", "b1">>, <<"none", "p">>}]
MayDepend == [n \in Names |->
  CASE n = "b1" -> {{}, {"q"}}        [] n = "b2" -> {{}, {"p", "ghost"}}
    [] n = "p"  -> SUBSET {"b1", "b2"} [] n = "q"  -> {{}, {"b2"}, {"b1", "p"}}]
Decl(n, f, side, d) ==
  [name |-> n, func |-> f, after |-> side[1], before |-> side[2], deps |-> d,
   exclusive |-> n = "b2" /\ d # {},
   reads |-> IF n = "q" THEN {"x"} ELSE {}, writes |-> IF n = "b1" THEN {"x"} ELSE {}]

Declared ==
  UNION {{Decl(n, n, <<"none", "none">>, d) : d \in MayDepend[n]} : n \in {"b1", "b2"}}
    \cup UNION {UNION {{Decl(n, n, s, d) : d \in MayDepend[n]} : s \in Placing[n]} :
                n \in {"p", "q"}}
    \cup {Decl("b2", "b1", <<"none", "none">>, {}), Decl("q", "p", <<"none", "b1">>, {"b2"})}

AllNames == Names \cup {"ghost"}
Refs == {"x", "y", "t"}
Bits == {0, 1}
Clock == {"t"}

\* steps that copy, negate or set a ref, after a look at another one, or leave
\* all as it is; the second one also stamps the time
Contexts == [Refs -> Bits]
Programs ==
  {[s \in Contexts |-> s]}
    \cup {[s \in Contexts |-> [s EXCEPT !["y"] = s["x"]]],
          [s \in Contexts |-> [s EXCEPT !["x"] = 1 - s["y"]]],
          [s \in Contexts |-> [s EXCEPT !["x"] = 1]],
          [s \in Contexts |-> [s EXCEPT !["x"] = IF s["x"] = 0 THEN s["y"] ELSE 1]],
          [s \in Contexts |-> [s EXCEPT !["y"] = 0, !["t"] = 1]]}
Claims(rs, ws) ==
  [run : Programs, reads : rs, writes : ws, exclusive : {FALSE}]
Pairs ==
  [s0 : Contexts, a : Claims(SUBSET {"x", "y"}, SUBSET {"x", "y"}),
   b : Claims({{}, {"x"}, {"x", "y"}}, {{}, {"x"}, {"y"}})]
OneTrial == CHOOSE t \in Pairs : TRUE
MergeIdle == trial = OneTrial /\ verdict = "none"
RunIdle == Init /\ setup = CHOOSE s \in Setups : TRUE

-----------------------------------------------------------------------------
\* Scripts without an issue, with a short opening, with eleven issues; recordings
\* that are a little and much too distorted; cues one can read, cues that
\* overlap and are too fast; films of each kind
Say(n, g) == [len |-> n, gist |-> g]
ThreeScripts ==
  {<<Say(9, "a"), Say(9, "b")>>, <<Say(3, "a"), Say(9, "b")>>, [i \in 1..5 |-> Say(3, "a")]}
Take(c) == [clip |-> c, silent |-> 10, snr |-> 20, ms |-> 2000]
TwoRecordings == {<<Take(0), Take(20)>>, <<Take(200), Take(0)>>}
Cue(s, e, n, k, p) == [start |-> s, end |-> e, len |-> n, cjk |-> k, sure |-> p]
ThreeCueLists ==
  {<<Cue(0, 20, 15, TRUE, 90), Cue(80, 90, 10, FALSE, 90)>>,
   <<Cue(0, 10, 19, TRUE, 30), Cue(8, 10, 4, FALSE, 50)>>,
   <<Cue(0, 4, 40, FALSE, 90), Cue(5, 5, 0, FALSE, 90)>>}
AFilm == [there |-> TRUE, kb |-> 500, video |-> TRUE, audio |-> TRUE, ticks |-> 90,
          volume |-> "loud", size |-> <<1920, 1080>>, luma |-> <<90, 95, 90>>,
          codec |-> "h264", kbps |-> 3000]
FiveFilms ==
  {AFilm, NoFilm, [AFilm EXCEPT !.ticks = 0, !.size = <<1080, 1920>>, !.codec = "vp9"],
   [AFilm EXCEPT !.ticks = 20, !.volume = "unknown"],
   [AFilm EXCEPT !.luma = <<5, 5, 5>>, !.size = <<640, 480>>]}
FourInspections ==
  {[ci |-> c, qa |-> q, strict |-> s, frame |-> <<3840, 2160>>,
    risk |-> IF s THEN 50 ELSE 101, black |-> IF s THEN 40 ELSE 101] :
     <<c, q, s>> \in {<<FALSE, "unset", FALSE>>, <<FALSE, "on", TRUE>>,
                      <<TRUE, "unset", TRUE>>, <<FALSE, "off", FALSE>>}}

-----------------------------------------------------------------------------
allvars == <<vars, gvars, tvars, qvars, part>>
ChecksIdle == QualityInit /\ inspect = CHOOSE i \in Inspections : TRUE
EngineInit ==
  \/ part = "run"    /\ Init    /\ GraphInit /\ MergeIdle /\ ChecksIdle
  \/ part = "graph"  /\ RunIdle /\ GraphInit /\ MergeIdle /\ ChecksIdle
  \/ part = "canonical" /\ RunIdle /\ CanonicalInit /\ MergeIdle /\ ChecksIdle
  \/ part = "merge"  /\ RunIdle /\ GraphInit /\ MergeInit /\ ChecksIdle
  \/ part = "checks" /\ RunIdle /\ GraphInit /\ MergeIdle /\ QualityInit
EngineNext ==
  /\ \/ part = "run"    /\ Next        /\ UNCHANGED <<gvars, tvars, qvars>>
     \/ part = "graph"  /\ GraphNext   /\ UNCHANGED <<vars, tvars, qvars>>
     \/ part = "canonical" /\ CanonicalNext /\ UNCHANGED <<vars, tvars, qvars>>
     \/ part = "merge"  /\ Compare     /\ UNCHANGED <<vars, gvars, qvars>>
     \/ part = "checks" /\ QualityNext /\ UNCHANGED <<vars, gvars, tvars>>
  /\ UNCHANGED part
EngineSpec == EngineInit /\ [][EngineNext]_allvars /\ WF_vars(Running)
=============================================================================
