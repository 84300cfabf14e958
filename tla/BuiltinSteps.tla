---------------------------- MODULE BuiltinSteps ----------------------------
(***************************************************************************)
(* The registry of the built-in steps (pipeline/runner.py,                 *)
(* builtin_contracts.py, canonical.py) and what the DAG analysis           *)
(* (dag_analysis.py) reads from it.  Of the ResourceRefs only those that   *)
(* several steps touch are kept, without their namespace; the others can   *)
(* be in no conflict.                                                      *)
(***************************************************************************)
EXTENDS StepGraph

\* A built-in step: what it depends on, its coarse inputs and outputs after
\* normalize_legacy_ref(), and the reads and writes of its contract.
Step(n, deps, in, out, reads, writes) ==
  [name |-> n, func |-> n, after |-> NoStep, before |-> NoStep, deps |-> deps,
   inputs |-> in, outputs |-> out, reads |-> reads, writes |-> writes,
   exclusive |-> n = "render_video"]

SourceSteps ==
  <<Step("resolve_video", {}, {}, {"video"}, {}, {"video"}),
    Step("prepare_assets", {}, {"assets"}, {"assets"}, {"assets"}, {"assets"}),
    Step("research_plot", {}, {}, {"research", "card"}, {}, {"research", "card"})>>

ScriptSteps ==
  <<Step("generate_script", {"research_plot"}, {"research", "card"},
         {"segments", "script_qa"}, {"research", "card"}, {"segments", "script_qa"}),
    Step("export_script_md", {"generate_script"}, {"segments"}, {}, {"segments"}, {})>>

VoiceSteps ==
  <<Step("generate_voice", {"generate_script"}, {"segments"}, {"narration", "timed", "length"},
         {"segments"}, {"narration", "timed", "length", "audio_quality"}),
    Step("align_audio", {"generate_voice"}, {"narration", "timed"}, {"timed", "alignment_qa"},
         {"narration", "timed"}, {"timed", "alignment_qa"})>>

FootageSteps ==
  <<Step("detect_scenes", {"resolve_video"}, {"video"}, {"scenes"}, {"video"}, {"scenes"}),
    Step("match_clips", {"align_audio", "detect_scenes"}, {"timed", "scenes", "video"},
         {"clips", "match_summary"}, {"timed", "scenes", "video"}, {"clips", "match_summary"})>>

SoundSteps ==
  <<Step("mix_bgm", {"generate_voice", "prepare_assets"}, {"narration", "assets"}, {"final"},
         {"narration", "assets"}, {"final"})>>

\* (mutant: the subtitles do not wait for the translation)
SubtitleStepsUntranslated ==
  <<Step("translate_subtitles", {"align_audio"}, {"timed"}, {"translated"}, {"timed"},
         {"translated"}),
    Step("generate_subtitle", {"align_audio"}, {"timed", "translated"},
         {"subtitle", "shown"}, {"timed", "translated"}, {"subtitle", "shown"})>>

SubtitleSteps ==
  <<Step("translate_subtitles", {"align_audio"}, {"timed"}, {"translated"}, {"timed"},
         {"translated"}),
    Step("generate_subtitle", {"align_audio", "translate_subtitles"}, {"timed", "translated"},
         {"subtitle", "shown"}, {"timed", "translated"}, {"subtitle", "shown"})>>

\* The gate depends on four steps, and reads what a fifth one writes.
GateSteps ==
  <<Step("run_qa_gate",
         {"generate_script", "generate_voice", "align_audio", "generate_subtitle"},
         {"script_qa", "audio_quality", "alignment_qa"}, {},
         {"script_qa", "audio_quality", "alignment_qa", "length", "match_summary"}, {})>>

FilmSteps ==
  <<Step("render_video", {"match_clips", "mix_bgm", "generate_subtitle"},
         {"clips", "timed", "final", "shown"}, {"film"},
         {"clips", "timed", "scenes", "video", "assets", "final", "shown"}, {"film"}),
    Step("validate_deliverable", {"render_video"}, {"film"}, {}, {"film", "final", "subtitle"},
         {}),
    Step("export_clips", {"detect_scenes", "match_clips"}, {"scenes", "clips", "video"}, {},
         {"scenes", "clips", "video"}, {})>>

BuiltinRegistry ==
  SourceSteps \o ScriptSteps \o VoiceSteps \o FootageSteps \o SoundSteps \o SubtitleSteps
    \o GateSteps \o FilmSteps

Soft ==
  {"research_plot", "align_audio", "detect_scenes", "match_clips", "mix_bgm",
   "translate_subtitles", "run_qa_gate", "export_clips"}
\* failure_policy="degrade"; None for the others, which derives from soft
Degrades == Soft

\* make_canonical_registry()
CanonicalInit ==
  /\ registry = BuiltinRegistry /\ stage = "open" /\ ordered = <<>>
  /\ topo = <<>> /\ waves = <<>> /\ groups = <<>>

CanonicalNext == StartTopo \/ StartWaves \/ Compute

-----------------------------------------------------------------------------
\* find_resource_conflicts(): the pairs, in linear order, that touch the same data
Conflicts ==
  {<<i, j>> \in (DOMAIN ordered) \X (DOMAIN ordered) :
     i < j /\ ResourcesConflict(EntryOf(ordered[i]), EntryOf(ordered[j]))}

\* build_known_provenance(): the latest step before it that declares the input as an
\* output, NoStep for what comes from outside
Producer(j, r) ==
  LET before == {i \in 1..(j - 1) : r \in EntryOf(ordered[i]).outputs}
  IN  IF before = {} THEN NoStep
      ELSE ordered[CHOOSE i \in before : \A k \in before : k <= i]

\* contract_complete_errors() finds none
Complete(n) ==
  LET e == EntryOf(n)
  IN  /\ e.inputs \subseteq e.reads /\ e.outputs \subseteq e.writes
      /\ n \in Degrades => n \in Soft

\* select_e2_pair(): the first two of the first group of complete steps
E2Pair ==
  LET pairs == SelectSeq(FlattenSeq(groups),
                         LAMBDA g : Len(g) > 1 /\ \A n \in ToSet(g) : Complete(n))
  IN  IF pairs = <<>> THEN <<>> ELSE SubSeq(pairs[1], 1, 2)

\* all the steps a step waits for
Upstream ==
  FoldLeft(LAMBDA up, n : [m \in DOMAIN up \cup {n} |->
                             IF m = n THEN Deps(n) \cup UNION {up[d] : d \in Deps(n)} ELSE up[m]],
           [m \in {} |-> {}], ordered)

\* In the registry of the built-in steps, which three tables in two files describe, the
\* tables agree.  Steps that touch the same data are in different waves, the one that is
\* earlier in the linear order in the earlier wave; what a step takes from another one it
\* also waits for, but for the gate, which reads the summary of match_clips and is in a
\* later wave by chance; and the pair picked for the comparison of e2_harness.py is one that
\* neither order nor data keep apart.
CanonicalSound ==
  stage = "grouped" /\ registry = BuiltinRegistry =>
    /\ \A p \in Conflicts :
         /\ WaveOf(ordered[p[1]]) < WaveOf(ordered[p[2]])
         /\ \/ ordered[p[1]] \in Upstream[ordered[p[2]]]
            \/ <<ordered[p[1]], ordered[p[2]]>> = <<"match_clips", "run_qa_gate">>
    /\ \A j \in DOMAIN ordered : \A r \in EntryOf(ordered[j]).inputs :
         Producer(j, r) # NoStep => Producer(j, r) \in Upstream[ordered[j]]
    /\ E2Pair # <<>>
    /\ LET a == E2Pair[1]
           b == E2Pair[2]
       IN  Compatible(EntryOf(a), EntryOf(b)) /\ a \notin Upstream[b] /\ b \notin Upstream[a]
=============================================================================
