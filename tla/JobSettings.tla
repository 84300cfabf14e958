---------------------------- MODULE JobSettings ----------------------------
(***************************************************************************)
(* What a run is told to do: the command line, job.yaml, the narration     *)
(* preset and the plan of the client are merged into one value per key     *)
(* (workflow/merge.py, pipeline/runner.py build_context, cloud/worker.py), *)
(* and the community presets of the user are installed, replaced and       *)
(* removed meanwhile (presets/community.py).                               *)
(*                                                                         *)
(* The keys do not influence each other, so a run is asked about one of    *)
(* them, a representative of each way the code treats a key.  The lock of  *)
(* the preset store is one of threads: another process has its own.        *)
(***************************************************************************)
EXTENDS Integers, FiniteSets

CONSTANTS
  Installers,   \* threads that install and remove community presets
  Runners,      \* threads that start runs
  Hosts,        \* processes that share the presets directory
  Names,        \* names of presets
  BuiltinDocs,  \* the built-in presets: a function of their names
  Sources,      \* what a preset can be installed from (see Source)
  Engine,       \* the version that runs
  PresetBytes,  \* MAX_PRESET_BYTES
  Asks,         \* what runs are asked for (see Job)
  MaxInstalls, MaxRuns, MaxFailures  \* bounds on the environment

Threads == Installers \cup Runners
Values == {"unset", "default", "x", "y"}
Marked == "x"  \* of the key "template": one that has a watermark_text

\* "style" may be left at its default, "voice" may be missing, "strict" is a
\* switch, "focus" an option of both; "crf" stands for the keys that job.yaml
\* alone sets, "delivery" for those whose default is not passed on, "platform"
\* for those that merge_job() does not copy, "template" and "encoder" for those
\* that a plan has a say in
TopKeys  == {"style", "voice", "strict"}
Copied   == {"crf", "delivery", "template", "encoder"}
Uncopied == {"platform"}
SettingKeys     == TopKeys \cup Copied \cup Uncopied \cup {"focus"}
PresetKeys == SettingKeys \ TopKeys

Job == [host : {"cli", "cloud"}, key : SettingKeys \cup {"typo"}, cli : Values, job : Values,
        preset : Names \cup {"none"}, draft : BOOLEAN, watermark : BOOLEAN,
        gpu : BOOLEAN, mode : {"original", "translated"}, lang : BOOLEAN]

Document == [PresetKeys -> Values]  \* what a preset sets a key to, or "unset"
Source == [scheme : {"https", "http", "path"}, bytes : Nat, named : BOOLEAN,
           unknown : BOOLEAN, engine : Nat, doc : Document]

ASSUME SettingsAssumption ==
  /\ Sources \subseteq Source /\ Asks \subseteq Job /\ Engine \in Nat /\ PresetBytes \in Nat
  /\ DOMAIN BuiltinDocs \subseteq Names
  /\ \A n \in DOMAIN BuiltinDocs : BuiltinDocs[n] \in Document
  /\ \A r \in Asks :
       /\ r.key = "template" => ~r.draft
       /\ r.key \in {"voice", "focus"} => r.cli # "default"  \* None is "unset"
       /\ r.key = "strict" => r.cli # "y"  \* a switch has one value
  /\ MaxInstalls \in Nat /\ MaxRuns \in Nat /\ MaxFailures \in Nat

VARIABLES
  home,      \* the process each thread belongs to
  index,     \* registry.json: the names that are installed
  stored,      \* the preset files
  held,      \* the processes whose _LOCK is held
  editing,        \* what each installer is doing
  start,       \* what each runner is doing
  disturbed, \* has an operation failed half-way, or met one of another process?
  spent      \* operations, runs and failures so far

jvars == <<home, index, stored, held, editing, start, disturbed, spent>>

NoDoc == [k \in PresetKeys |-> "absent"]
NoOp  == [pc |-> "idle", name |-> "none", doc |-> NoDoc, seen |-> {}]
NoRun == [pc |-> "idle", job |-> CHOOSE r \in Asks : TRUE, mark |-> FALSE,
          base |-> NoDoc, value |-> "unset"]

SettingsInit ==
  /\ home \in [Threads -> Hosts]
  /\ index = {} /\ stored = [n \in Names |-> NoDoc] /\ held = {}
  /\ editing = [u \in Installers |-> NoOp] /\ start = [u \in Runners |-> NoRun]
  /\ disturbed = FALSE /\ spent = [install |-> 0, run |-> 0, failure |-> 0]

-----------------------------------------------------------------------------
\* install_preset(), uninstall_preset()

Free(u) == home[u] \notin held

\* _fetch_https() and _read_local() refuse the plain scheme and what is too long,
\* validate_preset_document() a block without a name, unknown keys, a newer engine
Fetched(c) == c.scheme # "http" /\ c.bytes <= PresetBytes
Valid(c) == c.named /\ ~c.unknown /\ c.engine <= Engine

Enter(u, o) ==
  /\ editing[u].pc = "idle" /\ Free(u) /\ spent.install < MaxInstalls
  /\ editing' = [editing EXCEPT ![u] = o]
  /\ held' = held \cup {home[u]}
  /\ disturbed' = (disturbed \/ held # {})
  /\ spent' = [spent EXCEPT !.install = @ + 1]
  /\ UNCHANGED <<home, index, stored, start>>

\* the document is read and validated before the lock is taken
Install(u, n, c) ==
  /\ Fetched(c) /\ Valid(c)
  /\ Enter(u, [pc |-> "write", name |-> n, doc |-> c.doc, seen |-> {}])

\* (mutant: the lock is given back between the file and registry.json)
WriteFileUnlocks(u) ==
  /\ editing[u].pc = "write"
  /\ stored' = [stored EXCEPT ![editing[u].name] = editing[u].doc]
  /\ editing' = [editing EXCEPT ![u].pc = "read"] /\ held' = held \ {home[u]}
  /\ UNCHANGED <<home, index, start, disturbed, spent>>

\* os.replace(): a reader finds the old document or the new one
WriteFile(u) ==
  /\ editing[u].pc = "write"
  /\ stored' = [stored EXCEPT ![editing[u].name] = editing[u].doc]
  /\ editing' = [editing EXCEPT ![u].pc = "read"]
  /\ UNCHANGED <<home, index, held, start, disturbed, spent>>

ReadIndex(u) ==
  /\ editing[u].pc = "read"
  /\ editing' = [editing EXCEPT ![u].pc = "save", ![u].seen = index \cup {editing[u].name}]
  /\ UNCHANGED <<home, index, stored, held, start, disturbed, spent>>

\* an unknown name is a KeyError
Uninstall(u, n) ==
  /\ n \in index
  /\ Enter(u, [pc |-> "unlink", name |-> n, doc |-> NoDoc, seen |-> index \ {n}])

UnlinkPreset(u) ==
  /\ editing[u].pc = "unlink"
  /\ stored' = [stored EXCEPT ![editing[u].name] = NoDoc]
  /\ editing' = [editing EXCEPT ![u].pc = "save"]
  /\ UNCHANGED <<home, index, held, start, disturbed, spent>>

SaveIndex(u) ==
  /\ editing[u].pc = "save"
  /\ index' = editing[u].seen
  /\ editing' = [editing EXCEPT ![u] = NoOp] /\ held' = held \ {home[u]}
  /\ UNCHANGED <<home, stored, start, disturbed, spent>>

\* the disk refuses, or the process ends: what was done stays
Fails(u) ==
  /\ editing[u].pc \in {"write", "read", "unlink", "save"} /\ spent.failure < MaxFailures
  /\ editing' = [editing EXCEPT ![u] = NoOp] /\ held' = held \ {home[u]}
  /\ disturbed' = TRUE
  /\ spent' = [spent EXCEPT !.failure = @ + 1]
  /\ UNCHANGED <<home, index, stored, start>>

-----------------------------------------------------------------------------
\* load_job_config() and merge_job()

PickOptional(cli, job) == IF cli # "unset" THEN cli ELSE job

\* typer cannot tell an option that was given from one left at its default
PickDefaulted(cli, job) ==
  IF job # "unset" /\ cli \in {"unset", "default"} THEN job
  ELSE IF cli = "unset" THEN "default" ELSE cli

PickFlag(cli, job) == IF cli = "x" THEN "x" ELSE job

\* what job.yaml passes on: not the default of a key whose default is dropped
\* "so jobs that never set the key keep byte-identical params"
FromJob(k, job) ==
  IF k \notin Copied \/ (k = "delivery" /\ job = "default") THEN "unset" ELSE job

\* load_job_config() refuses a key it does not list ...
Unknown(r) == r.key = "typo" /\ r.job # "unset"

\* ... and merge_job() a subtitle_mode that asks for a language
Rejected(r) == Unknown(r) \/ (r.mode # "original" /\ ~r.lang)

\* what the user asks the run for: params of build_context()
Asked(r) ==
  IF r.host = "cloud" THEN r.job
  ELSE CASE r.key = "style"              -> PickDefaulted(r.cli, r.job)
         [] r.key \in {"voice", "focus"} -> PickOptional(r.cli, r.job)
         [] r.key = "strict"             -> PickFlag(r.cli, r.job)
         [] OTHER                        -> FromJob(r.key, r.job)

-----------------------------------------------------------------------------
\* get_preset() and build_context()

\* _watermark_source(): the request's own template, or else the preset's
Looks(r) == r.watermark /\ ~(r.key = "template" /\ r.job = Marked) /\ r.preset # "none"

StartRun(u, r) ==
  /\ start[u].pc \in {"idle", "done", "refused"} /\ spent.run < MaxRuns
  /\ start' = [start EXCEPT ![u] =
               [NoRun EXCEPT !.job = r,
                  !.pc = IF r.host = "cli" /\ Rejected(r) THEN "refused"
                         ELSE IF r.host = "cloud" /\ Looks(r) THEN "look" ELSE "build"]]
  /\ spent' = [spent EXCEPT !.run = @ + 1]
  /\ UNCHANGED <<home, index, stored, held, editing, disturbed>>

\* a missing preset is no watermark to the first look-up and an error to the second
Missing(u) ==
  start' = [start EXCEPT ![u].pc = IF start[u].pc \in {"look", "lookfile"} THEN "build"
                                                                    ELSE "refused"]
Got(u, d) ==
  start' = IF start[u].pc \in {"look", "lookfile"}
         THEN [start EXCEPT ![u].pc = "build", ![u].mark = (d["template"] = Marked)]
         ELSE [start EXCEPT ![u].pc = "merge", ![u].base = d]

\* the built-in presets win; registry.json is read under the lock ...
LookUp(u) ==
  LET n == start[u].job.preset IN
  /\ start[u].pc \in {"look", "build"}
  /\ \/ n = "none" /\ Got(u, [k \in PresetKeys |-> "unset"])
     \/ n \in DOMAIN BuiltinDocs /\ Got(u, BuiltinDocs[n])
     \/ /\ n \in Names \ DOMAIN BuiltinDocs /\ Free(u)
        /\ IF n \in index
           THEN start' = [start EXCEPT ![u].pc = IF @ = "look" THEN "lookfile" ELSE "buildfile"]
           ELSE Missing(u)
  /\ UNCHANGED <<home, index, stored, held, editing, disturbed, spent>>

\* ... and the file after it
Load(u) ==
  /\ start[u].pc \in {"lookfile", "buildfile"}
  /\ LET d == stored[start[u].job.preset] IN IF d = NoDoc THEN Missing(u) ELSE Got(u, d)
  /\ UNCHANGED <<home, index, stored, held, editing, disturbed, spent>>

\* _plan_enforced_params(): the watermark is merged into the request's template
Enforced(r, mark) ==
  LET asked == Asked(r) IN
  IF r.host = "cloud" /\ r.key = "encoder" /\ ~r.gpu THEN "cpu"
  ELSE IF r.host = "cloud" /\ r.key = "template" /\ r.watermark /\ ~mark THEN Marked
  ELSE asked

\* preset params are the baseline, the user's override them
Effective(params, base) == IF params # "unset" THEN params ELSE base

\* a draft only fills gaps; a voice is one of the language if none is asked for
Filled(r, v) ==
  IF v # "unset" THEN v
  ELSE IF r.key = "crf" /\ r.draft THEN "draft"
  ELSE IF r.key = "voice" THEN "language" ELSE "default"

Merge(u) ==
  LET r == start[u].job
      base == IF r.key \in PresetKeys THEN start[u].base[r.key] ELSE "unset"
  IN
  /\ start[u].pc = "merge"
  /\ start' = [start EXCEPT ![u].pc = "done",
               ![u].value = Filled(r, Effective(Enforced(r, start[u].mark), base))]
  /\ UNCHANGED <<home, index, stored, held, editing, disturbed, spent>>

-----------------------------------------------------------------------------
SettingsNext ==
  \/ \E u \in Installers :
       \/ \E n \in Names, c \in Sources : Install(u, n, c)
       \/ \E n \in Names : Uninstall(u, n)
       \/ WriteFile(u) \/ ReadIndex(u) \/ UnlinkPreset(u) \/ SaveIndex(u) \/ Fails(u)
  \/ \E u \in Runners :
       \/ \E r \in Asks : StartRun(u, r)
       \/ LookUp(u) \/ Load(u) \/ Merge(u)

SettingsSpec == SettingsInit /\ [][SettingsNext]_jvars

-----------------------------------------------------------------------------
Done(u) == start[u].pc = "done"

\* As long as every operation ends as it should and no other process is inside
\* at the same time, the names in registry.json are those of the files there are.
IndexBacked ==
  ~disturbed /\ (\A u \in Installers : editing[u].pc = "idle")
    => index = {n \in Names : stored[n] # NoDoc}

\* What a job asks for by a value of its own is what the run does, whatever
\* preset is installed, replaced or removed meanwhile; only a plan overrides it.
AskedIsDone ==
  \A u \in Runners :
    LET r == start[u].job IN
    Done(u) /\ r.key \notin Uncopied \cup {"encoder", "template"}
      => /\ r.job \in {"x", "y"} /\ r.cli \in {"unset", "default"} => start[u].value = r.job
         /\ r.host = "cli" /\ r.cli \in {"x", "y"} /\ r.key \in TopKeys \cup {"focus"}
              => start[u].value = r.cli

\* A plan without GPU encoders gets none.
EncoderEnforced ==
  \A u \in Runners :
    LET r == start[u].job IN
    Done(u) /\ r.host = "cloud" /\ r.key = "encoder" /\ ~r.gpu => start[u].value = "cpu"

\* The preset store and the merge of the settings: names are backed by files,
\* an explicit request wins over every preset, a plan over every request.
SettingsSound == IndexBacked /\ AskedIsDone /\ EncoderEnforced
=============================================================================
