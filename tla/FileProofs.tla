----------------------------- MODULE FileProofs -----------------------------
(***************************************************************************)
(* Theorems about the parts that share files with other threads, other     *)
(* processes or their own past: the preset store and what a run is told to *)
(* do, the media cache, the sweeper of artifacts and the rendered film.    *)
(***************************************************************************)
EXTENDS JobSettings, MediaCache, ArtifactSweeper, FinalCut, FunctionTheorems,
        SequenceTheorems, NaturalFacts

-----------------------------------------------------------------------------
\* Settings: what is asked for by a value of its own is done

RunFields == {"pc", "job", "mark", "base", "value"}
Engaged == {"look", "lookfile", "build", "buildfile", "merge", "done"}

\* a finished run does what was asked for explicitly, and has no GPU it may not have
DoneAsAsked(v) ==
  LET r == v.job IN
  /\ r.key \notin Uncopied \cup {"encoder", "template"}
       => /\ r.job \in {"x", "y"} /\ r.cli \in {"unset", "default"} => v.value = r.job
          /\ r.host = "cli" /\ r.cli \in {"x", "y"} /\ r.key \in TopKeys \cup {"focus"}
               => v.value = r.cli
  /\ r.host = "cloud" /\ r.key = "encoder" /\ ~r.gpu => v.value = "cpu"

\* a run that goes on has a job that was not refused
RunKept(v) ==
  /\ v.pc \in Engaged => v.job \in Asks /\ ~(v.job.host = "cli" /\ Rejected(v.job))
  /\ v.pc = "done" => DoneAsAsked(v)

RunsTyped ==
  /\ start = [u \in Runners |-> start[u]]
  /\ \A u \in Runners : start[u] = [f \in RunFields |-> start[u][f]]

\* the names whose presets have files, and the threads inside the lock of their process
Files == {n \in Names : stored[n] # NoDoc}
Busy == {u \in Installers : editing[u].pc # "idle"}

EditPcs == {"idle", "write", "read", "unlink", "save"}
EditRec == [pc : EditPcs, name : Names \cup {"none"}, doc : Document \cup {NoDoc}, seen : SUBSET Names]

StoreTyped ==
  /\ index \in SUBSET Names
  /\ stored \in [Names -> Document \cup {NoDoc}] /\ editing \in [Installers -> EditRec]
  /\ \A u \in Busy : editing[u].name \in Names /\ (editing[u].pc = "write" => editing[u].doc \in Document)

\* what an installer that is alone has done of its operation
Halfway(u) ==
  /\ editing[u].pc = "write" => index = Files
  /\ editing[u].pc = "read" => Files = index \cup {editing[u].name}
  /\ editing[u].pc = "unlink" => index = Files /\ editing[u].seen = index \ {editing[u].name}
  /\ editing[u].pc = "save" => editing[u].seen = Files

\* as long as nothing disturbs it, one operation at a time is inside, and what is
\* left of the others is whole
Undisturbed ==
  /\ \A u \in Busy : home[u] \in held /\ Halfway(u)
  /\ \A u, v \in Busy : u = v
  /\ Busy = {} => index = Files

SettingsInv ==
  /\ RunsTyped /\ (\A u \in Runners : RunKept(start[u]))
  /\ StoreTyped /\ (~disturbed => Undisturbed)

\* No preset document says that a key is absent.
LEMMA DocumentThere == NoDoc \notin Document
<1>1. "crf" \in PresetKeys /\ "absent" \notin Values
  BY DEF PresetKeys, SettingKeys, TopKeys, Copied, Values
<1> QED
  BY <1>1 DEF NoDoc, Document

\* Whatever the preset says, a value that the user gives wins, and the plan over both.
LEMMA MergedAsAsked ==
  ASSUME NEW r \in Asks, ~(r.host = "cli" /\ Rejected(r)), NEW mark, NEW base
  PROVE  LET v == Filled(r, Effective(Enforced(r, mark), base)) IN
         /\ r.key \notin Uncopied \cup {"encoder", "template"}
              => /\ r.job \in {"x", "y"} /\ r.cli \in {"unset", "default"} => v = r.job
                 /\ r.host = "cli" /\ r.cli \in {"x", "y"} /\ r.key \in TopKeys \cup {"focus"}
                      => v = r.cli
         /\ r.host = "cloud" /\ r.key = "encoder" /\ ~r.gpu => v = "cpu"
<1>0. r \in Job
  BY SettingsAssumption
<1>1. /\ r.key \in {"voice", "focus"} => r.cli # "default"
      /\ r.key = "strict" => r.cli # "y"
  BY SettingsAssumption
<1>2. /\ r.host \in {"cli", "cloud"} /\ r.cli \in Values /\ r.job \in Values
      /\ r.key \in SettingKeys \cup {"typo"}
  BY <1>0 DEF Job
<1>3. ASSUME NEW w, w \in {"x", "y", "cpu"}, Enforced(r, mark) = w
      PROVE  Filled(r, Effective(Enforced(r, mark), base)) = w
  BY <1>3 DEF Filled, Effective
<1>4. ASSUME r.key \notin Uncopied \cup {"encoder", "template"}
      PROVE  Enforced(r, mark) = Asked(r)
  BY <1>4 DEF Enforced
<1>5. ASSUME r.key \notin Uncopied \cup {"encoder", "template"}, r.job \in {"x", "y"},
             r.cli \in {"unset", "default"}
      PROVE  Asked(r) = r.job
  <2>1. CASE r.host = "cloud"
    BY <2>1 DEF Asked
  <2>2. CASE r.host = "cli"
    <3>1. r.key # "typo"
      BY <2>2, <1>5 DEF Rejected, Unknown
    <3>2. CASE r.key = "style"
      BY <2>2, <3>2, <1>5 DEF Asked, PickDefaulted
    <3>3. CASE r.key \in {"voice", "focus"}
      BY <2>2, <3>3, <1>1, <1>5 DEF Asked, PickOptional
    <3>4. CASE r.key = "strict"
      BY <2>2, <3>4, <1>5 DEF Asked, PickFlag
    <3>5. CASE r.key \in {"crf", "delivery"}
      BY <2>2, <3>5, <1>5 DEF Asked, FromJob, Copied
    <3> QED
      BY <1>2, <1>5, <3>1, <3>2, <3>3, <3>4, <3>5 DEF SettingKeys, TopKeys, Copied, Uncopied
  <2> QED
    BY <1>2, <2>1, <2>2
<1>6. ASSUME r.host = "cli", r.cli \in {"x", "y"}, r.key \in TopKeys \cup {"focus"}
      PROVE  Asked(r) = r.cli
  <2>1. CASE r.key = "style"
    BY <1>6, <2>1 DEF Asked, PickDefaulted
  <2>2. CASE r.key \in {"voice", "focus"}
    BY <1>6, <2>2 DEF Asked, PickOptional
  <2>3. CASE r.key = "strict"
    BY <1>1, <1>6, <2>3 DEF Asked, PickFlag
  <2> QED
    BY <1>6, <2>1, <2>2, <2>3 DEF TopKeys
<1>7. r.host = "cloud" /\ r.key = "encoder" /\ ~r.gpu => Enforced(r, mark) = "cpu"
  BY DEF Enforced
<1> QED
  BY <1>3, <1>4, <1>5, <1>6, <1>7

\* A runner that steps leaves the others and the preset store alone.
LEMMA RunnerStep ==
  ASSUME SettingsInv, NEW u \in Runners, NEW v, v = [f \in RunFields |-> v[f]], RunKept(v),
         start' = [start EXCEPT ![u] = v],
         UNCHANGED <<home, index, stored, held, editing, disturbed>>
  PROVE  SettingsInv'
<1>1. /\ start' = [w \in Runners |-> start'[w]]
      /\ \A w \in Runners : start'[w] = IF w = u THEN v ELSE start[w]
  BY DEF SettingsInv, RunsTyped
<1>2. RunsTyped'
  BY <1>1 DEF SettingsInv, RunsTyped
<1>3. \A w \in Runners : RunKept(start'[w])
  BY <1>1 DEF SettingsInv
<1>4. /\ Files' = Files /\ Busy' = Busy /\ \A w : Halfway(w)' = Halfway(w)
      /\ UNCHANGED <<index, stored, held, editing, disturbed, home>>
  BY DEF Files, Busy, Halfway
<1>5. StoreTyped' /\ (~disturbed' => Undisturbed')
  BY <1>4 DEF SettingsInv, StoreTyped, Undisturbed
<1> QED
  BY <1>2, <1>3, <1>5 DEF SettingsInv

\* Runs keep what they were asked for.
LEMMA RunnersKept ==
  ASSUME SettingsInv, NEW u \in Runners,
         (\E r \in Asks : StartRun(u, r)) \/ LookUp(u) \/ Load(u) \/ Merge(u)
  PROVE  SettingsInv'
<1>0. /\ start[u] = [f \in RunFields |-> start[u][f]] /\ RunKept(start[u])
      /\ start = [w \in Runners |-> start[w]]
  BY DEF SettingsInv, RunsTyped
<1>1. ASSUME NEW r \in Asks, StartRun(u, r) PROVE SettingsInv'
  <2> DEFINE p == IF r.host = "cli" /\ Rejected(r) THEN "refused"
                  ELSE IF r.host = "cloud" /\ Looks(r) THEN "look" ELSE "build"
             v == [NoRun EXCEPT !.job = r, !.pc = p]
  <2>1. v = [f \in RunFields |-> v[f]] /\ v.job = r /\ v.pc = p
    BY DEF NoRun, RunFields
  <2>2. RunKept(v)
    BY <2>1 DEF RunKept, Engaged
  <2>3. start' = [start EXCEPT ![u] = v]
    BY <1>1 DEF StartRun
  <2>4. UNCHANGED <<home, index, stored, held, editing, disturbed>>
    BY <1>1 DEF StartRun
  <2> HIDE DEF v
  <2> QED
    BY <2>1, <2>2, <2>3, <2>4, RunnerStep
<1>2. ASSUME start[u].pc \in Engaged \ {"merge", "done"}, NEW v, v = [f \in RunFields |-> v[f]],
             v.job = start[u].job, v.pc # "done",
             start' = [start EXCEPT ![u] = v],
             UNCHANGED <<home, index, stored, held, editing, disturbed>>
      PROVE  SettingsInv'
  <2>1. RunKept(v)
    BY <1>0, <1>2 DEF RunKept
  <2> QED
    BY <1>2, <2>1, RunnerStep
<1>3. ASSUME start[u].pc \in Engaged \ {"merge", "done"}, NEW d, Missing(u) \/ Got(u, d),
             UNCHANGED <<home, index, stored, held, editing, disturbed>>
      PROVE  SettingsInv'
  <2>1. ASSUME NEW q, q # "done", start' = [start EXCEPT ![u].pc = q] PROVE SettingsInv'
    <3> DEFINE v == [start[u] EXCEPT !.pc = q]
    <3>1. v = [f \in RunFields |-> v[f]] /\ v.job = start[u].job /\ v.pc = q
      BY <1>0 DEF RunFields
    <3>2. start' = [start EXCEPT ![u] = v]
      BY <2>1
    <3> HIDE DEF v
    <3> QED
      BY <1>2, <1>3, <2>1, <3>1, <3>2
  <2>2. ASSUME NEW m, start' = [start EXCEPT ![u].pc = "build", ![u].mark = m] PROVE SettingsInv'
    <3> DEFINE v == [start[u] EXCEPT !.pc = "build", !.mark = m]
    <3>1. v = [f \in RunFields |-> v[f]] /\ v.job = start[u].job /\ v.pc = "build"
      BY <1>0 DEF RunFields
    <3>2. start' = [start EXCEPT ![u] = v]
      BY <1>0, <2>2
    <3> HIDE DEF v
    <3> QED
      BY <1>2, <1>3, <3>1, <3>2
  <2>3. ASSUME start' = [start EXCEPT ![u].pc = "merge", ![u].base = d] PROVE SettingsInv'
    <3> DEFINE v == [start[u] EXCEPT !.pc = "merge", !.base = d]
    <3>1. v = [f \in RunFields |-> v[f]] /\ v.job = start[u].job /\ v.pc = "merge"
      BY <1>0 DEF RunFields
    <3>2. start' = [start EXCEPT ![u] = v]
      BY <1>0, <2>3
    <3> HIDE DEF v
    <3> QED
      BY <1>2, <1>3, <3>1, <3>2
  <2>4. CASE Missing(u)
    <3>1. PICK q : q = IF start[u].pc \in {"look", "lookfile"} THEN "build" ELSE "refused"
      OBVIOUS
    <3>2. start' = [start EXCEPT ![u].pc = q] /\ q # "done"
      BY <2>4, <3>1 DEF Missing
    <3> QED
      BY <2>1, <3>2
  <2>5. CASE Got(u, d)
    BY <2>2, <2>3, <2>5 DEF Got
  <2> QED
    BY <1>3, <2>4, <2>5
<1>4. ASSUME LookUp(u) PROVE SettingsInv'
  <2>1. /\ start[u].pc \in Engaged \ {"merge", "done"}
        /\ UNCHANGED <<home, index, stored, held, editing, disturbed>>
    BY <1>4 DEF LookUp, Engaged
  <2>2. ASSUME NEW q, q \in {"lookfile", "buildfile"}, start' = [start EXCEPT ![u].pc = q]
        PROVE  SettingsInv'
    <3> DEFINE v == [start[u] EXCEPT !.pc = q]
    <3>1. v = [f \in RunFields |-> v[f]] /\ v.job = start[u].job /\ v.pc = q
      BY <1>0 DEF RunFields
    <3>2. start' = [start EXCEPT ![u] = v]
      BY <2>2
    <3> HIDE DEF v
    <3> QED
      BY <1>2, <2>1, <2>2, <3>1, <3>2
  <2>3. \/ \E d : Got(u, d)
        \/ Missing(u)
        \/ \E q \in {"lookfile", "buildfile"} : start' = [start EXCEPT ![u].pc = q]
    <3>1. \/ \E d : Got(u, d)
          \/ Missing(u)
          \/ start' = [start EXCEPT ![u].pc = IF @ = "look" THEN "lookfile" ELSE "buildfile"]
      BY <1>4 DEF LookUp
    <3> QED
      BY <3>1
  <2> QED
    BY <1>3, <2>1, <2>2, <2>3
<1>5. ASSUME Load(u) PROVE SettingsInv'
  <2>1. /\ start[u].pc \in Engaged \ {"merge", "done"}
        /\ UNCHANGED <<home, index, stored, held, editing, disturbed>>
    BY <1>5 DEF Load, Engaged
  <2>2. (\E d : Got(u, d)) \/ Missing(u)
    BY <1>5 DEF Load
  <2> QED
    BY <1>3, <2>1, <2>2
<1>6. ASSUME Merge(u) PROVE SettingsInv'
  <2>1. PICK r, b, m, w : /\ r = start[u].job /\ m = start[u].mark
                          /\ b = IF r.key \in PresetKeys THEN start[u].base[r.key] ELSE "unset"
                          /\ w = Filled(r, Effective(Enforced(r, m), b))
    OBVIOUS
  <2>2. /\ start[u].pc = "merge"
        /\ start' = [start EXCEPT ![u].pc = "done", ![u].value = w]
        /\ UNCHANGED <<home, index, stored, held, editing, disturbed>>
    BY <1>6, <2>1 DEF Merge
  <2>3. r \in Asks /\ ~(r.host = "cli" /\ Rejected(r))
    BY <1>0, <2>1, <2>2 DEF RunKept, Engaged
  <2> DEFINE v == [start[u] EXCEPT !.pc = "done", !.value = w]
  <2>4. v = [f \in RunFields |-> v[f]] /\ v.job = r /\ v.pc = "done" /\ v.value = w
    BY <1>0, <2>1 DEF RunFields
  <2>5. start' = [start EXCEPT ![u] = v]
    BY <1>0, <2>2
  <2> HIDE DEF v
  <2>6. DoneAsAsked(v)
    BY <2>1, <2>3, <2>4, MergedAsAsked DEF DoneAsAsked
  <2>7. RunKept(v)
    BY <2>3, <2>4, <2>6 DEF RunKept
  <2> QED
    BY <2>2, <2>4, <2>5, <2>7, RunnerStep
<1> QED
  BY <1>1, <1>4, <1>5, <1>6

\* An installer that steps leaves the runs alone.
LEMMA InstallerStep ==
  ASSUME SettingsInv, UNCHANGED start, StoreTyped', ~disturbed' => Undisturbed'
  PROVE  SettingsInv'
<1>1. RunsTyped' /\ \A u \in Runners : RunKept(start'[u])
  BY DEF SettingsInv, RunsTyped
<1> QED
  BY <1>1 DEF SettingsInv

\* An installer that enters is alone, or the store is disturbed.
LEMMA EnterKept ==
  ASSUME SettingsInv, NEW u \in Installers, NEW o \in EditRec, Enter(u, o),
         o.name \in Names,
         \/ o.pc = "write" /\ o.doc \in Document
         \/ o.pc = "unlink" /\ o.seen = index \ {o.name},
         UNCHANGED <<home, index, stored, start>>
  PROVE  SettingsInv'
<1>1. /\ editing[u].pc = "idle" /\ home[u] \notin held
      /\ editing' = [editing EXCEPT ![u] = o] /\ held' = held \cup {home[u]}
      /\ disturbed' = (disturbed \/ held # {})
  BY DEF Enter, Free
<1>2. \A w \in Installers : editing'[w] = IF w = u THEN o ELSE editing[w]
  BY <1>1 DEF SettingsInv, StoreTyped
<1>3. Busy' = Busy \cup {u} /\ u \notin Busy /\ Files' = Files
  BY <1>1, <1>2 DEF Busy, Files
<1>4. StoreTyped'
  BY <1>1, <1>2, <1>3 DEF SettingsInv, StoreTyped
<1>5. ASSUME ~disturbed' PROVE Undisturbed'
  <2>1. Undisturbed /\ held = {}
    BY <1>1, <1>5 DEF SettingsInv
  <2>2. Busy = {} /\ index = Files
    BY <2>1 DEF Undisturbed
  <2>3. Busy' = {u} /\ home'[u] \in held'
    BY <1>1, <1>3, <2>2
  <2>4. Halfway(u)'
    BY <1>2, <1>3, <2>2 DEF Halfway
  <2> QED
    BY <2>3, <2>4 DEF Undisturbed
<1> QED
  BY <1>4, <1>5, InstallerStep

\* A document that was fetched is installed, and an installed one uninstalled.
LEMMA OperationsEnter ==
  ASSUME SettingsInv, NEW u \in Installers,
         (\E n \in Names, c \in Sources : Install(u, n, c)) \/ (\E n \in Names : Uninstall(u, n))
  PROVE  SettingsInv'
<1>1. ASSUME NEW n \in Names, NEW c \in Sources, Install(u, n, c) PROVE SettingsInv'
  <2> DEFINE o == [pc |-> "write", name |-> n, doc |-> c.doc, seen |-> {}]
  <2>1. c \in Source
    BY SettingsAssumption
  <2>2. c.doc \in Document
    BY <2>1 DEF Source
  <2>3. o \in EditRec /\ o.name \in Names /\ o.pc = "write" /\ o.doc \in Document
    BY <2>2 DEF EditRec, EditPcs
  <2>4. Enter(u, o) /\ UNCHANGED <<home, index, stored, start>>
    BY <1>1 DEF Install, Enter
  <2> QED
    BY <2>3, <2>4, EnterKept
<1>2. ASSUME NEW n \in Names, Uninstall(u, n) PROVE SettingsInv'
  <2> DEFINE o == [pc |-> "unlink", name |-> n, doc |-> NoDoc, seen |-> index \ {n}]
  <2>1. index \in SUBSET Names
    BY DEF SettingsInv, StoreTyped
  <2>2. o \in EditRec /\ o.name \in Names /\ o.pc = "unlink" /\ o.seen = index \ {o.name}
    BY <2>1 DEF EditRec, EditPcs
  <2>3. Enter(u, o) /\ UNCHANGED <<home, index, stored, start>>
    BY <1>2 DEF Uninstall, Enter
  <2> QED
    BY <2>2, <2>3, EnterKept
<1> QED
  BY <1>1, <1>2

\* Inside the lock a step goes on from what the one before it left.
LEMMA InsideKept ==
  ASSUME SettingsInv, NEW u \in Installers, WriteFile(u) \/ ReadIndex(u) \/ UnlinkPreset(u)
  PROVE  SettingsInv'
<1>1. PICK o : o = editing'[u]
  OBVIOUS
<1>2. /\ editing' = [editing EXCEPT ![u] = o] /\ u \in Busy
      /\ UNCHANGED <<home, index, held, start, disturbed>>
      /\ o.pc \in {"read", "save"} /\ o \in EditRec /\ o.name = editing[u].name
      /\ stored' \in [Names -> Document \cup {NoDoc}]
  <2>0. editing[u] \in EditRec /\ editing = [w \in Installers |-> editing[w]]
        /\ index \in SUBSET Names /\ stored \in [Names -> Document \cup {NoDoc}]
    BY DEF SettingsInv, StoreTyped
  <2>1. CASE WriteFile(u)
    <3>1. /\ editing' = [editing EXCEPT ![u] = [@ EXCEPT !.pc = "read"]] /\ editing[u].pc = "write"
          /\ UNCHANGED <<home, index, held, start, disturbed>>
          /\ stored' = [stored EXCEPT ![editing[u].name] = editing[u].doc]
      BY <2>1 DEF WriteFile
    <3>2. o = [editing[u] EXCEPT !.pc = "read"] /\ editing[u].doc \in Document
      BY <1>1, <2>0, <3>1 DEF SettingsInv, StoreTyped, Busy
    <3>3. o \in EditRec /\ o.name = editing[u].name /\ o.pc = "read"
      BY <2>0, <3>2 DEF EditRec, EditPcs
    <3> QED
      BY <2>0, <3>1, <3>2, <3>3 DEF Busy
  <2>2. CASE ReadIndex(u)
    <3>1. /\ editing' = [editing EXCEPT ![u] =
                 [@ EXCEPT !.pc = "save", !.seen = index \cup {editing[u].name}]]
          /\ editing[u].pc = "read" /\ UNCHANGED <<home, index, held, start, disturbed, stored>>
      BY <2>0, <2>2 DEF ReadIndex
    <3>2. o = [editing[u] EXCEPT !.pc = "save", !.seen = index \cup {editing[u].name}]
      BY <1>1, <2>0, <3>1
    <3>3. editing[u].name \in Names
      BY <3>1 DEF SettingsInv, StoreTyped, Busy
    <3>4. o \in EditRec /\ o.name = editing[u].name /\ o.pc = "save"
      BY <2>0, <3>2, <3>3 DEF EditRec, EditPcs
    <3> QED
      BY <2>0, <3>1, <3>2, <3>4 DEF Busy
  <2>3. CASE UnlinkPreset(u)
    <3>1. /\ editing' = [editing EXCEPT ![u] = [@ EXCEPT !.pc = "save"]] /\ editing[u].pc = "unlink"
          /\ UNCHANGED <<home, index, held, start, disturbed>>
          /\ stored' = [stored EXCEPT ![editing[u].name] = NoDoc]
      BY <2>3 DEF UnlinkPreset
    <3>2. o = [editing[u] EXCEPT !.pc = "save"]
      BY <1>1, <2>0, <3>1
    <3>3. o \in EditRec /\ o.name = editing[u].name /\ o.pc = "save"
      BY <2>0, <3>2 DEF EditRec, EditPcs
    <3> QED
      BY <2>0, <3>1, <3>2, <3>3 DEF Busy
  <2> QED
    BY <2>1, <2>2, <2>3
<1>3. \A w \in Installers : editing'[w] = IF w = u THEN o ELSE editing[w]
  BY <1>2 DEF SettingsInv, StoreTyped
<1>4. Busy' = Busy
  BY <1>2, <1>3 DEF Busy
<1>5. StoreTyped'
  BY <1>2, <1>3, <1>4 DEF SettingsInv, StoreTyped
<1>6. ASSUME Undisturbed PROVE Halfway(u)'
  <2>0. Halfway(u) /\ stored = [n \in Names |-> stored[n]]
    BY <1>2, <1>6 DEF Undisturbed, SettingsInv, StoreTyped
  <2>1. CASE WriteFile(u)
    <3>1. editing[u].pc = "write" /\ editing'[u].pc = "read" /\ index' = index /\ index = Files
      BY <2>0, <2>1, <1>2, <1>3 DEF WriteFile, Halfway, SettingsInv, StoreTyped, EditRec
    <3>2. editing[u].doc # NoDoc /\ editing[u].name \in Names
      BY <1>2, <3>1, DocumentThere DEF SettingsInv, StoreTyped
    <3>3. Files' = Files \cup {editing[u].name}
      BY <2>0, <2>1, <3>2 DEF WriteFile, Files
    <3> QED
      BY <1>2, <1>3, <3>1, <3>3 DEF Halfway
  <2>2. CASE ReadIndex(u)
    <3>1. /\ editing[u].pc = "read" /\ editing'[u].pc = "save" /\ Files' = Files
          /\ editing'[u].seen = index \cup {editing[u].name}
      BY <2>2, <1>2, <1>3 DEF ReadIndex, Files, SettingsInv, StoreTyped, EditRec
    <3> QED
      BY <2>0, <3>1 DEF Halfway
  <2>3. CASE UnlinkPreset(u)
    <3>1. /\ editing[u].pc = "unlink" /\ editing'[u].pc = "save"
          /\ editing'[u].seen = editing[u].seen
      BY <2>3, <1>2, <1>3 DEF UnlinkPreset, SettingsInv, StoreTyped, EditRec
    <3>2. Files' = Files \ {editing[u].name}
      BY <2>0, <2>3, <1>2 DEF UnlinkPreset, Files, SettingsInv, StoreTyped
    <3> QED
      BY <2>0, <3>1, <3>2 DEF Halfway
  <2> QED
    BY <2>1, <2>2, <2>3
<1>7. ASSUME ~disturbed' PROVE Undisturbed'
  <2>1. Undisturbed
    BY <1>2, <1>7 DEF SettingsInv
  <2>2. Busy = {u}
    BY <1>2, <2>1 DEF Undisturbed
  <2> QED
    BY <1>2, <1>4, <1>6, <2>1, <2>2 DEF Undisturbed
<1> QED
  BY <1>2, <1>5, <1>7, InstallerStep

\* An operation that ends leaves names and files in agreement, one that fails disturbs.
LEMMA LeavesKept ==
  ASSUME SettingsInv, NEW u \in Installers, SaveIndex(u) \/ Fails(u)
  PROVE  SettingsInv'
<1>1. /\ editing' = [editing EXCEPT ![u] = NoOp] /\ u \in Busy
      /\ UNCHANGED <<home, stored, start>>
      /\ \/ SaveIndex(u) /\ index' = editing[u].seen /\ editing[u].pc = "save" /\ disturbed' = disturbed
         \/ Fails(u) /\ index' = index /\ disturbed' = TRUE
  BY DEF SaveIndex, Fails, Busy
<1>2. NoOp \in EditRec /\ NoOp.pc = "idle"
  BY DEF NoOp, EditRec, EditPcs
<1>3. \A w \in Installers : editing'[w] = IF w = u THEN NoOp ELSE editing[w]
  BY <1>1 DEF SettingsInv, StoreTyped
<1>4. Busy' = Busy \ {u} /\ Files' = Files
  BY <1>1, <1>2, <1>3 DEF Busy, Files
<1>5. index' \in SUBSET Names
  <2>1. editing[u].seen \in SUBSET Names /\ index \in SUBSET Names
    BY DEF SettingsInv, StoreTyped, EditRec
  <2> QED
    BY <1>1, <2>1
<1>6. StoreTyped'
  BY <1>1, <1>2, <1>3, <1>4, <1>5 DEF SettingsInv, StoreTyped
<1>7. ASSUME ~disturbed' PROVE Undisturbed'
  <2>1. Undisturbed /\ index' = editing[u].seen /\ editing[u].pc = "save"
    BY <1>1, <1>7 DEF SettingsInv
  <2>2. Busy' = {} /\ index' = Files'
    BY <1>1, <1>4, <2>1 DEF Undisturbed, Halfway
  <2> QED
    BY <2>2 DEF Undisturbed
<1> QED
  BY <1>1, <1>6, <1>7, InstallerStep

\* Whatever is installed, replaced or removed while runs begin: an explicit request wins
\* over every preset, a plan over every request, and undisturbed names have files.
THEOREM SettingsHold == SettingsSpec => []SettingsSound
<1>1. SettingsInit => SettingsInv
  <2> SUFFICES ASSUME SettingsInit PROVE SettingsInv
    OBVIOUS
  <2>1. RunsTyped /\ \A u \in Runners : RunKept(start[u])
    <3>1. NoRun = [f \in RunFields |-> NoRun[f]] /\ NoRun.pc = "idle"
      BY DEF NoRun, RunFields
    <3>2. start = [u \in Runners |-> NoRun]
      BY DEF SettingsInit
    <3>3. RunKept(NoRun)
      BY <3>1 DEF RunKept, Engaged
    <3> QED
      BY <3>1, <3>2, <3>3 DEF RunsTyped
  <2>2. NoOp \in EditRec /\ NoOp.pc = "idle"
    BY DEF NoOp, EditRec, EditPcs
  <2>3. Busy = {} /\ Files = {}
    BY <2>2 DEF SettingsInit, Busy, Files
  <2>4. StoreTyped /\ Undisturbed
    BY <2>2, <2>3 DEF SettingsInit, StoreTyped, Undisturbed
  <2> QED
    BY <2>1, <2>4 DEF SettingsInv
<1>2. SettingsInv /\ [SettingsNext]_jvars => SettingsInv'
  <2> SUFFICES ASSUME SettingsInv, [SettingsNext]_jvars PROVE SettingsInv'
    OBVIOUS
  <2>1. CASE UNCHANGED jvars
    BY <2>1 DEF jvars, SettingsInv, RunsTyped, StoreTyped, Undisturbed, Busy, Files, Halfway
  <2> QED
    BY <2>1, OperationsEnter, InsideKept, LeavesKept, RunnersKept DEF SettingsNext
<1>3. SettingsInv => SettingsSound
  BY DEF SettingsInv, SettingsSound, IndexBacked, AskedIsDone, EncoderEnforced, Done,
         RunKept, DoneAsAsked, Undisturbed, Busy, Files
<1> QED
  BY <1>1, <1>2, <1>3, PTL DEF SettingsSpec

-----------------------------------------------------------------------------
\* The media cache: a URL gets its own content, and the cache fits its cap again

\* The values of a function on a finite set are finitely many.
LEMMA ImageFinite ==
  ASSUME NEW S, IsFiniteSet(S), NEW g, DOMAIN g = S, g = [x \in S |-> g[x]]
  PROVE  IsFiniteSet({g[x] : x \in S})
<1>1. g \in Surjection(S, {g[x] : x \in S})
  BY DEF Surjection
<1> QED
  BY <1>1, FS_Surjection

\* A list of a finite set that repeats nothing has each of its elements.
LEMMA Listed ==
  ASSUME NEW S, IsFiniteSet(S), NEW q \in [1..Cardinality(S) -> S],
         \A i, j \in DOMAIN q : i < j => q[i] # q[j]
  PROVE  /\ q \in Seq(S) /\ Len(q) = Cardinality(S) /\ Cardinality(S) \in Nat
         /\ \A x \in S : \E i \in 1..Len(q) : q[i] = x
         /\ \A i, j \in 1..Len(q) : i # j => q[i] # q[j]
<1>1. Cardinality(S) \in Nat
  BY FS_CardinalityType
<1>2. q \in Seq(S) /\ Len(q) = Cardinality(S) /\ DOMAIN q = 1..Len(q)
  BY <1>1
<1>3. \A i, j \in 1..Len(q) : i # j => q[i] # q[j]
  <2>1. ASSUME NEW i \in 1..Len(q), NEW j \in 1..Len(q), i # j PROVE q[i] # q[j]
    <3>1. i < j \/ j < i
      BY <1>1, <1>2, <2>1
    <3> QED
      BY <1>2, <3>1
  <2> QED
    BY <2>1
<1>4. q \in Injection(1..Cardinality(S), S)
  BY <1>2, <1>3 DEF Injection, IsInjective
<1>5. Cardinality(1..Cardinality(S)) = Cardinality(S)
  BY <1>1, FS_Interval
<1>6. q \in Surjection(1..Cardinality(S), S)
  BY <1>4, <1>5, FS_Injection
<1> QED
  BY <1>1, <1>2, <1>3, <1>6 DEF Surjection

\* There are finitely many blobs.
LEMMA BlobsFinite == IsFiniteSet(Blobs)
<1> DEFINE g == [u \in Links |-> ExtOf[u]]
<1>1. IsFiniteSet({g[u] : u \in Links})
  <2>1. IsFiniteSet(Links) /\ DOMAIN g = Links /\ g = [u \in Links |-> g[u]]
    BY MediaAssumption
  <2> HIDE DEF g
  <2> QED
    BY <2>1, ImageFinite
<1>2. Exts = {g[u] : u \in Links}
  BY DEF Exts
<1> QED
  BY <1>1, <1>2, MediaAssumption, FS_Product DEF Blobs

\* The bytes of a blob are counted once, those of none are none.
LEMMA BytesAdd ==
  ASSUME NEW S \in SUBSET Blobs
  PROVE  /\ SumBytes(S) \in Nat /\ (S = {} => SumBytes(S) = 0)
         /\ \A T \in SUBSET S : SumBytes(T) \in Nat /\ SumBytes(T) <= SumBytes(S)
         /\ \A b \in S : /\ Bytes[b[1]] \in Nat
                         /\ SumBytes(S \ {b}) = SumBytes(S) - Bytes[b[1]]
<1> DEFINE part(b) == {b} \X (1..Bytes[b[1]])
           all(T) == UNION {part(b) : b \in T}
<1>1. ASSUME NEW b \in Blobs
      PROVE  /\ Bytes[b[1]] \in Nat /\ IsFiniteSet(part(b)) /\ Cardinality(part(b)) = Bytes[b[1]]
  <2>1. PICK n \in Nat : n = Bytes[b[1]]
    BY MediaAssumption DEF Blobs
  <2>2. IsFiniteSet({b}) /\ Cardinality({b}) = 1
    BY FS_Singleton
  <2>3. IsFiniteSet(1..n) /\ Cardinality(1..n) = n
    BY FS_Interval
  <2>4. IsFiniteSet({b} \X (1..n)) /\ Cardinality({b} \X (1..n)) = 1 * n
    BY <2>2, <2>3, FS_Product
  <2> QED
    BY <2>1, <2>4
<1>2. ASSUME NEW T \in SUBSET Blobs PROVE IsFiniteSet(all(T))
  <2> DEFINE g == [b \in T |-> part(b)]
  <2>1. IsFiniteSet(T)
    BY BlobsFinite, FS_Subset
  <2>2. IsFiniteSet({g[b] : b \in T})
    <3>1. DOMAIN g = T /\ g = [b \in T |-> g[b]]
      OBVIOUS
    <3> HIDE DEF g
    <3> QED
      BY <2>1, <3>1, ImageFinite
  <2>3. {g[b] : b \in T} = {part(b) : b \in T}
    OBVIOUS
  <2>4. \A p \in {part(b) : b \in T} : IsFiniteSet(p)
    BY <1>1
  <2> HIDE DEF part, g
  <2> QED
    BY <2>2, <2>3, <2>4, FS_UNION
<1>3. ASSUME NEW T \in SUBSET Blobs PROVE SumBytes(T) = Cardinality(all(T)) /\ SumBytes(T) \in Nat
  BY <1>2, FS_CardinalityType DEF SumBytes
<1>4. ASSUME S = {} PROVE SumBytes(S) = 0
  <2>1. all(S) = {}
    BY <1>4
  <2> QED
    BY <1>3, <2>1, FS_EmptySet
<1>5. ASSUME NEW T \in SUBSET S PROVE SumBytes(T) \in Nat /\ SumBytes(T) <= SumBytes(S)
  <2>1. all(T) \in SUBSET all(S) /\ IsFiniteSet(all(S)) /\ T \in SUBSET Blobs
    BY <1>2
  <2>2. Cardinality(all(T)) <= Cardinality(all(S))
    <3> HIDE DEF all, part
    <3> QED
      BY <2>1, FS_Subset
  <2>3. /\ SumBytes(T) = Cardinality(all(T)) /\ SumBytes(T) \in Nat
        /\ SumBytes(S) = Cardinality(all(S))
    BY <1>3, <2>1
  <2> QED
    BY <2>2, <2>3
<1>6. ASSUME NEW b \in S
      PROVE  Bytes[b[1]] \in Nat /\ SumBytes(S \ {b}) = SumBytes(S) - Bytes[b[1]]
  <2>1. all(S) = all(S \ {b}) \cup part(b)
    OBVIOUS
  <2>2. all(S \ {b}) \cap part(b) = {}
    OBVIOUS
  <2>3. IsFiniteSet(all(S \ {b})) /\ IsFiniteSet(part(b)) /\ Cardinality(part(b)) = Bytes[b[1]]
        /\ Bytes[b[1]] \in Nat /\ Cardinality(all(S \ {b})) \in Nat
    BY <1>1, <1>2, <1>3
  <2>4. Cardinality(all(S)) = Cardinality(all(S \ {b})) + Cardinality(part(b)) - Cardinality({})
    <3> HIDE DEF all, part
    <3> QED
      BY <2>1, <2>2, <2>3, FS_Union
  <2>5. Cardinality({}) = 0
    BY FS_EmptySet
  <2>6. /\ SumBytes(S \ {b}) = Cardinality(all(S \ {b})) /\ SumBytes(S \ {b}) \in Nat
        /\ SumBytes(S) = Cardinality(all(S))
    <3>1. S \ {b} \in SUBSET Blobs
      OBVIOUS
    <3> QED
      BY <1>3, <3>1
  <2> HIDE DEF all, part
  <2> QED
    BY <2>3, <2>4, <2>5, <2>6
<1> QED
  BY <1>3, <1>4, <1>5, <1>6


FetchFields == {"pc", "url", "content", "ext", "entry", "mtime", "names", "evicting",
                "total"}
FetchPcs == {"idle", "download", "dedupe", "refresh", "store", "sidecar", "evict", "stat", "sort",
             "unlink", "end", "done", "raised"}
Keeping == {"sidecar", "evict", "stat", "sort", "unlink"}
Holding == {"dedupe", "refresh", "store", "sidecar", "evict", "stat", "sort", "unlink", "end",
            "done"}

\* what a sidecar says of a content is true
Provenance(c, e) == e = [k \in {"url", "ext", "at"} |-> e[k]] /\ e.url \in Links /\ c \in Serves[e.url]

\* a thread that holds a content holds one its URL has served
FetcherKept(v) ==
  /\ v = [k \in FetchFields |-> v[k]] /\ v.pc \in FetchPcs
  /\ v.pc \in Holding \cup {"download"} => v.url \in Links
  /\ v.pc \in Holding => v.content \in Contents /\ v.content \in Serves[v.url]
  /\ v.pc = "refresh" => Provenance(v.content, v.entry)
  /\ v.names \subseteq Blobs /\ v.evicting \in Seq(Blobs) /\ v.total \in Int

\* whoever listed the blobs last has all that are there on its list, and no fewer bytes
Evicting(v) ==
  \/ v.pc = "stat" /\ Present \subseteq v.names
  \/ v.pc = "sort" /\ Present \subseteq v.names /\ SumBytes(Present) <= v.total
  \/ /\ v.pc = "unlink" /\ SumBytes(Present) <= v.total
     /\ \A b \in Present : \E i \in 1..Len(v.evicting) : v.evicting[i] = b

\* the cap is owed by who has stored or listed, or it is kept, or an eviction gave up
CapKept ==
  \/ abandoned
  \/ \E f \in Fetchers : fetcher[f].pc \in {"sidecar", "evict"}
  \/ SumBytes(Present) <= CacheBytes
  \/ \E f \in Fetchers : Evicting(fetcher[f])

CacheInv ==
  /\ fetcher = [f \in Fetchers |-> fetcher[f]] /\ \A f \in Fetchers : FetcherKept(fetcher[f])
  /\ sidecar = [c \in Contents |-> sidecar[c]]
  /\ \A c \in Contents : sidecar[c] = None \/ Provenance(c, sidecar[c])
  /\ blob = [b \in Blobs |-> blob[b]]
  /\ CapKept

\* What one thread does keeps the invariant if what it becomes, the sidecars and the
\* cap are as they should be.
LEMMA ThreadKept ==
  ASSUME CacheInv, NEW f \in Fetchers, NEW v, FetcherKept(v), fetcher' = [fetcher EXCEPT ![f] = v],
         sidecar' = [c \in Contents |-> sidecar'[c]],
         \A c \in Contents : sidecar'[c] = None \/ Provenance(c, sidecar'[c]),
         blob' = [b \in Blobs |-> blob'[b]], CapKept'
  PROVE  CacheInv'
<1>1. /\ fetcher' = [g \in Fetchers |-> fetcher'[g]]
      /\ \A g \in Fetchers : fetcher'[g] = IF g = f THEN v ELSE fetcher[g]
  BY DEF CacheInv
<1>2. \A g \in Fetchers : FetcherKept(fetcher'[g])
  BY <1>1 DEF CacheInv
<1>3. \A g \in Fetchers : FetcherKept(fetcher[g])'
  BY <1>2 DEF FetcherKept, Provenance
<1>4. \A c \in Contents : (sidecar[c] = None \/ Provenance(c, sidecar[c]))'
  BY DEF Provenance
<1> QED
  BY <1>1, <1>3, <1>4 DEF CacheInv

\* A thread that neither stores nor evicts, and under which no blob appears, leaves
\* the cap as it was.
LEMMA AsideKept ==
  ASSUME CacheInv, NEW f \in Fetchers, NEW v, FetcherKept(v), fetcher' = [fetcher EXCEPT ![f] = v],
         fetcher[f].pc \notin Keeping,
         sidecar' = [c \in Contents |-> sidecar'[c]],
         \A c \in Contents : sidecar'[c] = None \/ Provenance(c, sidecar'[c]),
         blob' = [b \in Blobs |-> blob'[b]], Present' \subseteq Present, abandoned' = abandoned
  PROVE  CacheInv'
<1>1. \A g \in Fetchers : g # f => fetcher'[g] = fetcher[g]
  BY DEF CacheInv
<1>2. SumBytes(Present') \in Nat /\ SumBytes(Present) \in Nat /\ SumBytes(Present') <= SumBytes(Present)
  BY BytesAdd DEF Present
<1>3. SumBytes(Present)' = SumBytes(Present')
  BY DEF SumBytes
<1>4. CacheBytes \in Nat
  BY MediaAssumption
<1>5. CapKept'
  <2>1. ASSUME NEW g \in Fetchers, fetcher[g].pc \in {"sidecar", "evict"} PROVE CapKept'
    BY <1>1, <2>1 DEF CapKept, Keeping
  <2>2. ASSUME SumBytes(Present) <= CacheBytes PROVE CapKept'
    BY <1>2, <1>3, <1>4, <2>2 DEF CapKept
  <2>3. ASSUME NEW g \in Fetchers, Evicting(fetcher[g]) PROVE CapKept'
    <3>1. fetcher'[g] = fetcher[g] /\ fetcher[g].total \in Int
      BY <1>1, <2>3 DEF Evicting, CacheInv, FetcherKept, Keeping
    <3>2. Evicting(fetcher[g])'
      BY <1>2, <1>3, <2>3, <3>1 DEF Evicting
    <3> QED
      BY <3>2 DEF CapKept
  <2>4. ASSUME abandoned PROVE CapKept'
    BY <2>4 DEF CapKept
  <2> QED
    BY <2>1, <2>2, <2>3, <2>4 DEF CacheInv, CapKept
<1> QED
  BY <1>5, ThreadKept


\* An entry that was there is served; without one the URL is downloaded.
LEMMA LookupKept ==
  ASSUME CacheInv, NEW f \in Fetchers, NEW u \in Links, FindByUrl(f, u)
  PROVE  CacheInv'
<1>0. PICK x : x = fetcher[f] /\ FetcherKept(x)
  BY DEF CacheInv
<1>1. /\ x.pc = "idle"
      /\ sidecar' = [c \in Contents |-> IF c \in Dead(u) THEN None ELSE sidecar[c]]
      /\ blob' = [b \in Blobs |-> IF b[1] \in Dead(u) /\ Old(sidecar[b[1]])
                                    /\ b[2] = sidecar[b[1]].ext THEN 0 ELSE blob[b]]
  BY <1>0 DEF FindByUrl
<1>2. /\ sidecar' = [c \in Contents |-> sidecar'[c]]
      /\ \A c \in Contents : sidecar'[c] = None \/ Provenance(c, sidecar'[c])
  BY <1>1 DEF CacheInv
<1>3. blob' = [b \in Blobs |-> blob'[b]] /\ Present' \subseteq Present
  <2>1. \A b \in Blobs : blob'[b] = 0 \/ blob'[b] = blob[b]
    BY <1>1
  <2>2. ~(0 > 0)
    OBVIOUS
  <2> QED
    BY <1>1, <2>1, <2>2 DEF Present
<1>4. ASSUME NEW v, FetcherKept(v), fetcher' = [fetcher EXCEPT ![f] = v] PROVE CacheInv'
  <2>1. x.pc \notin Keeping /\ abandoned' = abandoned
    BY <1>1 DEF Keeping, FindByUrl
  <2> QED
    BY <1>0, <1>1, <1>2, <1>3, <1>4, <2>1, AsideKept
<1>5. CASE Live(u) = {}
  <2> DEFINE v == [x EXCEPT !.pc = "download", !.url = u]
  <2>1. fetcher' = [fetcher EXCEPT ![f] = v]
    BY <1>0, <1>5 DEF FindByUrl, CacheInv
  <2>2. /\ v = [k \in FetchFields |-> v[k]] /\ v.pc = "download" /\ v.url = u
        /\ v.names = x.names /\ v.evicting = x.evicting /\ v.total = x.total
    BY <1>0 DEF FetcherKept, FetchFields
  <2> HIDE DEF v
  <2>3. FetcherKept(v)
    BY <1>0, <2>2 DEF FetcherKept, FetchPcs, Holding
  <2> QED
    BY <1>4, <2>1, <2>3
<1>6. CASE Live(u) # {}
  <2>1. PICK c \in Live(u) : fetcher' = [fetcher EXCEPT ![f] =
            [@ EXCEPT !.pc = "refresh", !.url = u, !.content = c, !.ext = sidecar[c].ext,
                      !.entry = sidecar[c]]]
    BY <1>6 DEF FindByUrl
  <2>2. PICK d : d = sidecar[c]
    OBVIOUS
  <2>3. c \in Contents /\ d.url = u
    BY <2>2 DEF Live
  <2>4. d # None
    BY <2>3, MediaAssumption DEF None
  <2>5. Provenance(c, d) /\ c \in Serves[u]
    BY <2>2, <2>3, <2>4 DEF CacheInv, Provenance
  <2> DEFINE v == [x EXCEPT !.pc = "refresh", !.url = u, !.content = c, !.ext = d.ext, !.entry = d]
  <2>6. fetcher' = [fetcher EXCEPT ![f] = v]
    BY <1>0, <2>1, <2>2 DEF CacheInv
  <2>7. /\ v = [k \in FetchFields |-> v[k]] /\ v.pc = "refresh" /\ v.url = u /\ v.content = c
        /\ v.entry = d /\ v.names = x.names /\ v.evicting = x.evicting /\ v.total = x.total
    BY <1>0 DEF FetcherKept, FetchFields
  <2> HIDE DEF v
  <2>8. FetcherKept(v)
    BY <1>0, <2>3, <2>5, <2>7 DEF FetcherKept, FetchPcs, Holding
  <2> QED
    BY <1>4, <2>6, <2>8
<1> QED
  BY <1>5, <1>6

\* An error, or an answer, and the thread may begin again.
LEMMA ResignKept ==
  ASSUME CacheInv, NEW f \in Fetchers,
         \/ \E u \in Links : Refuse(f, u)
         \/ DownloadFails(f) \/ StoreFails(f) \/ Return(f)
  PROVE  CacheInv'
<1>0. PICK x : x = fetcher[f] /\ FetcherKept(x)
  BY DEF CacheInv
<1>1. ASSUME NEW v, FetcherKept(v), fetcher' = [fetcher EXCEPT ![f] = v],
             x.pc \notin Keeping, UNCHANGED <<blob, sidecar, abandoned>>
      PROVE  CacheInv'
  BY <1>0, <1>1, AsideKept DEF CacheInv, Present
<1>2. ASSUME fetcher' = [fetcher EXCEPT ![f].pc = "raised"],
             x.pc \notin Keeping, UNCHANGED <<blob, sidecar, abandoned>>
      PROVE  CacheInv'
  <2> DEFINE v == [x EXCEPT !.pc = "raised"]
  <2>1. fetcher' = [fetcher EXCEPT ![f] = v]
    BY <1>0, <1>2 DEF CacheInv
  <2>2. /\ v = [k \in FetchFields |-> v[k]] /\ v.pc = "raised"
        /\ v.names = x.names /\ v.evicting = x.evicting /\ v.total = x.total
    BY <1>0 DEF FetcherKept, FetchFields
  <2> HIDE DEF v
  <2>3. FetcherKept(v)
    BY <1>0, <2>2 DEF FetcherKept, FetchPcs, Holding
  <2> QED
    BY <1>1, <1>2, <2>1, <2>3
<1>3. ASSUME NEW u \in Links, Refuse(f, u) PROVE CacheInv'
  BY <1>0, <1>2, <1>3 DEF Refuse, Keeping
<1>4. ASSUME DownloadFails(f) PROVE CacheInv'
  BY <1>0, <1>2, <1>4 DEF DownloadFails, Keeping
<1>5. ASSUME StoreFails(f) PROVE CacheInv'
  BY <1>0, <1>2, <1>5 DEF StoreFails, Keeping
<1>6. ASSUME Return(f) PROVE CacheInv'
  <2>1. /\ Resting = [k \in FetchFields |-> Resting[k]] /\ Resting.pc = "idle"
        /\ Resting.names = {} /\ Resting.evicting = <<>> /\ Resting.total = 0
    BY DEF Resting, FetchFields
  <2>2. Resting.evicting \in Seq(Blobs) /\ Resting.total \in Int
    <3>1. <<>> \in Seq(Blobs) /\ 0 \in Int
      BY EmptySeq
    <3> QED
      BY <2>1, <3>1, Zenon
  <2>3. FetcherKept(Resting)
    BY <2>1, <2>2 DEF FetcherKept, FetchPcs, Holding
  <2> QED
    BY <1>0, <1>1, <1>6, <2>3 DEF Return, Keeping
<1> QED
  BY <1>3, <1>4, <1>5, <1>6


\* A sidecar that is written says what is true.
LEMMA SidecarWritten ==
  ASSUME CacheInv, NEW c \in Contents, NEW e, Provenance(c, e), WriteSidecar(c, e)
  PROVE  /\ sidecar' = [d \in Contents |-> sidecar'[d]]
         /\ \A d \in Contents : sidecar'[d] = None \/ Provenance(d, sidecar'[d])
<1> DEFINE w == [e EXCEPT !.at = now]
<1>1. Provenance(c, w)
  <2>1. w = [k \in {"url", "ext", "at"} |-> w[k]] /\ w.url = e.url
    BY DEF Provenance
  <2> HIDE DEF w
  <2> QED
    BY <2>1 DEF Provenance
<1>2. CASE sidecar' = [sidecar EXCEPT ![c] = w]
  <2> HIDE DEF w
  <2>1. \A d \in Contents : sidecar'[d] = IF d = c THEN w ELSE sidecar[d]
    BY <1>2 DEF CacheInv
  <2> QED
    BY <1>1, <1>2, <2>1 DEF CacheInv
<1>3. CASE UNCHANGED sidecar
  BY <1>3 DEF CacheInv
<1> QED
  BY <1>2, <1>3 DEF WriteSidecar

\* What is downloaded is what the URL has served.
LEMMA DownloadKept ==
  ASSUME CacheInv, NEW f \in Fetchers, NEW c \in Contents, Download(f, c)
  PROVE  CacheInv'
<1>0. PICK x : x = fetcher[f] /\ FetcherKept(x)
  BY DEF CacheInv
<1>1. x.pc = "download" /\ c \in Serves[x.url] /\ UNCHANGED <<blob, sidecar, abandoned>>
      /\ x.pc \notin Keeping
  BY <1>0 DEF Download, Keeping
<1>2. ASSUME NEW v, FetcherKept(v), fetcher' = [fetcher EXCEPT ![f] = v] PROVE CacheInv'
  BY <1>0, <1>1, <1>2, AsideKept DEF CacheInv, Present
<1>3. CASE Bytes[c] > EntryBytes
  <2> DEFINE v == [x EXCEPT !.pc = "raised"]
  <2>1. fetcher' = [fetcher EXCEPT ![f] = v]
    BY <1>0, <1>3 DEF Download, CacheInv
  <2>2. /\ v = [k \in FetchFields |-> v[k]] /\ v.pc = "raised"
        /\ v.names = x.names /\ v.evicting = x.evicting /\ v.total = x.total
    BY <1>0 DEF FetcherKept, FetchFields
  <2> HIDE DEF v
  <2>3. FetcherKept(v)
    BY <1>0, <2>2 DEF FetcherKept, FetchPcs, Holding
  <2> QED
    BY <1>2, <2>1, <2>3
<1>4. CASE ~(Bytes[c] > EntryBytes)
  <2>1. PICK m, e : /\ e = ExtOf[x.url]
                    /\ m = 1 + Max({blob[b] : b \in Blobs} \cup {fetcher[g].mtime : g \in Fetchers})
    OBVIOUS
  <2> DEFINE v == [x EXCEPT !.pc = "dedupe", !.content = c, !.ext = e, !.mtime = m]
  <2>2. fetcher' = [fetcher EXCEPT ![f] = [@ EXCEPT !.pc = "dedupe", !.content = c,
                      !.ext = ExtOf[fetcher[f].url],
                      !.mtime = 1 + Max({blob[b] : b \in Blobs}
                                          \cup {fetcher[g].mtime : g \in Fetchers})]]
    BY <1>4 DEF Download
  <2>3. fetcher' = [fetcher EXCEPT ![f] = v]
    BY <1>0, <2>1, <2>2 DEF CacheInv
  <2>4. /\ v = [k \in FetchFields |-> v[k]] /\ v.pc = "dedupe" /\ v.url = x.url /\ v.content = c
        /\ v.names = x.names /\ v.evicting = x.evicting /\ v.total = x.total
    BY <1>0 DEF FetcherKept, FetchFields
  <2> HIDE DEF v
  <2>5. FetcherKept(v)
    BY <1>0, <1>1, <2>4 DEF FetcherKept, FetchPcs, Holding
  <2> QED
    BY <1>2, <2>3, <2>5
<1> QED
  BY <1>3, <1>4

\* Content that is there gets a new sidecar, of other content the sidecar is removed.
LEMMA DedupeKept ==
  ASSUME CacheInv, NEW f \in Fetchers, Dedupe(f)
  PROVE  CacheInv'
<1>0. PICK x, c, d : x = fetcher[f] /\ FetcherKept(x) /\ c = x.content /\ d = sidecar[c]
  BY DEF CacheInv
<1>1. /\ x.pc = "dedupe" /\ UNCHANGED <<blob, abandoned>> /\ x.pc \notin Keeping
      /\ c \in Contents /\ x.url \in Links /\ c \in Serves[x.url]
  BY <1>0 DEF Dedupe, FetcherKept, Holding, Keeping
<1>2. ASSUME NEW v, FetcherKept(v), fetcher' = [fetcher EXCEPT ![f] = v],
             sidecar' = [b \in Contents |-> sidecar'[b]],
             \A b \in Contents : sidecar'[b] = None \/ Provenance(b, sidecar'[b])
      PROVE  CacheInv'
  BY <1>0, <1>1, <1>2, AsideKept DEF CacheInv, Present
<1>3. CASE d # None /\ Has(c, d.ext)
  <2> DEFINE v == [x EXCEPT !.pc = "refresh", !.ext = d.ext, !.entry = d, !.mtime = 0]
             e == [Entry(f) EXCEPT !.ext = d.ext]
  <2>1. WriteSidecar(c, e) /\ fetcher' = [fetcher EXCEPT ![f] =
                   [@ EXCEPT !.pc = "refresh", !.ext = d.ext, !.entry = d, !.mtime = 0]]
    BY <1>0, <1>3 DEF Dedupe
  <2>2. fetcher' = [fetcher EXCEPT ![f] = v]
    BY <1>0, <2>1 DEF CacheInv
  <2>3. e = [k \in {"url", "ext", "at"} |-> e[k]] /\ e.url = x.url
    BY <1>0 DEF Entry
  <2>4. Provenance(c, d)
    BY <1>0, <1>1, <1>3 DEF CacheInv
  <2>5. /\ v = [k \in FetchFields |-> v[k]] /\ v.pc = "refresh" /\ v.url = x.url /\ v.content = c
        /\ v.entry = d /\ v.names = x.names /\ v.evicting = x.evicting /\ v.total = x.total
    BY <1>0 DEF FetcherKept, FetchFields
  <2> HIDE DEF v, e
  <2>6. Provenance(c, e)
    BY <1>1, <2>3 DEF Provenance
  <2>7. PICK w : w = e
    OBVIOUS
  <2>8. /\ sidecar' = [b \in Contents |-> sidecar'[b]]
        /\ \A b \in Contents : sidecar'[b] = None \/ Provenance(b, sidecar'[b])
    BY <1>1, <2>1, <2>6, <2>7, SidecarWritten
  <2>9. FetcherKept(v)
    BY <1>0, <1>1, <2>4, <2>5 DEF FetcherKept, FetchPcs, Holding
  <2> QED
    BY <1>2, <2>2, <2>8, <2>9
<1>4. CASE ~(d # None /\ Has(c, d.ext))
  <2> DEFINE v == [x EXCEPT !.pc = "store"]
  <2>1. /\ sidecar' = [sidecar EXCEPT ![c] = None]
        /\ fetcher' = [fetcher EXCEPT ![f].pc = "store"]
    BY <1>0, <1>4 DEF Dedupe
  <2>2. fetcher' = [fetcher EXCEPT ![f] = v]
    BY <1>0, <2>1 DEF CacheInv
  <2>3. /\ v = [k \in FetchFields |-> v[k]] /\ v.pc = "store" /\ v.url = x.url /\ v.content = c
        /\ v.names = x.names /\ v.evicting = x.evicting /\ v.total = x.total
    BY <1>0 DEF FetcherKept, FetchFields
  <2> HIDE DEF v
  <2>4. /\ sidecar' = [b \in Contents |-> sidecar'[b]]
        /\ \A b \in Contents : sidecar'[b] = None \/ Provenance(b, sidecar'[b])
    BY <2>1 DEF CacheInv
  <2>5. FetcherKept(v)
    BY <1>0, <1>1, <2>3 DEF FetcherKept, FetchPcs, Holding
  <2> QED
    BY <1>2, <2>2, <2>4, <2>5
<1> QED
  BY <1>3, <1>4


\* A thread that is about to evict, or to list what there is, owes the cap to nobody else.
LEMMA OwingKept ==
  ASSUME CacheInv, NEW f \in Fetchers, NEW v, FetcherKept(v), v.pc \in {"sidecar", "evict"},
         fetcher' = [fetcher EXCEPT ![f] = v],
         sidecar' = [c \in Contents |-> sidecar'[c]],
         \A c \in Contents : sidecar'[c] = None \/ Provenance(c, sidecar'[c]),
         blob' = [b \in Blobs |-> blob'[b]]
  PROVE  CacheInv'
<1>1. fetcher'[f] = v
  BY DEF CacheInv
<1>2. CapKept'
  BY <1>1 DEF CapKept
<1> QED
  BY <1>2, ThreadKept

\* The blob is named before its sidecar is there.
LEMMA StoreKept ==
  ASSUME CacheInv, NEW f \in Fetchers, Refresh(f) \/ Store(f) \/ NewSidecar(f)
  PROVE  CacheInv'
<1>0. PICK x, c, d : x = fetcher[f] /\ FetcherKept(x) /\ c = x.content /\ d = x.entry
  BY DEF CacheInv
<1>1. CASE Refresh(f)
  <2>1. /\ x.pc = "refresh" /\ UNCHANGED <<blob, abandoned>> /\ WriteSidecar(c, d)
        /\ fetcher' = [fetcher EXCEPT ![f].pc = "done"]
        /\ c \in Contents /\ Provenance(c, d)
    BY <1>0, <1>1 DEF Refresh, FetcherKept, Holding
  <2> DEFINE v == [x EXCEPT !.pc = "done"]
  <2>2. fetcher' = [fetcher EXCEPT ![f] = v]
    BY <1>0, <2>1 DEF CacheInv
  <2>3. /\ v = [k \in FetchFields |-> v[k]] /\ v.pc = "done" /\ v.url = x.url /\ v.content = c
        /\ v.names = x.names /\ v.evicting = x.evicting /\ v.total = x.total
    BY <1>0 DEF FetcherKept, FetchFields
  <2> HIDE DEF v
  <2>4. FetcherKept(v)
    BY <1>0, <2>1, <2>3 DEF FetcherKept, FetchPcs, Holding
  <2>5. /\ sidecar' = [b \in Contents |-> sidecar'[b]]
        /\ \A b \in Contents : sidecar'[b] = None \/ Provenance(b, sidecar'[b])
    BY <2>1, SidecarWritten
  <2> QED
    <3>1. x.pc \notin Keeping
      BY <2>1 DEF Keeping
    <3> QED
      BY <1>0, <2>1, <2>2, <2>4, <2>5, <3>1, AsideKept DEF CacheInv, Present
<1>2. CASE Store(f)
  <2>1. PICK m, e : m = x.mtime /\ e = x.ext
    OBVIOUS
  <2>2. /\ x.pc = "store" /\ UNCHANGED sidecar
        /\ blob' = [blob EXCEPT ![<<c, e>>] = m]
        /\ fetcher' = [fetcher EXCEPT ![f].pc = "sidecar", ![f].mtime = 0]
    BY <1>0, <1>2, <2>1 DEF Store
  <2> DEFINE v == [x EXCEPT !.pc = "sidecar", !.mtime = 0]
  <2>3. fetcher' = [fetcher EXCEPT ![f] = v]
    BY <1>0, <2>2 DEF CacheInv
  <2>4. /\ v = [k \in FetchFields |-> v[k]] /\ v.pc = "sidecar" /\ v.url = x.url /\ v.content = c
        /\ v.names = x.names /\ v.evicting = x.evicting /\ v.total = x.total
    BY <1>0 DEF FetcherKept, FetchFields
  <2> HIDE DEF v
  <2>5. FetcherKept(v)
    BY <1>0, <2>2, <2>4 DEF FetcherKept, FetchPcs, Holding
  <2>6. blob' = [b \in Blobs |-> blob'[b]]
    BY <2>2 DEF CacheInv
  <2> QED
    BY <2>2, <2>3, <2>4, <2>5, <2>6, OwingKept DEF CacheInv
<1>3. CASE NewSidecar(f)
  <2>1. /\ x.pc = "sidecar" /\ UNCHANGED blob /\ WriteSidecar(c, Entry(f))
        /\ fetcher' = [fetcher EXCEPT ![f].pc = "evict"]
        /\ c \in Contents /\ x.url \in Links /\ c \in Serves[x.url]
    BY <1>0, <1>3 DEF NewSidecar, FetcherKept, Holding
  <2>2. PICK e : e = Entry(f)
    OBVIOUS
  <2>3. e = [k \in {"url", "ext", "at"} |-> e[k]] /\ e.url = x.url
    BY <1>0, <2>2 DEF Entry
  <2>4. Provenance(c, e)
    BY <2>1, <2>3 DEF Provenance
  <2> DEFINE v == [x EXCEPT !.pc = "evict"]
  <2>5. fetcher' = [fetcher EXCEPT ![f] = v]
    BY <1>0, <2>1 DEF CacheInv
  <2>6. /\ v = [k \in FetchFields |-> v[k]] /\ v.pc = "evict" /\ v.url = x.url /\ v.content = c
        /\ v.names = x.names /\ v.evicting = x.evicting /\ v.total = x.total
    BY <1>0 DEF FetcherKept, FetchFields
  <2> HIDE DEF v
  <2>7. FetcherKept(v)
    BY <1>0, <2>1, <2>6 DEF FetcherKept, FetchPcs, Holding
  <2>8. /\ sidecar' = [b \in Contents |-> sidecar'[b]]
        /\ \A b \in Contents : sidecar'[b] = None \/ Provenance(b, sidecar'[b])
    BY <2>1, <2>2, <2>4, SidecarWritten
  <2> QED
    BY <2>1, <2>5, <2>6, <2>7, <2>8, OwingKept DEF CacheInv
<1> QED
  BY <1>1, <1>2, <1>3

\* Whoever lists the blobs knows all that are there.
LEMMA NamedKept ==
  ASSUME CacheInv, NEW f \in Fetchers, ListNames(f)
  PROVE  CacheInv'
<1>0. PICK x, p : x = fetcher[f] /\ FetcherKept(x) /\ p = Present
  BY DEF CacheInv
<1>1. /\ x.pc = "evict" /\ UNCHANGED <<blob, sidecar>>
      /\ fetcher' = [fetcher EXCEPT ![f].pc = "stat", ![f].names = p]
  BY <1>0 DEF ListNames
<1> DEFINE v == [x EXCEPT !.pc = "stat", !.names = p]
<1>2. fetcher' = [fetcher EXCEPT ![f] = v]
  BY <1>0, <1>1 DEF CacheInv
<1>3. /\ v = [k \in FetchFields |-> v[k]] /\ v.pc = "stat" /\ v.url = x.url
      /\ v.content = x.content /\ v.names = p /\ v.evicting = x.evicting /\ v.total = x.total
  BY <1>0 DEF FetcherKept, FetchFields
<1> HIDE DEF v
<1>4. p \subseteq Blobs /\ Present' = p
  BY <1>0, <1>1 DEF Present
<1>5. FetcherKept(v)
  BY <1>0, <1>1, <1>3, <1>4 DEF FetcherKept, FetchPcs, Holding
<1>6. fetcher'[f] = v
  BY <1>2 DEF CacheInv
<1>7. Evicting(fetcher[f])'
  BY <1>3, <1>4, <1>6 DEF Evicting
<1>8. CapKept'
  BY <1>7 DEF CapKept
<1> QED
  BY <1>1, <1>2, <1>5, <1>8, ThreadKept DEF CacheInv

\* Whoever reads the sizes of all that it has named knows how many bytes there are.
LEMMA SizedKept ==
  ASSUME CacheInv, NEW f \in Fetchers, StatBlobs(f)
  PROVE  CacheInv'
<1>0. PICK x, n, p : /\ x = fetcher[f] /\ FetcherKept(x) /\ n = SumBytes(x.names)
                     /\ p = IF n > CacheBytes THEN "sort" ELSE "end"
  BY DEF CacheInv
<1>1. /\ x.pc = "stat" /\ x.names \subseteq Present /\ UNCHANGED <<blob, sidecar, abandoned>>
      /\ fetcher' = [fetcher EXCEPT ![f].pc = p, ![f].total = n]
  BY <1>0 DEF StatBlobs
<1>2. Present \in SUBSET Blobs /\ n \in Nat /\ n \in Int /\ CacheBytes \in Nat
  <2>1. Present \in SUBSET Blobs
    BY DEF Present
  <2>2. n \in Nat
    BY <1>0, <1>1, <2>1, BytesAdd
  <2> QED
    BY <2>1, <2>2, MediaAssumption
<1> DEFINE v == [x EXCEPT !.pc = p, !.total = n]
<1>3. fetcher' = [fetcher EXCEPT ![f] = v]
  BY <1>0, <1>1 DEF CacheInv
<1>4. /\ v = [k \in FetchFields |-> v[k]] /\ v.pc = p /\ v.url = x.url
      /\ v.content = x.content /\ v.names = x.names /\ v.evicting = x.evicting /\ v.total = n
  BY <1>0 DEF FetcherKept, FetchFields
<1> HIDE DEF v
<1>5. p \in {"sort", "end"}
  BY <1>0
<1>6. FetcherKept(v)
  BY <1>0, <1>1, <1>2, <1>4, <1>5 DEF FetcherKept, FetchPcs, Holding
<1>7. \A g \in Fetchers : fetcher'[g] = IF g = f THEN v ELSE fetcher[g]
  BY <1>3 DEF CacheInv
<1>8. Present' = Present /\ SumBytes(Present)' = SumBytes(Present)
  BY <1>1 DEF Present, SumBytes
<1>9. ASSUME Evicting(x) PROVE CapKept'
  <2>1. Present = x.names /\ n = SumBytes(Present)
    BY <1>0, <1>1, <1>9 DEF Evicting
  <2>2. CASE n > CacheBytes
    <3>1. p = "sort" /\ n <= n
      BY <1>0, <1>2, <2>2
    <3>2. Evicting(fetcher[f])'
      BY <1>4, <1>7, <1>8, <2>1, <3>1 DEF Evicting
    <3> QED
      BY <3>2 DEF CapKept
  <2>3. CASE ~(n > CacheBytes)
    <3>1. n <= CacheBytes
      BY <1>2, <2>3
    <3> QED
      BY <1>8, <2>1, <3>1 DEF CapKept
  <2> QED
    BY <2>2, <2>3
<1>10. CapKept'
  <2>1. ASSUME NEW g \in Fetchers, fetcher[g].pc \in {"sidecar", "evict"} PROVE CapKept'
    BY <1>0, <1>1, <1>7, <2>1 DEF CapKept
  <2>2. ASSUME SumBytes(Present) <= CacheBytes \/ abandoned PROVE CapKept'
    BY <1>1, <1>8, <2>2 DEF CapKept
  <2>3. ASSUME NEW g \in Fetchers, g # f, Evicting(fetcher[g]) PROVE CapKept'
    <3>1. Evicting(fetcher[g])'
      BY <1>7, <1>8, <2>3 DEF Evicting
    <3> QED
      BY <3>1 DEF CapKept
  <2> QED
    BY <1>0, <1>9, <2>1, <2>2, <2>3 DEF CacheInv, CapKept
<1> QED
  BY <1>1, <1>3, <1>6, <1>10, ThreadKept DEF CacheInv

\* The list of what is there, by age, has all that was named.
LEMMA SortedKept ==
  ASSUME CacheInv, NEW f \in Fetchers, SortBlobs(f)
  PROVE  CacheInv'
<1>0. PICK x, S : x = fetcher[f] /\ FetcherKept(x) /\ S = x.names
  BY DEF CacheInv
<1>1. x.pc = "sort" /\ S \subseteq Present /\ UNCHANGED <<blob, sidecar, abandoned>>
  BY <1>0 DEF SortBlobs
<1>2. PICK q : q \in ByAge(S) /\ fetcher' = [fetcher EXCEPT ![f].pc = "unlink", ![f].evicting = q]
  BY <1>0 DEF SortBlobs
<1>3. S \in SUBSET Blobs /\ IsFiniteSet(S)
  <2>1. S \in SUBSET Blobs
    BY <1>0 DEF FetcherKept
  <2> QED
    BY <2>1, BlobsFinite, FS_Subset
<1>4. q \in [1..Cardinality(S) -> S] /\ \A i, j \in DOMAIN q : i < j => q[i] # q[j]
  BY <1>2 DEF ByAge
<1>5. q \in Seq(S) /\ \A b \in S : \E i \in 1..Len(q) : q[i] = b
  BY <1>3, <1>4, Listed, ZenonT(20)
<1>6. q \in Seq(Blobs)
  BY <1>3, <1>5
<1> DEFINE v == [x EXCEPT !.pc = "unlink", !.evicting = q]
<1>7. fetcher' = [fetcher EXCEPT ![f] = v]
  BY <1>0, <1>2 DEF CacheInv
<1>8. /\ v = [k \in FetchFields |-> v[k]] /\ v.pc = "unlink" /\ v.url = x.url
      /\ v.content = x.content /\ v.names = S /\ v.evicting = q /\ v.total = x.total
  BY <1>0 DEF FetcherKept, FetchFields
<1> HIDE DEF v
<1>9. FetcherKept(v)
  BY <1>0, <1>1, <1>6, <1>8 DEF FetcherKept, FetchPcs, Holding
<1>10. \A g \in Fetchers : fetcher'[g] = IF g = f THEN v ELSE fetcher[g]
  BY <1>7 DEF CacheInv
<1>11. Present' = Present /\ SumBytes(Present)' = SumBytes(Present)
  BY <1>1 DEF Present, SumBytes
<1>12. CapKept'
  <2>1. ASSUME NEW g \in Fetchers, fetcher[g].pc \in {"sidecar", "evict"} PROVE CapKept'
    BY <1>0, <1>1, <1>10, <2>1 DEF CapKept
  <2>2. ASSUME SumBytes(Present) <= CacheBytes \/ abandoned PROVE CapKept'
    BY <1>1, <1>11, <2>2 DEF CapKept
  <2>3. ASSUME NEW g \in Fetchers, g # f, Evicting(fetcher[g]) PROVE CapKept'
    <3>1. Evicting(fetcher[g])'
      BY <1>10, <1>11, <2>3 DEF Evicting
    <3> QED
      BY <3>1 DEF CapKept
  <2>4. ASSUME Evicting(x) PROVE CapKept'
    <3>1. Present = S /\ SumBytes(Present) <= x.total
      BY <1>0, <1>1, <2>4 DEF Evicting
    <3>2. Evicting(fetcher[f])'
      BY <1>5, <1>8, <1>10, <1>11, <3>1 DEF Evicting
    <3> QED
      BY <3>2 DEF CapKept
  <2> QED
    BY <1>0, <2>1, <2>2, <2>3, <2>4 DEF CacheInv, CapKept
<1> QED
  BY <1>1, <1>7, <1>9, <1>12, ThreadKept DEF CacheInv

\* An eviction that gives up is remembered as one.
LEMMA GivenUpKept ==
  ASSUME CacheInv, NEW f \in Fetchers, GiveUpEvict(f)
  PROVE  CacheInv'
<1>0. PICK x : x = fetcher[f] /\ FetcherKept(x)
  BY DEF CacheInv
<1>1. /\ x.pc \in {"stat", "sort"} /\ UNCHANGED <<blob, sidecar>> /\ abandoned' = TRUE
      /\ fetcher' = [fetcher EXCEPT ![f].pc = "end"]
  BY <1>0 DEF GiveUpEvict
<1> DEFINE v == [x EXCEPT !.pc = "end"]
<1>2. fetcher' = [fetcher EXCEPT ![f] = v]
  BY <1>0, <1>1 DEF CacheInv
<1>3. /\ v = [k \in FetchFields |-> v[k]] /\ v.pc = "end" /\ v.url = x.url
      /\ v.content = x.content /\ v.names = x.names /\ v.evicting = x.evicting /\ v.total = x.total
  BY <1>0 DEF FetcherKept, FetchFields
<1> HIDE DEF v
<1>4. FetcherKept(v)
  BY <1>0, <1>1, <1>3 DEF FetcherKept, FetchPcs, Holding
<1>5. CapKept'
  BY <1>1 DEF CapKept
<1> QED
  BY <1>1, <1>2, <1>4, <1>5, ThreadKept DEF CacheInv

\* A blob that is unlinked leaves its bytes behind on every list it is still on.
LEMMA UnlinkKept ==
  ASSUME CacheInv, NEW f \in Fetchers, Unlink(f)
  PROVE  CacheInv'
<1>0. PICK x, b : x = fetcher[f] /\ FetcherKept(x) /\ b = Head(x.evicting)
  BY DEF CacheInv
<1>1. PICK n : n = IF blob[b] > 0 THEN x.total - Bytes[b[1]] ELSE x.total
  OBVIOUS
<1>2. /\ x.pc = "unlink" /\ x.evicting # <<>> /\ x.evicting \in Seq(Blobs) /\ x.total \in Int
      /\ blob' = [blob EXCEPT ![b] = 0] /\ sidecar' = [sidecar EXCEPT ![b[1]] = None]
      /\ fetcher' = [fetcher EXCEPT ![f].evicting = Tail(@),
                                    ![f].total = IF blob[b] > 0 THEN @ - Bytes[b[1]] ELSE @]
  BY <1>0 DEF Unlink, FetcherKept
<1>3. PICK r \in Seq(Blobs) : r = Tail(x.evicting) /\ Len(r) = Len(x.evicting) - 1
  BY <1>2, HeadTailProperties
<1>4. b \in Blobs /\ \A i \in 1..Len(r) : r[i] = x.evicting[i + 1]
  BY <1>0, <1>2, <1>3, HeadTailProperties
<1>5. /\ blob' = [a \in Blobs |-> blob'[a]]
      /\ \A a \in Blobs : blob'[a] = IF a = b THEN 0 ELSE blob[a]
  BY <1>2, <1>4 DEF CacheInv
<1>6. Present' = Present \ {b} /\ Present \in SUBSET Blobs /\ Present' \in SUBSET Present
  <2>1. ~(0 > 0)
    OBVIOUS
  <2> QED
    BY <1>5, <2>1 DEF Present
<1>7. /\ sidecar' = [c \in Contents |-> sidecar'[c]]
      /\ \A c \in Contents : sidecar'[c] = None \/ Provenance(c, sidecar'[c])
  BY <1>2 DEF CacheInv
<1>8. /\ SumBytes(Present) \in Nat /\ SumBytes(Present') \in Nat
      /\ SumBytes(Present') <= SumBytes(Present) /\ SumBytes(Present)' = SumBytes(Present')
      /\ Bytes[b[1]] \in Nat
      /\ b \in Present => SumBytes(Present') = SumBytes(Present) - Bytes[b[1]]
  <2>1. /\ SumBytes(Present) \in Nat /\ SumBytes(Present') \in Nat
        /\ SumBytes(Present') <= SumBytes(Present)
    BY <1>6, BytesAdd
  <2>2. SumBytes(Present)' = SumBytes(Present')
    BY DEF SumBytes
  <2>3. Bytes[b[1]] \in Nat
    BY <1>4, MediaAssumption DEF Blobs
  <2>4. ASSUME b \in Present PROVE SumBytes(Present') = SumBytes(Present) - Bytes[b[1]]
    BY <1>6, <2>4, BytesAdd
  <2> QED
    BY <2>1, <2>2, <2>3, <2>4
<1>9. n \in Int
  BY <1>1, <1>2, <1>8
<1> DEFINE v == [x EXCEPT !.evicting = r, !.total = n]
<1>10. fetcher' = [fetcher EXCEPT ![f] = v]
  <2>1. PICK t : t = Tail(x.evicting)
    OBVIOUS
  <2>2. fetcher' = [fetcher EXCEPT ![f] = [x EXCEPT !.evicting = t, !.total = n]]
    BY <1>0, <1>1, <1>2, <2>1 DEF CacheInv, FetcherKept, FetchFields
  <2>3. t = r
    BY <1>3, <2>1
  <2> QED
    BY <2>2, <2>3
<1>11. /\ v = [k \in FetchFields |-> v[k]] /\ v.pc = "unlink" /\ v.url = x.url
       /\ v.names = x.names /\ v.content = x.content /\ v.evicting = r /\ v.total = n
  BY <1>0, <1>2 DEF FetcherKept, FetchFields
<1> HIDE DEF v
<1>12. FetcherKept(v)
  BY <1>0, <1>2, <1>3, <1>9, <1>11 DEF FetcherKept, FetchPcs, Holding
<1>13. \A g \in Fetchers : fetcher'[g] = IF g = f THEN v ELSE fetcher[g]
  BY <1>10 DEF CacheInv
<1>14. CapKept'
  <2>1. ASSUME NEW g \in Fetchers, fetcher[g].pc \in {"sidecar", "evict"} PROVE CapKept'
    BY <1>0, <1>2, <1>13, <2>1 DEF CapKept
  <2>2. ASSUME SumBytes(Present) <= CacheBytes PROVE CapKept'
    BY <1>8, <2>2, MediaAssumption DEF CapKept
  <2>5. ASSUME abandoned PROVE CapKept'
    BY <2>5 DEF CapKept, Unlink
  <2>3. ASSUME NEW g \in Fetchers, g # f, Evicting(fetcher[g]) PROVE CapKept'
    <3>1. fetcher'[g] = fetcher[g] /\ fetcher[g].total \in Int
      BY <1>13, <2>3 DEF CacheInv, FetcherKept
    <3>2. Evicting(fetcher[g])'
      BY <1>6, <1>8, <2>3, <3>1 DEF Evicting
    <3> QED
      BY <3>2 DEF CapKept
  <2>4. ASSUME Evicting(fetcher[f]) PROVE CapKept'
    <3>1. /\ SumBytes(Present) <= x.total
          /\ \A a \in Present : \E i \in 1..Len(x.evicting) : x.evicting[i] = a
      BY <1>0, <1>2, <2>4 DEF Evicting
    <3>2. SumBytes(Present') <= n
      <4>1. CASE b \in Present
        <5>1. n = x.total - Bytes[b[1]]
          BY <1>1, <4>1 DEF Present
        <5> QED
          BY <1>2, <1>8, <3>1, <4>1, <5>1
      <4>2. CASE b \notin Present
        <5>1. n = x.total
          BY <1>1, <1>4, <4>2 DEF Present
        <5> QED
          BY <1>2, <1>8, <3>1, <5>1
      <4> QED
        BY <4>1, <4>2
    <3>3. ASSUME NEW a \in Present' PROVE \E i \in 1..Len(r) : r[i] = a
      <4>1. PICK i \in 1..Len(x.evicting) : x.evicting[i] = a
        BY <1>6, <3>1, <3>3
      <4>2. i # 1
        BY <1>0, <1>6, <3>3, <4>1
      <4>3. i - 1 \in 1..Len(r) /\ (i - 1) + 1 = i
        BY <1>2, <1>3, <4>2
      <4>4. r[i - 1] = a
        BY <1>4, <4>1, <4>3
      <4> QED
        BY <4>3, <4>4
    <3>4. fetcher'[f] = v /\ v.pc = "unlink" /\ v.evicting = r /\ v.total = n
      BY <1>11, <1>13
    <3>5. Evicting(fetcher[f])'
      BY <1>8, <3>2, <3>3, <3>4 DEF Evicting
    <3> QED
      BY <3>5 DEF CapKept
  <2> QED
    BY <2>1, <2>2, <2>3, <2>4, <2>5 DEF CacheInv, CapKept
<1> QED
  BY <1>5, <1>7, <1>10, <1>12, <1>14, ThreadKept

\* Whoever ends its eviction leaves the cap kept, or another one to keep it.
LEMMA EndKept ==
  ASSUME CacheInv, NEW f \in Fetchers, EndEvict(f)
  PROVE  CacheInv'
<1>0. PICK x : x = fetcher[f] /\ FetcherKept(x)
  BY DEF CacheInv
<1>1. /\ \/ x.pc = "end"
         \/ x.pc = "unlink" /\ (x.total <= CacheBytes \/ x.evicting = <<>>)
      /\ fetcher' = [fetcher EXCEPT ![f].pc = "done", ![f].names = {}, ![f].evicting = <<>>,
                                    ![f].total = 0]
      /\ UNCHANGED <<blob, sidecar, abandoned>>
  BY <1>0 DEF EndEvict
<1> DEFINE v == [x EXCEPT !.pc = "done", !.names = {}, !.evicting = <<>>, !.total = 0]
<1>2. fetcher' = [fetcher EXCEPT ![f] = v]
  BY <1>0, <1>1 DEF CacheInv
<1>3. /\ v = [k \in FetchFields |-> v[k]] /\ v.pc = "done" /\ v.url = x.url
      /\ v.content = x.content /\ v.names = {} /\ v.evicting = <<>> /\ v.total = 0
  BY <1>0 DEF FetcherKept, FetchFields
<1> HIDE DEF v
<1>4. v.evicting \in Seq(Blobs) /\ v.total \in Int
  <2>1. <<>> \in Seq(Blobs) /\ 0 \in Int
    BY EmptySeq
  <2> QED
    BY <1>3, <2>1, Zenon
<1>5. FetcherKept(v)
  <2>1. /\ v = [k \in FetchFields |-> v[k]] /\ v.pc = "done" /\ v.url = x.url
        /\ v.content = x.content /\ v.names = {}
    BY <1>3
  <2> QED
    BY <1>0, <1>1, <1>4, <2>1 DEF FetcherKept, FetchPcs, Holding
<1>6. \A g \in Fetchers : fetcher'[g] = IF g = f THEN v ELSE fetcher[g]
  BY <1>2 DEF CacheInv
<1>7. Present' = Present /\ SumBytes(Present)' = SumBytes(Present) /\ SumBytes(Present) \in Nat
  BY <1>1, BytesAdd DEF Present, SumBytes
<1>8. CapKept'
  <2>1. ASSUME NEW g \in Fetchers, fetcher[g].pc \in {"sidecar", "evict"} PROVE CapKept'
    BY <1>0, <1>1, <1>6, <2>1 DEF CapKept
  <2>2. ASSUME SumBytes(Present) <= CacheBytes \/ abandoned PROVE CapKept'
    BY <1>1, <1>7, <2>2 DEF CapKept
  <2>3. ASSUME NEW g \in Fetchers, g # f, Evicting(fetcher[g]) PROVE CapKept'
    <3>1. Evicting(fetcher[g])'
      BY <1>6, <1>7, <2>3 DEF Evicting
    <3> QED
      BY <3>1 DEF CapKept
  <2>4. ASSUME Evicting(fetcher[f]) PROVE SumBytes(Present) <= CacheBytes
    <3>1. /\ x.pc = "unlink" /\ SumBytes(Present) <= x.total /\ x.total \in Int
          /\ \A b \in Present : \E i \in 1..Len(x.evicting) : x.evicting[i] = b
      BY <1>0, <1>1, <2>4 DEF Evicting, FetcherKept
    <3>2. CASE x.total <= CacheBytes
      BY <1>7, <3>1, <3>2, MediaAssumption
    <3>3. CASE x.evicting = <<>>
      <4>1. Present = {}
        BY <3>1, <3>3
      <4>2. SumBytes(Present) = 0
        BY <4>1, BytesAdd
      <4> QED
        BY <4>2, MediaAssumption
    <3> QED
      BY <1>1, <3>1, <3>2, <3>3
  <2> QED
    BY <2>1, <2>2, <2>3, <2>4 DEF CacheInv, CapKept
<1> QED
  BY <1>1, <1>2, <1>5, <1>8, ThreadKept DEF CacheInv

\* A path that is returned for a URL holds what that URL has served, whatever
\* other threads do to the same files; and the cache fits its cap as soon as nobody
\* stores or evicts, unless an eviction gave up since the blobs were last listed (_find_by_url(), _dedupe(), _evict_over_cap()).
THEOREM CacheHolds == CacheSpec => []CacheSound
<1>1. CacheInit => CacheInv
  <2> SUFFICES ASSUME CacheInit PROVE CacheInv
    OBVIOUS
  <2>1. Resting.evicting \in Seq(Blobs) /\ Resting.total \in Int
    <3>1. <<>> \in Seq(Blobs) /\ 0 \in Int /\ Resting.evicting = <<>> /\ Resting.total = 0
      BY EmptySeq DEF Resting
    <3> QED
      BY <3>1, Zenon
  <2>2. /\ Resting = [k \in FetchFields |-> Resting[k]] /\ Resting.pc = "idle"
        /\ Resting.names = {}
    BY DEF Resting, FetchFields
  <2>3. FetcherKept(Resting)
    BY <2>1, <2>2 DEF FetcherKept, FetchPcs, Holding
  <2>4. Present = {}
    <3>1. ~(0 > 0)
      OBVIOUS
    <3> QED
      BY <3>1 DEF CacheInit, Present
  <2>5. SumBytes(Present) = 0 /\ 0 <= CacheBytes
    BY <2>4, BytesAdd, MediaAssumption
  <2> QED
    BY <2>3, <2>5 DEF CacheInit, CacheInv, CapKept
<1>2. CacheInv /\ [CacheNext]_cvars => CacheInv'
  <2> SUFFICES ASSUME CacheInv, [CacheNext]_cvars PROVE CacheInv'
    OBVIOUS
  <2>1. ASSUME UNCHANGED <<blob, sidecar, fetcher, abandoned>> PROVE CacheInv'
    <3>1. CapKept'
      BY <2>1 DEF CacheInv, CapKept, Evicting, Present, SumBytes
    <3>2. \A f \in Fetchers : FetcherKept(fetcher[f])'
      BY <2>1 DEF CacheInv, FetcherKept, Provenance
    <3>3. \A d \in Contents : (sidecar[d] = None \/ Provenance(d, sidecar[d]))'
      BY <2>1 DEF CacheInv, Provenance
    <3> QED
      BY <2>1, <3>1, <3>2, <3>3 DEF CacheInv
  <2>2. CASE UNCHANGED cvars \/ CacheTick
    BY <2>1, <2>2 DEF cvars, CacheTick
  <2>3. CASE \E f \in Fetchers : FetchStep(f)
    BY <2>3, LookupKept, ResignKept, DownloadKept, DedupeKept, StoreKept, NamedKept, SizedKept,
       SortedKept, GivenUpKept, UnlinkKept, EndKept DEF FetchStep
  <2> QED
    BY <2>2, <2>3 DEF CacheNext
<1>3. CacheInv => CacheSound
  <2> SUFFICES ASSUME CacheInv PROVE CacheSound
    OBVIOUS
  <2>1. \A f \in Fetchers : fetcher[f].pc = "done" => fetcher[f].content \in Serves[fetcher[f].url]
    BY DEF CacheInv, FetcherKept, Holding
  <2>2. (\A f \in Fetchers : fetcher[f].pc \notin Keeping)
          => abandoned \/ SumBytes(Present) <= CacheBytes
    BY DEF CacheInv, CapKept, Evicting, Keeping
  <2> QED
    BY <2>1, <2>2 DEF CacheSound, Keeping
<1> QED
  BY <1>1, <1>2, <1>3, PTL DEF CacheSpec


-----------------------------------------------------------------------------
\* The sweeper: what is in flight and what is new stays

SweepFields == {"pc", "n", "prefix", "ids", "busy", "missed", "list", "seen", "recent", "at",
                "left", "deleted", "failed", "next"}
SweepPcs == {"idle", "list", "ttl", "cap", "end"}

\* as many artifacts at least as new as k as the policy promises are there beside it
Followed(v, k) == Cardinality({j \in Keys \ {k} : v.seen[j] >= v.seen[k]}) >= KeepLast

\* neither a task in flight nor its age protects k
Sweepable(v, k) == k[1] \notin v.ids /\ k \notin v.recent

SweepTyped(v) ==
  /\ v = [k \in SweepFields |-> v[k]] /\ v.pc \in SweepPcs
  /\ v.busy \ v.missed \subseteq v.ids /\ v.next \in Int /\ v.next >= 1
  /\ v.list \in Seq(Keys) /\ v.left \subseteq Keys
  /\ v.pc \in {"idle", "list"} => v.deleted = {} /\ v.left = {} /\ v.next = 1

\* what is deleted was not protected, and is followed
Lawful(v) == \A k \in v.deleted : Sweepable(v, k) /\ Followed(v, k)

\* what is listed, or left by the first pass, is recent or followed
Ordered(v) ==
  /\ v.pc \in {"ttl", "cap"} =>
       \A i \in 1..Len(v.list) : v.list[i] \in v.recent \/ Followed(v, v.list[i])
  /\ v.pc = "ttl" => \A k \in v.left : k \in v.recent \/ Followed(v, k)

\* the second pass leaves behind it only what it may not, or could not, delete
Passed(v, k) == ~Sweepable(v, k) \/ k \in v.failed
Swept(v) ==
  /\ v.pc = "cap" => \A k \in v.left :
       Passed(v, k) \/ \E i \in 1..Len(v.list) : i >= v.next /\ v.list[i] = k
  /\ v.pc = "end" => \/ MaxTotal = 0
                     \/ Cardinality(UNION {{k} \X (1..Size[k[1]]) : k \in v.left}) <= MaxTotal
                     \/ \A k \in v.left : Passed(v, k)

SweepKept(v) == SweepTyped(v) /\ Lawful(v) /\ Ordered(v) /\ Swept(v)

\* There are finitely many keys.
LEMMA KeysFinite == IsFiniteSet(Keys)
<1> DEFINE g == [t \in Owners |-> HeadOf[t]]
<1>1. IsFiniteSet({g[t] : t \in Owners})
  <2>1. IsFiniteSet(Owners) /\ DOMAIN g = Owners /\ g = [t \in Owners |-> g[t]]
    BY SweeperAssumption
  <2> HIDE DEF g
  <2> QED
    BY <2>1, ImageFinite
<1>2. Heads = {g[t] : t \in Owners}
  BY DEF Heads
<1> QED
  BY <1>1, <1>2, SweeperAssumption, FS_Product DEF Keys

\* Of a list by age, the last ones are at least as new as any other.
LEMMA NewestFollow ==
  ASSUME NEW seen, NEW S \in SUBSET Keys, NEW q \in Seq(S),
         \A i, j \in 1..Len(q) : i < j => q[i] # q[j] /\ seen[q[i]] <= seen[q[j]],
         \A k \in S : seen[k] \in Int,
         NEW i \in 1..Len(q), ~(i > Len(q) - KeepLast)
  PROVE  Cardinality({j \in Keys \ {q[i]} : seen[j] >= seen[q[i]]}) >= KeepLast
<1>0. KeepLast \in Nat
  BY SweeperAssumption
<1>1. PICK n, m, k : n \in Nat /\ m \in Nat /\ n = Len(q) /\ m = KeepLast /\ k = q[i]
  BY <1>0
<1>2. n - m \in Nat /\ i <= n - m /\ i \in Int
  BY <1>1
<1> DEFINE later == {j \in Keys \ {k} : seen[j] >= seen[k]}
           newest == [a \in 1..m |-> q[n - m + a]]
<1>3. \A a \in 1..m : n - m + a \in 1..n /\ i < n - m + a
  BY <1>1, <1>2
<1>4. \A a \in 1..m : newest[a] \in later
  <2> SUFFICES ASSUME NEW a \in 1..m PROVE q[n - m + a] \in later
    OBVIOUS
  <2>1. PICK b \in 1..n : b = n - m + a /\ i < b
    BY <1>3
  <2>2. q[b] \in S /\ q[i] \in S
    BY <1>1, <2>1
  <2>3. q[i] # q[b] /\ seen[q[i]] <= seen[q[b]]
    BY <1>1, <2>1
  <2>4. seen[q[b]] >= seen[k]
    BY <1>1, <2>2, <2>3
  <2> QED
    BY <1>1, <2>1, <2>2, <2>3, <2>4
<1>5. \A a, b \in 1..m : a # b => newest[a] # newest[b]
  <2>1. ASSUME NEW a \in 1..m, NEW b \in 1..m, a < b PROVE newest[a] # newest[b]
    <3>1. PICK c \in 1..n, d \in 1..n : c = n - m + a /\ d = n - m + b /\ c < d
      BY <1>2, <1>3, <2>1
    <3>2. q[c] # q[d]
      BY <1>1, <3>1
    <3> QED
      BY <3>1, <3>2
  <2>2. \A a, b \in 1..m : a # b => a < b \/ b < a
    BY <1>1
  <2> HIDE DEF newest
  <2> QED
    BY <2>1, <2>2
<1>6. newest \in Injection(1..m, later)
  <2>1. newest \in [1..m -> later]
    BY <1>4
  <2> HIDE DEF newest, later
  <2> QED
    BY <1>5, <2>1 DEF Injection, IsInjective
<1>7. IsFiniteSet(later)
  BY KeysFinite, FS_Subset
<1>8. Cardinality(1..m) = m
  <2>1. 1 \in Int /\ m \in Int /\ IF 1 > m THEN m = 0 ELSE m - 1 + 1 = m
    BY <1>1
  <2> QED
    BY <2>1, FS_Interval
<1>9. Cardinality(1..m) <= Cardinality(later)
  <2> HIDE DEF newest, later
  <2> QED
    BY <1>6, <1>7, <1>8, FS_Injection
<1>10. Cardinality(later) \in Nat
  BY <1>7, FS_CardinalityType
<1>11. Cardinality(later) >= m
  <2> HIDE DEF later
  <2> QED
    BY <1>1, <1>8, <1>9, <1>10
<1> QED
  BY <1>1, <1>11

SweeperInv == SweepKept(sweep) /\ store \in [Keys -> Int] /\ hour \in Int

\* A step to a sweep that is as it should be keeps the invariant.
LEMMA SweepStep ==
  ASSUME NEW v, SweepKept(v), sweep' = v, store' \in [Keys -> Int], hour' \in Int
  PROVE  SweeperInv'
<1>1. SweepTyped(sweep)'
  BY DEF SweepKept, SweepTyped
<1>2. Lawful(sweep)'
  BY DEF SweepKept, Lawful, Sweepable, Followed
<1>3. Ordered(sweep)'
  BY DEF SweepKept, Ordered, Followed
<1>4. Swept(sweep)'
  BY DEF SweepKept, Swept, Passed, Sweepable
<1> QED
  BY <1>1, <1>2, <1>3, <1>4 DEF SweeperInv, SweepKept

\* A sweep that begins has deleted nothing yet, one that ends forgets it.
LEMMA BoundsKept ==
  ASSUME SweeperInv, (\E p \in {"all"} \cup Heads : Resolve(p)) \/ EndSweep
  PROVE  SweeperInv'
<1>0. PICK x : x = sweep /\ SweepKept(x)
  BY DEF SweeperInv
<1>1. store' = store /\ hour' = hour
  BY DEF Resolve, EndSweep
<1>2. ASSUME NEW v, SweepKept(v), sweep' = v PROVE SweeperInv'
  BY <1>1, <1>2, SweepStep DEF SweeperInv
<1>3. ASSUME NEW p \in {"all"} \cup Heads, Resolve(p) PROVE SweeperInv'
  <2>1. PICK m, a, b, c :
          /\ m = x.n + 1 /\ a = (IF p = "all" THEN ActiveTasks ELSE {})
          /\ b = (IF p = "all" THEN InFlight ELSE {})
          /\ c = (IF p = "all" THEN {t \in InFlight : owner[t] = "masked" \/ t \notin Newest} ELSE {})
    OBVIOUS
  <2> DEFINE v == [x EXCEPT !.pc = "list", !.n = m, !.prefix = p, !.ids = a, !.busy = b,
                           !.missed = c]
  <2>0. b \ c \subseteq a
    <3>1. CASE p = "all"
      <4> SUFFICES ASSUME NEW t \in InFlight, owner[t] # "masked", t \in Newest PROVE t \in ActiveTasks
        BY <2>1, <3>1
      <4> QED
        BY DEF InFlight, ActiveTasks
    <3>2. CASE p # "all"
      BY <2>1, <3>2
    <3> QED
      BY <3>1, <3>2
  <2>2. x.pc = "idle" /\ sweep' = v
    BY <1>0, <1>3, <2>1 DEF Resolve
  <2>3. /\ v = [k \in SweepFields |-> v[k]] /\ v.pc = "list" /\ v.ids = a /\ v.busy = b /\ v.missed = c
        /\ v.list = x.list /\ v.left = x.left /\ v.deleted = x.deleted /\ v.next = x.next
    BY <1>0 DEF SweepKept, SweepTyped, SweepFields
  <2> HIDE DEF v
  <2>4. SweepTyped(v) /\ v.deleted = {} /\ v.left = {}
    BY <1>0, <2>0, <2>2, <2>3 DEF SweepKept, SweepTyped, SweepPcs
  <2>5. SweepKept(v)
    BY <2>3, <2>4 DEF SweepKept, Lawful, Ordered, Swept
  <2> QED
    BY <1>2, <2>2, <2>5
<1>4. ASSUME EndSweep PROVE SweeperInv'
  <2>1. PICK m : m = x.n
    OBVIOUS
  <2> DEFINE v == [Idle EXCEPT !.n = m]
  <2>2. sweep' = v
    BY <1>0, <1>4, <2>1 DEF EndSweep
  <2>3. /\ v = [k \in SweepFields |-> v[k]] /\ v.pc = "idle" /\ v.ids = {} /\ v.busy = {}
        /\ v.list = <<>> /\ v.left = {} /\ v.deleted = {} /\ v.next = 1
    BY DEF Idle, SweepFields
  <2> HIDE DEF v
  <2>4. v.list \in Seq(Keys)
    BY <2>3, EmptySeq, Zenon
  <2>5. SweepTyped(v)
    <3>1. /\ v = [k \in SweepFields |-> v[k]] /\ v.pc = "idle" /\ v.busy \ v.missed \subseteq v.ids
          /\ v.left = {} /\ v.deleted = {} /\ v.next = 1
      BY <2>3
    <3>2. 1 \in Int /\ 1 >= 1
      OBVIOUS
    <3> QED
      BY <2>4, <3>1, <3>2 DEF SweepTyped, SweepPcs
  <2>6. SweepKept(v)
    <3>1. v.pc = "idle" /\ v.deleted = {}
      BY <2>3
    <3> QED
      BY <2>5, <3>1 DEF SweepKept, Lawful, Ordered, Swept
  <2> QED
    BY <1>2, <2>2, <2>6
<1> QED
  BY <1>3, <1>4

\* What a sweep lists is recent or followed by what is.
LEMMA ListedKept ==
  ASSUME SweeperInv, ListStore
  PROVE  SweeperInv'
<1>0. PICK x : x = sweep /\ SweepKept(x)
  BY DEF SweeperInv
<1>1. PICK found, seen, at :
        /\ found = {k \in Keys : store[k] > 0 /\ Lists(k, sweep.prefix)}
        /\ seen = store /\ at = hour
  OBVIOUS
<1>2. PICK q, recent :
        /\ q \in OldestFirst(found)
        /\ recent = {q[i] : i \in {j \in DOMAIN q : j > Len(q) - KeepLast}}
        /\ sweep' = [x EXCEPT !.pc = "ttl", !.at = at, !.list = q, !.seen = seen, !.recent = recent]
  BY <1>0, <1>1 DEF ListStore
<1>3. x.pc = "list" /\ store' = store /\ hour' = hour
  BY <1>0 DEF ListStore
<1>4. found \in SUBSET Keys /\ IsFiniteSet(found)
  BY <1>1, KeysFinite, FS_Subset
<1>5. /\ q \in [1..Cardinality(found) -> found]
      /\ \A i, j \in DOMAIN q : i < j => q[i] # q[j] /\ seen[q[i]] <= seen[q[j]]
  BY <1>1, <1>2 DEF OldestFirst
<1>6. q \in Seq(found) /\ DOMAIN q = 1..Len(q)
  BY <1>4, <1>5, Listed
<1>7. \A k \in found : seen[k] \in Int
  BY <1>1, <1>4 DEF SweeperInv
<1> DEFINE v == [x EXCEPT !.pc = "ttl", !.at = at, !.list = q, !.seen = seen, !.recent = recent]
<1>8. sweep' = v
  BY <1>2
<1>9. /\ v = [k \in SweepFields |-> v[k]] /\ v.pc = "ttl" /\ v.ids = x.ids
        /\ v.busy = x.busy /\ v.missed = x.missed
      /\ v.list = q /\ v.left = x.left /\ v.deleted = x.deleted /\ v.next = x.next
      /\ v.seen = seen /\ v.recent = recent
  BY <1>0 DEF SweepKept, SweepTyped, SweepFields
<1> HIDE DEF v
<1>10. \A i \in 1..Len(v.list) : v.list[i] \in v.recent \/ Followed(v, v.list[i])
  <2> SUFFICES ASSUME NEW i \in 1..Len(q), q[i] \notin recent PROVE Followed(v, q[i])
    BY <1>9
  <2>1. ~(i > Len(q) - KeepLast)
    BY <1>2, <1>6
  <2>2. \A a, b \in 1..Len(q) : a < b => q[a] # q[b] /\ seen[q[a]] <= seen[q[b]]
    BY <1>5, <1>6
  <2>3. Cardinality({j \in Keys \ {q[i]} : seen[j] >= seen[q[i]]}) >= KeepLast
    BY <1>4, <1>6, <1>7, <2>1, <2>2, NewestFollow
  <2> QED
    BY <1>9, <2>3 DEF Followed
<1>11. v.list \in Seq(Keys)
  BY <1>4, <1>6, <1>9
<1>12. SweepKept(v)
  <2>1. v.deleted = {} /\ v.left = {} /\ v.next = 1 /\ v.busy \ v.missed \subseteq v.ids
    BY <1>0, <1>3, <1>9 DEF SweepKept, SweepTyped
  <2>2. v = [k \in SweepFields |-> v[k]] /\ v.pc = "ttl"
    BY <1>9
  <2>3. SweepTyped(v)
    <3>1. 1 \in Int /\ 1 >= 1
      OBVIOUS
    <3> QED
      BY <1>11, <2>1, <2>2, <3>1 DEF SweepTyped, SweepPcs
  <2> QED
    BY <1>10, <2>1, <2>2, <2>3 DEF SweepKept, Lawful, Ordered, Swept
<1> QED
  BY <1>3, <1>8, <1>12, SweepStep DEF SweeperInv


\* What the sweep deletes, or fails to, it may.
LEMMA DeletedKept ==
  ASSUME SweeperInv, NEW x, x = sweep, NEW k \in Keys, Sweepable(x, k), Followed(x, k),
         x.pc = "ttl" \/ (x.pc = "cap" /\ k = x.list[x.next]),
         Delete(k) \/ DeleteFails(k), hour' = hour
  PROVE  SweeperInv'
<1>0. SweepTyped(x) /\ Lawful(x) /\ Ordered(x) /\ Swept(x)
  BY DEF SweeperInv, SweepKept
<1>1. PICK m \in Int : m = x.next + 1
  <2>1. x.next + 1 \in Int
    BY <1>0 DEF SweepTyped
  <2> QED
    BY <2>1
<1>2. ASSUME NEW v, SweepKept(v), sweep' = v, store' \in [Keys -> Int] PROVE SweeperInv'
  BY <1>2, SweepStep DEF SweeperInv
<1>3. \A i \in 1..Len(x.list) : i >= x.next => i >= m \/ i = x.next
  BY <1>0, <1>1 DEF SweepTyped
<1>4. m >= 1
  BY <1>0, <1>1 DEF SweepTyped
<1>5. CASE Delete(k)
  <2>1. PICK d, r : d = x.deleted \cup {k} /\ r = x.left \ {k}
    OBVIOUS
  <2> DEFINE v == [x EXCEPT !.next = m, !.deleted = d, !.left = r]
  <2>2. sweep' = v /\ store' = [store EXCEPT ![k] = 0]
    BY <1>1, <1>5, <2>1 DEF Delete
  <2>3. store' \in [Keys -> Int]
    BY <2>2 DEF SweeperInv
  <2>4. /\ v = [f \in SweepFields |-> v[f]] /\ v.pc = x.pc /\ v.ids = x.ids
        /\ v.busy = x.busy /\ v.missed = x.missed
        /\ v.list = x.list /\ v.left = r /\ v.deleted = d /\ v.next = m
        /\ v.seen = x.seen /\ v.recent = x.recent /\ v.failed = x.failed
    BY <1>0 DEF SweepTyped, SweepFields
  <2> HIDE DEF v
  <2>5. \A j \in Keys : (Sweepable(v, j) <=> Sweepable(x, j)) /\ (Followed(v, j) <=> Followed(x, j))
    BY <2>4 DEF Sweepable, Followed
  <2>6. SweepTyped(v)
    BY <1>0, <1>4, <2>1, <2>4 DEF SweepTyped, SweepPcs
  <2>7. Lawful(v)
    <3>1. ASSUME NEW j \in x.deleted PROVE Sweepable(v, j) /\ Followed(v, j)
      BY <1>0, <2>4, <3>1 DEF Lawful, Sweepable, Followed
    <3> QED
      BY <2>1, <2>4, <2>5, <3>1 DEF Lawful
  <2>8. Ordered(v)
    <3>1. \A i \in 1..Len(v.list) : v.list[i] \in v.recent \/ Followed(v, v.list[i])
      BY <1>0, <2>4 DEF Ordered, Followed
    <3>2. v.pc = "ttl" => \A j \in v.left : j \in v.recent \/ Followed(v, j)
      BY <1>0, <2>1, <2>4 DEF Ordered, Followed
    <3> QED
      BY <3>1, <3>2 DEF Ordered
  <2>9. Swept(v)
    <3> SUFFICES ASSUME v.pc = "cap", NEW j \in v.left
                 PROVE  Passed(v, j) \/ \E i \in 1..Len(v.list) : i >= v.next /\ v.list[i] = j
      BY <2>4 DEF Swept
    <3>1. j \in x.left /\ j # k /\ x.pc = "cap"
      BY <2>1, <2>4
    <3>2. Passed(x, j) => Passed(v, j)
      BY <2>4 DEF Passed, Sweepable
    <3>3. Passed(x, j) \/ \E i \in 1..Len(x.list) : i >= x.next /\ x.list[i] = j
      BY <1>0, <3>1 DEF Swept
    <3> QED
      BY <1>3, <2>4, <3>1, <3>2, <3>3
  <2> QED
    BY <1>2, <2>2, <2>3, <2>6, <2>7, <2>8, <2>9 DEF SweepKept
<1>6. CASE DeleteFails(k)
  <2>1. PICK d, r : /\ d = x.failed \cup {k}
                    /\ r = IF x.pc = "ttl" THEN x.left \cup {k} ELSE x.left
    OBVIOUS
  <2> DEFINE v == [x EXCEPT !.next = m, !.failed = d, !.left = r]
  <2>2. sweep' = v /\ store' = store
    BY <1>1, <1>6, <2>1 DEF DeleteFails
  <2>3. store' \in [Keys -> Int]
    BY <2>2 DEF SweeperInv
  <2>4. /\ v = [f \in SweepFields |-> v[f]] /\ v.pc = x.pc /\ v.ids = x.ids
        /\ v.busy = x.busy /\ v.missed = x.missed
        /\ v.list = x.list /\ v.left = r /\ v.deleted = x.deleted /\ v.next = m
        /\ v.seen = x.seen /\ v.recent = x.recent /\ v.failed = d
    BY <1>0 DEF SweepTyped, SweepFields
  <2> HIDE DEF v
  <2>5. \A j \in Keys : (Sweepable(v, j) <=> Sweepable(x, j)) /\ (Followed(v, j) <=> Followed(x, j))
    BY <2>4 DEF Sweepable, Followed
  <2>6. SweepTyped(v)
    BY <1>0, <1>4, <2>1, <2>4 DEF SweepTyped, SweepPcs
  <2>7. Lawful(v)
    BY <1>0, <2>4 DEF Lawful, Sweepable, Followed
  <2>8. Ordered(v)
    <3>1. \A i \in 1..Len(v.list) : v.list[i] \in v.recent \/ Followed(v, v.list[i])
      BY <1>0, <2>4 DEF Ordered, Followed
    <3>2. ASSUME x.pc = "ttl", NEW j \in x.left PROVE j \in v.recent \/ Followed(v, j)
      BY <1>0, <2>4, <3>2 DEF Ordered, Followed
    <3>3. v.pc = "ttl" => \A j \in v.left : j \in v.recent \/ Followed(v, j)
      BY <2>1, <2>4, <2>5, <3>2
    <3> QED
      BY <3>1, <3>3 DEF Ordered
  <2>9. Swept(v)
    <3> SUFFICES ASSUME v.pc = "cap", NEW j \in v.left
                 PROVE  Passed(v, j) \/ \E i \in 1..Len(v.list) : i >= v.next /\ v.list[i] = j
      BY <2>4 DEF Swept
    <3>1. j \in x.left /\ x.pc = "cap"
      BY <2>1, <2>4
    <3>2. (Passed(x, j) => Passed(v, j)) /\ Passed(v, k)
      BY <2>1, <2>4 DEF Passed, Sweepable
    <3>3. Passed(x, j) \/ \E i \in 1..Len(x.list) : i >= x.next /\ x.list[i] = j
      BY <1>0, <3>1 DEF Swept
    <3> QED
      BY <1>3, <2>4, <3>1, <3>2, <3>3
  <2> QED
    BY <1>2, <2>2, <2>3, <2>6, <2>7, <2>8, <2>9 DEF SweepKept
<1> QED
  BY <1>5, <1>6


\* The artifact the passes look at was listed.
LEMMA InHand ==
  ASSUME SweeperInv, NEW pc, Pass(pc, sweep.list)
  PROVE  /\ sweep.next \in 1..Len(sweep.list) /\ sweep.list[sweep.next] \in Keys
         /\ sweep.next + 1 \in Int /\ sweep.next + 1 >= 1
<1>1. /\ sweep.next \in Int /\ sweep.next >= 1 /\ sweep.list \in Seq(Keys)
      /\ sweep.next <= Len(sweep.list)
  BY DEF SweeperInv, SweepKept, SweepTyped, Pass
<1>2. sweep.next \in 1..Len(sweep.list) /\ sweep.next + 1 \in Int /\ sweep.next + 1 >= 1
  BY <1>1
<1> QED
  BY <1>1, <1>2, ElementOfSeq

\* Both passes leave the artifacts that are protected.
LEMMA PassesKept ==
  ASSUME SweeperInv, TtlPass \/ CapPass
  PROVE  SweeperInv'
<1>0. PICK x, k : x = sweep /\ k = x.list[x.next]
  OBVIOUS
<1>1. /\ SweepTyped(x) /\ Lawful(x) /\ Ordered(x) /\ Swept(x)
      /\ x.pc \in {"ttl", "cap"} /\ Pass(x.pc, sweep.list) /\ hour' = hour
  BY <1>0 DEF SweeperInv, SweepKept, TtlPass, CapPass, Pass
<1>2. /\ x.next \in 1..Len(x.list) /\ k \in Keys
      /\ x.next + 1 \in Int /\ x.next + 1 >= 1
  BY <1>0, <1>1, InHand
<1>3. PICK m \in Int : m = x.next + 1 /\ m >= 1
  BY <1>2
<1>4. \A i \in 1..Len(x.list) : i >= x.next => i >= m \/ i = x.next
  BY <1>2, <1>3
<1>5. k \in x.recent \/ Followed(x, k)
  BY <1>0, <1>1, <1>2 DEF Ordered
<1>6. ~Exempt(k) <=> Sweepable(x, k)
  BY <1>0 DEF Exempt, Sweepable
<1>7. ASSUME ~Exempt(k), Delete(k) \/ DeleteFails(k) PROVE SweeperInv'
  <2>1. Sweepable(x, k) /\ Followed(x, k)
    BY <1>5, <1>6, <1>7 DEF Sweepable
  <2> QED
    BY <1>0, <1>1, <1>2, <1>7, <2>1, DeletedKept
<1>8. ASSUME TtlPass, ~(Expired(k) /\ ~Exempt(k)) PROVE SweeperInv'
  <2>1. PICK r : r = x.left \cup {k}
    OBVIOUS
  <2> DEFINE v == [x EXCEPT !.next = m, !.left = r]
  <2>2. sweep' = v /\ store' = store
    BY <1>0, <1>3, <1>8, <2>1 DEF TtlPass
  <2>3. /\ v = [f \in SweepFields |-> v[f]] /\ v.pc = x.pc /\ v.ids = x.ids
        /\ v.busy = x.busy /\ v.missed = x.missed
        /\ v.list = x.list /\ v.left = r /\ v.deleted = x.deleted /\ v.next = m
        /\ v.seen = x.seen /\ v.recent = x.recent /\ v.failed = x.failed
    BY <1>1 DEF SweepTyped, SweepFields
  <2>4. x.pc = "ttl"
    BY <1>0, <1>8 DEF TtlPass, Pass
  <2> HIDE DEF v
  <2>5. SweepTyped(v)
    BY <1>1, <1>2, <1>3, <2>1, <2>3, <2>4 DEF SweepTyped, SweepPcs
  <2>6. Lawful(v)
    BY <1>1, <2>3 DEF Lawful, Sweepable, Followed
  <2>7. Ordered(v)
    <3>1. \A i \in 1..Len(v.list) : v.list[i] \in v.recent \/ Followed(v, v.list[i])
      BY <1>1, <2>3 DEF Ordered, Followed
    <3>2. \A j \in x.left : j \in v.recent \/ Followed(v, j)
      BY <1>1, <2>3, <2>4 DEF Ordered, Followed
    <3>3. k \in v.recent \/ Followed(v, k)
      BY <1>5, <2>3 DEF Followed
    <3> QED
      BY <2>1, <2>3, <3>1, <3>2, <3>3 DEF Ordered
  <2>8. Swept(v)
    BY <2>3, <2>4 DEF Swept
  <2> QED
    BY <1>1, <2>2, <2>5, <2>6, <2>7, <2>8, SweepStep DEF SweepKept, SweeperInv
<1>9. ASSUME CapPass, Exempt(k) PROVE SweeperInv'
  <2> DEFINE v == [x EXCEPT !.next = m]
  <2>1. sweep' = v /\ store' = store
    BY <1>0, <1>3, <1>9 DEF CapPass
  <2>2. /\ v = [f \in SweepFields |-> v[f]] /\ v.pc = x.pc /\ v.ids = x.ids
        /\ v.busy = x.busy /\ v.missed = x.missed
        /\ v.list = x.list /\ v.left = x.left /\ v.deleted = x.deleted /\ v.next = m
        /\ v.seen = x.seen /\ v.recent = x.recent /\ v.failed = x.failed
    BY <1>1 DEF SweepTyped, SweepFields
  <2>3. x.pc = "cap"
    BY <1>0, <1>9 DEF CapPass, Pass
  <2> HIDE DEF v
  <2>4. SweepTyped(v)
    BY <1>1, <1>3, <2>2, <2>3 DEF SweepTyped, SweepPcs
  <2>5. Lawful(v)
    BY <1>1, <2>2 DEF Lawful, Sweepable, Followed
  <2>6. Ordered(v)
    BY <1>1, <2>2, <2>3 DEF Ordered, Followed
  <2>7. Swept(v)
    <3> SUFFICES ASSUME NEW j \in v.left
                 PROVE  Passed(v, j) \/ \E i \in 1..Len(v.list) : i >= v.next /\ v.list[i] = j
      BY <2>2, <2>3 DEF Swept
    <3>1. (Passed(x, j) => Passed(v, j)) /\ Passed(v, k)
      BY <1>6, <1>9, <2>2 DEF Passed, Sweepable
    <3>2. Passed(x, j) \/ \E i \in 1..Len(x.list) : i >= x.next /\ x.list[i] = j
      BY <1>1, <2>2, <2>3 DEF Swept
    <3> QED
      BY <1>0, <1>4, <2>2, <3>1, <3>2
  <2> QED
    BY <1>1, <2>1, <2>4, <2>5, <2>6, <2>7, SweepStep DEF SweepKept, SweeperInv
<1> QED
  BY <1>0, <1>7, <1>8, <1>9 DEF TtlPass, CapPass


\* The second pass has before it all that the first one left.
LEMMA StartCapKept ==
  ASSUME SweeperInv, StartCap
  PROVE  SweeperInv'
<1>0. PICK x : x = sweep
  OBVIOUS
<1>1. /\ SweepTyped(x) /\ Lawful(x) /\ Ordered(x)
      /\ x.pc = "ttl" /\ store' = store /\ hour' = hour
  BY <1>0 DEF SweeperInv, SweepKept, StartCap
<1>2. PICK q, p : /\ q \in AsListed(x.left) /\ p = (IF MaxTotal > 0 THEN "cap" ELSE "end")
                  /\ sweep' = [x EXCEPT !.pc = p, !.next = 1, !.list = q]
  BY <1>0 DEF StartCap
<1>3. x.left \in SUBSET Keys /\ IsFiniteSet(x.left)
  <2>1. x.left \in SUBSET Keys
    BY <1>1 DEF SweepTyped
  <2> QED
    BY <2>1, KeysFinite, FS_Subset
<1>4. PICK S : S = x.left
  OBVIOUS
<1>5. /\ q \in [1..Cardinality(S) -> S]
      /\ \A i, j \in DOMAIN q : i < j => q[i] # q[j]
  BY <1>2, <1>4 DEF AsListed
<1>6. q \in Seq(S) /\ \A k \in S : \E i \in 1..Len(q) : q[i] = k
  <2>1. IsFiniteSet(S)
    BY <1>3, <1>4
  <2> QED
    BY <1>5, <2>1, Listed
<1> DEFINE v == [x EXCEPT !.pc = p, !.next = 1, !.list = q]
<1>7. sweep' = v
  BY <1>2
<1>8. /\ v = [f \in SweepFields |-> v[f]] /\ v.pc = p /\ v.ids = x.ids
        /\ v.busy = x.busy /\ v.missed = x.missed
      /\ v.list = q /\ v.left = S /\ v.deleted = x.deleted /\ v.next = 1
      /\ v.seen = x.seen /\ v.recent = x.recent /\ v.failed = x.failed
  BY <1>1, <1>4 DEF SweepTyped, SweepFields
<1> HIDE DEF v
<1>9. p \in {"cap", "end"} /\ (p = "end" => MaxTotal = 0)
  <2>1. MaxTotal \in Nat
    BY SweeperAssumption
  <2> QED
    BY <1>2, <2>1
<1>10. SweepTyped(v)
  <2>1. q \in Seq(Keys)
    BY <1>3, <1>4, <1>6
  <2>2. v.list \in Seq(Keys)
    BY <1>8, <2>1, Zenon
  <2>3. /\ v = [f \in SweepFields |-> v[f]] /\ v.pc = p /\ v.busy \ v.missed \subseteq v.ids /\ v.left \subseteq Keys
        /\ v.next = 1
    BY <1>1, <1>3, <1>4, <1>8 DEF SweepTyped
  <2>4. 1 \in Int /\ 1 >= 1
    OBVIOUS
  <2> QED
    BY <1>9, <2>2, <2>3, <2>4 DEF SweepTyped, SweepPcs
<1>11. Lawful(v)
  BY <1>1, <1>8 DEF Lawful, Sweepable, Followed
<1>12. Ordered(v)
  <2> SUFFICES ASSUME NEW i \in 1..Len(q) PROVE q[i] \in v.recent \/ Followed(v, q[i])
    BY <1>8, <1>9 DEF Ordered
  <2>1. q[i] \in S
    BY <1>6, ElementOfSeq
  <2>2. q[i] \in x.recent \/ Followed(x, q[i])
    BY <1>1, <1>4, <2>1 DEF Ordered
  <2> QED
    BY <1>8, <2>2 DEF Followed
<1>13. Swept(v)
  <2>1. ASSUME NEW k \in S PROVE \E i \in 1..Len(q) : i >= 1 /\ q[i] = k
    BY <1>6, <2>1
  <2> QED
    BY <1>8, <1>9, <2>1 DEF Swept
<1> QED
  BY <1>1, <1>7, <1>10, <1>11, <1>12, <1>13, SweepStep DEF SweepKept, SweeperInv

\* A sweep ends when the rest fits or nothing of it is before it.
LEMMA EndCapKept ==
  ASSUME SweeperInv, EndCap
  PROVE  SweeperInv'
<1>0. PICK x : x = sweep
  OBVIOUS
<1>1. /\ SweepTyped(x) /\ Lawful(x) /\ Swept(x)
      /\ x.pc = "cap" /\ store' = store /\ hour' = hour
  BY <1>0 DEF SweeperInv, SweepKept, EndCap
<1> DEFINE v == [x EXCEPT !.pc = "end"]
<1>2. sweep' = v
  BY <1>0 DEF EndCap
<1>3. /\ v = [f \in SweepFields |-> v[f]] /\ v.pc = "end" /\ v.ids = x.ids
        /\ v.busy = x.busy /\ v.missed = x.missed
      /\ v.list = x.list /\ v.left = x.left /\ v.deleted = x.deleted /\ v.next = x.next
      /\ v.seen = x.seen /\ v.recent = x.recent /\ v.failed = x.failed
  BY <1>1 DEF SweepTyped, SweepFields
<1> HIDE DEF v
<1>4. SweepTyped(v)
  BY <1>1, <1>3 DEF SweepTyped, SweepPcs
<1>5. Lawful(v)
  BY <1>1, <1>3 DEF Lawful, Sweepable, Followed
<1>6. Ordered(v)
  BY <1>3 DEF Ordered
<1>7. Swept(v)
  <2>1. CASE BytesLeft <= MaxTotal
    <3>1. Cardinality(UNION {{k} \X (1..Size[k[1]]) : k \in v.left}) <= MaxTotal
      BY <1>0, <1>3, <2>1 DEF BytesLeft
    <3> QED
      BY <1>3, <3>1 DEF Swept
  <2>2. CASE x.next > Len(x.list)
    <3>1. x.next \in Int /\ Len(x.list) \in Nat
      BY <1>1, LenProperties DEF SweepTyped
    <3>2. \A i \in 1..Len(x.list) : ~(i >= x.next)
      BY <2>2, <3>1
    <3>3. \A k \in x.left : Passed(x, k)
      BY <1>1, <3>2 DEF Swept
    <3>4. \A k \in v.left : Passed(v, k)
      BY <1>3, <3>3 DEF Passed, Sweepable
    <3> QED
      BY <1>3, <3>4 DEF Swept
  <2> QED
    BY <1>0, <2>1, <2>2 DEF EndCap
<1> QED
  BY <1>1, <1>2, <1>4, <1>5, <1>6, <1>7, SweepStep DEF SweepKept, SweeperInv

\* The tasks and the clock leave the sweep alone.
LEMMA BesideKept ==
  ASSUME SweeperInv,
         \/ \E t \in Owners : Task(t) \/ \E f \in Artifacts : Put(t, f)
         \/ PassTime \/ UNCHANGED svars
  PROVE  SweeperInv'
<1>1. sweep' = sweep /\ SweepKept(sweep)
  BY DEF Task, Put, PassTime, svars, SweeperInv
<1>2. hour' \in Int
  <2>1. hour \in Int /\ hour + 1 \in Int
    BY DEF SweeperInv
  <2>2. hour' = hour \/ hour' = hour + 1
    BY DEF Task, Put, PassTime, svars
  <2> QED
    BY <2>1, <2>2
<1>3. store' \in [Keys -> Int]
  <2>1. ASSUME NEW t \in Owners, NEW f \in Artifacts, Put(t, f) PROVE store' \in [Keys -> Int]
    BY <2>1 DEF Put, SweeperInv
  <2>2. CASE UNCHANGED store
    BY <2>2 DEF SweeperInv
  <2> QED
    BY <2>1, <2>2 DEF Task, PassTime, svars
<1> QED
  BY <1>1, <1>2, <1>3, SweepStep

\* A sweep deletes no file of a task that was in flight when it began, stored as such
\* and among the newest tasks, and that writes under its own id; none that is among the
\* newest files it promises to keep; and what it leaves fits the cap, or is protected, or could not be deleted
\* (cleanup_artifacts(), beside tasks that go on writing).
THEOREM SweepsAreSafe == SweeperSpec => []SweepOutcome
<1>1. SweeperInit => SweeperInv
  <2> SUFFICES ASSUME SweeperInit PROVE SweeperInv
    OBVIOUS
  <2>1. /\ Idle = [f \in SweepFields |-> Idle[f]] /\ Idle.pc = "idle" /\ Idle.busy = {} /\ Idle.ids = {}
        /\ Idle.left = {} /\ Idle.deleted = {} /\ Idle.next = 1 /\ Idle.list = <<>>
    BY DEF Idle, SweepFields
  <2>2. Idle.list \in Seq(Keys)
    BY <2>1, EmptySeq, Zenon
  <2>3. SweepTyped(Idle)
    <3>1. 1 \in Int /\ 1 >= 1
      OBVIOUS
    <3>2. /\ Idle = [f \in SweepFields |-> Idle[f]] /\ Idle.pc = "idle" /\ Idle.busy = {} /\ Idle.ids = {}
          /\ Idle.left = {} /\ Idle.deleted = {} /\ Idle.next = 1
      BY <2>1
    <3> QED
      BY <2>2, <3>1, <3>2 DEF SweepTyped, SweepPcs
  <2>4. SweepKept(Idle)
    <3>1. Idle.pc = "idle" /\ Idle.deleted = {}
      BY <2>1
    <3> QED
      BY <2>3, <3>1 DEF SweepKept, Lawful, Ordered, Swept
  <2>5. store \in [Keys -> Int] /\ hour \in Int /\ sweep = Idle
    BY DEF SweeperInit
  <2> QED
    BY <2>4, <2>5 DEF SweeperInv
<1>2. SweeperInv /\ [SweeperNext]_svars => SweeperInv'
  BY BoundsKept, ListedKept, PassesKept, StartCapKept, EndCapKept, BesideKept
     DEF SweeperNext, Sweep
<1>3. SweeperInv => SweepOutcome
  <2> SUFFICES ASSUME SweeperInv, sweep.pc = "end" PROVE SweepOutcome
    BY DEF SweepOutcome
  <2>1. /\ sweep.busy \ sweep.missed \subseteq sweep.ids
        /\ \A k \in sweep.deleted : Sweepable(sweep, k) /\ Followed(sweep, k)
    BY DEF SweeperInv, SweepKept, SweepTyped, Lawful
  <2>2. \/ MaxTotal = 0 \/ BytesLeft <= MaxTotal
        \/ \A k \in sweep.left : Passed(sweep, k)
    BY DEF SweeperInv, SweepKept, Swept, BytesLeft
  <2>3. \A k : ~Sweepable(sweep, k) => Exempt(k)
    BY DEF Sweepable, Exempt
  <2>4. \A t \in sweep.busy \ sweep.missed, k \in sweep.deleted : HeadOf[t] = t => k[1] # t
    BY <2>1 DEF Sweepable
  <2>5. \A k \in sweep.deleted :
          Cardinality({j \in Keys \ {k} : sweep.seen[j] >= sweep.seen[k]}) >= KeepLast
    BY <2>1 DEF Followed
  <2> QED
    BY <2>2, <2>3, <2>4, <2>5 DEF SweepOutcome, Passed
<1> QED
  BY <1>1, <1>2, <1>3, PTL DEF SweeperSpec


-----------------------------------------------------------------------------
\* The rendered film

\* zones that cover the first m of n segments, each of one emotion
ZonesOf(zs, m, n) ==
  /\ zs \in Seq(Nat \X Nat)
  /\ \A k \in DOMAIN zs : /\ zs[k][1] <= zs[k][2]
                          /\ \A p \in zs[k][1] .. zs[k][2] : Emotion(p, n) = Emotion(zs[k][1], n)
  /\ \A p \in 1 .. m : \E k \in DOMAIN zs : p \in zs[k][1] .. zs[k][2]
  /\ IF m = 0 THEN zs = <<>> ELSE zs # <<>> /\ zs[Len(zs)][2] = m

\* A new segment extends the last zone or opens one of its own.
LEMMA GrownZones ==
  ASSUME NEW m \in Nat, NEW n, NEW zs, ZonesOf(zs, m, n)
  PROVE  ZonesOf(Grown(zs, m + 1, n), m + 1, n)
<1> DEFINE i == m + 1
           l == Len(zs)
           gs == Grown(zs, i, n)
<1>1. /\ i \in Nat /\ i # 0 /\ l \in Nat /\ DOMAIN zs = 1 .. l /\ zs \in [1 .. l -> Nat \X Nat]
      /\ \A k \in 1 .. l : zs[k][1] \in Nat /\ zs[k][2] \in Nat
  <2>1. zs \in Seq(Nat \X Nat)
    BY DEF ZonesOf
  <2>2. l \in Nat /\ DOMAIN zs = 1 .. l /\ zs \in [1 .. l -> Nat \X Nat]
    BY <2>1
  <2> HIDE DEF l
  <2> QED
    BY <2>2
<1>2. CASE zs # <<>> /\ Emotion(i, n) = Emotion(zs[l][1], n)
  <2>1. gs = [zs EXCEPT ![l][2] = i]
    BY <1>2 DEF Grown
  <2>2. m # 0 /\ zs[l][2] = m /\ l \in 1 .. l
    <3>1. m # 0 /\ zs[l][2] = m
      BY <1>2 DEF ZonesOf
    <3>2. l # 0
      BY <1>2 DEF ZonesOf
    <3> HIDE DEF l
    <3> QED
      BY <1>1, <3>1, <3>2
  <2>3. PICK a \in Nat : zs[l] = <<a, m>>
    <3>1. PICK a \in Nat, b \in Nat : zs[l] = <<a, b>>
      <4>1. zs[l] \in Nat \X Nat
        BY <1>1, <2>2
      <4> QED
        BY <4>1
    <3> QED
      BY <2>2, <3>1
  <2>4. gs = [k \in 1 .. l |-> IF k = l THEN <<a, i>> ELSE zs[k]]
    <3>1. [zs[l] EXCEPT ![2] = i] = <<a, i>>
      BY <2>3
    <3> HIDE DEF i, l
    <3> QED
      BY <1>1, <2>1, <3>1
  <2> HIDE DEF gs, l
  <2>5. gs \in Seq(Nat \X Nat) /\ Len(gs) = l /\ DOMAIN gs = 1 .. l
    <3>1. <<a, i>> \in Nat \X Nat
      BY <1>1
    <3>2. gs \in [1 .. l -> Nat \X Nat]
      BY <1>1, <2>4, <3>1
    <3> QED
      BY <1>1, <3>2
  <2>6. \A k \in 1 .. l : gs[k][1] = zs[k][1] /\ (k # l => gs[k][2] = zs[k][2])
    BY <2>3, <2>4
  <2>7. gs[l] = <<a, i>> /\ zs[l][1] = a
    BY <2>2, <2>3, <2>4
  <2>8. ASSUME NEW k \in 1 .. l, NEW p \in gs[k][1] .. gs[k][2]
        PROVE  Emotion(p, n) = Emotion(gs[k][1], n)
    <3>1. CASE k = l
      <4>1. p \in a .. i
        BY <2>7, <2>8, <3>1
      <4>2. p = i \/ p \in a .. m
        BY <4>1
      <4>3. p \in a .. m => Emotion(p, n) = Emotion(a, n)
        <5>1. l \in DOMAIN zs /\ zs[l][1] = a /\ zs[l][2] = m
          BY <1>1, <2>2, <2>7
        <5>2. \A q \in zs[l][1] .. zs[l][2] : Emotion(q, n) = Emotion(zs[l][1], n)
          BY <5>1 DEF ZonesOf
        <5> QED
          BY <5>1, <5>2
      <4>4. Emotion(i, n) = Emotion(a, n)
        BY <1>2, <2>7
      <4> QED
        BY <2>7, <3>1, <4>2, <4>3, <4>4
    <3>2. CASE k # l
      <4>1. gs[k][1] = zs[k][1] /\ gs[k][2] = zs[k][2]
        BY <2>6, <3>2
      <4> QED
        BY <1>1, <2>8, <4>1 DEF ZonesOf
    <3> QED
      BY <3>1, <3>2
  <2>9. ASSUME NEW k \in 1 .. l PROVE gs[k][1] <= gs[k][2]
    <3>1. zs[k][1] <= zs[k][2]
      BY <1>1 DEF ZonesOf
    <3> QED
      BY <1>1, <2>2, <2>6, <2>7, <3>1
  <2>10. ASSUME NEW p \in 1 .. i PROVE \E k \in 1 .. l : p \in gs[k][1] .. gs[k][2]
    <3>1. CASE p = i
      <4>1. a <= i
        <5>1. zs[l][1] <= zs[l][2]
          BY <1>1, <2>2 DEF ZonesOf
        <5> QED
          BY <2>2, <2>7, <5>1
      <4> QED
        BY <2>2, <2>7, <3>1, <4>1
    <3>2. CASE p # i
      <4>1. p \in 1 .. m
        BY <3>2
      <4>2. PICK k \in 1 .. l : p \in zs[k][1] .. zs[k][2]
        BY <1>1, <4>1 DEF ZonesOf
      <4>3. CASE k = l
        BY <2>2, <2>3, <2>7, <4>2, <4>3
      <4>4. CASE k # l
        BY <2>6, <4>2, <4>4
      <4> QED
        BY <4>3, <4>4
    <3> QED
      BY <3>1, <3>2
  <2>11. gs # <<>> /\ gs[Len(gs)][2] = i
    BY <2>2, <2>5, <2>7
  <2>12. ZonesOf(gs, i, n)
    BY <1>1, <2>5, <2>8, <2>9, <2>10, <2>11 DEF ZonesOf
  <2> QED
    BY <2>12 DEF gs
<1>3. CASE ~(zs # <<>> /\ Emotion(i, n) = Emotion(zs[l][1], n))
  <2>1. gs = Append(zs, <<i, i>>)
    BY <1>3 DEF Grown
  <2>2. <<i, i>> \in Nat \X Nat
    BY <1>1
  <2> HIDE DEF i, l
  <2>3. /\ gs \in Seq(Nat \X Nat) /\ Len(gs) = l + 1 /\ DOMAIN gs = 1 .. (l + 1)
        /\ \A k \in 1 .. l : gs[k] = zs[k]
        /\ gs[l + 1] = <<i, i>>
    <3>1. zs \in Seq(Nat \X Nat) /\ Len(zs) = l
      BY DEF ZonesOf, l
    <3> HIDE DEF gs
    <3> QED
      BY <1>1, <2>1, <2>2, <3>1
  <2> HIDE DEF gs
  <2>4. ASSUME NEW k \in DOMAIN gs, NEW p \in gs[k][1] .. gs[k][2]
        PROVE  Emotion(p, n) = Emotion(gs[k][1], n)
    <3>1. CASE k = l + 1
      <4>1. p = i /\ gs[k][1] = i
        BY <1>1, <2>3, <2>4, <3>1
      <4> QED
        BY <4>1
    <3>2. CASE k # l + 1
      <4>1. k \in 1 .. l
        BY <1>1, <2>3, <2>4, <3>2
      <4> QED
        BY <1>1, <2>3, <2>4, <4>1 DEF ZonesOf
    <3> QED
      BY <3>1, <3>2
  <2>5. ASSUME NEW p \in 1 .. i PROVE \E k \in DOMAIN gs : p \in gs[k][1] .. gs[k][2]
    <3>1. CASE p = i
      <4>1. l + 1 \in DOMAIN gs /\ gs[l + 1][1] = i /\ gs[l + 1][2] = i
        BY <1>1, <2>3
      <4>2. i \in gs[l + 1][1] .. gs[l + 1][2]
        BY <1>1, <4>1
      <4> QED
        BY <3>1, <4>1, <4>2
    <3>2. CASE p # i
      <4>1. p \in 1 .. m
        BY <3>2 DEF i
      <4>2. PICK k \in 1 .. l : p \in zs[k][1] .. zs[k][2]
        BY <1>1, <4>1 DEF ZonesOf
      <4>3. k \in DOMAIN gs /\ gs[k] = zs[k]
        BY <1>1, <2>3
      <4> QED
        BY <4>2, <4>3
    <3> QED
      BY <3>1, <3>2
  <2>6. gs # <<>> /\ gs[Len(gs)][2] = i
    BY <1>1, <2>3
  <2>7. ASSUME NEW k \in DOMAIN gs PROVE gs[k][1] <= gs[k][2]
    <3>1. CASE k = l + 1
      BY <1>1, <2>3, <3>1
    <3>2. CASE k # l + 1
      <4>1. k \in DOMAIN zs /\ gs[k] = zs[k]
        BY <1>1, <2>3, <3>2
      <4> QED
        BY <4>1 DEF ZonesOf
    <3> QED
      BY <3>1, <3>2
  <2>8. ZonesOf(gs, i, n)
    BY <1>1, <2>3, <2>4, <2>5, <2>6, <2>7 DEF ZonesOf
  <2> QED
    BY <2>8 DEF gs, i
<1> QED
  BY <1>2, <1>3

\* _detect_emotion_zones() covers every segment with a zone of its emotion.
LEMMA ZonesRight ==
  ASSUME NEW n \in Nat
  PROVE  ZonesOf(Zones(n), n, n)
<1> DEFINE Next(g, i) == IF i = 0 THEN <<>> ELSE Grown(g[i - 1], i, n)
           Grows(m, g) == g = [i \in 0 .. m |-> Next(g, i)]
           S == {m \in Nat : \E g : Grows(m, g)}
<1>1. 0 \in S
  <2> DEFINE g == [i \in 0 .. 0 |-> <<>>]
  <2>1. \A i \in 0 .. 0 : i = 0
    OBVIOUS
  <2>2. g = [i \in 0 .. 0 |-> Next(g, i)]
    BY <2>1
  <2> HIDE DEF g, Next
  <2> QED
    BY <2>2
<1>2. \A m \in Nat : m \in S => m + 1 \in S
  <2> SUFFICES ASSUME NEW m \in Nat, m \in S PROVE m + 1 \in S
    OBVIOUS
  <2>0. PICK g : Grows(m, g)
    <3> HIDE DEF Grows
    <3> QED
      OBVIOUS
  <2> DEFINE h == [i \in 0 .. m + 1 |-> IF i = m + 1 THEN Grown(g[m], m + 1, n) ELSE g[i]]
  <2>1. \A i \in 0 .. m + 1 : h[i] = Next(h, i)
    <3> SUFFICES ASSUME NEW i \in 0 .. m + 1 PROVE h[i] = Next(h, i)
      OBVIOUS
    <3>1. CASE i = m + 1
      <4>1. i # 0 /\ i - 1 = m /\ m \in 0 .. m + 1 /\ m # m + 1
        BY <3>1
      <4>2. h[m] = g[m]
        BY <4>1
      <4> QED
        BY <3>1, <4>1, <4>2
    <3>2. CASE i # m + 1
      <4>1. i \in 0 .. m /\ (i # 0 => i - 1 \in 0 .. m + 1 /\ i - 1 # m + 1)
        BY <3>2
      <4>2. h[i] = g[i] /\ (i # 0 => h[i - 1] = g[i - 1])
        BY <3>2, <4>1
      <4>3. g[i] = Next(g, i)
        <5> HIDE DEF Next
        <5> QED
          BY <2>0, <4>1
      <4> QED
        BY <4>2, <4>3
    <3> QED
      BY <3>1, <3>2
  <2>2. h = [i \in 0 .. m + 1 |-> Next(h, i)]
    <3> HIDE DEF Next
    <3> QED
      BY <2>1
  <2> HIDE DEF h, Next
  <2> QED
    BY <2>2
<1>3. n \in S
  <2> HIDE DEF S
  <2> QED
    BY <1>1, <1>2, EveryNatural
<1> DEFINE upto == CHOOSE g : Grows(n, g)
<1>4. Zones(n) = upto[n]
  BY DEF Zones
<1>5. Grows(n, upto)
  <2> HIDE DEF Grows
  <2> QED
    BY <1>3
<1>6. \A i \in 0 .. n : upto[i] = Next(upto, i)
  <2> HIDE DEF upto, Next
  <2> QED
    BY <1>5
<1> HIDE DEF upto
<1> DEFINE R == {m \in Nat : m <= n => ZonesOf(upto[m], m, n)}
<1>7. 0 \in R
  <2>1. upto[0] = <<>>
    BY <1>6
  <2>2. <<>> \in Seq(Nat \X Nat) /\ DOMAIN <<>> = {}
    OBVIOUS
  <2>3. 1 .. 0 = {}
    OBVIOUS
  <2> QED
    BY <2>1, <2>2, <2>3 DEF ZonesOf
<1>8. \A m \in Nat : m \in R => m + 1 \in R
  <2> SUFFICES ASSUME NEW m \in Nat, m + 1 <= n, ZonesOf(upto[m], m, n)
               PROVE  ZonesOf(upto[m + 1], m + 1, n)
    OBVIOUS
  <2>1. m + 1 \in 0 .. n /\ m + 1 # 0 /\ (m + 1) - 1 = m
    OBVIOUS
  <2>2. upto[m + 1] = Grown(upto[m], m + 1, n)
    BY <1>6, <2>1
  <2> QED
    BY <2>2, GrownZones
<1>9. n \in R
  <2> HIDE DEF R
  <2> QED
    BY <1>7, <1>8, EveryNatural
<1> QED
  BY <1>4, <1>9

\* The music is a music file, a sample or the request's own.
LEMMA MusicIs ==
  ASSUME order.own \in Song, order.samples \in Seq(Song)
  PROVE  Music \in Song
<1>1. CASE SelectBgm = 0
  BY <1>1 DEF Music
<1>2. CASE SelectBgm # 0
  <2> DEFINE told == \E b \in DOMAIN order.emotions : order.emotions[b] # "none"
             fit == {k \in DOMAIN order.samples :
                       told /\ order.samples[k].exists /\ order.samples[k].score > 0}
             top == {k \in fit : \A j \in fit : order.samples[j].score <= order.samples[k].score}
  <2>1. SelectBgm = IF fit = {} THEN 0 ELSE Min(top)
    BY DEF SelectBgm
  <2>2. fit \subseteq DOMAIN order.samples /\ DOMAIN order.samples = 1 .. Len(order.samples)
    OBVIOUS
  <2>3. \A k \in DOMAIN order.samples : order.samples[k] \in Song
    BY <2>2
  <2> HIDE DEF fit, told
  <2>4. fit # {}
    BY <1>2, <2>1
  <2> DEFINE scores == {order.samples[k].score : k \in fit}
  <2>5. scores \in SUBSET (0 .. 120) /\ scores # {}
    <3>1. \A x \in Song : x.score \in 0 .. 120
      BY DEF Song
    <3> QED
      BY <2>2, <2>3, <2>4, <3>1
  <2>6. Max(scores) \in scores /\ \A x \in scores : Max(scores) >= x
    <3> HIDE DEF scores
    <3> QED
      BY <2>5, MaxIsGreatest
  <2>7. top # {} /\ top \in SUBSET Nat
    <3>1. PICK k \in fit : order.samples[k].score = Max(scores)
      BY <2>6
    <3>2. \A j \in fit : order.samples[j].score <= order.samples[k].score
      BY <2>5, <2>6, <3>1
    <3> QED
      BY <2>2, <3>2
  <2>8. Min(top) \in top
    <3> HIDE DEF top
    <3> QED
      BY <2>7, MinIsLeast
  <2>9. SelectBgm \in DOMAIN order.samples
    BY <2>1, <2>2, <2>4, <2>8
  <2> QED
    BY <2>3, <2>9 DEF Music
<1> QED
  BY <1>1, <1>2

\* The mood that is mixed under n lines of narration is right for each of them.
LEMMA MoodTuned ==
  ASSUME order.own \in Song, order.samples \in Seq(Song), NEW n \in Nat
  PROVE  Len(Mood(n)) = n /\ InTune(Mood(n), n)
<1>1. PICK zs : zs = Zones(n)
  OBVIOUS
<1>2. ZonesOf(zs, n, n)
  BY <1>1, ZonesRight
<1>3. PICK c, l : c = Music.channels /\ l = Music.lasts
  OBVIOUS
<1>4. l \in Nat \ {0}
  BY <1>3, MusicIs DEF Song
<1> DEFINE mood == [i \in 1 .. n |-> Gain(zs, 1 + c * ((i - 1) % l), n)]
<1>5. Mood(n) = mood
  BY <1>1, <1>3 DEF Mood
<1>6. Len(mood) = n
  <2> DEFINE S == {mood[i] : i \in 1 .. n}
  <2>1. mood \in [1 .. n -> S]
    OBVIOUS
  <2> HIDE DEF mood, S
  <2> QED
    BY <2>1
<1>7. ASSUME c = 1, n <= l, NEW i \in 1 .. n
      PROVE  mood[i] = Gain(zs, i, n)
  <2>1. (i - 1) % l = i - 1
    BY <1>4, <1>7
  <2>2. 1 + c * ((i - 1) % l) = i
    BY <1>7, <2>1
  <2> QED
    BY <2>2
<1>8. ASSUME NEW i \in 1 .. n
      PROVE  IF Len(zs) <= 1 THEN Gain(zs, i, n) = "none" /\ Emotion(i, n) = Emotion(1, n)
             ELSE Gain(zs, i, n) = Emotion(i, n)
  <2>1. ~(i > n) /\ n # 0 /\ 1 \in 1 .. n
    OBVIOUS
  <2>2. \A p \in 1 .. n : \E k \in DOMAIN zs : p \in zs[k][1] .. zs[k][2]
    BY <1>2 DEF ZonesOf
  <2>3. \A k \in DOMAIN zs : \A p \in zs[k][1] .. zs[k][2] : Emotion(p, n) = Emotion(zs[k][1], n)
    BY <1>2 DEF ZonesOf
  <2>4. CASE Len(zs) <= 1
    <3>1. \A k \in DOMAIN zs : k = 1
      <4>1. zs \in Seq(Nat \X Nat)
        BY <1>2 DEF ZonesOf
      <4> QED
        BY <2>4, <4>1
    <3>2. Emotion(i, n) = Emotion(zs[1][1], n) /\ Emotion(1, n) = Emotion(zs[1][1], n)
      BY <2>1, <2>2, <2>3, <3>1
    <3> QED
      BY <2>4, <3>2 DEF Gain
  <2>5. CASE ~(Len(zs) <= 1)
    <3>1. PICK k : k = CHOOSE j \in DOMAIN zs : i \in zs[j][1] .. zs[j][2]
      OBVIOUS
    <3>2. k \in DOMAIN zs /\ i \in zs[k][1] .. zs[k][2]
      BY <2>2, <3>1
    <3>3. Gain(zs, i, n) = Emotion(zs[k][1], n)
      BY <2>1, <2>5, <3>1 DEF Gain
    <3> QED
      BY <2>3, <2>5, <3>2, <3>3
  <2> QED
    BY <2>4, <2>5
<1>9. InTune(mood, n)
  <2> SUFFICES ASSUME c = 1, n <= l
               PROVE  \/ \A i \in 1 .. n : mood[i] = Emotion(i, n)
                      \/ \A i \in 1 .. n : mood[i] = "none" /\ Emotion(i, n) = Emotion(1, n)
    <3> HIDE DEF mood
    <3> QED
      BY <1>3, <1>6 DEF InTune
  <2>1. \A i \in 1 .. n : mood[i] = Gain(zs, i, n)
    BY <1>7
  <2> HIDE DEF mood
  <2> QED
    BY <1>8, <2>1
<1> QED
  BY <1>5, <1>6, <1>9

MediaFields == {"voice", "lines", "clips", "bgm", "final", "mood", "srt", "video", "encoder",
                "why", "covered", "degraded"}
ShotFields == {"at", "audio", "sound", "picture", "text", "codec", "fellBack", "clips"}
DiskFields == {"audio", "srt", "raw", "part", "video", "report", "cover", "clips", "manifest"}
OrderFields == {"host", "pause", "bgm", "own", "samples", "normalize", "delivery", "mp4", "depth",
                "space", "encoder", "gpu", "preview", "title", "emotions"}
StageSet == {"voice", "bgm", "subtitle", "render", "check", "export", "manifest"}
AfterVoice == {"bgm", "subtitle", "render", "check", "export", "manifest", "done"}
AfterSubtitle == {"render", "check", "export", "manifest", "done"}

OrderKept ==
  /\ order = [f \in OrderFields |-> order[f]]
  /\ order.host \in {"cli", "cloud"} /\ order.delivery \in {"burned", "sidecar", "muxed", "other"}
  /\ order.own \in Song /\ order.samples \in Seq(Song)

\* a context that goes on with the step at: there is a narration, and the music
\* follows its mood
MediaKept(m, at) ==
  /\ m = [f \in MediaFields |-> m[f]]
  /\ m.lines \in Nat
  /\ at = "voice" => m.bgm = "none"
  /\ at \in AfterVoice => m.voice # 0
  /\ Len(m.mood) \in Nat
  /\ m.bgm = "success" => InTune(m.mood, m.lines)

\* the saved context; a worker saves it after every step
StagesKept ==
  /\ stage \in StageSet \cup {"paused", "failed", "done"}
  /\ kept = [at |-> kept.at, media |-> kept.media] /\ kept.at \in StageSet \cup {"done"}
  /\ order.host = "cloud" /\ stage \in StageSet => stage = kept.at

\* a video that may be shown
Deliverable(v) ==
  /\ v.whole /\ (v.depth = 10 => v.codec = "libx264")
  /\ ~(v.burned /\ v.soft) /\ (v.burned \/ v.soft \/ order.delivery = "sidecar")
  /\ v.soft => order.mp4

DiskKept ==
  /\ disk = [f \in DiskFields |-> disk[f]]
  /\ disk.audio = [f \in AudioFiles |-> disk.audio[f]] /\ disk.audio["raw"].gen \in Nat
  /\ disk.video = NoVideo \/ Deliverable(disk.video)
  /\ stage \in AfterSubtitle \/ kept.at \in AfterSubtitle \/ disk.video # NoVideo => disk.srt # 0

\* the render in hand, up to the file it has published
ShotKept ==
  shot.at # "none" =>
    /\ stage = "render" /\ shot = [f \in ShotFields |-> shot[f]]
    /\ shot.codec = ActiveCodec
    /\ shot.text \in {"burned", "sidecar", "muxed"}
    /\ (shot.text = "sidecar" => order.delivery = "sidecar") /\ (shot.text = "muxed" => order.mp4)
    /\ shot.at = "mux" => disk.raw.whole /\ disk.raw.codec = shot.codec
    /\ shot.at = "publish" => Deliverable(disk.part) /\ disk.part.codec = shot.codec
    /\ shot.at = "report" => disk.video.codec = shot.codec

\* the context names the encoder of the video there is
Told(m) ==
  m.encoder = disk.video.codec /\ (m.encoder # ResolveEncoder => m.why \in {"10bit", "runtime"})

ToldKept ==
  /\ stage \in AfterRender /\ (order.host = "cli" => kept.at \notin AfterRender) => Told(media)
  /\ order.host = "cloud" /\ kept.at \in AfterRender => Told(kept.media)

FinalInv ==
  /\ OrderKept /\ StagesKept /\ MediaKept(media, stage) /\ MediaKept(kept.media, kept.at)
  /\ DiskKept /\ ShotKept /\ ToldKept

\* The stages in their order.
LEMMA StagesAre ==
  /\ Range(Stages) = StageSet
  /\ \A k \in DOMAIN Stages : Stages[k] \in StageSet
  /\ \A j, k \in DOMAIN Stages : Stages[j] = Stages[k] => j = k
  /\ DOMAIN Stages = 1 .. 7 /\ Len(Stages) = 7
<1>1. DOMAIN Stages = 1 .. 7 /\ Len(Stages) = 7
  BY DEF Stages
<1>2. \A k \in 1 .. 7 : k = 1 \/ k = 2 \/ k = 3 \/ k = 4 \/ k = 5 \/ k = 6 \/ k = 7
  OBVIOUS
<1>3. \A k \in DOMAIN Stages : Stages[k] \in StageSet
  BY <1>1, <1>2 DEF Stages, StageSet
<1>4. \A j, k \in DOMAIN Stages : Stages[j] = Stages[k] => j = k
  BY <1>1, <1>2 DEF Stages
<1>5. StageSet \subseteq Range(Stages)
  <2>1. /\ Stages[1] = "voice" /\ Stages[2] = "bgm" /\ Stages[3] = "subtitle" /\ Stages[4] = "render"
        /\ Stages[5] = "check" /\ Stages[6] = "export" /\ Stages[7] = "manifest"
    BY DEF Stages
  <2>2. \A k \in 1 .. 7 : Stages[k] \in Range(Stages)
    BY <1>1 DEF Range
  <2>3. 1 \in 1 .. 7 /\ 2 \in 1 .. 7 /\ 3 \in 1 .. 7 /\ 4 \in 1 .. 7 /\ 5 \in 1 .. 7 /\ 6 \in 1 .. 7
        /\ 7 \in 1 .. 7
    OBVIOUS
  <2> HIDE DEF Stages
  <2> QED
    BY <2>1, <2>2, <2>3 DEF StageSet
<1>6. Range(Stages) \subseteq StageSet
  BY <1>3 DEF Range
<1> QED
  BY <1>1, <1>3, <1>4, <1>5, <1>6

\* The step that comes next.
LEMMA NextStep ==
  /\ Next1("voice") = "bgm" /\ Next1("bgm") = "subtitle" /\ Next1("subtitle") = "render"
  /\ Next1("render") = "check" /\ Next1("check") = "export" /\ Next1("export") = "manifest"
  /\ Next1("manifest") = "done"
<1>1. ASSUME NEW j \in 2 .. 7
      PROVE  (CHOOSE k \in 2 .. Len(Stages) : Stages[k - 1] = Stages[j - 1]) = j
  <2>1. Len(Stages) = 7 /\ \A k \in 2 .. 7 : k - 1 \in DOMAIN Stages /\ (Stages[k - 1] = Stages[j - 1] => k = j)
    <3>1. \A k \in 2 .. 7 : k - 1 \in 1 .. 7 /\ (k - 1 = j - 1 => k = j)
      OBVIOUS
    <3> QED
      BY <3>1, StagesAre
  <2> QED
    BY <2>1
<1>2. /\ Stages[1] = "voice" /\ Stages[2] = "bgm" /\ Stages[3] = "subtitle" /\ Stages[4] = "render"
      /\ Stages[5] = "check" /\ Stages[6] = "export" /\ Stages[7] = "manifest"
  BY DEF Stages
<1>3. ASSUME NEW j \in 2 .. 7, Stages[j - 1] # "manifest" PROVE Next1(Stages[j - 1]) = Stages[j]
  BY <1>1, <1>3 DEF Next1
<1>4. /\ Next1(Stages[1]) = Stages[2] /\ Next1(Stages[2]) = Stages[3] /\ Next1(Stages[3]) = Stages[4]
      /\ Next1(Stages[4]) = Stages[5] /\ Next1(Stages[5]) = Stages[6] /\ Next1(Stages[6]) = Stages[7]
  <2>1. /\ 2 \in 2 .. 7 /\ 3 \in 2 .. 7 /\ 4 \in 2 .. 7 /\ 5 \in 2 .. 7 /\ 6 \in 2 .. 7 /\ 7 \in 2 .. 7
        /\ 2 - 1 = 1 /\ 3 - 1 = 2 /\ 4 - 1 = 3 /\ 5 - 1 = 4 /\ 6 - 1 = 5 /\ 7 - 1 = 6
    OBVIOUS
  <2>2. \A k \in 1 .. 6 : Stages[k] # "manifest"
    <3>1. \A k \in 1 .. 6 : k = 1 \/ k = 2 \/ k = 3 \/ k = 4 \/ k = 5 \/ k = 6
      OBVIOUS
    <3> QED
      BY <1>2, <3>1
  <2>3. ASSUME NEW k \in 1 .. 6, NEW j \in 2 .. 7, j - 1 = k PROVE Next1(Stages[k]) = Stages[j]
    BY <1>3, <2>2, <2>3
  <2>4. 1 \in 1 .. 6 /\ 2 \in 1 .. 6 /\ 3 \in 1 .. 6 /\ 4 \in 1 .. 6 /\ 5 \in 1 .. 6 /\ 6 \in 1 .. 6
    OBVIOUS
  <2> QED
    BY <2>1, <2>3, <2>4
<1>5. Next1("manifest") = "done"
  BY DEF Next1
<1> QED
  BY <1>2, <1>4, <1>5

\* A rerun begins before the step the saved context goes on with.
LEMMA BeforeKept ==
  ASSUME NEW k \in DOMAIN Stages, NEW j \in DOMAIN Stages, k < j
  PROVE  /\ Stages[k] \in StageSet
         /\ Stages[k] \in AfterVoice => Stages[j] \in AfterVoice
         /\ Stages[k] \in AfterSubtitle => Stages[j] \in AfterSubtitle
         /\ Stages[k] \in AfterRender => Stages[j] \in AfterRender
<1>1. DOMAIN Stages = 1 .. 7 /\ Stages[k] \in StageSet
  BY StagesAre
<1>2. /\ Stages[1] = "voice" /\ Stages[2] = "bgm" /\ Stages[3] = "subtitle" /\ Stages[4] = "render"
      /\ Stages[5] = "check" /\ Stages[6] = "export" /\ Stages[7] = "manifest"
  BY DEF Stages
<1>3. \A i \in 1 .. 7 : i = 1 \/ i = 2 \/ i = 3 \/ i = 4 \/ i = 5 \/ i = 6 \/ i = 7
  OBVIOUS
<1>4. \A i \in 1 .. 7 : /\ Stages[i] \in AfterVoice <=> i > 1
                        /\ Stages[i] \in AfterSubtitle <=> i > 3
                        /\ Stages[i] \in AfterRender <=> i > 4
  BY <1>2, <1>3 DEF AfterVoice, AfterSubtitle, AfterRender
<1>5. k \in 1 .. 7 /\ j \in 1 .. 7
  BY <1>1
<1> QED
  BY <1>1, <1>4, <1>5

\* The least of two numbers is one of them and no more than the other.
LEMMA LeastOfTwo ==
  ASSUME NEW a \in Nat, NEW b \in Nat
  PROVE  Min({a, b}) \in Nat /\ Min({a, b}) <= a
<1>1. \E x \in {a, b} : \A y \in {a, b} : x <= y
  OBVIOUS
<1>2. Min({a, b}) \in {a, b} /\ \A y \in {a, b} : Min({a, b}) <= y
  BY <1>1 DEF Min
<1> QED
  BY <1>2

\* What depends on the request alone stays as it is: mn rerun only lets go of the pause.
SameOrder ==
  /\ OrderKept'
  /\ order'.host = order.host /\ order'.delivery = order.delivery /\ order'.mp4 = order.mp4
  /\ ResolveEncoder' = ResolveEncoder /\ Depth' = Depth

LEMMA OrderFollows ==
  ASSUME OrderKept, order' = order \/ order' = [order EXCEPT !.pause = "never"]
  PROVE  SameOrder /\ \A m, at : MediaKept(m, at) => MediaKept(m, at)'
<1>1. CASE order' = order
  <2>1. SameOrder
    BY <1>1 DEF SameOrder, OrderKept, ResolveEncoder, Depth
  <2>2. Music' = Music /\ \A i, n : Emotion(i, n)' = Emotion(i, n)
    BY <1>1 DEF Music, SelectBgm, Emotion
  <2>3. \A mood, lines : InTune(mood, lines)' <=> InTune(mood, lines)
    BY <2>2 DEF InTune
  <2> QED
    BY <2>1, <2>3 DEF MediaKept
<1>2. CASE order' = [order EXCEPT !.pause = "never"]
  <2>1. /\ order' = [f \in OrderFields |-> order'[f]]
        /\ \A f \in OrderFields \ {"pause"} : order'[f] = order[f]
    BY <1>2 DEF OrderKept, OrderFields
  <2>2. /\ order'.host = order.host /\ order'.delivery = order.delivery /\ order'.mp4 = order.mp4
        /\ order'.encoder = order.encoder /\ order'.gpu = order.gpu /\ order'.space = order.space
        /\ order'.depth = order.depth /\ order'.emotions = order.emotions
        /\ order'.bgm = order.bgm /\ order'.own = order.own /\ order'.samples = order.samples
    BY <2>1 DEF OrderFields
  <2>3. SameOrder
    BY <2>1, <2>2 DEF SameOrder, OrderKept, ResolveEncoder, Depth
  <2>4. Music' = Music /\ \A i, n : Emotion(i, n)' = Emotion(i, n)
    BY <2>2 DEF Music, SelectBgm, Emotion
  <2>5. \A mood, lines : InTune(mood, lines)' <=> InTune(mood, lines)
    BY <2>4 DEF InTune
  <2> QED
    BY <2>3, <2>5 DEF MediaKept
<1> QED
  BY <1>1, <1>2

\* When a step ends, the context it leaves is the one that is gone on with, or saved.
LEMMA EndsKept ==
  ASSUME FinalInv, NEW m, Ends(m), stage \in StageSet,
         MediaKept(m, Next1(stage)),
         stage = "render" => Told(m)',
         stage \in AfterRender => m = media /\ disk'.video = disk.video
  PROVE  /\ OrderKept' /\ StagesKept' /\ MediaKept(media, stage)' /\ MediaKept(kept.media, kept.at)'
         /\ ToldKept' /\ SameOrder
         /\ stage' \in AfterSubtitle \/ kept'.at \in AfterSubtitle
              => stage \in AfterSubtitle \cup {"subtitle"} \/ kept.at \in AfterSubtitle
<1>1. /\ media' = m /\ order' = order
      /\ kept' = IF order.host = "cloud" \/ order.pause = stage
                 THEN [at |-> Next1(stage), media |-> m] ELSE kept
      /\ stage' = IF order.host = "cli" /\ order.pause = stage THEN "paused" ELSE Next1(stage)
  BY DEF Ends
<1>2. SameOrder /\ \A c, at : MediaKept(c, at) => MediaKept(c, at)'
  BY <1>1, OrderFollows DEF FinalInv
<1>3. PICK next : next = Next1(stage)
  OBVIOUS
<1>4. /\ next \in StageSet \cup {"done"}
      /\ next \in AfterRender => stage = "render" \/ stage \in AfterRender
      /\ next \in AfterSubtitle => stage \in AfterSubtitle \cup {"subtitle"}
  BY <1>3, NextStep DEF StageSet, AfterRender, AfterSubtitle
<1>5. kept' = [at |-> next, media |-> m] \/ kept' = kept
  BY <1>1, <1>3
<1>6. StagesKept'
  <2>1. stage' \in StageSet \cup {"paused", "failed", "done"}
    BY <1>1, <1>3, <1>4
  <2>2. kept' = [at |-> kept'.at, media |-> kept'.media] /\ kept'.at \in StageSet \cup {"done"}
    BY <1>4, <1>5 DEF FinalInv, StagesKept
  <2>3. order'.host = "cloud" => stage' = kept'.at
    BY <1>1, <1>3
  <2> QED
    BY <2>1, <2>2, <2>3 DEF StagesKept
<1>7. MediaKept(m, next)'
  BY <1>2, <1>3
<1>8. MediaKept(m, "paused")'
  BY <1>7 DEF MediaKept, AfterVoice
<1>9. MediaKept(media, stage)'
  BY <1>1, <1>3, <1>7, <1>8
<1>10. MediaKept(kept.media, kept.at)'
  <2>1. PICK c, at : c = kept.media /\ at = kept.at
    OBVIOUS
  <2>2. MediaKept(c, at)'
    BY <1>2, <2>1 DEF FinalInv
  <2>3. (kept'.media = c /\ kept'.at = at) \/ (kept'.media = m /\ kept'.at = next)
    BY <1>5, <2>1
  <2> QED
    BY <1>7, <2>2, <2>3
<1>11. next \in AfterRender /\ (order.host = "cloud" \/ kept.at \notin AfterRender) => Told(m)'
  <2> SUFFICES ASSUME next \in AfterRender, order.host = "cloud" \/ kept.at \notin AfterRender,
                      stage # "render"
               PROVE  Told(m)'
    OBVIOUS
  <2>1. stage \in AfterRender /\ m = media /\ disk'.video = disk.video
    BY <1>4
  <2>2. Told(media)
    BY <2>1 DEF FinalInv, ToldKept
  <2> QED
    BY <1>2, <2>1, <2>2 DEF Told, SameOrder
<1>12. ToldKept'
  <2>1. ASSUME stage' \in AfterRender, order'.host = "cli" => kept'.at \notin AfterRender
        PROVE  Told(media)'
    <3>1. stage' = next
      BY <1>1, <1>3, <2>1 DEF AfterRender
    <3>2. order.host = "cloud" \/ (order.host = "cli" /\ kept' = kept)
      BY <1>1, <3>1, <2>1, <1>2, <1>3, <1>4 DEF FinalInv, OrderKept, StagesKept, StageSet, AfterRender
    <3>3. Told(m)'
      BY <1>1, <1>11, <2>1, <3>1, <3>2
    <3> QED
      BY <1>1, <3>3
  <2>2. ASSUME order'.host = "cloud", kept'.at \in AfterRender
        PROVE  Told(kept.media)'
    <3>1. kept'.at = next /\ kept'.media = m
      BY <1>1, <1>3, <2>2
    <3>2. Told(m)'
      BY <1>1, <1>11, <2>2, <3>1
    <3> QED
      BY <3>1, <3>2
  <2> QED
    BY <2>1, <2>2 DEF ToldKept
<1> QED
  BY <1>1, <1>2, <1>3, <1>4, <1>5, <1>6, <1>9, <1>10, <1>12 DEF SameOrder, AfterSubtitle

\* The files beside which only the sound, the report or the clips have changed.
SameFilm(d, e) ==
  /\ e = [f \in DiskFields |-> e[f]]
  /\ e.audio = [f \in AudioFiles |-> e.audio[f]] /\ e.audio["raw"] = d.audio["raw"]
  /\ e.video = d.video /\ e.srt = d.srt

LEMMA FilmStays ==
  ASSUME FinalInv, SameFilm(disk, disk'), SameOrder,
         stage' \in AfterSubtitle \/ kept'.at \in AfterSubtitle
           => stage \in AfterSubtitle \/ kept.at \in AfterSubtitle
  PROVE  DiskKept'
<1>1. /\ disk' = [f \in DiskFields |-> disk'[f]]
      /\ disk'.audio = [f \in AudioFiles |-> disk'.audio[f]] /\ disk'.audio["raw"].gen \in Nat
      /\ disk'.video = disk.video /\ disk'.srt = disk.srt
  BY DEF SameFilm, FinalInv, DiskKept
<1>2. disk.video = NoVideo \/ Deliverable(disk.video)'
  BY <1>1 DEF FinalInv, DiskKept, Deliverable, SameOrder
<1>3. disk'.video = NoVideo \/ Deliverable(disk.video)'
  BY <1>1, <1>2
<1>4. stage' \in AfterSubtitle \/ kept'.at \in AfterSubtitle \/ disk'.video # NoVideo => disk'.srt # 0
  BY <1>1 DEF FinalInv, DiskKept
<1> QED
  BY <1>1, <1>3, <1>4 DEF DiskKept

\* ensure_final_audio() touches the sound alone.
LEMMA Ensured ==
  ASSUME NEW m, NEW at, MediaKept(m, at), NEW d, SameFilm(d, d), NEW r \in EnsureFinal(m, d)
  PROVE  /\ MediaKept(r[1], at) /\ SameFilm(d, r[2])
         /\ r[1].lines = m.lines /\ r[1].bgm = m.bgm /\ r[1].mood = m.mood
<1>1. \/ r = <<m, d>>
      \/ \E f : r = <<[m EXCEPT !.final = f], d>>
      \/ \E f : r = <<[m EXCEPT !.final = f], [d EXCEPT !.audio["normal"] = d.audio["raw"]]>>
  BY DEF EnsureFinal
<1>2. ASSUME NEW f, NEW c, c = [m EXCEPT !.final = f]
      PROVE  MediaKept(c, at) /\ c.lines = m.lines /\ c.bgm = m.bgm /\ c.mood = m.mood
  <2>1. m = [g \in MediaFields |-> m[g]]
    BY DEF MediaKept
  <2>2. c = [g \in MediaFields |-> c[g]] /\ \A g \in MediaFields \ {"final"} : c[g] = m[g]
    BY <1>2, <2>1 DEF MediaFields
  <2>3. c.lines = m.lines /\ c.bgm = m.bgm /\ c.mood = m.mood /\ c.voice = m.voice
    BY <2>2 DEF MediaFields
  <2> QED
    BY <2>2, <2>3 DEF MediaKept
<1>3. ASSUME NEW e, e = [d EXCEPT !.audio["normal"] = d.audio["raw"]]
      PROVE  SameFilm(d, e)
  <2>1. d = [f \in DiskFields |-> d[f]] /\ d.audio = [f \in AudioFiles |-> d.audio[f]]
    BY DEF SameFilm
  <2>2. e = [d EXCEPT !.audio = [d.audio EXCEPT !["normal"] = d.audio["raw"]]]
    BY <1>3
  <2>3. /\ e = [f \in DiskFields |-> e[f]] /\ \A f \in DiskFields \ {"audio"} : e[f] = d[f]
        /\ e.audio = [d.audio EXCEPT !["normal"] = d.audio["raw"]]
    BY <2>1, <2>2 DEF DiskFields
  <2>4. e.audio = [f \in AudioFiles |-> e.audio[f]] /\ e.audio["raw"] = d.audio["raw"]
    BY <2>1, <2>3 DEF AudioFiles
  <2> QED
    BY <2>3, <2>4 DEF SameFilm, DiskFields
<1>4. r[1] = m \/ \E f : r[1] = [m EXCEPT !.final = f]
  <2>1. ASSUME r = <<m, d>> PROVE r[1] = m
    BY <2>1
  <2>2. ASSUME NEW f, NEW e, r = <<[m EXCEPT !.final = f], e>> PROVE r[1] = [m EXCEPT !.final = f]
    BY <2>2
  <2> QED
    BY <1>1, <2>1, <2>2
<1>5. r[2] = d \/ r[2] = [d EXCEPT !.audio["normal"] = d.audio["raw"]]
  BY <1>1
<1> QED
  BY <1>2, <1>3, <1>4, <1>5

\* A narration begins anew: there is no music yet.
LEMMA NarrateKept ==
  ASSUME FinalInv, NEW k \in LineCounts, NEW clips, Narrate(k, clips)
  PROVE  FinalInv'
<1>1. PICK m, gen, a : /\ gen = disk.audio["raw"].gen + 1 /\ a = [disk.audio EXCEPT !["raw"] = [gen |-> gen, lines |-> k]]
                       /\ m = [media EXCEPT !.voice = gen, !.lines = k, !.clips = clips]
  OBVIOUS
<1>2. /\ stage = "voice" /\ Ends(m) /\ UNCHANGED <<shot, renders>>
      /\ disk' = [disk EXCEPT !.audio = a]
  BY <1>1 DEF Narrate
<1>3. gen \in Nat /\ gen # 0 /\ k \in Nat
  BY <1>1, FinalCutAssumption DEF FinalInv, DiskKept
<1>4. MediaKept(m, "bgm")
  <2>1. media = [f \in MediaFields |-> media[f]] /\ media.bgm = "none"
    BY <1>2 DEF FinalInv, MediaKept
  <2>2. m = [f \in MediaFields |-> m[f]] /\ m.bgm = media.bgm /\ m.lines = k /\ m.voice = gen
    BY <1>1, <2>1 DEF MediaFields
  <2> QED
    BY <1>3, <2>1, <2>2 DEF MediaKept
<1>5. Next1(stage) = "bgm" /\ stage \in StageSet /\ stage \notin AfterRender /\ stage # "render"
      /\ stage \notin AfterSubtitle \cup {"subtitle"}
  BY <1>2, NextStep DEF StageSet, AfterRender, AfterSubtitle
<1>6. /\ OrderKept' /\ StagesKept' /\ MediaKept(media, stage)' /\ MediaKept(kept.media, kept.at)'
      /\ ToldKept' /\ SameOrder
      /\ stage' \in AfterSubtitle \/ kept'.at \in AfterSubtitle => kept.at \in AfterSubtitle
  BY <1>2, <1>4, <1>5, EndsKept
<1>7. DiskKept'
  <2>1. /\ disk' = [f \in DiskFields |-> disk'[f]] /\ disk'.audio = a
        /\ disk'.video = disk.video /\ disk'.srt = disk.srt
    BY <1>2 DEF FinalInv, DiskKept, DiskFields
  <2>2. a = [f \in AudioFiles |-> a[f]] /\ a["raw"] = [gen |-> gen, lines |-> k]
    BY <1>1 DEF FinalInv, DiskKept, AudioFiles
  <2>3. disk.video = NoVideo \/ Deliverable(disk.video)'
    BY <1>6, <2>1 DEF FinalInv, DiskKept, Deliverable, SameOrder
  <2>4. disk'.video = NoVideo \/ Deliverable(disk.video)'
    BY <2>1, <2>3
  <2>5. stage' \in AfterSubtitle \/ kept'.at \in AfterSubtitle \/ disk'.video # NoVideo => disk'.srt # 0
    BY <1>6, <2>1 DEF FinalInv, DiskKept
  <2>6. disk'.audio["raw"].gen \in Nat
    BY <1>3, <2>1, <2>2
  <2> QED
    BY <2>1, <2>2, <2>4, <2>5, <2>6 DEF DiskKept
<1>8. ShotKept'
  BY <1>2, <1>5 DEF FinalInv, ShotKept
<1> QED
  BY <1>6, <1>7, <1>8 DEF FinalInv

\* A step that ends and leaves the film as it is.
LEMMA EndsBeside ==
  ASSUME FinalInv, NEW m, Ends(m), stage \in {"bgm", "check", "export", "manifest"},
         UNCHANGED shot, SameFilm(disk, disk'), MediaKept(m, Next1(stage)),
         stage \in AfterRender => m = media
  PROVE  FinalInv'
<1>1. stage \in StageSet /\ stage # "render" /\ (stage \in AfterSubtitle \cup {"subtitle"} => stage \in AfterSubtitle)
  BY DEF StageSet, AfterSubtitle
<1>2. disk'.video = disk.video
  BY DEF SameFilm
<1>3. /\ OrderKept' /\ StagesKept' /\ MediaKept(media, stage)' /\ MediaKept(kept.media, kept.at)'
      /\ ToldKept' /\ SameOrder
      /\ stage' \in AfterSubtitle \/ kept'.at \in AfterSubtitle
           => stage \in AfterSubtitle \/ kept.at \in AfterSubtitle
  BY <1>1, <1>2, EndsKept
<1>4. DiskKept'
  BY <1>3, FilmStays
<1>5. ShotKept'
  BY <1>1 DEF FinalInv, ShotKept
<1> QED
  BY <1>3, <1>4, <1>5 DEF FinalInv

\* The files there are are a film of their own.
LEMMA FilmIsItself ==
  ASSUME FinalInv
  PROVE  SameFilm(disk, disk)
  BY DEF FinalInv, DiskKept, SameFilm

\* Music that is mixed in changes its mood with the narration.
LEMMA MixKept ==
  ASSUME FinalInv, MixBgm
  PROVE  FinalInv'
<1>1. stage = "bgm" /\ UNCHANGED <<shot, renders>> /\ Next1(stage) = "subtitle" /\ stage \notin AfterRender
  BY NextStep DEF MixBgm, AfterRender
<1>2. /\ media = [f \in MediaFields |-> media[f]] /\ media.lines \in Nat /\ media.voice # 0
      /\ SameFilm(disk, disk)
  BY <1>1, FilmIsItself DEF FinalInv, MediaKept, AfterVoice
<1>3. \/ /\ Ends([media EXCEPT !.bgm = "success", !.final = "mixed", !.mood = Mood(media.lines)])
         /\ disk' = [disk EXCEPT !.audio["mixed"] = disk.audio["raw"]]
      \/ \E v \in {"failed", "skipped"} : \E r \in EnsureFinal([media EXCEPT !.bgm = v], disk) :
           Ends(r[1]) /\ disk' = r[2]
  BY DEF MixBgm
<1>4. CASE /\ Ends([media EXCEPT !.bgm = "success", !.final = "mixed", !.mood = Mood(media.lines)])
           /\ disk' = [disk EXCEPT !.audio["mixed"] = disk.audio["raw"]]
  <2>1. PICK m, md, a : /\ md = Mood(media.lines) /\ a = [disk.audio EXCEPT !["mixed"] = disk.audio["raw"]]
                        /\ m = [media EXCEPT !.bgm = "success", !.final = "mixed", !.mood = md]
    OBVIOUS
  <2>2. Ends(m) /\ disk' = [disk EXCEPT !.audio = a]
    BY <1>4, <2>1
  <2>3. Len(md) = media.lines /\ InTune(md, media.lines)
    BY <1>2, <2>1, MoodTuned DEF FinalInv, OrderKept
  <2>4. m = [f \in MediaFields |-> m[f]] /\ m.mood = md /\ m.lines = media.lines /\ m.voice = media.voice
    BY <1>2, <2>1 DEF MediaFields
  <2>5. MediaKept(m, "subtitle")
    BY <1>2, <2>3, <2>4 DEF MediaKept
  <2>6. SameFilm(disk, disk')
    <3>1. /\ disk' = [f \in DiskFields |-> disk'[f]] /\ disk'.audio = a
          /\ disk'.video = disk.video /\ disk'.srt = disk.srt
      BY <2>2, <1>2 DEF SameFilm, DiskFields
    <3>2. a = [f \in AudioFiles |-> a[f]] /\ a["raw"] = disk.audio["raw"]
      BY <2>1, <1>2 DEF SameFilm, AudioFiles
    <3> QED
      BY <3>1, <3>2 DEF SameFilm
  <2> QED
    BY <1>1, <2>2, <2>5, <2>6, EndsBeside
<1>5. CASE \E v \in {"failed", "skipped"} : \E r \in EnsureFinal([media EXCEPT !.bgm = v], disk) :
             Ends(r[1]) /\ disk' = r[2]
  <2>1. PICK v, c : v \in {"failed", "skipped"} /\ c = [media EXCEPT !.bgm = v] /\
               \E r \in EnsureFinal(c, disk) : Ends(r[1]) /\ disk' = r[2]
    BY <1>5
  <2>2. PICK r \in EnsureFinal(c, disk) : Ends(r[1]) /\ disk' = r[2]
    BY <2>1
  <2>3. c = [f \in MediaFields |-> c[f]] /\ c.bgm = v /\ c.lines = media.lines /\ c.voice = media.voice
    BY <1>2, <2>1 DEF MediaFields
  <2>4. MediaKept(c, "subtitle")
    BY <1>2, <2>1, <2>3 DEF MediaKept
  <2>5. MediaKept(r[1], "subtitle") /\ SameFilm(disk, r[2])
    BY <1>2, <2>2, <2>4, Ensured
  <2>6. PICK m : m = r[1]
    OBVIOUS
  <2>7. Ends(m) /\ MediaKept(m, "subtitle") /\ SameFilm(disk, disk')
    BY <2>2, <2>5, <2>6
  <2> QED
    BY <1>1, <2>7, EndsBeside
<1> QED
  BY <1>3, <1>4, <1>5

\* The tracks are written of a narration that there is.
LEMMA SubtitleKept ==
  ASSUME FinalInv, GenerateSubtitle
  PROVE  FinalInv'
<1>1. PICK m, n : n = media.voice /\ m = [media EXCEPT !.srt = n]
  OBVIOUS
<1>2. /\ stage = "subtitle" /\ Ends(m) /\ UNCHANGED <<shot, renders>>
      /\ disk' = [disk EXCEPT !.srt = n]
  BY <1>1 DEF GenerateSubtitle
<1>3. /\ Next1(stage) = "render" /\ stage \in StageSet /\ stage \notin AfterRender /\ stage # "render"
  BY <1>2, NextStep DEF StageSet, AfterRender
<1>4. MediaKept(media, "subtitle") /\ n # 0
  BY <1>1, <1>2 DEF FinalInv, MediaKept, AfterVoice
<1>5. MediaKept(m, "render")
  <2>1. /\ m = [f \in MediaFields |-> m[f]] /\ m.lines = media.lines /\ m.bgm = media.bgm
        /\ m.mood = media.mood /\ m.voice = media.voice
    BY <1>1, <1>4 DEF MediaKept, MediaFields
  <2> QED
    BY <1>1, <1>4, <2>1 DEF MediaKept
<1>6. /\ OrderKept' /\ StagesKept' /\ MediaKept(media, stage)' /\ MediaKept(kept.media, kept.at)'
      /\ ToldKept' /\ SameOrder
  BY <1>2, <1>3, <1>5, EndsKept
<1>7. DiskKept'
  <2>1. /\ disk' = [f \in DiskFields |-> disk'[f]] /\ disk'.audio = disk.audio
        /\ disk'.video = disk.video /\ disk'.srt # 0
    BY <1>2, <1>4 DEF FinalInv, DiskKept, DiskFields
  <2>2. disk.video = NoVideo \/ Deliverable(disk.video)'
    BY <1>6, <2>1 DEF FinalInv, DiskKept, Deliverable, SameOrder
  <2>3. disk'.video = NoVideo \/ Deliverable(disk.video)'
    BY <2>1, <2>2
  <2>4. disk'.audio = [f \in AudioFiles |-> disk'.audio[f]] /\ disk'.audio["raw"].gen \in Nat
    BY <2>1 DEF FinalInv, DiskKept
  <2> QED
    BY <2>1, <2>3, <2>4 DEF DiskKept
<1>8. ShotKept'
  BY <1>2 DEF FinalInv, ShotKept
<1> QED
  BY <1>6, <1>7, <1>8 DEF FinalInv

\* A step that fails, or dies, leaves the saved context and the film as they are.
LEMMA AbortKept ==
  ASSUME FinalInv, Aborts, SameFilm(disk, disk')
  PROVE  FinalInv'
<1>1. /\ stage' = "failed" /\ shot' = NoShot /\ UNCHANGED <<order, media, kept>>
  BY DEF Aborts
<1>2. SameOrder /\ \A m, at : MediaKept(m, at) => MediaKept(m, at)'
  BY <1>1, OrderFollows DEF FinalInv
<1>3. StagesKept'
  BY <1>1 DEF FinalInv, StagesKept, StageSet
<1>4. MediaKept(media, stage)' /\ MediaKept(kept.media, kept.at)'
  <2>1. PICK m, c, at : m = media /\ c = kept.media /\ at = kept.at
    OBVIOUS
  <2>2. MediaKept(m, "failed") /\ MediaKept(c, at)
    BY <2>1 DEF FinalInv, MediaKept, AfterVoice
  <2>3. MediaKept(m, "failed")' /\ MediaKept(c, at)'
    BY <1>2, <2>2
  <2> QED
    BY <1>1, <2>1, <2>3
<1>5. DiskKept'
  <2>1. stage' \in AfterSubtitle \/ kept'.at \in AfterSubtitle
          => stage \in AfterSubtitle \/ kept.at \in AfterSubtitle
    BY <1>1 DEF AfterSubtitle
  <2> QED
    BY <1>2, <2>1, FilmStays
<1>6. ShotKept'
  BY <1>1 DEF ShotKept, NoShot
<1>7. ToldKept'
  <2>1. disk'.video = disk.video
    BY DEF SameFilm
  <2>2. ASSUME order'.host = "cloud", kept'.at \in AfterRender PROVE Told(kept.media)'
    <3>1. Told(kept.media)
      BY <1>1, <2>2 DEF FinalInv, ToldKept
    <3> QED
      BY <1>1, <1>2, <2>1, <3>1 DEF Told, SameOrder
  <2>3. stage' \notin AfterRender
    BY <1>1 DEF AfterRender
  <2> QED
    BY <2>2, <2>3 DEF ToldKept
<1> QED
  BY <1>2, <1>3, <1>4, <1>5, <1>6, <1>7 DEF FinalInv, SameOrder

\* The process that renders fails its admission, or dies.
LEMMA StoppedKept ==
  ASSUME FinalInv, AdmissionFails \/ ProcessDies
  PROVE  FinalInv'
<1>1. Aborts /\ UNCHANGED disk
  BY DEF AdmissionFails, ProcessDies
<1>2. SameFilm(disk, disk')
  BY <1>1, FilmIsItself
<1> QED
  BY <1>1, <1>2, AbortKept

\* Inside a render, the context and what is saved do not change.
LEMMA RenderingKept ==
  ASSUME FinalInv, stage = "render", UNCHANGED <<order, stage, kept>>,
         media' = media \/ MediaKept(media, stage)'
  PROVE  /\ OrderKept' /\ StagesKept' /\ MediaKept(media, stage)' /\ MediaKept(kept.media, kept.at)'
         /\ ToldKept' /\ SameOrder
<1>1. SameOrder /\ \A m, at : MediaKept(m, at) => MediaKept(m, at)'
  BY OrderFollows DEF FinalInv
<1>2. StagesKept'
  BY DEF FinalInv, StagesKept
<1>3. MediaKept(kept.media, kept.at)'
  <2>1. PICK c, at : c = kept.media /\ at = kept.at
    OBVIOUS
  <2>2. MediaKept(c, at)'
    BY <1>1, <2>1 DEF FinalInv
  <2> QED
    BY <2>1, <2>2
<1>4. MediaKept(media, stage)'
  <2> SUFFICES ASSUME media' = media PROVE MediaKept(media, stage)'
    OBVIOUS
  <2>1. PICK c, at : c = media /\ at = stage
    OBVIOUS
  <2>2. MediaKept(c, at)'
    BY <1>1, <2>1 DEF FinalInv
  <2> QED
    BY <2>1, <2>2
<1>5. ToldKept'
  <2>1. stage \notin AfterRender
    BY DEF AfterRender
  <2>2. ~(order.host = "cloud" /\ kept.at \in AfterRender)
    BY <2>1 DEF FinalInv, StagesKept, StageSet
  <2> QED
    BY <2>1, <2>2 DEF ToldKept
<1> QED
  BY <1>1, <1>2, <1>3, <1>4, <1>5 DEF SameOrder

\* A preview is told of fewer lines, and the mood of those is as it was.
LEMMA WindowKept ==
  ASSUME NEW m, NEW at, MediaKept(m, at)
  PROVE  MediaKept(Window(m), at)
<1>1. CASE ~order.preview
  BY <1>1 DEF Window
<1>2. CASE order.preview
  <2>1. PICK n, w : n = Min({m.lines, PreviewLines}) /\ w = [m EXCEPT !.lines = n]
    OBVIOUS
  <2>2. n \in Nat /\ n <= m.lines /\ m.lines \in Nat
    BY <2>1, LeastOfTwo, FinalCutAssumption DEF MediaKept
  <2>3. /\ w = [f \in MediaFields |-> w[f]] /\ w.lines = n /\ w.bgm = m.bgm /\ w.mood = m.mood
        /\ w.voice = m.voice
    BY <2>1 DEF MediaKept, MediaFields
  <2>4. w.bgm = "success" => InTune(w.mood, w.lines)
    <3>1. m.bgm = "success" => InTune(m.mood, m.lines) /\ Len(m.mood) \in Nat
      BY DEF MediaKept
    <3> QED
      BY <2>2, <2>3, <3>1 DEF InTune
  <2>5. MediaKept(w, at)
    BY <2>2, <2>3, <2>4 DEF MediaKept
  <2> QED
    BY <1>2, <2>1, <2>5 DEF Window
<1> QED
  BY <1>1, <1>2

\* A render begins with the codec the request resolves to.
LEMMA BeginKept ==
  ASSUME FinalInv, NEW open, NEW broken, BeginRender(open, broken)
  PROVE  FinalInv'
<1>1. /\ stage = "render" /\ shot.at = "none"
  BY DEF BeginRender
<1>2. PICK r \in EnsureFinal(media, disk) : \E parts, cards, audio, sound :
        /\ disk' = r[2]
        /\ \/ /\ media' = Window(r[1])
              /\ shot' = [at |-> "encode", audio |-> audio.gen, sound |-> sound,
                            picture |-> Max({sound, order.title} \cup parts),
                            text |-> Delivery(Window(r[1])),
                            codec |-> Codec, fellBack |-> FALSE,
                            clips |-> IF open THEN media.clips ELSE {}]
              /\ UNCHANGED <<order, stage, kept>>
           \/ Aborts
  BY ZenonT(20) DEF BeginRender
<1>3. MediaKept(r[1], "render") /\ SameFilm(disk, disk')
  <2>1. MediaKept(media, "render") /\ SameFilm(disk, disk)
    BY <1>1, FilmIsItself DEF FinalInv
  <2> QED
    BY <1>2, <2>1, Ensured
<1>4. CASE Aborts
  BY <1>3, <1>4, AbortKept
<1>5. CASE ~Aborts
  <2>1. PICK m, text, codec, au, so, pic, cl :
           /\ m = Window(r[1]) /\ media' = m /\ text = Delivery(m) /\ codec = Codec
           /\ shot' = [at |-> "encode", audio |-> au, sound |-> so, picture |-> pic,
                       text |-> text, codec |-> codec, fellBack |-> FALSE, clips |-> cl]
           /\ UNCHANGED <<order, stage, kept>>
    BY <1>2, <1>5
  <2>2. MediaKept(m, "render")
    BY <1>3, <2>1, WindowKept
  <2>3. MediaKept(media, stage)'
    <3>1. \A c, at : MediaKept(c, at) => MediaKept(c, at)'
      BY <2>1, OrderFollows DEF FinalInv
    <3>2. MediaKept(m, "render")'
      BY <2>2, <3>1
    <3> QED
      BY <1>1, <2>1, <3>2
  <2>4. /\ OrderKept' /\ StagesKept' /\ MediaKept(media, stage)' /\ MediaKept(kept.media, kept.at)'
        /\ ToldKept' /\ SameOrder
    BY <1>1, <2>1, <2>3, RenderingKept
  <2>5. DiskKept'
    BY <1>3, <2>1, <2>4, FilmStays
  <2>6. ShotKept'
    <3>1. /\ shot' = [f \in ShotFields |-> shot'[f]] /\ shot'.at = "encode"
          /\ shot'.text = text /\ shot'.codec = codec /\ shot'.fellBack = FALSE
      BY <2>1 DEF ShotFields
    <3>2. ActiveCodec' = codec
      BY <2>1, <2>4, <3>1 DEF ActiveCodec, Codec, SameOrder
    <3>3. /\ text \in {"burned", "sidecar", "muxed"}
          /\ (text = "sidecar" => order.delivery = "sidecar") /\ (text = "muxed" => order.mp4)
      BY <2>1 DEF Delivery, FinalInv, OrderKept
    <3>4. stage' = "render" /\ order' = order
      BY <1>1, <2>1
    <3> QED
      BY <3>1, <3>2, <3>3, <3>4 DEF ShotKept
  <2> QED
    BY <2>4, <2>5, <2>6 DEF FinalInv
<1> QED
  BY <1>4, <1>5

\* What a render leaves in .tmp is no part of the film yet.
LEMMA ScratchKept ==
  ASSUME FinalInv, NEW f \in {"raw", "part"}, NEW x, disk' = [disk EXCEPT ![f] = x]
  PROVE  SameFilm(disk, disk') /\ disk'[f] = x
  BY DEF SameFilm, FinalInv, DiskKept, DiskFields

\* Each encode goes by the codec that is named in the end.
LEMMA EncodeKept ==
  ASSUME FinalInv, Encode
  PROVE  FinalInv'
<1>1. /\ shot.at = "encode" /\ stage = "render" /\ shot = [f \in ShotFields |-> shot[f]]
      /\ shot.codec = ActiveCodec /\ shot.text \in {"burned", "sidecar", "muxed"}
      /\ (shot.text = "sidecar" => order.delivery = "sidecar") /\ (shot.text = "muxed" => order.mp4)
  BY DEF Encode, FinalInv, ShotKept
<1>2. PICK x : /\ disk' = [disk EXCEPT !.raw = x]
               /\ \/ /\ x.whole /\ x.codec = shot.codec /\ shot' = [shot EXCEPT !.at = "mux"]
                     /\ UNCHANGED <<order, stage, media, kept>>
                  \/ /\ shot.codec = "gpu" /\ shot' = [shot EXCEPT !.codec = "libx264", !.fellBack = TRUE]
                     /\ UNCHANGED <<order, stage, media, kept>>
                  \/ Aborts
  <2>1. CASE /\ disk' = [disk EXCEPT !.raw = [gen |-> shot.audio, whole |-> TRUE, codec |-> shot.codec]]
             /\ shot' = [shot EXCEPT !.at = "mux"] /\ UNCHANGED <<order, stage, media, kept>>
    <3>1. PICK x : x = [gen |-> shot.audio, whole |-> TRUE, codec |-> shot.codec]
      OBVIOUS
    <3>2. x.whole /\ x.codec = shot.codec
      BY <3>1
    <3> QED
      BY <2>1, <3>1, <3>2
  <2>2. ASSUME NEW c, disk' = [disk EXCEPT !.raw = [gen |-> shot.audio, whole |-> FALSE, codec |-> c]],
               \/ /\ shot.codec = "gpu" /\ shot' = [shot EXCEPT !.codec = "libx264", !.fellBack = TRUE]
                  /\ UNCHANGED <<order, stage, media, kept>>
               \/ Aborts
        PROVE  \E x : /\ disk' = [disk EXCEPT !.raw = x]
                      /\ \/ /\ shot.codec = "gpu" /\ shot' = [shot EXCEPT !.codec = "libx264", !.fellBack = TRUE]
                            /\ UNCHANGED <<order, stage, media, kept>>
                         \/ Aborts
    BY <2>2
  <2> QED
    BY <2>1, <2>2 DEF Encode
<1>3. SameFilm(disk, disk') /\ disk'.raw = x
  BY <1>2, ScratchKept
<1>4. CASE Aborts
  BY <1>3, <1>4, AbortKept
<1>5. CASE ~Aborts
  <2>1. UNCHANGED <<order, stage, media, kept>>
    BY <1>2, <1>5
  <2>2. /\ OrderKept' /\ StagesKept' /\ MediaKept(media, stage)' /\ MediaKept(kept.media, kept.at)'
        /\ ToldKept' /\ SameOrder
    BY <1>1, <2>1, RenderingKept
  <2>3. DiskKept'
    BY <1>3, <2>1, <2>2, FilmStays
  <2>4. ShotKept'
    <3>1. CASE x.whole /\ x.codec = shot.codec /\ shot' = [shot EXCEPT !.at = "mux"]
      <4>1. /\ shot' = [f \in ShotFields |-> shot'[f]] /\ shot'.at = "mux" /\ shot'.text = shot.text
            /\ shot'.codec = shot.codec /\ shot'.fellBack = shot.fellBack
        BY <1>1, <3>1 DEF ShotFields
      <4>2. ActiveCodec' = ActiveCodec
        BY <2>2, <4>1 DEF ActiveCodec, SameOrder
      <4> QED
        BY <1>1, <1>3, <2>1, <3>1, <4>1, <4>2 DEF ShotKept
    <3>2. CASE shot.codec = "gpu" /\ shot' = [shot EXCEPT !.codec = "libx264", !.fellBack = TRUE]
      <4>1. /\ shot' = [f \in ShotFields |-> shot'[f]] /\ shot'.at = "encode" /\ shot'.text = shot.text
            /\ shot'.codec = "libx264" /\ shot'.fellBack = TRUE
        BY <1>1, <3>2 DEF ShotFields
      <4>2. ActiveCodec' = "libx264"
        BY <4>1 DEF ActiveCodec
      <4> QED
        BY <1>1, <2>1, <4>1, <4>2 DEF ShotKept
    <3> QED
      BY <1>2, <1>5, <3>1, <3>2
  <2> QED
    BY <2>2, <2>3, <2>4 DEF FinalInv
<1> QED
  BY <1>4, <1>5

\* The part that ffmpeg joins is a video that may be shown.
LEMMA MuxKept ==
  ASSUME FinalInv, Mux
  PROVE  FinalInv'
<1>1. /\ shot.at = "mux" /\ stage = "render" /\ shot = [f \in ShotFields |-> shot[f]]
      /\ shot.codec = ActiveCodec /\ shot.text \in {"burned", "sidecar", "muxed"}
      /\ (shot.text = "sidecar" => order.delivery = "sidecar") /\ (shot.text = "muxed" => order.mp4)
      /\ disk.raw.whole /\ disk.raw.codec = shot.codec
  BY DEF Mux, FinalInv, ShotKept
<1>2. CASE disk' = [disk EXCEPT !.part = NoVideo, !.raw = NoVideo] /\ Aborts
  <2>1. SameFilm(disk, disk')
    BY <1>2 DEF SameFilm, FinalInv, DiskKept, DiskFields
  <2> QED
    BY <1>2, <2>1, AbortKept
<1>3. CASE /\ disk' = [disk EXCEPT !.part = [gen |-> shot.audio, whole |-> disk.raw.whole,
                         codec |-> disk.raw.codec, depth |-> Depth, sound |-> shot.sound,
                         picture |-> shot.picture, burned |-> shot.text = "burned",
                         soft |-> shot.text = "muxed"]]
           /\ shot' = [shot EXCEPT !.at = "publish"]
           /\ UNCHANGED <<order, stage, media, kept>>
  <2>1. PICK x : /\ x = [gen |-> shot.audio, whole |-> disk.raw.whole,
                         codec |-> disk.raw.codec, depth |-> Depth, sound |-> shot.sound,
                         picture |-> shot.picture, burned |-> shot.text = "burned",
                         soft |-> shot.text = "muxed"]
                 /\ disk' = [disk EXCEPT !.part = x]
    BY <1>3
  <2>2. SameFilm(disk, disk') /\ disk'.part = x
    BY <2>1, ScratchKept
  <2>3. /\ OrderKept' /\ StagesKept' /\ MediaKept(media, stage)' /\ MediaKept(kept.media, kept.at)'
        /\ ToldKept' /\ SameOrder
    BY <1>1, <1>3, RenderingKept
  <2>4. DiskKept'
    BY <1>3, <2>2, <2>3, FilmStays
  <2>5. Deliverable(x) /\ x.codec = shot.codec
    <3>1. /\ x.whole = disk.raw.whole /\ x.codec = shot.codec /\ x.depth = Depth
          /\ (x.burned <=> shot.text = "burned") /\ (x.soft <=> shot.text = "muxed")
      BY <1>1, <2>1
    <3>2. x.depth = 10 => x.codec = "libx264"
      BY <1>1, <3>1 DEF ActiveCodec
    <3> QED
      BY <1>1, <3>1, <3>2 DEF Deliverable
  <2>6. Deliverable(x)'
    BY <2>3, <2>5 DEF Deliverable, SameOrder
  <2>7. ShotKept'
    <3>1. /\ shot' = [f \in ShotFields |-> shot'[f]] /\ shot'.at = "publish" /\ shot'.text = shot.text
          /\ shot'.codec = shot.codec /\ shot'.fellBack = shot.fellBack
      BY <1>1, <1>3 DEF ShotFields
    <3>2. ActiveCodec' = ActiveCodec
      BY <2>3, <3>1 DEF ActiveCodec, SameOrder
    <3>3. Deliverable(disk.part)'
      BY <2>2, <2>6
    <3> QED
      BY <1>1, <1>3, <2>2, <2>5, <3>1, <3>2, <3>3 DEF ShotKept
  <2> QED
    BY <2>3, <2>4, <2>7 DEF FinalInv
<1> QED
  BY <1>2, <1>3 DEF Mux

\* The video is published as it was made, after the subtitles were written.
LEMMA PublishKept ==
  ASSUME FinalInv, Publish
  PROVE  FinalInv'
<1>1. /\ shot.at = "publish" /\ stage = "render" /\ shot = [f \in ShotFields |-> shot[f]]
      /\ shot.codec = ActiveCodec /\ shot.text \in {"burned", "sidecar", "muxed"}
      /\ (shot.text = "sidecar" => order.delivery = "sidecar") /\ (shot.text = "muxed" => order.mp4)
      /\ Deliverable(disk.part) /\ disk.part.codec = shot.codec
  BY DEF Publish, FinalInv, ShotKept
<1>2. /\ disk' = [disk EXCEPT !.video = disk.part, !.part = NoVideo, !.raw = NoVideo]
      /\ shot' = [shot EXCEPT !.at = "report"] /\ UNCHANGED <<order, stage, media, kept, renders>>
  BY DEF Publish
<1>3. /\ OrderKept' /\ StagesKept' /\ MediaKept(media, stage)' /\ MediaKept(kept.media, kept.at)'
      /\ ToldKept' /\ SameOrder
  BY <1>1, <1>2, RenderingKept
<1>4. /\ disk' = [f \in DiskFields |-> disk'[f]] /\ disk'.audio = disk.audio /\ disk'.srt = disk.srt
      /\ disk'.video = disk.part
  BY <1>2 DEF FinalInv, DiskKept, DiskFields
<1>5. DiskKept'
  <2>1. PICK x : x = disk.part
    OBVIOUS
  <2>2. Deliverable(x)'
    BY <1>1, <1>3, <2>1 DEF Deliverable, SameOrder
  <2>3. Deliverable(disk.video)'
    BY <1>4, <2>1, <2>2
  <2>4. disk'.srt # 0
    BY <1>1, <1>4 DEF FinalInv, DiskKept, AfterSubtitle
  <2> QED
    BY <1>4, <2>3, <2>4 DEF FinalInv, DiskKept
<1>6. ShotKept'
  <2>1. /\ shot' = [f \in ShotFields |-> shot'[f]] /\ shot'.at = "report" /\ shot'.text = shot.text
        /\ shot'.codec = shot.codec /\ shot'.fellBack = shot.fellBack
    BY <1>1, <1>2 DEF ShotFields
  <2>2. ActiveCodec' = ActiveCodec
    BY <1>3, <2>1 DEF ActiveCodec, SameOrder
  <2> QED
    BY <1>1, <1>2, <1>4, <2>1, <2>2 DEF ShotKept
<1> QED
  BY <1>3, <1>5, <1>6 DEF FinalInv

\* The report names the encoder that the video was made with, and why.
LEMMA ReportKept ==
  ASSUME FinalInv, Report
  PROVE  FinalInv'
<1>1. /\ shot.at = "report" /\ stage = "render" /\ shot.codec = ActiveCodec
      /\ disk.video.codec = shot.codec
  BY DEF Report, FinalInv, ShotKept
<1>2. PICK m, enc, why, cov, deg, c :
        /\ enc = ActiveCodec /\ why = Why(shot.fellBack)
        /\ m = [media EXCEPT !.video = TRUE, !.encoder = enc, !.why = why, !.covered = cov,
                             !.degraded = deg]
        /\ Ends(m) /\ disk' = [disk EXCEPT !.report = enc, !.cover = c]
  <2>1. PICK c : disk' = [disk EXCEPT !.report = ActiveCodec, !.cover = c]
    BY DEF Report
  <2> QED
    BY <2>1 DEF Report
<1>3. shot' = NoShot
  BY DEF Report
<1>4. SameFilm(disk, disk')
  BY <1>2 DEF SameFilm, FinalInv, DiskKept, DiskFields
<1>5. MediaKept(media, "render") /\ OrderKept
  BY <1>1 DEF FinalInv
<1>6. /\ m = [f \in MediaFields |-> m[f]] /\ m.encoder = enc /\ m.why = why /\ m.lines = media.lines
      /\ m.bgm = media.bgm /\ m.mood = media.mood /\ m.voice = media.voice
  BY <1>2, <1>5 DEF MediaKept, MediaFields
<1>7. MediaKept(m, "check")
  BY <1>5, <1>6 DEF MediaKept, AfterVoice
<1>8. Told(m)
  <2>1. m.encoder = disk.video.codec
    BY <1>1, <1>2, <1>6
  <2>2. enc # ResolveEncoder => why \in {"10bit", "runtime"}
    <3>1. CASE Depth = 10
      BY <1>2, <3>1 DEF ActiveCodec, Why, ResolveEncoder
    <3>2. CASE Depth # 10
      BY <1>2, <3>2 DEF ActiveCodec, Why
    <3> QED
      BY <3>1, <3>2
  <2> QED
    BY <1>6, <2>1, <2>2 DEF Told
<1>9. Told(m)'
  <2>1. order' = order /\ disk'.video = disk.video
    BY <1>2, <1>4 DEF Ends, SameFilm
  <2>2. SameOrder
    BY <1>5, <2>1, OrderFollows
  <2> QED
    BY <1>8, <2>1, <2>2 DEF Told, SameOrder
<1>10. /\ Next1(stage) = "check" /\ stage \in StageSet /\ stage \notin AfterRender
       /\ stage \in AfterSubtitle
  BY <1>1, NextStep DEF StageSet, AfterRender, AfterSubtitle
<1>11. /\ OrderKept' /\ StagesKept' /\ MediaKept(media, stage)' /\ MediaKept(kept.media, kept.at)'
       /\ ToldKept' /\ SameOrder
  BY <1>2, <1>7, <1>9, <1>10, EndsKept
<1>12. DiskKept'
  BY <1>4, <1>10, <1>11, FilmStays
<1>13. ShotKept'
  BY <1>3 DEF ShotKept, NoShot
<1> QED
  BY <1>11, <1>12, <1>13 DEF FinalInv

\* The check, the clips and the manifest change nothing of the film.
LEMMA DeliverKept ==
  ASSUME FinalInv,
         Check \/ (\E made \in SUBSET (1 .. MaxScenes) : ExportClips(made)) \/ WriteManifest
  PROVE  FinalInv'
<1>1. ASSUME stage \in {"check", "export", "manifest"}, Ends(media), UNCHANGED shot, SameFilm(disk, disk')
      PROVE  FinalInv'
  <2>1. PICK m : m = media
    OBVIOUS
  <2>2. MediaKept(m, Next1(stage))
    <3>1. Next1(stage) \in AfterVoice /\ Next1(stage) # "voice" /\ stage \in AfterVoice
      BY <1>1, NextStep DEF AfterVoice
    <3> QED
      BY <2>1, <3>1 DEF FinalInv, MediaKept
  <2>3. Ends(m)
    BY <1>1, <2>1
  <2> QED
    BY <1>1, <2>1, <2>2, <2>3, EndsBeside
<1>2. CASE Check
  <2>1. stage = "check" /\ UNCHANGED disk /\ (Aborts \/ (Ends(media) /\ UNCHANGED shot))
    BY <1>2 DEF Check
  <2>2. SameFilm(disk, disk')
    BY <2>1, FilmIsItself
  <2> QED
    BY <1>1, <2>1, <2>2, AbortKept
<1>3. ASSUME NEW made \in SUBSET (1 .. MaxScenes), ExportClips(made) PROVE FinalInv'
  <2>1. PICK x : disk' = [disk EXCEPT !.clips = x]
    BY <1>3 DEF ExportClips
  <2>2. SameFilm(disk, disk')
    BY <2>1 DEF SameFilm, FinalInv, DiskKept, DiskFields
  <2>3. stage = "export" /\ Ends(media) /\ UNCHANGED shot
    BY <1>3 DEF ExportClips
  <2> QED
    BY <1>1, <2>2, <2>3
<1>4. CASE WriteManifest
  <2>1. PICK x : disk' = [disk EXCEPT !.manifest = x]
    BY <1>4 DEF WriteManifest
  <2>2. SameFilm(disk, disk')
    BY <2>1 DEF SameFilm, FinalInv, DiskKept, DiskFields
  <2>3. stage = "manifest" /\ Ends(media) /\ UNCHANGED shot
    BY <1>4 DEF WriteManifest
  <2> QED
    BY <1>1, <2>2, <2>3
<1> QED
  BY <1>2, <1>3, <1>4

\* mn resume and a retry go on from what was saved; mn rerun goes back before it.
LEMMA AgainKept ==
  ASSUME FinalInv, GoOn \/ \E s \in Range(Stages) : Rerun(s)
  PROVE  FinalInv'
<1>1. PICK s, c : /\ media' = c /\ stage' = s /\ UNCHANGED <<shot, kept, disk>>
                  /\ stage \in {"failed", "paused", "done"} /\ MediaKept(c, s)
                  /\ order' = order \/ order' = [order EXCEPT !.pause = "never"]
                  /\ \/ s = kept.at /\ c = kept.media
                     \/ /\ order.host = "cli" /\ s \in StageSet
                        /\ s \in AfterSubtitle => kept.at \in AfterSubtitle
                        /\ s \in AfterRender => kept.at \in AfterRender
  <2>1. CASE GoOn
    <3>1. PICK s, c : s = kept.at /\ c = kept.media
      OBVIOUS
    <3>2. MediaKept(c, s)
      BY <3>1 DEF FinalInv
    <3> QED
      BY <2>1, <3>1, <3>2 DEF GoOn
  <2>2. ASSUME NEW s \in Range(Stages), Rerun(s)
        PROVE  \E c : /\ media' = c /\ stage' = s /\ UNCHANGED <<shot, kept, disk>>
                      /\ stage \in {"failed", "paused", "done"} /\ MediaKept(c, s)
                      /\ order' = [order EXCEPT !.pause = "never"]
                      /\ order.host = "cli" /\ s \in StageSet
                      /\ s \in AfterSubtitle => kept.at \in AfterSubtitle
                      /\ s \in AfterRender => kept.at \in AfterRender
    <3>1. PICK k \in DOMAIN Stages, j \in DOMAIN Stages : k < j /\ Stages[k] = s /\ Stages[j] = kept.at
      BY <2>2 DEF Rerun
    <3>2. /\ s \in StageSet /\ (s \in AfterVoice => kept.at \in AfterVoice)
          /\ (s \in AfterSubtitle => kept.at \in AfterSubtitle)
          /\ (s \in AfterRender => kept.at \in AfterRender)
      BY <3>1, BeforeKept
    <3>3. PICK b, c : /\ b = (IF s \in {"voice", "bgm"} THEN "none" ELSE kept.media.bgm)
                      /\ c = [kept.media EXCEPT !.bgm = b]
      OBVIOUS
    <3>4. media' = c
      BY <2>2, <3>3 DEF Rerun
    <3>5. MediaKept(kept.media, kept.at)
      BY DEF FinalInv
    <3>6. /\ c = [f \in MediaFields |-> c[f]] /\ c.bgm = b /\ c.lines = kept.media.lines
          /\ c.mood = kept.media.mood /\ c.voice = kept.media.voice
      BY <3>3, <3>5 DEF MediaKept, MediaFields
    <3>7. MediaKept(c, s)
      BY <3>2, <3>3, <3>5, <3>6 DEF MediaKept
    <3> QED
      BY <2>2, <3>2, <3>4, <3>7 DEF Rerun
  <2> QED
    BY <2>1, <2>2
<1>2. SameOrder /\ \A m, at : MediaKept(m, at) => MediaKept(m, at)'
  BY <1>1, OrderFollows DEF FinalInv
<1>3. StagesKept'
  <2>1. s \in StageSet \cup {"done"}
    BY <1>1 DEF FinalInv, StagesKept
  <2> QED
    BY <1>1, <1>2, <2>1 DEF FinalInv, StagesKept, OrderKept, SameOrder
<1>4. MediaKept(media, stage)' /\ MediaKept(kept.media, kept.at)'
  <2>1. PICK k, at : k = kept.media /\ at = kept.at
    OBVIOUS
  <2>2. MediaKept(k, at)' /\ MediaKept(c, s)'
    BY <1>1, <1>2, <2>1 DEF FinalInv
  <2> QED
    BY <1>1, <2>1, <2>2
<1>5. DiskKept'
  <2>1. SameFilm(disk, disk')
    BY <1>1, FilmIsItself
  <2> QED
    BY <1>1, <1>2, <2>1, FilmStays
<1>6. ShotKept'
  <2>1. shot.at = "none"
    BY <1>1 DEF FinalInv, ShotKept
  <2> QED
    BY <1>1, <2>1 DEF ShotKept
<1>7. ToldKept'
  <2>1. ASSUME NEW m, Told(m) PROVE Told(m)'
    BY <1>1, <1>2, <2>1 DEF Told, SameOrder
  <2>2. ASSUME order'.host = "cloud", kept'.at \in AfterRender PROVE Told(kept.media)'
    <3>1. PICK m : m = kept.media
      OBVIOUS
    <3>2. Told(m)
      BY <1>1, <1>2, <2>2, <3>1 DEF FinalInv, ToldKept, SameOrder
    <3> QED
      BY <1>1, <2>1, <3>1, <3>2
  <2>3. ASSUME stage' \in AfterRender, order'.host = "cli" => kept'.at \notin AfterRender
        PROVE  Told(media)'
    <3>1. s = kept.at /\ c = kept.media /\ order.host # "cli"
      BY <1>1, <1>2, <2>3 DEF SameOrder
    <3>2. order'.host = "cloud" /\ kept'.at \in AfterRender
      BY <1>1, <1>2, <2>3, <3>1 DEF FinalInv, OrderKept, SameOrder
    <3>3. Told(kept.media)'
      BY <2>2, <3>2
    <3> QED
      BY <1>1, <3>1, <3>3
  <2> QED
    BY <2>2, <2>3 DEF ToldKept
<1> QED
  BY <1>2, <1>3, <1>4, <1>5, <1>6, <1>7 DEF FinalInv, SameOrder

\* Whatever is asked for, and however often a film is rendered, resumed or made again:
\* a published video is a complete encode that carries its text once, the context names
\* what encoded it, and music of one channel that is long enough has the mood of every
\* line of the narration (render_video(), _resolve_subtitle_delivery(), resolve_encoder(),
\* segment_emotions(), _detect_emotion_zones(), _apply_emotion_transitions()).
THEOREM FilmsAreSound == FinalCutSpec => []FinalCutSound
<1>1. FinalCutInit => FinalInv
  <2> SUFFICES ASSUME FinalCutInit PROVE FinalInv
    OBVIOUS
  <2>1. OrderKept
    <3>1. order \in Order
      BY FinalCutAssumption DEF FinalCutInit
    <3> QED
      BY <3>1 DEF Order, OrderKept, OrderFields
  <2>2. MediaKept(NoMedia, "voice")
    BY DEF MediaKept, NoMedia, MediaFields, AfterVoice
  <2>3. MediaKept(media, stage) /\ MediaKept(kept.media, kept.at)
    BY <2>2 DEF FinalCutInit
  <2>4. StagesKept
    BY DEF FinalCutInit, StagesKept, StageSet
  <2>5. DiskKept
    BY DEF FinalCutInit, DiskKept, DiskFields, AudioFiles, NoVideo, AfterSubtitle
  <2>6. ShotKept /\ ToldKept
    BY DEF FinalCutInit, ShotKept, ToldKept, NoShot, AfterRender
  <2> QED
    BY <2>1, <2>3, <2>4, <2>5, <2>6 DEF FinalInv
<1>2. FinalInv /\ [FinalCutNext]_fvars => FinalInv'
  <2> SUFFICES ASSUME FinalInv, [FinalCutNext]_fvars PROVE FinalInv'
    OBVIOUS
  <2>1. ASSUME NEW k \in LineCounts, NEW clips, Narrate(k, clips) PROVE FinalInv'
    BY <2>1, NarrateKept
  <2>2. ASSUME NEW open, NEW broken, BeginRender(open, broken) PROVE FinalInv'
    BY <2>2, BeginKept
  <2>3. CASE MixBgm \/ GenerateSubtitle
    BY <2>3, MixKept, SubtitleKept
  <2>4. CASE AdmissionFails \/ ProcessDies
    BY <2>4, StoppedKept
  <2>5. CASE Encode \/ Mux \/ Publish \/ Report
    BY <2>5, EncodeKept, MuxKept, PublishKept, ReportKept
  <2>6. CASE Check \/ (\E made \in SUBSET (1 .. MaxScenes) : ExportClips(made)) \/ WriteManifest
    BY <2>6, DeliverKept
  <2>7. CASE GoOn \/ \E s \in Range(Stages) : Rerun(s)
    BY <2>7, AgainKept
  <2>8. CASE UNCHANGED fvars
    <3>1. order' = order /\ stage' = stage /\ media' = media /\ shot' = shot /\ kept' = kept /\ disk' = disk
      BY <2>8 DEF fvars
    <3>2. OrderKept' /\ StagesKept' /\ DiskKept'
      BY <3>1 DEF FinalInv, OrderKept, StagesKept, DiskKept, Deliverable
    <3>3. MediaKept(media, stage)' /\ MediaKept(kept.media, kept.at)'
      <4>1. PICK m, c, at, next : m = media /\ c = kept.media /\ at = stage /\ next = kept.at
        OBVIOUS
      <4>2. MediaKept(m, at)' /\ MediaKept(c, next)'
        BY <3>1, <4>1, OrderFollows DEF FinalInv
      <4> QED
        BY <3>1, <4>1, <4>2
    <3>4. ShotKept' /\ ToldKept'
      BY <3>1 DEF FinalInv, ShotKept, ToldKept, Told, ActiveCodec, ResolveEncoder, Depth, Deliverable
    <3> QED
      BY <3>2, <3>3, <3>4 DEF FinalInv
  <2> QED
    BY <2>1, <2>2, <2>3, <2>4, <2>5, <2>6, <2>7, <2>8 DEF FinalCutNext
<1>3. FinalInv => FinalCutSound
  <2> SUFFICES ASSUME FinalInv PROVE FinalCutSound
    OBVIOUS
  <2>1. PublishedWhole
    BY DEF FinalInv, DiskKept, Deliverable, PublishedWhole
  <2>2. TextOnce
    BY DEF FinalInv, DiskKept, Deliverable, TextOnce
  <2>3. EncoderTold
    BY DEF FinalInv, ToldKept, Told, EncoderTold
  <2>4. MoodFollows
    BY DEF FinalInv, MediaKept, MoodFollows
  <2> QED
    BY <2>1, <2>2, <2>3, <2>4 DEF FinalCutSound
<1> QED
  BY <1>1, <1>2, <1>3, PTL DEF FinalCutSpec
=============================================================================
