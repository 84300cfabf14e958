---------------------------- MODULE ScriptWriter ----------------------------
(***************************************************************************)
(* The research and script steps (pipeline/research.py, script.py) and the *)
(* prompt cache they share (utils/prompt_cache.py).  A script is made in   *)
(* phases: plot beats, one line for each beat, a judge's verdict; a bad    *)
(* answer or a bad verdict starts again.  A beat list is a sequence of     *)
(* texts, a draft the sequence of its lines' lengths.                      *)
(***************************************************************************)
EXTENDS Ranks, FiniteSetsExt, SequencesExt

CONSTANTS
  Tries,        \* script_retries, research_retries
  Target,       \* number of lines asked for
  BeatLists,    \* well-formed answers to the beats prompt
  Alike,        \* pairs of texts that are near-duplicates
  Drafts,       \* well-formed answers to the expand prompt
  MaxChars,     \* characters of a line
  Ci,           \* is_ci(), where a mock script replaces a failure
  CacheEnabled, \* MN_PROMPT_CACHE
  MaxEntries,   \* entries the cache keeps
  Movies        \* (bound) scripts written one after the other

Bad == <<>>      \* not JSON, not a list, or of the wrong length
MockLines == <<4, 4, 4, 4>>

ASSUME ScriptAssumption ==
  /\ {Tries, Target, MaxChars, MaxEntries, Movies} \subseteq Nat \ {0}
  /\ BeatLists \subseteq [1..Target -> STRING]
  /\ \A d \in Drafts : d \in Seq(Nat \ {0}) /\ d # Bad
  /\ \A p \in Alike : <<p[2], p[1]>> \in Alike

VARIABLES
  scripting,   \* where the steps are
  try,     \* attempt
  cache,   \* entries, the oldest first: key and raw response
  beats,   \* the beats of this attempt
  draft,   \* lines of this attempt
  made,    \* what the context holds
  written  \* scripts begun

pvars == <<scripting, try, cache, beats, draft, made, written>>

NotMade == [research |-> "none", source |-> "none", lines |-> <<>>, of |-> <<>>, meta |-> <<>>,
            judged |-> <<>>, verdict |-> "none", qa |-> -1, retryable |-> FALSE]

ScriptInit ==
  /\ scripting = "research" /\ try = 1 /\ cache = <<>> /\ beats = <<>> /\ draft = <<>>
  /\ made = NotMade /\ written = 1
-----------------------------------------------------------------------------
\* lookup(): at most one entry has a key
Cached(key) == {cache[i] : i \in {j \in DOMAIN cache : cache[j].key = key}}

\* store(): the newest entry, and the oldest go when there are too many
StoreEntry(key, raw) ==
  LET others == Taken(cache, {i \in DOMAIN cache : cache[i].key # key})
      all == Append(others, [key |-> key, raw |-> raw])
  IN  IF ~CacheEnabled THEN cache
      ELSE SubSeq(all, Max({1, Len(all) - MaxEntries + 1}), Len(all))

\* the raw response to a prompt and the cache after it: the cached one, else one from
\* the model, which is stored whatever it says
Responses(key, answers) ==
  IF Cached(key) # {} THEN [raw : {e.raw : e \in Cached(key)}, cache : {cache}]
  ELSE {[raw |-> r, cache |-> StoreEntry(key, r)] : r \in answers}

\* an entry that is too old, corrupt or foreign is deleted on sight
DropEntry ==
  /\ cache # <<>>
  /\ \E i \in DOMAIN cache : cache' = RemoveAt(cache, i)
  /\ UNCHANGED <<scripting, try, beats, draft, made, written>>

-----------------------------------------------------------------------------
\* research_plot(): a soft step, tried as often
ResearchAnswered(raw) ==
  IF raw # Bad
  THEN scripting' = "beats" /\ try' = 1 /\ made' = [made EXCEPT !.research = "success"]
  ELSE IF try < Tries THEN try' = try + 1 /\ UNCHANGED <<scripting, made>>
  ELSE scripting' = "beats" /\ try' = 1 /\ made' = [made EXCEPT !.research = "failed"]

Research ==
  /\ scripting = "research"
  /\ \E r \in Responses(<<"research", <<>>>>, {<<"info">>, Bad}) : cache' = r.cache /\ ResearchAnswered(r.raw)
  /\ UNCHANGED <<beats, draft, written>>

ResearchCallFails ==
  /\ scripting = "research"
  /\ ResearchAnswered(Bad)
  /\ UNCHANGED <<cache, beats, draft, written>>

SkipResearch ==
  /\ scripting = "research" /\ try = 1
  /\ scripting' = "beats" /\ made' = [made EXCEPT !.research = "skipped"]
  /\ UNCHANGED <<try, cache, beats, draft, written>>

\* an attempt that failed: another one, the mock script, or an error that a retry
\* of the task may cure
AttemptFails(kind) ==
  IF try < Tries THEN try' = try + 1 /\ scripting' = "beats" /\ UNCHANGED made
  ELSE /\ scripting' = IF Ci THEN "done" ELSE "raised"
       /\ made' = IF Ci THEN [made EXCEPT !.source = "ci_mock", !.lines = MockLines]
                  ELSE [made EXCEPT !.retryable = kind = "network"]
       /\ UNCHANGED try

\* _deduplicate_beats(): a beat like an earlier one that was kept is dropped
Similar(a, b) == a = b \/ <<a, b>> \in Alike
Dedup(list) ==
  LET kept[i \in 0..Len(list)] ==
        IF i = 0 THEN <<>>
        ELSE IF \E k \in DOMAIN kept[i - 1] : Similar(kept[i - 1][k], list[i]) THEN kept[i - 1]
        ELSE Append(kept[i - 1], list[i])
  IN  kept[Len(list)]

\* phases 1 and 1.5
BeatsAnswered(raw) ==
  IF raw = Bad THEN AttemptFails("logic") /\ UNCHANGED beats
  ELSE /\ beats' = Dedup(raw)
       /\ made' = [made EXCEPT !.meta = Dedup(raw)]
       /\ scripting' = "expand" /\ UNCHANGED try

PlotBeats ==
  /\ scripting = "beats"
  /\ \E r \in Responses(<<"beats", <<>>>>, BeatLists \cup {Bad}) : cache' = r.cache /\ BeatsAnswered(r.raw)
  /\ UNCHANGED <<draft, written>>

\* phase 2: lines are cut to the limit, after a punctuation mark if there is one,
\* and lines with nothing left are dropped
Cut(lines, at) ==
  LET cut == [i \in DOMAIN lines |-> IF lines[i] > MaxChars THEN at ELSE lines[i]]
  IN  Taken(cut, {i \in DOMAIN cut : cut[i] > 0})

DraftAnswered(raw) ==
  \E at \in 0..MaxChars :
    IF Cut(raw, at) = <<>> THEN AttemptFails("logic") /\ UNCHANGED draft
    ELSE draft' = Cut(raw, at) /\ scripting' = "judge" /\ UNCHANGED <<try, made>>

Expand ==
  /\ scripting = "expand"
  /\ \E r \in Responses(<<"expand", beats>>, Drafts \cup {Bad}) : cache' = r.cache /\ DraftAnswered(r.raw)
  /\ UNCHANGED <<beats, written>>

\* no client, or the call fails
CallFails(kind) ==
  /\ scripting \in {"beats", "expand"}
  /\ AttemptFails(kind)
  /\ UNCHANGED <<cache, beats, draft, written>>

-----------------------------------------------------------------------------
\* _trim_segments(): the hooks stay, the last line too if there is room, and of
\* the others those nearest to the median length
Distance(a, b) == IF a > b THEN a - b ELSE b - a

TrimHead(lines, n) == 1..Min({n, Len(lines)}) \* (mutant: the end is cut off)

Kept(lines, n) ==
  LET m == Len(lines)
      hooks == Min({3, n})
      locked == (1..hooks) \cup (IF n > hooks + 1 /\ m > n + 1 THEN {m} ELSE {})
      pool == (1..m) \ locked
      Below(l) == Cardinality({i \in pool : lines[i] <= l})
      median == lines[CHOOSE i \in pool :
                        /\ Below(lines[i]) > Cardinality(pool) \div 2
                        /\ \A j \in pool : lines[j] < lines[i]
                             => Below(lines[j]) <= Cardinality(pool) \div 2]
      Nearer(i, j) ==
        LET a == Distance(lines[i], median)
            b == Distance(lines[j], median)
        IN  a < b \/ (a = b /\ i < j)
      need == n - Cardinality(locked)
  IN  IF m <= n THEN 1..m
      ELSE locked \cup {i \in pool : Cardinality({j \in pool : Nearer(j, i)}) < need}

Trim(lines, n) == Taken(lines, Kept(lines, n))

\* validate_script_quality(): only counted
QaIssues(lines) ==
  Cardinality({i \in DOMAIN lines : lines[i] < 2})
    + Cardinality({i \in DOMAIN lines : lines[i] > (3 * MaxChars) \div 2})
    + IF lines # <<>> /\ lines[1] < 4 THEN 1 ELSE 0

\* a script is taken: trimmed to what was asked of this attempt, and looked at
Accept(verdict) ==
  LET lines == Trim(draft, Len(beats))
  IN  made' = [made EXCEPT !.source = "llm", !.lines = lines, !.of = draft, !.judged = draft,
                           !.verdict = verdict, !.qa = QaIssues(lines)]

\* phase 3: "retry" goes back with advice while there are attempts; a judge that
\* fails, or is not asked, passes the script
Judge(verdict) ==
  /\ scripting = "judge"
  /\ Ci => verdict = "pass"
  /\ IF verdict = "pass" \/ try = Tries
     THEN scripting' = "done" /\ Accept(verdict) /\ UNCHANGED try
     ELSE /\ scripting' = "beats" /\ try' = try + 1
          /\ made' = [made EXCEPT !.judged = draft, !.verdict = verdict]
  /\ UNCHANGED <<cache, beats, draft, written>>

\* the next movie, or the same one again
NextScript ==
  /\ scripting \in {"done", "raised"} /\ written < Movies
  /\ scripting' = "research" /\ try' = 1 /\ beats' = <<>> /\ draft' = <<>>
  /\ made' = NotMade /\ written' = written + 1
  /\ UNCHANGED cache

ScriptNext ==
  \/ DropEntry \/ Research \/ ResearchCallFails \/ SkipResearch
  \/ PlotBeats \/ Expand \/ (\E kind \in {"network", "logic"} : CallFails(kind))
  \/ (\E verdict \in {"pass", "retry"} : Judge(verdict)) \/ NextScript

ScriptSpec == ScriptInit /\ [][ScriptNext]_pvars

-----------------------------------------------------------------------------
\* A script that is handed on has no more lines than beats that are not alike, all
\* the hooks and, of a longer draft, the ending of a long one; its judgement, its
\* quality counts and its beats are of this very script; and it was rejected by
\* the judge only if no attempt was left.
ScriptSound ==
  scripting = "done" /\ made.source = "llm" =>
    /\ Len(made.lines) = Min({Len(made.of), Len(beats)})
    /\ SubSeq(made.lines, 1, Min({3, Len(made.lines)})) = SubSeq(made.of, 1, Min({3, Len(made.lines)}))
    /\ Len(beats) > 4 /\ Len(made.of) > Len(beats) + 1 => Last(made.lines) = Last(made.of)
    /\ \A i, j \in DOMAIN beats : i # j => ~Similar(beats[i], beats[j])
    /\ made.judged = made.of /\ made.meta = beats /\ made.qa = QaIssues(made.lines)
    /\ made.verdict = "retry" => try = Tries
=============================================================================
