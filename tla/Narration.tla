----------------------------- MODULE Narration -----------------------------
(***************************************************************************)
(* From spoken lines to subtitle tracks (pipeline/tts.py, align.py,        *)
(* _align_backend.py, utils/alignment_qa.py, translate.py, subtitle.py).   *)
(* Four steps of one run, in the pipeline's order, hand a timeline on:     *)
(* generate_voice lays the synthesized lines out with pauses and fits them *)
(* to the target duration; align_audio moves the cues onto what a speech   *)
(* recognizer heard; translate_subtitles pairs each line with its          *)
(* translation; generate_subtitle writes the tracks and picks the one to   *)
(* render.  Time is in ticks of 50 ms; a text is its length.  How the      *)
(* lines are synthesized and cached is VoiceCache.                         *)
(***************************************************************************)
EXTENDS Integers, Sequences, FiniteSets, SequencesExt, FiniteSetsExt

CONSTANTS
    MaxLines,      \* lines of a script
    VoiceTicks,    \* durations a synthesized line may have
    LineChars,     \* lengths a line may have
    PauseTicks,    \* tts_pause_ms
    Durations,     \* target durations; 0: none
    TrChars,       \* translate_chunk_chars
    TrItems,       \* translate_chunk_size
    HeardTicks     \* the instants recognized speech starts or ends at

ASSUME NarrationAssumption ==
    /\ MaxLines \in Nat \ {0} /\ TrChars \in Nat \ {0} /\ TrItems \in Nat \ {0}
    /\ VoiceTicks \subseteq Nat \ {0} /\ LineChars \subseteq Nat \ {0}
    /\ PauseTicks \in Nat \ {0} /\ Durations \subseteq Nat /\ HeardTicks \subseteq Nat

FloorPause == 1    \* 50 ms: a pause is never reduced below it
MinCue == 2        \* 100 ms: _MIN_SEGMENT_DURATION

VARIABLES
    nstep,     \* the step about to run
    spoken,    \* the durations of the synthesized lines
    chars,     \* the lengths of the lines
    estimate,  \* the timeline generate_voice produced
    timed,     \* ctx.timed_segments
    fallback,  \* metadata["align_fallback"]
    astatus,   \* ctx.status.align
    trans,     \* ctx.translated_texts
    tstatus,   \* ctx.status.translate
    tracks,    \* the subtitle files written
    track      \* ctx.render_subtitle_path

nvars == <<nstep, spoken, chars, estimate, timed, fallback, astatus, trans, tstatus,
           tracks, track>>

(***************************************************************************)
(* Voice: the lines one after the other, a pause between two of them.      *)
(***************************************************************************)
\* the running sums of a sequence, and the last of them
Sums(s) ==
    LET upto[i \in 0 .. Len(s)] == IF i = 0 THEN 0 ELSE upto[i - 1] + s[i]
    IN  upto
Total(s) == Sums(s)[Len(s)]

BuildAudio(durs, pause) ==
    LET before == Sums(durs)
        at(i) == before[i - 1] + (i - 1) * pause
    IN  [i \in DOMAIN durs |-> [start |-> at(i), end |-> at(i) + durs[i]]]

EndOf(timeline) == IF timeline = <<>> THEN 0 ELSE timeline[Len(timeline)].end

\* v1: more than 15% over the target, the pauses shrink towards what would fit.
ReducedPause(durs, target) ==
    LET gaps == Max({1, Len(durs) - 1})
        fit == target - Total(durs)
    IN  IF fit < 0 THEN FloorPause ELSE Max({FloorPause, fit \div gaps})

FittedPause(durs, target) ==
    IF /\ target > 0 /\ PauseTicks > FloorPause
       /\ 100 * EndOf(BuildAudio(durs, PauseTicks)) > 115 * target
       /\ ReducedPause(durs, target) < PauseTicks
    THEN ReducedPause(durs, target) ELSE PauseTicks

\* v2: still more than 10% over, every line is played faster, by 15% at most.
Faster(durs, actual, target) ==
    [i \in DOMAIN durs |->
       Max({1, IF 100 * actual > 115 * target THEN (durs[i] * 100) \div 115
               ELSE (durs[i] * target) \div actual})]

FitDuration(durs, target) ==
    LET pause == FittedPause(durs, target)
        actual == EndOf(BuildAudio(durs, pause))
    IN  BuildAudio(IF target > 0 /\ 100 * actual > 110 * target
                   THEN Faster(durs, actual, target) ELSE durs, pause)

Voice ==
    /\ nstep = "voice"
    /\ \E target \in Durations : estimate' = FitDuration(spoken, target)
    /\ timed' = estimate' /\ nstep' = "align"
    /\ UNCHANGED <<spoken, chars, fallback, astatus, trans, tstatus, tracks, track>>

\* The step failed and the run went on without it: there is no audio.
VoiceSkipped ==
    /\ nstep = "voice" /\ nstep' = "align"
    /\ UNCHANGED <<spoken, chars, estimate, timed, fallback, astatus, trans, tstatus,
                   tracks, track>>

(***************************************************************************)
(* Alignment.  What was heard is a chronological list of intervals.        *)
(***************************************************************************)
Interval == {w \in [start : HeardTicks, end : HeardTicks] : w.start < w.end}
Heard ==
    {<<>>} \cup {<<a>> : a \in Interval}
        \cup {p \in Interval \X Interval : p[1].end <= p[2].start}

\* select_align_backend: an importable override, else by device and platform.
SelectBackend(override, can, cuda, windows) ==
    IF override \in can THEN override
    ELSE IF "whisperx" \in can /\ (cuda \/ ~windows) THEN "whisperx"
    ELSE IF "faster_whisper" \in can THEN "faster_whisper"
    ELSE IF "funasr" \in can THEN "funasr"
    ELSE IF "whisperx" \in can THEN "whisperx" ELSE "none"

Backends ==
    LET All == {"whisperx", "faster_whisper", "funasr"}
    IN  {SelectBackend(o, can, cuda, windows) :
           o \in All \cup {"auto"}, can \in SUBSET All, cuda \in BOOLEAN, windows \in BOOLEAN}

\* A single recognized interval more than 30% off the narration is not trusted.
Drifts(segs, heard) ==
    LET total == Total([i \in DOMAIN segs |-> segs[i].end - segs[i].start])
        d == heard[1].end - heard[1].start
    IN  /\ Len(heard) = 1 /\ total > 0
        /\ 10 * (IF d > total THEN d - total ELSE total - d) > 3 * total

\* Twice the midpoint of an interval.
Mid(w) == w.start + w.end

\* The first interval that contains the midpoint, else the nearest one before it is found.
Nearest(seg, heard) ==
    LET In(k) == 2 * heard[k].start <= Mid(seg) /\ Mid(seg) <= 2 * heard[k].end
        Dist(k) == LET d == Mid(heard[k]) - Mid(seg) IN IF d < 0 THEN -d ELSE d
        Hits == {k \in DOMAIN heard : In(k)}
        Best == {k \in DOMAIN heard : \A j \in DOMAIN heard : Dist(k) <= Dist(j)}
    IN  heard[Min(IF Hits # {} THEN Hits ELSE Best)]

\* What a cue becomes, and the end that the next one has to wait for.
NoCue == [start |-> 0, end |-> 0]
Stays(acc, seg) == [acc EXCEPT !.cue = seg]
MovesTo(acc, from, to) ==
    LET s == Max({from, acc.prev})
        e == IF to <= s THEN s + MinCue ELSE to
    IN  [acc EXCEPT !.cue = [start |-> s, end |-> e], !.prev = e]

\* Onto its interval, clamped behind the cue before it; a cue whose interval lies too
\* far back keeps its estimate.
Onto(acc, seg, w) ==
    IF w.start < acc.prev /\ 2 * (acc.prev - w.start) > w.end - w.start
    THEN Stays(acc, seg) ELSE MovesTo(acc, w.start, w.end)

Remap(segs, heard) ==
    LET upto[i \in 0 .. Len(segs)] ==
          IF i = 0 THEN [cue |-> NoCue, prev |-> 0]
          ELSE Onto(upto[i - 1], segs[i], Nearest(segs[i], heard))
    IN  [i \in DOMAIN segs |-> upto[i].cue]

\* Each cue is narrowed to the first and last word heard inside it.
Within(acc, seg, words) ==
    LET From == {k \in DOMAIN words : k >= acc.ptr /\ words[k].end >= seg.start}
        first == Min(From)
        Upto == {k \in first + 1 .. Len(words) :
                   \A j \in first + 1 .. k : words[j].start <= seg.end}
        ns == words[first].start
        ne == words[Max(Upto \cup {first})].end
        next == [acc EXCEPT !.ptr = IF From = {} THEN Len(words) + 1 ELSE first]
    IN  IF From # {} /\ ns >= seg.start /\ ne <= seg.end /\ ns < ne
        THEN MovesTo(next, ns, ne) ELSE Stays(next, seg)

WordRemap(segs, words) ==
    LET upto[i \in 0 .. Len(segs)] ==
          IF i = 0 THEN [cue |-> NoCue, prev |-> 0, ptr |-> 1]
          ELSE Within(upto[i - 1], segs[i], words)
    IN  [i \in DOMAIN segs |-> upto[i].cue]

AlignTo(segs, status, mark) ==
    timed' = segs /\ astatus' = status /\ fallback' = mark

\* whisperx: transcription, then forced alignment; when the latter fails the
\* transcript's intervals are used and the step counts as failed.
WithWhisperx(heard, words, forced) ==
    LET mark == fallback \/ ~forced
        remapped == Remap(timed, heard)
    IN  IF heard = <<>> \/ Drifts(timed, heard)
        THEN AlignTo(timed, "skipped", IF heard = <<>> THEN fallback ELSE mark)
        ELSE AlignTo(IF forced /\ words # <<>> THEN WordRemap(remapped, words) ELSE remapped,
                     IF mark THEN (IF forced THEN astatus ELSE "failed") ELSE "success",
                     mark)

\* faster-whisper and funasr: intervals only, and that is a success.
WithSegments(heard) ==
    IF heard = <<>> THEN AlignTo(timed, "skipped", fallback)
    ELSE IF Drifts(timed, heard) THEN AlignTo(timed, "skipped", TRUE)
    ELSE AlignTo(Remap(timed, heard), "success", TRUE)

\* A backend that cannot run after all gives way to whisperx; another error fails the step.
Recognize(backend) ==
    \/ /\ backend \in {"faster_whisper", "funasr"}
       /\ \E heard \in Heard : WithSegments(heard)
    \/ \E heard, words \in Heard, forced \in BOOLEAN : WithWhisperx(heard, words, forced)
    \/ AlignTo(timed, "failed", fallback)

Align ==
    /\ nstep = "align" /\ nstep' = "translate"
    /\ IF timed = <<>> THEN AlignTo(timed, "skipped", fallback)
       ELSE \E backend \in Backends :
              IF backend = "none" THEN AlignTo(timed, "disabled", fallback)
              ELSE Recognize(backend)
    /\ UNCHANGED <<spoken, chars, estimate, trans, tstatus, tracks, track>>

(***************************************************************************)
(* Translation, in chunks of lines.  A translated text is the line it was  *)
(* made from, and how.                                                     *)
(***************************************************************************)
Indices(n) == [i \in 1 .. n |-> i]

\* A chunk is flushed when the next line would exceed either budget.
Pack(acc, i, size) ==
    IF acc.current # <<>> /\ (acc.size + size > TrChars \/ Len(acc.current) >= TrItems)
    THEN [done |-> Append(acc.done, acc.current), current |-> <<i>>, size |-> size]
    ELSE [acc EXCEPT !.current = Append(@, i), !.size = @ + size]

Packed(lens) ==
    LET upto[i \in 0 .. Len(lens)] ==
          IF i = 0 THEN [done |-> <<>>, current |-> <<>>, size |-> 0]
          ELSE Pack(upto[i - 1], i, lens[i])
    IN  upto[Len(lens)]

ChunksDropLast(lens) == Packed(lens).done \* (mutant: the last chunk is never flushed)

Chunks(lens) ==
    IF Total(lens) <= TrChars /\ Len(lens) <= TrItems THEN <<Indices(Len(lens))>>
    ELSE LET all == Packed(lens)
         IN  IF all.current = <<>> THEN all.done ELSE Append(all.done, all.current)

Originals == [i \in DOMAIN timed |-> [line |-> i, how |-> "original"]]
Blank == [line |-> 0, how |-> "blank"]

\* result[idx] = tr for each line of each chunk, in order; an unfilled slot is "".
Translations(lens) ==
    LET where == {i \in 1 .. Len(lens) :
                    \E k \in DOMAIN Chunks(lens) : i \in ToSet(Chunks(lens)[k])}
    IN  [i \in 1 .. Len(lens) |->
           IF i \in where THEN [line |-> i, how |-> "translated"] ELSE Blank]

\* _translate_via_llm: every chunk is answered within its retries, or one is not and its
\* _ChunkFailure throws the others' translations away too, whatever its docstring says.
ViaLlm ==
    \/ \E answered \in 0 .. Len(Chunks(chars)) :
         \/ /\ answered = Len(Chunks(chars))
            /\ trans' = Translations(chars) /\ tstatus' = "success"
         \/ /\ answered < Len(Chunks(chars))
            /\ trans' = Originals /\ tstatus' = "failed"

Translate ==
    /\ nstep = "translate" /\ nstep' = "subtitle"
    /\ \/ UNCHANGED trans /\ tstatus' = "skipped"                \* no subtitle_lang
       \/ UNCHANGED trans /\ tstatus' = "disabled" /\ timed # <<>> \* unknown provider
       \/ trans' = Originals /\ tstatus' = "skipped" /\ timed # <<>> \* CI passthrough
       \/ ViaLlm /\ timed # <<>>
    /\ UNCHANGED <<spoken, chars, estimate, timed, fallback, astatus, tracks, track>>

(***************************************************************************)
(* Subtitles: the original always, the two others beside it when there is  *)
(* a translation for every cue; the mode's track if it was written.        *)
(***************************************************************************)
Paired == trans # <<>> /\ Len(trans) = Len(timed)

Subtitle ==
    /\ nstep = "subtitle" /\ nstep' = "done"
    /\ tracks' = {"original"} \cup IF Paired THEN {"translated", "bilingual"} ELSE {}
    /\ \E mode \in {"original", "translated", "bilingual"} :
         track' = IF mode \in tracks' THEN mode ELSE "original"
    /\ UNCHANGED <<spoken, chars, estimate, timed, fallback, astatus, trans, tstatus>>

-----------------------------------------------------------------------------
\* A rerun keeps the metadata of the run before it.
NarrationInit ==
    /\ nstep = "voice"
    /\ \E n \in 1 .. MaxLines :
         /\ spoken \in [1 .. n -> VoiceTicks] /\ chars \in [1 .. n -> LineChars]
    /\ estimate = <<>> /\ timed = <<>> /\ trans = <<>>
    /\ fallback \in BOOLEAN
    /\ astatus = "pending" /\ tstatus = "pending"
    /\ tracks = {} /\ track = "none"

NarrationNext == Voice \/ VoiceSkipped \/ Align \/ Translate \/ Subtitle

NarrationSpec == NarrationInit /\ [][NarrationNext]_nvars

-----------------------------------------------------------------------------
\* The estimated lines follow each other with a pause between them.
EstimateContiguous ==
    \A i \in DOMAIN estimate :
        /\ estimate[i].start < estimate[i].end
        /\ i > 1 => estimate[i].start >= estimate[i - 1].end + FloorPause

\* No cue is empty or backwards, whatever was heard.
CuesAudible == \A i \in DOMAIN timed : timed[i].start < timed[i].end

\* "timestamps remain TTS-estimated" when the step reports skipped or disabled.
SkippedKeepsEstimate == astatus \in {"skipped", "disabled"} => timed = estimate

\* Each cue is paired with the text of its own line, translated or not, and none with
\* nothing, whichever chunks were answered.
TranslationsAligned ==
    trans # <<>> =>
        /\ Len(trans) = Len(timed)
        /\ \A i \in DOMAIN trans : trans[i].line = i

\* The track handed to the renderer is one of the files written.
TrackExists == nstep = "done" => track \in tracks

\* What the four steps hand on is consistent, whatever fails in between.
NarrationSound ==
    EstimateContiguous /\ CuesAudible /\ SkippedKeepsEstimate /\ TranslationsAligned
        /\ TrackExists
=============================================================================
