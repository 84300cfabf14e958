---------------------------- MODULE QualityGate ----------------------------
(***************************************************************************)
(* The quality checks of a run and what becomes of their results: each     *)
(* step measures what it made and stores the figures in ctx.metadata; the  *)
(* gate before the render (pipeline/qa_gate.py) and the dashboard after it *)
(* (utils/quality_dashboard.py) read them from there; the rendered film    *)
(* is probed and rejected, or passed on (pipeline/qa.py, utils/*_qa.py).   *)
(* Metadata outlives a rerun: a step that stores nothing leaves the figure *)
(* of the run before it.                                                   *)
(***************************************************************************)
EXTENDS Integers, Sequences, FiniteSets, FiniteSetsExt, SequencesExt, TLC

CONSTANTS
  Scripts,     \* scripts: sequences of [len, gist]
  Recorded,    \* recordings: sequences of [clip, silent, snr, ms]
  Cued,        \* cues: sequences of [start, end, len, cjk, sure], times in 0.1 s
  Films,       \* what a render may leave, see Film
  Inspections, \* settings of a run, see Inspection
  MaxAgain     \* bound: reruns of a job

\* clip is per 10000 samples, silent and sure in percent, snr in dB
Film == [there : BOOLEAN, kb : Nat, video : BOOLEAN, audio : BOOLEAN, ticks : Nat,
         volume : {"loud", "silent", "unknown"}, size : Nat \X Nat, luma : Seq(Nat),
         codec : {"h264", "vp9"}, kbps : Nat]
Line == [len : Nat, gist : STRING]
Segment == [clip : Nat, silent : Nat, snr : Int, ms : Nat]
Caption == [start : Nat, end : Nat, len : Nat, cjk : BOOLEAN, sure : 0..100]
Inspection == [ci : BOOLEAN, qa : {"on", "off", "unset"}, strict : BOOLEAN,
               frame : Nat \X Nat, risk : 0..101, black : 0..101]

ASSUME QualityAssumption ==
  /\ \A s \in Scripts : s \in Seq(Line)
  /\ \A a \in Recorded : a \in Seq(Segment)
  /\ \A cs \in Cued : cs \in Seq(Caption)
  /\ \A f \in Films : f \in Film
  /\ Inspections \subseteq Inspection /\ MaxAgain \in Nat

VARIABLES
  inspect, \* the settings
  qstep,   \* the step that comes next, "done", "refused" or "rejected"
  screenplay, recording, captions, wording, footage, \* what the steps made last
  figures, \* the figures in ctx.metadata, by key
  retakes  \* reruns so far

qvars == <<inspect, qstep, screenplay, recording, captions, wording, footage, figures,
           retakes>>

Known(key) == key \in DOMAIN figures
With(dict, key, figure) ==
  [k \in DOMAIN dict \cup {key} |-> IF k = key THEN figure ELSE dict[k]]
Note(key, figure) == figures' = With(figures, key, figure)

\* dict.get()
Get(dict, key, default) == IF key \in DOMAIN dict THEN dict[key] ELSE default

Count(s, Test(_)) == Cardinality({i \in DOMAIN s : Test(s[i])})
AtLeast0(n) == IF n < 0 THEN 0 ELSE n
Share(part, whole) == (100 * part) \div whole

-----------------------------------------------------------------------------
\* What is wrong with a script: lines too short or too long, pairs that say
\* nearly the same, an opening that is too short
UpperBound == 30
ScriptIssues(s) ==
  Count(s, LAMBDA l : l.len < 2 \/ l.len > UpperBound)
    + Cardinality({p \in (DOMAIN s) \X (DOMAIN s) :
                     p[1] < p[2] /\ s[p[1]].gist = s[p[2]].gist})
    + (IF s # <<>> /\ s[1].len < 4 THEN 1 ELSE 0)

\* (mutant: a script without issues stores nothing)
StoreIssuesOnly(s) ==
  IF ScriptIssues(s) = 0 THEN UNCHANGED figures ELSE Note("script", ScriptIssues(s))

StoreScript(s) == Note("script", ScriptIssues(s))

SoundIssues(a) ==
  {x \in {"clipping", "silence", "noise", "short"} :
     CASE x = "clipping" -> a.clip > 10
       [] x = "silence"  -> a.silent > 50
       [] x = "noise"    -> a.snr < 15
       [] OTHER          -> a.ms < 100}

\* a cue without a confidence keeps its estimate and is not doubted
Doubtful(c) == c.sure > 0 /\ c.sure < 60

Shown(c) == c.end - c.start
ReadingTime(c) == IF c.cjk THEN 2 * c.len ELSE c.len
TooFast(c) ==
  Shown(c) > 0 /\ 10 * ReadingTime(c) > (IF c.cjk THEN 15 ELSE 20) * Shown(c)

CueIssues(c) ==
  {x \in {"fast", "long", "brief", "empty"} :
     CASE x = "fast"  -> TooFast(c)
       [] x = "long"  -> c.len > (IF c.cjk THEN 18 ELSE 42)
       [] x = "brief" -> Shown(c) < 5
       [] OTHER       -> c.len = 0}

Overlaps(cs) == {i \in 1..(Len(cs) - 1) : cs[i].end > cs[i + 1].start}
Gaps(cs) == {i \in 1..(Len(cs) - 1) : cs[i + 1].start - cs[i].end > 50}

\* what a track stores of its cues
Track(cs) ==
  [cue_count |-> Len(cs),
   cues_with_issues |-> Count(cs, LAMBDA c : CueIssues(c) # {}),
   total_issues |-> FoldLeft(LAMBDA n, c : n + Cardinality(CueIssues(c)), 0, cs),
   overlap_count |-> Cardinality(Overlaps(cs)), gap_count |-> Cardinality(Gaps(cs))]

\* the cues under their translations: one that was translated is half as long
Translated == [i \in DOMAIN captions |->
                 IF wording[i] = "new" THEN [captions[i] EXCEPT !.len = @ \div 2] ELSE captions[i]]

\* two lines of 17 CJK characters, or of 31 others, fit the frame
Fits2Lines(c) == c.len <= 2 * (IF c.cjk THEN 17 ELSE 31)

-----------------------------------------------------------------------------
\* The steps before the gate

Made(from, to) == qstep = from /\ qstep' = to /\ UNCHANGED <<inspect, retakes>>

WriteScript ==
  /\ Made("script", "voice")
  /\ \E s \in Scripts : screenplay' = s /\ StoreScript(s)
  /\ UNCHANGED <<recording, captions, wording, footage>>

Record ==
  /\ Made("voice", "align")
  /\ \E a \in Recorded : recording' = a /\ Note("audio", a)
  /\ UNCHANGED <<screenplay, captions, wording, footage>>

\* a step that is skipped, for want of a backend, stores no figure
AlignCues ==
  /\ Made("align", "translate")
  /\ \E cs \in Cued :
       \/ captions' = cs /\ Note("alignment", [total_segments |-> Len(cs),
                            low_confidence_count |-> Count(cs, Doubtful)])
       \/ captions' = [i \in DOMAIN cs |-> [cs[i] EXCEPT !.sure = 0]] /\ UNCHANGED figures
  /\ UNCHANGED <<screenplay, recording, wording, footage>>

Same(ts) == {i \in DOMAIN ts : ts[i] = "same"}

\* lines that came back as they were are counted, if there are any; a failed
\* translation leaves all of them as they were and counts nothing
TranslateCues ==
  /\ Made("translate", "subtitle")
  /\ \/ wording' = <<>> /\ UNCHANGED figures
     \/ wording' = [i \in DOMAIN captions |-> "same"] /\ UNCHANGED figures
     \/ \E ts \in [DOMAIN captions -> {"same", "new"}] :
          /\ wording' = ts
          /\ IF Same(ts) = {} THEN UNCHANGED figures
             ELSE Note("untranslated", Cardinality(Same(ts)))
  /\ UNCHANGED <<screenplay, recording, captions, footage>>

MeasureCues ==
  /\ Made("subtitle", "gate")
  /\ Note("subtitles",
       IF wording = <<>> THEN [original |-> Track(captions)]
       ELSE [original |-> Track(captions), translated |-> Track(Translated),
             display_fit |-> Count(Translated, LAMBDA c : ~Fits2Lines(c))])
  /\ UNCHANGED <<screenplay, recording, captions, wording, footage>>

-----------------------------------------------------------------------------
\* The gate

\* its thresholds are 10 issues of the script and 1% of clipped samples
MaxScriptIssues == 10

\* each track is asked for its issues_count and its total_cues
TrackFails(tr) ==
  LET total == Get(tr, "total_cues", 0) IN
  total > 0 /\ 2 * Get(tr, "issues_count", 0) > total

GateIssues ==
  {x \in {"script", "audio", "original", "translated", "alignment", "translation"} :
     CASE x = "script" -> Known("script") /\ figures["script"] > MaxScriptIssues
       [] x = "audio"  -> /\ Known("audio")
                          /\ \E i \in DOMAIN figures["audio"] : figures["audio"][i].clip > 100
       [] x \in {"original", "translated"} ->
            /\ Known("subtitles") /\ x \in DOMAIN figures["subtitles"]
            /\ TrackFails(figures["subtitles"][x])
       [] x = "alignment" ->
            /\ Known("alignment")
            /\ 2 * figures["alignment"].low_confidence_count > figures["alignment"].total_segments
       [] OTHER -> Known("untranslated") /\ 10 * figures["untranslated"] > 3 * Len(captions)}

GateSkipped == inspect.ci /\ inspect.qa # "on"

\* issues are warnings, unless the run is strict
Gate ==
  /\ qstep = "gate"
  /\ IF GateSkipped THEN UNCHANGED figures ELSE Note("gate", GateIssues)
  /\ qstep' = IF ~GateSkipped /\ inspect.strict /\ GateIssues # {}
              THEN "refused" ELSE "render"
  /\ UNCHANGED <<inspect, screenplay, recording, captions, wording, footage, retakes>>

RenderFilm ==
  /\ Made("render", "validate")
  /\ footage' \in Films
  /\ UNCHANGED <<screenplay, recording, captions, wording, figures>>

-----------------------------------------------------------------------------
\* The footage

\* the end of the last line, in ticks
Expected == Max({0} \cup {captions[i].end : i \in DOMAIN captions})

\* mean luma of the frames that are sampled: one a second, of the first minute
Sampled(f) == SubSeq(f.luma, 1, Min({60, Len(f.luma)}))
Motion(l) ==
  LET d(i) == IF l[i + 1] < l[i] THEN l[i] - l[i + 1] ELSE l[i + 1] - l[i]
  IN  (10 * FoldSet(LAMBDA i, sum : sum + d(i), 0, 1..(Len(l) - 1))) \div (Len(l) - 1)
\* two frames are needed to tell anything; a limit of 101 percent is no limit
BlackShare(f) ==
  LET l == Sampled(f) IN
  IF Len(l) < 2 THEN 0 ELSE Share(Count(l, LAMBDA y : y < 16), Len(l))
SlideshowRisk(f) ==
  LET l == Sampled(f) IN
  IF Len(l) < 2 THEN 0
  ELSE Min({100, AtLeast0(100 - (100 * Motion(l)) \div 15) + BlackShare(f) \div 2})

DeliverableIssues(f) ==
  IF ~f.there THEN {"missing_file"}
  ELSE {x \in {"tiny_file", "no_video", "no_audio", "too_short", "too_long", "silent",
               "volume_unknown", "bad_resolution", "slideshow", "black"} :
     CASE x = "tiny_file"      -> f.kb < 10
       [] x = "no_video"       -> ~f.video
       [] x = "no_audio"       -> ~f.audio
       [] x = "too_short"      -> /\ Expected > 0 /\ f.ticks > 0
                                  /\ 100 * f.ticks < 85 * Expected
       [] x = "too_long"       -> Expected > 0 /\ 100 * f.ticks > 125 * Expected
       [] x = "silent"         -> f.volume = "silent"
       [] x = "volume_unknown" -> f.volume = "unknown" /\ f.audio
       [] x = "bad_resolution" -> f.size[1] = 0 \/ f.size[2] = 0
       [] x = "slideshow"      -> SlideshowRisk(f) > inspect.risk
       [] OTHER                -> BlackShare(f) > inspect.black}

\* encoding: the minimum is turned with the picture, 4K must be hit exactly
Portrait(w, h) == h >= w
Below720(w, h) == IF Portrait(w, h) THEN w < 720 \/ h < 1280 ELSE w < 1280 \/ h < 720
CloseTo(a, b, tolerance) == a - b <= tolerance /\ b - a <= tolerance
Standard(w, h) == \/ CloseTo(900 * w, 1600 * h, 18 * h)
                  \/ CloseTo(1600 * w, 900 * h, 32 * h)
EncodingIssues(f) ==
  LET w == f.size[1]  h == f.size[2]  probed == w > 0 /\ h > 0
      wide == inspect.frame[1] >= 3840 \/ inspect.frame[2] >= 2160
  IN  {x \in {"codec", "resolution", "aspect", "bitrate", "4k"} :
         CASE x = "codec"      -> f.codec # "h264"
           [] x = "resolution" -> probed /\ Below720(w, h)
           [] x = "aspect"     -> probed /\ ~Standard(w, h)
           [] x = "bitrate"    -> f.kbps > 0 /\ f.kbps < 1500
           [] OTHER            -> wide /\ probed /\ f.size # inspect.frame}

-----------------------------------------------------------------------------
\* The dashboard: a score, in percent, for every figure there is
Weight == [script |-> 10, audio |-> 15, alignment |-> 10, subtitle |-> 15,
           translation |-> 10, deliverable |-> 15, video |-> 10]

\* the cues and issues of both tracks, under the keys the gate uses
TrackSum(key) == LET sq == figures["subtitles"] IN
  Get(sq["original"], key, 0)
    + (IF "translated" \in DOMAIN sq THEN Get(sq["translated"], key, 0) ELSE 0)

Dimensions ==
  {x \in DOMAIN Weight :
     CASE x = "script"    -> Known("script")
       [] x = "audio"     -> Known("audio") /\ figures["audio"] # <<>>
       [] x = "alignment" -> Known("alignment") /\ figures["alignment"].total_segments > 0
       [] x = "subtitle"    -> Known("subtitles") /\ TrackSum("total_cues") > 0
       [] x = "translation" -> Known("untranslated")
       [] OTHER             -> TRUE}

\* only a footage without issues gets as far as the dashboard
Score(x, encoding) ==
  CASE x = "script"    -> AtLeast0(100 - 10 * figures["script"])
    [] x = "audio"     -> Share(Count(figures["audio"], LAMBDA a : SoundIssues(a) = {}),
                                Len(figures["audio"]))
    [] x = "alignment" -> LET a == figures["alignment"] IN
                          Share(a.total_segments - a.low_confidence_count, a.total_segments)
    [] x = "subtitle"  -> AtLeast0(Share(TrackSum("total_cues") - TrackSum("issues_count"),
                                         TrackSum("total_cues")))
    [] x = "translation" -> AtLeast0(100 - 5 * figures["untranslated"])
    [] x = "deliverable" -> 100
    [] OTHER -> AtLeast0(100 - 15 * Cardinality(encoding))

AddUp(f) == f["script"] + f["audio"] + f["alignment"] + f["subtitle"] + f["translation"]
              + f["deliverable"] + f["video"]

\* the weights of the dimensions that are missing are shared out
Weighed(scores) ==
  [x \in DOMAIN Weight |-> IF x \in DOMAIN scores THEN Weight[x] ELSE 0]
Points(scores) ==
  [x \in DOMAIN Weight |-> IF x \in DOMAIN scores THEN Weight[x] * scores[x] ELSE 0]
Overall(scores) == AddUp(Points(scores)) \div AddUp(Weighed(scores))

\* the dimensions both runs have are compared
Trend(scores) ==
  IF ~Known("dashboard") THEN "no_baseline"
  ELSE LET old == figures["dashboard"].scores
           both == DOMAIN scores \cap DOMAIN old
       IN  IF \E x \in both : scores[x] < old[x] THEN "regressed"
           ELSE IF \E x \in both : scores[x] > old[x] THEN "improved" ELSE "stable"

Dashboard(encoding) ==
  LET scores == [x \in Dimensions |-> Score(x, encoding)]
  IN  [scores |-> scores, overall |-> Overall(scores), trend |-> Trend(scores)]

Validates == inspect.qa = "on" \/ (inspect.qa = "unset" /\ ~inspect.ci)

\* a film with issues stops the run; another one is described
Validate ==
  /\ qstep = "validate"
  /\ LET issues == DeliverableIssues(footage)
         encoding == EncodingIssues(footage)
     IN  IF ~Validates THEN qstep' = "done" /\ UNCHANGED figures
         ELSE IF issues # {} THEN qstep' = "rejected" /\ Note("report", issues)
         ELSE /\ qstep' = "done"
              /\ LET reported == With(With(figures, "report", issues), "video", encoding)
                 IN  figures' = With(reported, "dashboard", Dashboard(encoding))
  /\ UNCHANGED <<inspect, screenplay, recording, captions, wording, footage, retakes>>

-----------------------------------------------------------------------------
Stations == <<"script", "voice", "align", "translate", "subtitle", "gate", "render",
           "validate">>

\* a job is rerun from a step it has reached
Retake(i) ==
  /\ qstep \in {"done", "refused", "rejected"} /\ retakes < MaxAgain
  /\ qstep = "refused" => i <= 6
  /\ qstep' = Stations[i] /\ retakes' = retakes + 1
  /\ UNCHANGED <<inspect, screenplay, recording, captions, wording, footage, figures>>

NoFilm == [there |-> FALSE, kb |-> 0, video |-> FALSE, audio |-> FALSE, ticks |-> 0,
           volume |-> "unknown", size |-> <<0, 0>>, luma |-> <<>>, codec |-> "h264",
           kbps |-> 0]

QualityInit ==
  /\ inspect \in Inspections /\ qstep = "script" /\ retakes = 0
  /\ screenplay = <<>> /\ recording = <<>> /\ captions = <<>> /\ wording = <<>> /\ footage = NoFilm
  /\ figures = <<>>

QualityNext ==
  \/ WriteScript \/ Record \/ AlignCues \/ TranslateCues \/ MeasureCues
  \/ Gate \/ RenderFilm \/ Validate
  \/ \E i \in DOMAIN Stations : Retake(i)

QualitySpec == QualityInit /\ [][QualityNext]_qvars

-----------------------------------------------------------------------------
Gated == qstep \in {"render", "validate", "done", "refused", "rejected"} /\ ~GateSkipped

\* The gate judges the script and the recording the film is made of, not those of an
\* earlier run; a strict run goes on only if both are fit.
GateHonest ==
  Gated =>
    /\ "script" \in figures["gate"] <=> ScriptIssues(screenplay) > MaxScriptIssues
    /\ "audio" \in figures["gate"] <=> \E i \in DOMAIN recording : recording[i].clip > 100
    /\ inspect.strict /\ qstep # "refused" => figures["gate"] = {}

\* What is released can be watched and heard, as far as that was looked at: a
\* figure that could not be had does not pass for a good one, except a length of 0.
ReleasedIsPlayable ==
  qstep = "done" /\ Validates =>
    /\ footage.there /\ footage.video /\ footage.audio /\ footage.volume = "loud"
    /\ footage.ticks = 0 \/ Expected = 0 \/ 100 * footage.ticks \in 85 * Expected .. 125 * Expected

\* The dashboard describes the run it belongs to, and its overall score lies
\* between the worst and the best of its dimensions, whichever are missing.
DashboardSound ==
  qstep = "done" /\ Validates =>
    LET d == figures["dashboard"]
        all == {d.scores[x] : x \in DOMAIN d.scores}
    IN  /\ "script" \in DOMAIN d.scores
        /\ d.scores["script"] = AtLeast0(100 - 10 * ScriptIssues(screenplay))
        /\ d.overall \in Min(all) .. Max(all)

\* The checks of a run are about that run, and stop what they are there to stop.
QualitySound == GateHonest /\ ReleasedIsPlayable /\ DashboardSound

\* qa_gate.py lists among its checks "Subtitle QA"; its test feeds it a track with
\* issues in 6 of 10 cues and expects an issue ("> 50%").
SubtitlesGate ==
  Gated =>
    \A x \in DOMAIN figures["subtitles"] \ {"display_fit"} :
      LET t == figures["subtitles"][x] IN
      2 * t.cues_with_issues > t.cue_count => x \in figures["gate"]
=============================================================================
