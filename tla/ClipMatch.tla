----------------------------- MODULE ClipMatch -----------------------------
(***************************************************************************)
(* Footage for every line: detect_scenes (pipeline/scenes.py), the scene   *)
(* filters (scene_filter.py, match/fallback.py) and match_clips            *)
(* (match/__init__.py, score.py, caption.py), which also rates each clip   *)
(* (utils/match_quality.py).  A scene is an interval of                    *)
(* the source video, a line an interval of the narration; how alike a line *)
(* and a scene are is chosen, the choice the code makes of them is not.    *)
(* Ratios and similarities are in percent.                                 *)
(***************************************************************************)
EXTENDS Ranks, SequencesExt, FiniteSetsExt

CONSTANTS
    VideoEnd,     \* length of the source video
    Cuts,         \* the instants a cut may be detected at
    LineTicks,    \* durations of a line
    MaxNarrated,  \* lines of the narration
    MergeMins,    \* scene_merge_min_duration
    MergeFloor,   \* what a zone may bring it down to, 0.5 s in the code
    DropMin,      \* match_drop_scene_min_duration
    Intros,       \* match_skip_intro_sec; 0: off
    Windows,      \* match_source_window, <<from, to>> in percent; <<0, 100>>: off
    Anchors,      \* approx_ratio of a beat; -1: none
    ActWeights,   \* match_act_weights, in percent
    ActScenes,    \* weighted acts need as many scenes, 8 in the code
    ActLines,     \* and as many lines, 4 in the code
    TopK,         \* match_topk
    ReuseWindow,  \* match_diversity_window
    MaxReuse,     \* match_max_scene_reuse
    Clamps,       \* match_speed_clamp_min and _max
    Alikeness     \* how alike a line is to a scene: little, somewhat, most

ASSUME ClipAssumption ==
    /\ VideoEnd \in Nat \ {0} /\ Cuts \subseteq 1 .. VideoEnd - 1
    /\ LineTicks \subseteq Nat \ {0} /\ MaxNarrated \in Nat \ {0}
    /\ MergeMins \subseteq Nat /\ MergeFloor \in Nat /\ DropMin \in Nat /\ Intros \subseteq Nat
    /\ Clamps \subseteq (1 .. 100) \X {n \in Nat : n >= 100}
    /\ ActWeights \in Seq(Nat \ {0}) /\ ActWeights # <<>>
    /\ Windows \subseteq {w \in (0 .. 100) \X (0 .. 100) : w[1] < w[2]}
    /\ Alikeness \in [1 .. 3 -> 0 .. 100]
    /\ TopK \in Nat \ {0} /\ ReuseWindow \in Nat \ {0} /\ MaxReuse \in Nat \ {0}

\* The clamp _apply_diversity uses, whatever the job's is.
SwapClamp == <<85, 125>>
MinScore == 25
ReusePenalty == 15
RhythmMax == 15

VARIABLES
    mstep,   \* the step about to run
    lines,   \* ctx.timed_segments
    clamp,   \* the job's match_speed_clamp_min and _max
    scenes,  \* ctx.scenes
    sstatus, \* ctx.status.scene
    pool,    \* the scenes match_clips chose from
    clips,   \* ctx.matched_clips
    quality, \* ctx.metadata["match_quality"] and the ratings it sums up
    summary, \* ctx.metadata["match_summary"]
    mstatus  \* ctx.status.match

mvars == <<mstep, lines, clamp, scenes, sstatus, pool, clips, quality, summary, mstatus>>

Dur(s) == s.end - s.start
Abs(n) == IF n < 0 THEN -n ELSE n
SpanOf(seq) == LET from == Min({seq[k].start : k \in DOMAIN seq})
               IN  [start |-> from, end |-> Max({seq[k].end : k \in DOMAIN seq})]

(***************************************************************************)
(* Scenes.                                                                 *)
(***************************************************************************)
ScenesAt(cuts) ==
    LET ends == cuts \cup {VideoEnd}
    IN  [k \in 1 .. Cardinality(ends) |->
           [start |-> IF k = 1 THEN 0 ELSE Nth(ends, k - 1), end |-> Nth(ends, k)]]

\* No scenedetect, no video, an error, or the scenes; without a cut, one scene over all of it.
Detect ==
    /\ mstep = "detect" /\ mstep' = "match"
    /\ \/ sstatus' \in {"disabled", "skipped", "failed"} /\ UNCHANGED scenes
       \/ /\ \E cuts \in SUBSET Cuts : scenes' = ScenesAt(cuts)
          /\ sstatus' = "success"
    /\ UNCHANGED <<lines, clamp, pool, clips, quality, summary, mstatus>>

\* Scene by scene: what is merged so far, and the short scenes that wait for a long one.
NoneMerged == [out |-> <<>>, pending |-> FALSE, from |-> 0, upto |-> 0]
MergeNext(acc, s, min) ==
    LET from == IF acc.pending THEN acc.from ELSE s.start
    IN  IF Dur(s) >= min
        THEN [out |-> Append(acc.out, [start |-> from, end |-> s.end]),
              pending |-> FALSE, from |-> 0, upto |-> 0]
        ELSE [out |-> acc.out, pending |-> TRUE, from |-> from, upto |-> s.end]
Merging(seq, min) ==
    LET run[i \in 0 .. Len(seq)] ==
          IF i = 0 THEN NoneMerged ELSE MergeNext(run[i - 1], seq[i], min)
    IN  run[Len(seq)]

\* As MergeShort, but the scenes pending at the end are lost.
MergeShortDropLast(seq, min) == Merging(seq, min).out

\* A short scene joins the one after it, the last ones the one before them.
MergeShort(seq, min) ==
    LET run == Merging(seq, min)
        n == Len(run.out)
    IN  IF ~run.pending THEN run.out
        ELSE IF n = 0 THEN <<[start |-> run.from, end |-> run.upto]>>
        ELSE [run.out EXCEPT ![n].end = run.upto]

\* Every filter is dropped rather than leave no scene.
UnlessNone(kept, seq) == IF kept = <<>> THEN seq ELSE kept

Where(seq, K) == UnlessNone(Taken(seq, K), seq)
DropTiny(seq) == Where(seq, {k \in DOMAIN seq : Dur(seq[k]) >= DropMin})
SkipIntro(seq, intro) == Where(seq, {k \in DOMAIN seq : seq[k].end > intro})
DropDark(seq, dark) == Where(seq, {k \in DOMAIN seq : seq[k].start \notin dark})

\* The highlight window: scenes outside are dropped, scenes across its ends are cut.
Highlight(seq, window) ==
    LET span == SpanOf(seq)
        from == span.start + (window[1] * Dur(span)) \div 100
        to == span.start + (window[2] * Dur(span) + 99) \div 100
        inside == Taken(seq, {k \in DOMAIN seq : seq[k].end > from /\ seq[k].start < to})
    IN  IF inside = <<>> THEN seq
        ELSE [k \in DOMAIN inside |->
                [start |-> IF inside[k].start > from THEN inside[k].start ELSE from,
                 end |-> IF inside[k].end < to THEN inside[k].end ELSE to]]

\* _apply_rhythm_density_hint: a hook-heavy narration merges less, a settling one more;
\* a zone brings it to the floor, even from below; merging can be off.  (The beats of a
\* run are all of one zone here, or of none.)
MergeMin(min, zone) ==
    IF min = 0 \/ zone = "none" THEN min
    ELSE Max({MergeFloor, (min * IF zone = "hook" THEN 60 ELSE 140) \div 100})

Pool(opt) ==
    LET min == MergeMin(opt.merge, opt.zone)
        merged == IF min > 0 THEN MergeShort(scenes, min) ELSE scenes
    IN  Highlight(DropDark(SkipIntro(DropTiny(merged), opt.intro), opt.dark), opt.window)

(***************************************************************************)
(* The heuristic: where in the film a line is likely to be shown.          *)
(***************************************************************************)
SumSeq(s) == FoldLeft(LAMBDA a, b : a + b, 0, s)

\* Lines per act, in proportion to the weights and at least one, then adjusted at the
\* largest act until they add up.
ActCounts(n) ==
    LET all == SumSeq(ActWeights)
        raw == [a \in DOMAIN ActWeights |->
                  Max({1, (2 * n * ActWeights[a] + all) \div (2 * all)})]
        d == n - SumSeq(raw)
        Bump(c, i) == LET m == Min({a \in DOMAIN c : \A b \in DOMAIN c : c[b] <= c[a]})
                      IN  [c EXCEPT ![m] = IF d > 0 THEN @ + 1 ELSE @ - 1]
    IN  FoldLeft(Bump, raw, [i \in 1 .. Abs(d) |-> i])

\* _assign_segments_to_acts: for every number of lines, the act of each.
ActsOf ==
    [n \in 1 .. MaxNarrated |->
       [i \in 1 .. n |->
          Min({a \in DOMAIN ActWeights : SumSeq(SubSeq(ActCounts(n), 1, a)) >= i}
                \cup {Len(ActWeights)})]]

ActOf(i) == ActsOf[Len(lines)][i]

\* The scenes (by position) that start in an act's share of the timeline.
ActBucket(seq, a) ==
    LET span == SpanOf(seq)
        n == Len(ActWeights)
        ActAt(s) == Min({n, 1 + ((s.start - span.start) * n) \div Dur(span)})
    IN  {k \in DOMAIN seq : ActAt(seq[k]) = a}

\* The first scene around an instant, else the first of them.
Around(seq, among, at) ==
    LET hits == {k \in among : seq[k].start <= at /\ at <= seq[k].end}
    IN  Min(IF hits = {} THEN among ELSE hits)

WeightedActs(seq) == Len(seq) >= ActScenes /\ Len(lines) >= ActLines

Heuristic(seq, opt, i) ==
    LET span == SpanOf(seq)
        n == Len(lines)
        a == ActOf(i)
        bucket == IF ActBucket(seq, a) = {} THEN DOMAIN seq ELSE ActBucket(seq, a)
        mates == {j \in 1 .. n : ActOf(j) = a}
        pos == Cardinality({j \in mates : j < i})
        from == Min({seq[k].start : k \in bucket})
        to == Max({seq[k].end : k \in bucket})
        narrated == lines[n].end - lines[1].start
        mid2 == lines[i].start + lines[i].end - 2 * lines[1].start
    IN  IF opt.anchors[i] >= 0
        THEN Around(seq, DOMAIN seq, span.start + (opt.anchors[i] * Dur(span)) \div 100)
        ELSE IF opt.acts /\ WeightedActs(seq)
        THEN Around(seq, bucket,
                    from + ((2 * pos + 1) * (to - from)) \div (2 * Cardinality(mates)))
        ELSE Around(seq, DOMAIN seq, span.start + (mid2 * Dur(span)) \div (2 * narrated))

(***************************************************************************)
(* The embedding re-rank.                                                  *)
(***************************************************************************)
\* How alike line i and scene k are: most the one it likes; little, if it likes none.
Sim(opt, i, k) == Alikeness[IF opt.likes[i] = 0 THEN 1 ELSE IF k = opt.likes[i] THEN 3 ELSE 2]

\* The soft bonus for a scene near the zone's place in the film.
Rhythm(seq, zone, k) ==
    LET span == SpanOf(seq)
        pos == (50 * (seq[k].start + seq[k].end - 2 * span.start)) \div Dur(span)
        centre == IF zone = "hook" THEN 15 ELSE 85
    IN  IF zone = "none" THEN 0 ELSE (RhythmMax * (100 - Abs(pos - centre))) \div 100

\* An act's scenes and its neighbours', all of them when it has none.
SceneChoices(seq, opt, i) ==
    LET a == ActOf(i)
    IN  IF opt.acts /\ WeightedActs(seq) /\ ActBucket(seq, a) # {}
        THEN UNION {ActBucket(seq, b) : b \in {a - 1, a, a + 1} \cap DOMAIN ActWeights}
        ELSE DOMAIN seq

\* The TopK candidates by similarity, the first of equal ones.
Better(opt, i, x, y) ==
    Sim(opt, i, x) > Sim(opt, i, y) \/ (Sim(opt, i, x) = Sim(opt, i, y) /\ x < y)
Ranked(seq, opt, i) ==
    LET all == SceneChoices(seq, opt, i)
    IN  {k \in all : Cardinality({l \in all : Better(opt, i, l, k)}) < TopK}

\* The best of the ranked, after the bonus and the penalty of the scenes taken recently.
Preferred(seq, opt, i, recent) ==
    LET Adj(k) == Sim(opt, i, k) + Rhythm(seq, opt.zone, k)
                    - IF k \in recent THEN ReusePenalty ELSE 0
        Prefers(x, y) == Adj(x) > Adj(y) \/ (Adj(x) = Adj(y) /\ Better(opt, i, x, y))
        ranked == Ranked(seq, opt, i)
    IN  CHOOSE k \in ranked : \A l \in ranked : ~Prefers(l, k)

\* Line by line, each with an eye on the scenes that the last lines took.
Take(seq, opt, taken, i) ==
    LET recent == {taken[j] : j \in Max({1, i - ReuseWindow}) .. i - 1}
    IN  Append(taken, Preferred(seq, opt, i, recent))
Greedy(seq, opt) ==
    LET run[i \in 0 .. Len(lines)] ==
          IF i = 0 THEN <<>> ELSE Take(seq, opt, run[i - 1], i)
    IN  run[Len(lines)]

(***************************************************************************)
(* Clips.                                                                  *)
(***************************************************************************)
\* _clamp_scene_window: the footage is shortened or extended around its middle until
\* its speed is within <<least, most>>, inside 0..end.
ClampWindow(s, dur, end, within) ==
    LET target == IF 100 * Dur(s) > within[2] * dur THEN (dur * within[2]) \div 100
                  ELSE (dur * within[1] + 99) \div 100
        left == (s.start + s.end - target) \div 2
        from == IF left < 0 THEN 0 ELSE left
        to == from + target
    IN  IF within[1] * dur <= 100 * Dur(s) /\ 100 * Dur(s) <= within[2] * dur THEN s
        ELSE IF to <= end THEN [start |-> from, end |-> to]
        ELSE [start |-> IF end < target THEN 0 ELSE end - target, end |-> end]

\* A clip, and whether the log of swaps (swaps_log) names it.
Clip(seq, i, k, source, score, swapped) ==
    LET w == ClampWindow(seq[k], Dur(lines[i]), SpanOf(seq).end,
                         IF swapped THEN SwapClamp ELSE clamp)
    IN  [scene |-> k, start |-> w.start, end |-> w.end, source |-> source, score |-> score,
         swapped |-> swapped]

\* Scenes are ranked when most captions say something; an embedding score under the
\* minimum falls back to the heuristic, whose score is 1.
Matched(seq, opt) ==
    LET ranked == opt.captions = "real" /\ Len(seq) > 1
        taken == IF ranked THEN Greedy(seq, opt) ELSE <<>>
    IN  [i \in DOMAIN lines |->
           IF ranked /\ Sim(opt, i, taken[i]) >= MinScore
           THEN Clip(seq, i, taken[i], "embedding", Sim(opt, i, taken[i]), FALSE)
           ELSE Clip(seq, i, Heuristic(seq, opt, i), "heuristic", 100, FALSE)]

\* The clips up to i that _apply_diversity looks back on.
Recent(i) == Max({1, i - ReuseWindow + 1}) .. i
Uses(cs, i) == Cardinality({j \in Recent(i) : cs[j].scene = cs[i].scene})

\* A scene used too often in the last lines gives way to the nearest unused one, cut
\* within SwapClamp.
Varied(seq, cs, i) ==
    LET unused == DOMAIN seq \ {cs[j].scene : j \in Recent(i)}
        near == {k \in unused : \A l \in unused :
                   Abs(k - cs[i].scene) <= Abs(l - cs[i].scene)}
    IN  IF Uses(cs, i) <= MaxReuse \/ unused = {} THEN cs
        ELSE [cs EXCEPT ![i] = Clip(seq, i, Min(near), @.source, @.score, TRUE)]

Diversify(seq, cs) ==
    IF Len(seq) <= 1 THEN cs
    ELSE LET run[i \in 0 .. Len(cs)] == IF i = 0 THEN cs ELSE Varied(seq, run[i - 1], i)
         IN  run[Len(cs)]

(***************************************************************************)
(* The ratings (match_quality.py), which change no clip.                   *)
(***************************************************************************)
NoScore == -1
LowRated == 40

\* compute_diversity_scores: what the clips before i used of its scene, not counting i.
DiversityScore(cs, i) ==
    LET before == {j \in Max({1, i - ReuseWindow}) .. i - 1 : cs[j].scene = cs[i].scene}
    IN  Max({0, 100 - ReusePenalty * Max({0, Cardinality(before) - MaxReuse})})

\* The weighted average of what is known, 60 : 25 : 15.
Composite(e, r, d) ==
    LET E == IF e = NoScore THEN 0 ELSE 60
        R == IF r = NoScore THEN 0 ELSE 25
    IN  (e * E + r * R + d * 15) \div (E + R + 15)

\* score_clips: a clip of the heuristic has no likeness and no rhythm to be rated on.
Rated(cs, opt) ==
    [i \in DOMAIN cs |->
       LET ranked == cs[i].source = "embedding"
           e == IF ranked THEN cs[i].score ELSE NoScore
           r == IF ranked /\ opt.zone # "none" THEN 80 ELSE NoScore
           d == DiversityScore(cs, i)
       IN  [embedding |-> e, rhythm |-> r, diversity |-> d, composite |-> Composite(e, r, d)]]

\* aggregate_match_quality, as far as anything reads it.
Aggregate(q) ==
    [ratings |-> q,
     average |-> SumSeq([i \in DOMAIN q |-> q[i].composite]) \div Len(q),
     low |-> {i \in DOMAIN q : q[i].composite < LowRated},
     penalised |-> Cardinality({i \in DOMAIN q : q[i].diversity < 100})]

\* match_summary: where the clips came from, and why none was ranked.
Summary(seq, cs, opt) ==
    LET ranked == Cardinality({i \in DOMAIN cs : cs[i].source = "embedding"})
    IN  [ranked |-> ranked, heuristic |-> Len(cs) - ranked,
         degraded |-> IF opt.captions = "fake" /\ Len(seq) > 1 THEN "fake_captions"
                      ELSE IF ranked = 0 THEN "all_heuristic" ELSE "none"]

\* The options of a run: parameters, what the beats say, what the embedding finds.
Options ==
    {opt \in
       [merge : MergeMins, zone : {"none", "hook", "settle"}, intro : Intros,
        window : Windows, acts : BOOLEAN, captions : {"none", "fake", "real"},
        dark : {{}} \cup {{s.start} : s \in ToSet(scenes)},
        anchors : [DOMAIN lines -> Anchors], likes : [DOMAIN lines -> 0 .. 2]] :
       opt.captions # "real" => \A i \in DOMAIN lines : opt.likes[i] = 0}

\* Nothing to match; the clips; or an error, before or after they are stored.
Match ==
    /\ mstep = "match" /\ mstep' = "done"
    /\ IF sstatus = "disabled" \/ scenes = <<>>
       THEN /\ mstatus' = IF sstatus = "disabled" THEN "disabled" ELSE "skipped"
            /\ UNCHANGED <<pool, clips, quality, summary>>
       ELSE \/ \E opt \in Options :
                 /\ pool' = Pool(opt)
                 /\ clips' = Diversify(pool', Matched(pool', opt))
                 /\ \/ /\ quality' = Aggregate(Rated(clips', opt))
                       /\ \/ mstatus' = "success" /\ summary' = Summary(pool', clips', opt)
                          \/ mstatus' = "failed" /\ UNCHANGED summary
                    \/ mstatus' = "failed" /\ UNCHANGED <<quality, summary>>
            \/ mstatus' = "failed" /\ UNCHANGED <<pool, clips, quality, summary>>
    /\ UNCHANGED <<lines, clamp, scenes, sstatus>>

-----------------------------------------------------------------------------
Timeline(durs) ==
    LET at[i \in 0 .. Len(durs)] == IF i = 0 THEN 0 ELSE at[i - 1] + durs[i]
    IN  [i \in DOMAIN durs |-> [start |-> at[i - 1], end |-> at[i]]]

ClipInit ==
    /\ mstep = "detect" /\ scenes = <<>> /\ pool = <<>> /\ clips = <<>>
    /\ quality = <<>> /\ summary = <<>>
    /\ \E n \in 1 .. MaxNarrated : \E durs \in [1 .. n -> LineTicks] : lines = Timeline(durs)
    /\ clamp \in Clamps /\ sstatus = "pending" /\ mstatus = "pending"

ClipNext == Detect \/ Match

ClipSpec == ClipInit /\ [][ClipNext]_mvars

-----------------------------------------------------------------------------
\* Merging loses no footage: the scenes of every threshold still cover the video.
MergeCovers ==
    scenes # <<>> =>
        \A min \in MergeMins \ {0} :
            LET m == MergeShort(scenes, min)
            IN  /\ m[1].start = 0 /\ m[Len(m)].end = VideoEnd
                /\ \A k \in 2 .. Len(m) : m[k].start = m[k - 1].end
                /\ Len(m) > 1 => \A k \in DOMAIN m : Dur(m[k]) >= min

\* Every line has one clip, inside the footage.  Unless the footage is too short for the
\* line, a clip plays at a speed within the job's clamp, or within the fixed one if its
\* scene was swapped: then it can be outside the job's (fallback.py:175).
ClipsPlayable ==
    clips # <<>> =>
        /\ Len(clips) = Len(lines)
        /\ \A i \in DOMAIN clips :
             LET c == clips[i]
                 end == SpanOf(pool).end
                 within == IF c.swapped THEN SwapClamp ELSE clamp
             IN  /\ 0 <= c.start /\ c.start < c.end /\ c.end <= end
                 /\ 100 * Dur(c) <= within[2] * Dur(lines[i])
                 /\ \/ 100 * Dur(c) >= within[1] * Dur(lines[i])
                    \/ c.start = 0 /\ c.end = end

\* No scene is shown too often within the window while another is unused.
ClipsDiverse ==
    clips # <<>> /\ Len(pool) > 1 =>
        \A i \in DOMAIN clips :
            Uses(clips, i) > MaxReuse =>
                DOMAIN pool \subseteq {clips[j].scene : j \in Recent(i)}

\* The rule that swaps scenes and the one that rates reuse look back over different
\* windows, yet what is rated down is only what could not be swapped: a window with all
\* the scenes there are.  And what is not known of a clip does not count: its rating lies
\* between those of its known sides, for a clip of the heuristic its variety alone.
RatingsFair ==
    quality # <<>> =>
        LET q == quality.ratings
        IN  \A i \in DOMAIN q :
              /\ q[i].diversity < 100 =>
                   \E j \in Max({1, i - ReuseWindow}) .. i - 1 :
                      DOMAIN pool \subseteq {clips[k].scene : k \in Recent(j)}
              /\ \E x, y \in {q[i].embedding, q[i].rhythm, q[i].diversity} \ {NoScore} :
                   x <= q[i].composite /\ q[i].composite <= y

\* Footage is matched completely, playably and with variety, and rated for it.
ClipsSound == MergeCovers /\ ClipsPlayable /\ ClipsDiverse /\ RatingsFair
=============================================================================
