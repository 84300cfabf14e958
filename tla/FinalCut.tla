------------------------------ MODULE FinalCut ------------------------------
(***************************************************************************)
(* From the narration to the deliverables: mix_bgm (pipeline/bgm.py),      *)
(* generate_subtitle, render_video (pipeline/render.py), the deliverable   *)
(* check, export_clips and the manifest.  Media carry the number of the    *)
(* narration they were made from, and lengths in lines of narration.  The  *)
(* process may die inside a step; a worker goes on from its checkpoint, a  *)
(* user from the state saved at --pause-at, with mn resume or mn rerun.    *)
(***************************************************************************)
EXTENDS Integers, Sequences, FiniteSets, FiniteSetsExt, SequencesExt

CONSTANTS
  Orders,        \* the requests to explore, see Order
  LineCounts,    \* lines a script may have
  MaxScenes,     \* scenes of the source video, one per line at most
  PreviewLines,  \* length of the preview window
  MaxNarrations, \* times a narration is recorded, over reruns
  MaxRenders     \* renders begun, over retries and reruns

Stages == <<"voice", "bgm", "subtitle", "render", "check", "export", "manifest">>
AudioFiles  == {"raw", "normal", "mixed"}  \* narration, narration_normalized, mixed.mp3
\* a music file: how well it suits the emotions, in percent, its channels, its length in
\* lines
Song   == [score : 0 .. 120, exists : BOOLEAN, channels : {1, 2}, lasts : Nat \ {0}]
\* own: the track that the request names (assets.bgm); samples: the library of moods;
\* emotions: one for every beat
Order  == [host : {"cli", "cloud"}, pause : Range(Stages) \cup {"never"},
           bgm : {"none", "default", "explicit"}, own : Song, samples : Seq(Song),
           normalize : BOOLEAN, delivery : {"burned", "sidecar", "muxed", "other"},
           mp4 : BOOLEAN, depth : Int, space : {"sdr", "hdr10", "other"},
           encoder : {"auto", "cpu", "gpu", "other"}, gpu : BOOLEAN, preview : BOOLEAN,
           title : Nat, emotions : Seq({"calm", "tense", "none"})]

ASSUME FinalCutAssumption ==
  /\ Orders \subseteq Order
  /\ LineCounts \subseteq Nat \ {0} /\ MaxScenes \in Nat /\ PreviewLines \in Nat \ {0}
  /\ MaxNarrations \in Nat \ {0} /\ MaxRenders \in Nat \ {0}

VARIABLES
  order,    \* the request
  stage,    \* the step in hand, "paused", "failed" or "done"
  media,    \* the media fields of the Context
  shot,     \* the local variables of render_video
  kept,     \* the saved context and the step it goes on with
  disk,     \* the files of output_dir
  renders   \* renders begun

fvars == <<order, stage, media, shot, kept, disk, renders>>

NoShot  == [at |-> "none"]
NoVideo == [gen |-> 0]
NoMedia == [voice |-> 0, lines |-> 0, clips |-> {}, bgm |-> "none", final |-> "none", mood |-> <<>>,
            srt |-> 0, video |-> FALSE, encoder |-> "none", why |-> "none",
            covered |-> 0, degraded |-> FALSE]

FinalCutInit ==
  /\ order \in Orders
  /\ stage = "voice" /\ media = NoMedia /\ shot = NoShot
  /\ kept = [at |-> "voice", media |-> NoMedia]
  /\ disk = [audio |-> [f \in AudioFiles |-> NoVideo], srt |-> 0, raw |-> NoVideo, part |-> NoVideo,
             video |-> NoVideo, report |-> "none", cover |-> 0, clips |-> {}, manifest |-> {}]
  /\ renders = 0

-----------------------------------------------------------------------------
Next1(s) == IF s = "manifest" THEN "done" ELSE Stages[CHOOSE k \in 2 .. Len(Stages) : Stages[k - 1] = s]

\* the step ends: a worker checkpoints the context, --pause-at saves it and stops
Ends(m) ==
  /\ media' = m
  /\ kept' = IF order.host = "cloud" \/ order.pause = stage
             THEN [at |-> Next1(stage), media |-> m] ELSE kept
  /\ stage' = IF order.host = "cli" /\ order.pause = stage THEN "paused" ELSE Next1(stage)
  /\ UNCHANGED order

\* an exception of a hard step, or the death of the process
Aborts ==
  /\ stage' = "failed" /\ shot' = NoShot
  /\ UNCHANGED <<order, media, kept>>

-----------------------------------------------------------------------------
\* generate_voice .. match_clips leave a new narration.mp3, its timed segments, and
\* footage for some of them
Narrate(k, clips) ==
  /\ stage = "voice" /\ media.voice < MaxNarrations
  /\ LET gen == disk.audio["raw"].gen + 1 IN
     /\ gen <= MaxNarrations
     /\ disk' = [disk EXCEPT !.audio["raw"] = [gen |-> gen, lines |-> k]]
     /\ Ends([media EXCEPT !.voice = gen, !.lines = k, !.clips = clips])
  /\ UNCHANGED <<shot, renders>>

\* select_bgm_by_emotion(): the first of the best scored samples that exist, 0 if none or
\* if no beat has an emotion
SelectBgm ==
  LET told == \E b \in DOMAIN order.emotions : order.emotions[b] # "none"
      fit == {k \in DOMAIN order.samples :
                told /\ order.samples[k].exists /\ order.samples[k].score > 0}
      top == {k \in fit : \A j \in fit : order.samples[j].score <= order.samples[k].score}
  IN IF fit = {} THEN 0 ELSE Min(top)

\* ctx.assets.bgm: what was selected, or else the request's own track
Music == IF order.bgm = "default" /\ SelectBgm # 0 THEN order.samples[SelectBgm] ELSE order.own

\* segment_emotions(): the beats are spread over the n segments, and one without an
\* emotion has that of the beat before
Emotion(i, n) ==
  LET beat == 1 + ((i - 1) * Len(order.emotions)) \div n
      told == {j \in 1 .. beat : order.emotions[j] # "none"}
  IN IF order.emotions = <<>> \/ told = {} THEN "none" ELSE order.emotions[Max(told)]

\* _detect_emotion_zones(): the runs of segments with one emotion, closed when it changes
Grown(zs, i, n) ==
  IF zs # <<>> /\ Emotion(i, n) = Emotion(zs[Len(zs)][1], n)
  THEN [zs EXCEPT ![Len(zs)][2] = i] ELSE Append(zs, <<i, i>>)
Zones(n) ==
  LET upto[i \in 0 .. n] == IF i = 0 THEN <<>> ELSE Grown(upto[i - 1], i, n)
  IN upto[n]

\* _apply_emotion_transitions(): the emotion whose gain a place of the sample array has
\* got; none past the narration, or if there is one zone.  A ramp into a zone is shorter
\* than a line.
Gain(zs, p, n) ==
  IF p > n \/ Len(zs) <= 1 THEN "none"
  ELSE Emotion(zs[CHOOSE k \in DOMAIN zs : p \in zs[k][1] .. zs[k][2]][1], n)

\* (mutant: the zones are placed a line early)
MoodAhead(n) ==
  [i \in 1 .. n |-> Gain(Zones(n), 1 + Music.channels * (i % Music.lasts), n)]

\* What is heard when a line begins: the array interleaves the channels, which the places
\* of the zones do not know of, and duck_bgm() repeats music that is too short.
Mood(n) ==
  LET zs == Zones(n)
  IN [i \in 1 .. n |-> Gain(zs, 1 + Music.channels * ((i - 1) % Music.lasts), n)]

\* ensure_final_audio(): what the context and output_dir become; the export may fail,
\* and then the raw narration is used
EnsureFinal(m, d) ==
  LET raw  == <<[m EXCEPT !.final = "raw"], d>>
      norm == <<[m EXCEPT !.final = "normal"], [d EXCEPT !.audio["normal"] = d.audio["raw"]]>>
  IN IF m.final \in {"normal", "mixed"} THEN {<<m, d>>}
     ELSE IF ~order.normalize THEN {raw} ELSE {norm, raw}

\* mix_bgm(): music under the narration, or a narration that is only normalized
MixBgm ==
  /\ stage = "bgm"
  /\ LET music == order.bgm # "none" /\ Music.exists
         Unmixed(v) == \E r \in EnsureFinal([media EXCEPT !.bgm = v], disk) :
                         Ends(r[1]) /\ disk' = r[2]
     IN \/ /\ music
           /\ Ends([media EXCEPT !.bgm = "success", !.final = "mixed", !.mood = Mood(media.lines)])
           /\ disk' = [disk EXCEPT !.audio["mixed"] = disk.audio["raw"]]
        \/ music /\ Unmixed("failed")
        \/ ~music /\ Unmixed(IF order.bgm = "explicit" THEN "failed" ELSE "skipped")
  /\ UNCHANGED <<shot, renders>>

\* generate_subtitle() writes the tracks of the current segments
GenerateSubtitle ==
  /\ stage = "subtitle"
  /\ disk' = [disk EXCEPT !.srt = media.voice]
  /\ Ends([media EXCEPT !.srt = media.voice])
  /\ UNCHANGED <<shot, renders>>

-----------------------------------------------------------------------------
\* _resolve_subtitle_delivery()
Delivery(m) ==
  IF order.delivery = "other" THEN "burned"
  ELSE IF order.delivery = "muxed" /\ (~order.mp4 \/ m.srt = 0) THEN "burned"
  ELSE order.delivery

\* _resolve_pixel_plan(): hdr10 forces ten bits
Depth == IF order.space = "hdr10" \/ order.depth = 10 THEN 10 ELSE 8

\* resolve_encoder(), a hint that is unknown or no GPU: the software encoder
ResolveEncoder == IF order.encoder = "gpu" \/ (order.encoder = "auto" /\ order.gpu)
                  THEN "gpu" ELSE "libx264"

\* (mutant: a ten-bit render keeps the GPU encoder)
CodecAsResolved == ResolveEncoder

\* the GPU encoders are eight bits
Codec == IF Depth = 10 THEN "libx264" ELSE ResolveEncoder

\* the reason that is recorded for a software encode
Why(fellBack) ==
  IF Depth = 10 /\ ResolveEncoder = "gpu" THEN "10bit"
  ELSE IF fellBack THEN "runtime"
  ELSE IF order.encoder = "auto" /\ ~order.gpu THEN "not_detected"
  ELSE IF order.encoder = "other" THEN "unknown_hint" ELSE "none"

\* truncate_segments_for_preview() of the segments, in the context itself
Window(m) == IF order.preview THEN [m EXCEPT !.lines = Min({m.lines, PreviewLines})] ELSE m

\* render_video() up to the encode.  Footage that does not load is replaced by a card
\* with the text of its segment, if the text is burned: there may be no such segment.
BeginRender(open, broken) ==
  /\ stage = "render" /\ shot.at = "none" /\ renders < MaxRenders
  /\ renders' = renders + 1
  /\ \E r \in EnsureFinal(media, disk) :
     LET m     == Window(r[1])
         audio == r[2].audio[m.final]
         sound == IF order.preview THEN Min({audio.lines, PreviewLines}) ELSE audio.lines
         shown == IF open THEN media.clips \ broken ELSE {}
         cards == IF open /\ Delivery(m) = "burned" THEN media.clips \cap broken ELSE {}
         parts == shown \cup cards
     IN /\ disk' = r[2]
        /\ IF cards \subseteq 1 .. m.lines
           THEN /\ media' = m
                /\ shot' = [at |-> "encode", audio |-> audio.gen, sound |-> sound,
                            picture |-> Max({sound, order.title} \cup parts), text |-> Delivery(m),
                            codec |-> Codec, fellBack |-> FALSE,
                            clips |-> IF open THEN media.clips ELSE {}]
                /\ UNCHANGED <<order, stage, kept>>
           ELSE Aborts

\* the admission check of the disk fails the step before it does anything
AdmissionFails ==
  /\ stage = "render" /\ shot.at = "none" /\ renders < MaxRenders
  /\ renders' = renders + 1
  /\ Aborts /\ UNCHANGED disk

\* write_videofile: the encode ends, fails on the GPU and is done again in software,
\* fails in software, or outlives its deadline and is killed
Encode ==
  /\ shot.at = "encode"
  /\ \/ /\ disk' = [disk EXCEPT !.raw = [gen |-> shot.audio, whole |-> TRUE, codec |-> shot.codec]]
        /\ shot' = [shot EXCEPT !.at = "mux"]
        /\ UNCHANGED <<order, stage, media, kept>>
     \/ /\ shot.codec = "gpu"
        /\ disk' = [disk EXCEPT !.raw = [gen |-> shot.audio, whole |-> FALSE, codec |-> "gpu"]]
        /\ shot' = [shot EXCEPT !.codec = "libx264", !.fellBack = TRUE]
        /\ UNCHANGED <<order, stage, media, kept>>
     \/ \* a failure in software, or a timeout
        /\ disk' = [disk EXCEPT !.raw = [gen |-> shot.audio, whole |-> FALSE, codec |-> shot.codec]]
        /\ Aborts
  /\ UNCHANGED renders

\* ffmpeg joins picture, sound and a soft track into .tmp/<name>.part
Mux ==
  /\ shot.at = "mux"
  /\ \/ /\ disk' = [disk EXCEPT !.part = [gen |-> shot.audio, whole |-> disk.raw.whole,
                       codec |-> disk.raw.codec, depth |-> Depth, sound |-> shot.sound,
                       picture |-> shot.picture, burned |-> shot.text = "burned",
                       soft |-> shot.text = "muxed"]]
        /\ shot' = [shot EXCEPT !.at = "publish"]
        /\ UNCHANGED <<order, stage, media, kept>>
     \/ /\ disk' = [disk EXCEPT !.part = NoVideo, !.raw = NoVideo]
        /\ Aborts
  /\ UNCHANGED renders

\* os.replace() of the part that is not empty, then .tmp is removed
Publish ==
  /\ shot.at = "publish"
  /\ disk' = [disk EXCEPT !.video = disk.part, !.part = NoVideo, !.raw = NoVideo]
  /\ shot' = [shot EXCEPT !.at = "report"]
  /\ UNCHANGED <<order, stage, media, kept, renders>>

\* encoder_info: the resolution again, corrected by what happened to the encode
ActiveCodec == IF shot.fellBack \/ Depth = 10 THEN "libx264" ELSE ResolveEncoder

\* metadata.json, the encoder report, the coverage of the footage and cover.jpg, a frame
\* of the footage that may fail to be extracted
Report ==
  /\ shot.at = "report"
  /\ \E c \in {disk.cover} \cup (IF shot.clips # {} THEN {shot.audio} ELSE {}) :
       disk' = [disk EXCEPT !.report = ActiveCodec, !.cover = c]
  /\ Ends([media EXCEPT !.video = TRUE, !.encoder = ActiveCodec, !.why = Why(shot.fellBack),
                        !.covered = Cardinality(shot.clips),
                        !.degraded = @ \/ 2 * Cardinality(shot.clips) < media.lines])
  /\ shot' = NoShot
  /\ UNCHANGED renders

-----------------------------------------------------------------------------
\* validate_deliverable(): the video is as long as the narration, within 15% and 25%
LongEnough(v) == 85 * media.lines <= 100 * v.picture /\ 100 * v.picture <= 125 * media.lines

Check ==
  /\ stage = "check"
  /\ IF disk.video # NoVideo /\ LongEnough(disk.video)
     THEN Ends(media) /\ UNCHANGED shot ELSE Aborts
  /\ UNCHANGED <<disk, renders>>

\* export_clips(): each scene by itself, the clips of an earlier run stay
ExportClips(made) ==
  /\ stage = "export"
  /\ disk' = [disk EXCEPT !.clips = @ \cup (media.clips \cap made)]
  /\ Ends(media)
  /\ UNCHANGED <<shot, renders>>

\* deliverable_manifest.json: what is in output_dir now
WriteManifest ==
  /\ stage = "manifest"
  /\ disk' = [disk EXCEPT !.manifest = {<<"video", disk.video.gen>>, <<"srt", disk.srt>>,
                 <<"audio", disk.audio[media.final].gen>>} \cup {<<"clip", c>> : c \in disk.clips}]
  /\ Ends(media)
  /\ UNCHANGED <<shot, renders>>

-----------------------------------------------------------------------------
ProcessDies ==
  /\ stage = "render" /\ shot.at # "none"
  /\ Aborts /\ UNCHANGED <<disk, renders>>

\* a retry of the worker or mn resume: the saved context, the step it goes on with
GoOn ==
  /\ stage \in {"failed", "paused"}
  /\ stage' = kept.at /\ media' = kept.media
  /\ UNCHANGED <<order, shot, kept, disk, renders>>

\* mn rerun --from s: prepare_rerun() resets the status of the later soft steps, and
\* nothing else
Rerun(s) ==
  /\ order.host = "cli" /\ stage \in {"failed", "paused", "done"}
  /\ \E k, j \in DOMAIN Stages : k < j /\ Stages[k] = s /\ Stages[j] = kept.at
  /\ stage' = s
  /\ media' = [kept.media EXCEPT !.bgm = IF s \in {"voice", "bgm"} THEN "none" ELSE @]
  /\ order' = [order EXCEPT !.pause = "never"]
  /\ UNCHANGED <<shot, kept, disk, renders>>

FinalCutNext ==
  \/ \E k \in LineCounts : \E clips \in SUBSET (1 .. Min({k, MaxScenes})) : Narrate(k, clips)
  \/ MixBgm \/ GenerateSubtitle
  \/ \E open \in BOOLEAN, broken \in SUBSET (1 .. MaxScenes) : BeginRender(open, broken)
  \/ AdmissionFails \/ Encode \/ Mux \/ Publish \/ Report
  \/ Check \/ \E made \in SUBSET (1 .. MaxScenes) : ExportClips(made)
  \/ WriteManifest \/ ProcessDies \/ GoOn \/ \E s \in Range(Stages) : Rerun(s)

FinalCutSpec == FinalCutInit /\ [][FinalCutNext]_fvars

-----------------------------------------------------------------------------
\* final.mp4, whenever somebody looks, is a complete encode, of the pixel format that
\* was asked for by an encoder that can produce it
PublishedWhole ==
  disk.video = NoVideo \/ (disk.video.whole /\ (disk.video.depth = 10 => disk.video.codec = "libx264"))

\* the words reach the viewer one way: on the picture, in a soft track, or in the
\* files beside the video
TextOnce ==
  disk.video # NoVideo =>
    /\ ~(disk.video.burned /\ disk.video.soft)
    /\ disk.video.burned \/ disk.video.soft \/ (order.delivery = "sidecar" /\ disk.srt # 0)
    /\ disk.video.soft => order.mp4

\* after the render, the context names the encoder that made the video, and a reason
\* when that is not the one the request resolves to; but a context that was saved after
\* a render goes on naming the one of that time, when mn resume takes it up again after
\* mn rerun made another video
AfterRender == {"check", "export", "manifest"}
EncoderTold ==
  stage \in AfterRender /\ (order.host = "cli" => kept.at \notin AfterRender) =>
    /\ media.encoder = disk.video.codec
    /\ (media.encoder # ResolveEncoder) => media.why \in {"10bit", "runtime"}

\* Music of one channel that is as long as the narration has the mood of every line, of
\* those that were narrated when it was mixed, or none if they are all of one.  (Of other
\* music that is not so: in stereo the mood changes at half the time, bgm.py:323.)
InTune(mood, lines) ==
  LET n == Len(mood)
  IN /\ lines <= n
     /\ Music.channels = 1 /\ n <= Music.lasts =>
          \/ \A i \in 1 .. n : mood[i] = Emotion(i, n)
          \/ \A i \in 1 .. n : mood[i] = "none" /\ Emotion(i, n) = Emotion(1, n)

\* The music that is mixed in follows the mood of the narration, spread over lines and
\* zones and samples, over pauses, reruns and previews.
MoodFollows == media.bgm = "success" => InTune(media.mood, media.lines)

\* What is delivered is whole, says what made it and carries its text once.
FinalCutSound == PublishedWhole /\ TextOnce /\ EncoderTold /\ MoodFollows

\* The sound of a finished video is the narration its subtitles were written from:
\* prepare_rerun() promises that from_step "and every step after it are invalidated".
SoundIsCurrent ==
  stage = "done" => disk.video.gen = media.voice
=============================================================================
