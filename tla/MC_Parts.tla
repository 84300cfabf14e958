------------------------------ MODULE MC_Parts ------------------------------
(* Instances of the services of the cloud package whose threads get in each *)
(* other's way, and of the media steps and their caches, for TLC.  They     *)
(* share no state: a behaviour is one of them, and leaves the variables of  *)
(* the others as they are.                                                  *)
EXTENDS WebhookDispatcher, Admission, RaceExecutor, ArtifactSweeper,
        MediaCache, ScriptWriter, Narration, VoiceCache, ClipMatch, FinalCut,
        JobSettings, Daemon

VARIABLE part

CONSTANTS c1, c2 \* threads, or the callers of dispatch()

OneThread  == {c1}
TwoThreads == {c1, c2}

-----------------------------------------------------------------------------
\* A client that may have what the default plan allows, one that asks for less
\* than it pays for, and one that asks for more
Body(t, p, n, b, s) ==
  [tenant |-> t, key |-> "k", plan |-> p, size |-> n, batch |-> b, valid |-> TRUE,
   seconds |-> s, frame |-> <<1, 2>>, bytes |-> 1]
ThreeRequests ==
  {Body("a", "", 1, FALSE, 1), Body("b", "free", 2, TRUE, 1), Body("b", "free", 1, FALSE, 2)}
TwoPlans ==
  [p \in {"default", "free"} |->
     IF p = "free" THEN [seconds |-> 1, frame |-> <<2, 1>>, bytes |-> 2]
                   ELSE [seconds |-> -1, frame |-> <<>>, bytes |-> -1]]

-----------------------------------------------------------------------------
\* A run on time whose clips were ranked, and one that is late and fell back
Measured(r, d, s, f) == [matched |-> TRUE, ranked |-> r, likeness |-> 60, duration |-> d,
                         swapped |-> s, footage |-> f]
TwoRuns == {Measured(75, 100, 25, 100), Measured(0, 140, 0, 50)}

-----------------------------------------------------------------------------
\* A task that writes to a directory of its own, kept longer than the policy says,
\* and a newer one that writes to a movie's directory with a name that begins alike
TwoOwners == {"t1", "t2"}
OwnOrMovie == [t \in TwoOwners |-> IF t = "t2" THEN "t10" ELSE t]
TwoHeads == {"t1", "t10"}
Beginning == [p \in TwoHeads |-> IF p = "t1" THEN {"t1", "t10"} ELSE {p}]
TwoSizes == [p \in TwoHeads |-> IF p = "t1" THEN 2 ELSE 1]
OnePlanned == [t \in TwoOwners |-> IF t = "t1" THEN 2 ELSE 0]
Ages == [t \in TwoOwners |-> IF t = "t1" THEN 1 ELSE 2]

-----------------------------------------------------------------------------
\* One content under two URLs that name different types, a URL that may answer
\* with either content, one that is refused
ThreeLinks == {"u1", "u2", "u3"}
OneOrTwo == [c \in {"c1", "c2"} |-> IF c = "c1" THEN 1 ELSE 2]
Answers == [u \in ThreeLinks |-> IF u = "u2" THEN {"c1", "c2"} ELSE {"c1"}]
Extension == [u \in ThreeLinks |-> IF u = "u1" THEN "mp4" ELSE "mkv"]

\* Beats with and without a repetition; a draft that is too short, one that is
\* too long and has a line that is, one in between
TwoBeatLists == {<<"a", "b", "c", "d", "f">>, <<"a", "b", "a", "d", "e">>}
Near == {<<"d", "e">>, <<"e", "d">>}
ThreeDrafts == {<<4, 1>>, <<5, 2, 9, 3, 1, 6, 2>>, <<1, 2, 3, 3, 2, 5, 4, 2>>}

\* Two lines that say the same
SameTwice == <<"a", "b", "a">>

OneWeighting == <<40, 60>>
NoneOrMiddle == {-1, 50}
ThreeLikenings == <<20, 25, 35>>
CutAtTheEnd == {<<0, 80>>}
TwoClamps == {<<85, 125>>, <<95, 102>>}

-----------------------------------------------------------------------------
\* Films of each kind: who hosts the run, what music and encoder it asks for
Tune(x, e, c, l) == [score |-> x, exists |-> e, channels |-> c, lasts |-> l]
Plain == [host |-> "cli", pause |-> "bgm", bgm |-> "none",
          own |-> Tune(0, FALSE, 1, 1), samples |-> <<>>,
          normalize |-> TRUE, delivery |-> "burned", mp4 |-> TRUE, depth |-> 8,
          space |-> "sdr", encoder |-> "auto", gpu |-> TRUE, preview |-> FALSE,
          title |-> 0, emotions |-> <<>>]
Reviewed == [Plain EXCEPT !.pause = "check", !.encoder = "gpu", !.normalize = FALSE]
SixOrders ==
  {Reviewed,
   [Plain EXCEPT !.host = "cloud", !.pause = "never", !.bgm = "default",
                 !.samples = <<Tune(2, FALSE, 1, 3), Tune(1, TRUE, 2, 2)>>, !.delivery = "muxed",
                 !.emotions = <<"tense", "calm">>, !.encoder = "gpu"],
   [Plain EXCEPT !.bgm = "explicit", !.own = Tune(0, TRUE, 1, 3), !.title = 1,
                 !.emotions = <<"calm", "none", "tense">>, !.delivery = "sidecar",
                 !.space = "hdr10", !.encoder = "gpu"],
   [Plain EXCEPT !.pause = "never", !.bgm = "explicit", !.normalize = FALSE, !.delivery = "muxed",
                 !.mp4 = FALSE, !.depth = 10, !.gpu = FALSE],
   [Plain EXCEPT !.pause = "never", !.bgm = "default",
                 !.own = Tune(0, TRUE, 1, 3), !.emotions = <<"none", "tense">>,
                 !.delivery = "other", !.encoder = "other", !.preview = TRUE],
   [Plain EXCEPT !.host = "cloud", !.pause = "never", !.encoder = "cpu",
                 !.normalize = FALSE]}

-----------------------------------------------------------------------------
\* Two community presets and a built-in one with a watermark, and a job for every
\* way a key is treated
PresetKeyNames == {"crf", "delivery", "template", "encoder", "platform", "focus"}
ABuiltin == [n \in {"b"} |-> [k \in PresetKeyNames |-> IF k = "template" THEN "x" ELSE "y"]]
Preset(d) == [scheme |-> "https", bytes |-> 1, named |-> TRUE, unknown |-> FALSE,
              engine |-> 1, doc |-> d]
EachY == Preset([k \in PresetKeyNames |-> "y"])
FourSources ==
  {EachY, Preset([k \in PresetKeyNames |-> IF k = "crf" THEN "unset" ELSE "x"]),
   [EachY EXCEPT !.scheme = "http"], [EachY EXCEPT !.engine = 2]}
AskFor(h, k, c, j, p) ==
  [host |-> h, key |-> k, cli |-> c, job |-> j, preset |-> p, draft |-> (k = "crf"),
   watermark |-> TRUE, gpu |-> FALSE, mode |-> "original", lang |-> FALSE]
ManyJobs ==
  {AskFor("cli", "crf", "unset", "x", "p"), AskFor("cli", "crf", "unset", "unset", "p"),
   AskFor("cli", "delivery", "unset", "default", "p"), AskFor("cli", "platform", "unset", "x", "b"),
   AskFor("cli", "focus", "y", "x", "p"), AskFor("cli", "focus", "unset", "x", "p"),
   AskFor("cli", "style", "default", "x", "none"), AskFor("cli", "style", "y", "x", "none"),
   AskFor("cli", "voice", "unset", "unset", "b"), AskFor("cli", "voice", "unset", "x", "b"),
   AskFor("cli", "strict", "x", "default", "none"), AskFor("cli", "typo", "unset", "x", "none"),
   [AskFor("cli", "crf", "unset", "x", "p") EXCEPT !.mode = "translated"],
   AskFor("cloud", "template", "unset", "y", "b"), AskFor("cloud", "template", "unset", "unset", "p"),
   AskFor("cloud", "encoder", "unset", "x", "p")}

-----------------------------------------------------------------------------
\* A thread for everything but deletions, and one that replays or deletes at the
\* same time
TwoRoutes == [c \in TwoThreads |->
                IF c = c1 THEN {"task", "batch", "replay", "ready", "health"}
                ELSE {"replay", "delete"}]

-----------------------------------------------------------------------------
allvars == <<wvars, avars, rvars, svars, cvars, pvars, nvars, vvars, mvars, fvars,
             jvars, dvars, part>>
Parts == {"webhooks", "admission", "race", "sweeper", "cache",
          "script", "narration", "voice", "clips", "final", "settings", "daemon"}

\* the states that a part whose turn it is not stays in
NarrationIdle ==
  /\ spoken = <<1>> /\ chars = <<1>> /\ nstep = "voice" /\ estimate = <<>> /\ timed = <<>>
  /\ trans = <<>> /\ fallback = FALSE /\ astatus = "pending" /\ tstatus = "pending"
  /\ tracks = {} /\ track = "none"
ClipsIdle ==
  /\ lines = <<>> /\ clamp = <<85, 125>> /\ mstep = "detect" /\ scenes = <<>> /\ pool = <<>> /\ clips = <<>>
  /\ quality = <<>> /\ summary = <<>>
  /\ sstatus = "pending" /\ mstatus = "pending"

PartsInit ==
  /\ part \in Parts
  /\ WebhookInit /\ AdmissionInit /\ RaceInit /\ CacheInit /\ ScriptInit /\ VoiceInit
  /\ SweeperInit /\ (part # "sweeper" => backend = "local")
  /\ IF part = "narration" THEN NarrationInit ELSE NarrationIdle
  /\ IF part = "clips" THEN ClipInit ELSE ClipsIdle
  /\ FinalCutInit /\ (part # "final" => order = Reviewed)
  /\ SettingsInit /\ (part # "settings" => \A t \in Threads : home[t] = "h1")
  /\ DaemonInit /\ (part # "daemon" => host = "serve")

Only(p) ==
  /\ part = p /\ UNCHANGED part
  /\ p # "webhooks"   => UNCHANGED wvars
  /\ p # "admission"  => UNCHANGED avars
  /\ p # "race"       => UNCHANGED rvars
  /\ p # "sweeper"    => UNCHANGED svars
  /\ p # "cache"      => UNCHANGED cvars
  /\ p # "script"     => UNCHANGED pvars
  /\ p # "narration"  => UNCHANGED nvars
  /\ p # "voice"      => UNCHANGED vvars
  /\ p # "clips"      => UNCHANGED mvars
  /\ p # "final"      => UNCHANGED fvars
  /\ p # "settings"   => UNCHANGED jvars
  /\ p # "daemon"     => UNCHANGED dvars

PartsNext ==
  \/ Only("webhooks")  /\ WebhookNext
  \/ Only("admission") /\ AdmissionNext
  \/ Only("race")      /\ RaceNext
  \/ Only("sweeper")   /\ SweeperNext
  \/ Only("cache")     /\ CacheNext
  \/ Only("script")    /\ ScriptNext
  \/ Only("narration") /\ NarrationNext
  \/ Only("voice")     /\ VoiceNext
  \/ Only("clips")     /\ ClipNext
  \/ Only("final")     /\ FinalCutNext
  \/ Only("settings")  /\ SettingsNext
  \/ Only("daemon")    /\ DaemonNext

PartsSpec == PartsInit /\ [][PartsNext]_allvars
=============================================================================
