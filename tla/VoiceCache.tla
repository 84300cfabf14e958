----------------------------- MODULE VoiceCache -----------------------------
(***************************************************************************)
(* The synthesis batch of generate_voice (pipeline/tts.py, tts/base.py,    *)
(* tts/cache.py): one asyncio task per line, at most MaxConcurrent at a    *)
(* time, sharing one cache file per text.  A task writes the .partial file *)
(* of its text and moves it into place; a cached file that does not decode *)
(* is written again in place.  Tasks interleave only where they await the  *)
(* provider; the first error or the batch's timeout ends all of them, and  *)
(* the run, its retry or a rerun finds the files as they were left.        *)
(***************************************************************************)
EXTENDS Integers, Sequences, FiniteSets, Functions

CONSTANTS
    Lines,          \* the lines of the script, 1..n
    TextOf,         \* the text of each line
    MaxConcurrent,  \* tts_max_concurrent
    SynthAttempts,  \* _TTS_SEGMENT_RETRIES
    CacheFiles,     \* files the cache may keep: tts_cache_max_mb
    MaxBatches      \* batches, over reruns of the movie

ASSUME VoiceAssumption ==
    /\ Lines = 1 .. Cardinality(Lines) /\ IsFiniteSet(Lines) /\ TextOf \in [Lines -> STRING]
    /\ MaxConcurrent \in Nat \ {0} /\ SynthAttempts \in Nat \ {0}
    /\ CacheFiles \in Nat /\ MaxBatches \in Nat \ {0}

Texts == Range(TextOf)

VARIABLES
    batch,    \* "running" | "failed" | "done"
    batches,  \* batches so far
    task,     \* per line: [pc, tries, hit, made, audio]
    fd,       \* per line, the file it is writing: "none" | "partial" | "cached" | "gone"
    partial,  \* the texts that have a .partial file
    cached,   \* per text: "absent" | "half" | "whole"
    finish,   \* the lines in the order they were narrated
    flags     \* cached_flags, by position, once the batch is done

vvars == <<batch, batches, task, fd, partial, cached, finish, flags>>

Fresh == [pc |-> "queued", tries |-> 0, hit |-> FALSE, made |-> FALSE, audio |-> "none"]
Active == {i \in Lines : task[i].pc \in {"write", "backoff", "rewrite"}}
SameText(i) == {j \in Lines \ {i} : TextOf[j] = TextOf[i]}

\* AudioSegment.from_mp3: half a file decodes short, or not at all and is then removed
\* and synthesized again in place.
Read(i, hit, made, file) ==
    \/ /\ file # "absent"
       /\ task' = [task EXCEPT ![i] = [@ EXCEPT !.pc = "narrated", !.hit = hit, !.made = made,
                                       !.audio = IF file = "whole" THEN "whole" ELSE "short"]]
       /\ finish' = Append(finish, i)
       /\ cached' = [cached EXCEPT ![TextOf[i]] = file]
       /\ fd' = [fd EXCEPT ![i] = "none"]
    \/ /\ file # "whole"
       /\ task' = [task EXCEPT ![i] = [@ EXCEPT !.pc = "rewrite", !.hit = FALSE, !.made = TRUE]]
       /\ cached' = [cached EXCEPT ![TextOf[i]] = "half"]
       /\ fd' = [j \in Lines |-> IF j = i THEN "cached"
                                 ELSE IF j \in SameText(i) /\ fd[j] = "cached" THEN "gone"
                                 ELSE fd[j]]
       /\ UNCHANGED finish

\* A task gets the semaphore: the cached file, or a new .partial.
Begin(i) ==
    /\ batch = "running" /\ task[i].pc = "queued"
    /\ Cardinality(Active) < MaxConcurrent
    /\ IF cached[TextOf[i]] # "absent"
       THEN /\ Read(i, TRUE, FALSE, cached[TextOf[i]])
            /\ UNCHANGED partial
       ELSE /\ task' = [task EXCEPT ![i].pc = "write"]
            /\ fd' = [fd EXCEPT ![i] = "partial"]
            /\ partial' = partial \cup {TextOf[i]}
            /\ UNCHANGED <<cached, finish>>
    /\ UNCHANGED <<batch, batches, flags>>

\* The first error ends the batch: gather raises it, the other tasks are cancelled, and
\* cancellation does not remove their files.
Fail(files, whole) ==
    /\ batch' = "failed"
    /\ task' = [i \in Lines |-> [Fresh EXCEPT !.pc = "cancelled"]]
    /\ fd' = [i \in Lines |-> "none"]
    /\ partial' = files /\ cached' = whole
    /\ UNCHANGED <<batches, finish, flags>>

\* What is left of a file when a writer is done with it: whole unless another writes it.
Written(i) == IF \E j \in SameText(i) : fd[j] = fd[i] THEN "half" ELSE "whole"

\* The provider answered: the file is moved into place, and writers of the same .partial
\* now write the cached file.  Without a .partial, os.replace raises, and that is not an
\* error a retry is for.
Synthesized(i) ==
    /\ batch = "running" /\ task[i].pc = "write"
    /\ LET t == TextOf[i]
           kept == IF fd[i] = "cached" THEN [cached EXCEPT ![t] = Written(i)] ELSE cached
       IN  IF t \notin partial
           THEN Fail(partial, kept)
           ELSE /\ LET moved == [j \in Lines |->
                                   IF j \in SameText(i) \cup {i}
                                   THEN CASE fd[j] = "partial" -> "cached"
                                          [] fd[j] = "cached" -> "gone"
                                          [] OTHER -> fd[j]
                                   ELSE fd[j]]
                       file == IF \E j \in SameText(i) : fd[j] = "partial" THEN "half" ELSE "whole"
                   IN  \/ /\ task' = [task EXCEPT ![i] =
                                        [@ EXCEPT !.pc = "narrated", !.made = TRUE, !.audio =
                                           IF file = "whole" THEN "whole" ELSE "short"]]
                          /\ finish' = Append(finish, i)
                          /\ cached' = [cached EXCEPT ![t] = file]
                          /\ fd' = [moved EXCEPT ![i] = "none"]
                       \/ /\ file = "half"
                          /\ task' = [task EXCEPT ![i] = [@ EXCEPT !.pc = "rewrite", !.made = TRUE]]
                          /\ cached' = [cached EXCEPT ![t] = "half"]
                          /\ fd' = [j \in Lines |-> IF j = i THEN "cached"
                                                    ELSE IF j \in SameText(i) /\ moved[j] = "cached"
                                                    THEN "gone" ELSE moved[j]]
                          /\ UNCHANGED finish
                /\ partial' = partial \ {t}
                /\ UNCHANGED <<batch, batches, flags>>

\* The provider failed: the .partial is removed, whoever wrote it; a network error is
\* tried again, as often as the policy allows.
SynthesisFails(i) ==
    /\ batch = "running" /\ task[i].pc = "write"
    /\ \/ /\ task[i].tries + 1 < SynthAttempts
          /\ task' = [task EXCEPT ![i].pc = "backoff", ![i].tries = @ + 1]
          /\ partial' = partial \ {TextOf[i]}
          /\ fd' = [j \in Lines |-> IF j = i THEN "none"
                                    ELSE IF j \in SameText(i) /\ fd[j] = "partial" THEN "gone"
                                    ELSE fd[j]]
          /\ UNCHANGED <<batch, batches, cached, finish, flags>>
       \/ Fail(partial \ {TextOf[i]}, cached)

Retry(i) ==
    /\ batch = "running" /\ task[i].pc = "backoff"
    /\ task' = [task EXCEPT ![i].pc = "write"]
    /\ fd' = [fd EXCEPT ![i] = "partial"]
    /\ partial' = partial \cup {TextOf[i]}
    /\ UNCHANGED <<batch, batches, cached, finish, flags>>

\* The second synthesis of a corrupt file ends: it is read, or the batch fails.
Rewritten(i) ==
    /\ batch = "running" /\ task[i].pc = "rewrite"
    /\ \/ /\ task' = [task EXCEPT ![i].pc = "narrated", ![i].audio = "whole"]
          /\ cached' = [cached EXCEPT ![TextOf[i]] = "whole"]
          /\ fd' = [fd EXCEPT ![i] = "none"]
          /\ finish' = Append(finish, i)
          /\ UNCHANGED <<batch, batches, partial, flags>>
       \/ Fail(partial, cached)

TimedOut == batch = "running" /\ Fail(partial, cached)

\* As CachedFlags, but collected as the lines are done.
CachedFlagsAsDone == [i \in Lines |-> task[finish[i]].hit]

\* gather returns the results by line, whatever order they came in.
CachedFlags == [i \in Lines |-> task[i].hit]

\* All lines narrated: the flags are accounted for, and the oldest files over the cap go.
Complete ==
    /\ batch = "running" /\ \A i \in Lines : task[i].pc = "narrated"
    /\ batch' = "done" /\ flags' = CachedFlags
    /\ LET Files == {t \in Texts : cached[t] # "absent"}
       IN  \E gone \in SUBSET Files :
             /\ IF Cardinality(Files) <= CacheFiles THEN gone = {}
                ELSE Cardinality(Files \ gone) = CacheFiles
             /\ cached' = [t \in Texts |-> IF t \in gone THEN "absent" ELSE cached[t]]
    /\ UNCHANGED <<batches, task, fd, partial, finish>>

\* The step is retried, the task resumed, or the movie made again, in the same directory.
NextBatch ==
    /\ batch # "running" /\ batches < MaxBatches
    /\ batch' = "running" /\ batches' = batches + 1
    /\ task' = [i \in Lines |-> Fresh] /\ finish' = <<>> /\ flags' = <<>>
    /\ UNCHANGED <<fd, partial, cached>>

-----------------------------------------------------------------------------
VoiceInit ==
    /\ batch = "running" /\ batches = 1
    /\ task = [i \in Lines |-> Fresh] /\ fd = [i \in Lines |-> "none"]
    /\ partial = {} /\ cached = [t \in Texts |-> "absent"]
    /\ finish = <<>> /\ flags = <<>>

VoiceNext ==
    \/ \E i \in Lines :
         Begin(i) \/ Synthesized(i) \/ SynthesisFails(i) \/ Retry(i) \/ Rewritten(i)
    \/ TimedOut \/ Complete \/ NextBatch

VoiceSpec == VoiceInit /\ [][VoiceNext]_vvars

-----------------------------------------------------------------------------
\* The bill is right: a line is accounted as cached exactly when this batch did not
\* synthesize it, in whatever order the lines were narrated.
FlagsFollowLines ==
    batch = "done" => \A i \in Lines : flags[i] <=> ~task[i].made

\* A file appears under its cached name only when it is whole: a line no other line
\* repeats is heard in full, whatever was interrupted or timed out before.
OwnTextHeardWhole ==
    batch = "done" => \A i \in Lines : SameText(i) = {} => task[i].audio = "whole"

\* What the batch hands on, per line.
VoiceSound == FlagsFollowLines /\ OwnTextHeardWhole
=============================================================================
