------------------------------ MODULE PartProofs ------------------------------
(***************************************************************************)
(* Theorems about the services whose threads get in each other's way:      *)
(* the daemon, deliveries, the cached voice, races and admission.          *)
(***************************************************************************)
EXTENDS Daemon, WebhookDispatcher, VoiceCache, RaceExecutor, Admission,
        SequenceTheorems, NaturalFacts

-----------------------------------------------------------------------------
\* The daemon tells that it drains before it shuts its queue

ShutdownPcs == {"flag", "flagging", "lock", "locked", "joining", "closing"}

\* who is past the flag knows it raised
Flagged ==
  /\ frames \in Seq(ShutdownPcs)
  /\ \A i \in 1..Len(frames) :
       frames[i] \in {"lock", "locked", "joining", "closing"} => shutting_down
  /\ ~open => shutting_down

\* A frame that goes on is the last one.
LEMMA Moves ==
  ASSUME frames \in Seq(ShutdownPcs), frames # <<>>, NEW p \in ShutdownPcs, MoveTo(p)
  PROVE  /\ frames' \in Seq(ShutdownPcs) /\ Len(frames') = Len(frames)
         /\ Len(frames) \in 1..Len(frames)
         /\ \A i \in 1..Len(frames) : frames'[i] = frames[i] \/ frames'[i] = p
  BY DEF MoveTo

\* Signals that interrupt each other keep the flag ahead of the queue.
LEMMA FlaggedStep == Flagged /\ [DaemonNext]_dvars => Flagged'
<1> SUFFICES ASSUME Flagged, [DaemonNext]_dvars PROVE Flagged'
  OBVIOUS
<1>1. CASE Signal
  BY <1>1 DEF Signal, Flagged, ShutdownPcs
<1>2. CASE FlagDrain
  <2>1. frames # <<>> /\ frames \in Seq(ShutdownPcs) /\ UNCHANGED open
    BY <1>2 DEF FlagDrain, Reached, Flagged
  <2>2. CASE MoveTo("flagging") /\ UNCHANGED shutting_down
    BY <2>1, <2>2, Moves DEF Flagged, ShutdownPcs
  <2>3. CASE MoveTo("lock") /\ shutting_down' = TRUE
    BY <2>1, <2>3, Moves DEF Flagged, ShutdownPcs
  <2> QED
    BY <1>2, <2>2, <2>3 DEF FlagDrain
<1>3. CASE ShutQueue
  <2>1. /\ frames # <<>> /\ frames \in Seq(ShutdownPcs) /\ UNCHANGED shutting_down
        /\ Top \in {"lock", "locked"}
    BY <1>3 DEF ShutQueue, Reached, Flagged
  <2>2. shutting_down
    BY <2>1 DEF Top, Flagged
  <2>3. \E p \in ShutdownPcs : MoveTo(p)
    BY <1>3 DEF ShutQueue, ShutdownPcs
  <2> QED
    BY <2>1, <2>2, <2>3, Moves DEF Flagged
<1>4. CASE Join
  <2>1. /\ frames # <<>> /\ frames \in Seq(ShutdownPcs) /\ UNCHANGED <<shutting_down, open>>
        /\ Top = "joining" /\ MoveTo("closing")
    BY <1>4 DEF Join, Reached, Flagged
  <2>2. shutting_down
    BY <2>1 DEF Top, Flagged
  <2> QED
    BY <2>1, <2>2, Moves DEF Flagged, ShutdownPcs
<1>5. CASE Exit \/ Down
  <2>1. <<>> \in Seq(ShutdownPcs) /\ Len(<<>>) = 0
    OBVIOUS
  <2>2. frames' = <<>> /\ UNCHANGED <<shutting_down, open>>
    BY <1>5 DEF Exit, Down
  <2> QED
    BY <2>1, <2>2 DEF Flagged
<1>6. CASE Start
  BY <1>6 DEF Start, Flagged
<1>7. CASE UNCHANGED <<frames, shutting_down, open>>
  BY <1>7 DEF Flagged
<1> QED
  BY <1>1, <1>2, <1>3, <1>4, <1>5, <1>6, <1>7
     DEF DaemonNext, Requesting, Request, Environment, SubmitTask, LoadLetter, SubmitReplay,
         SaveLetter, RemoveLetter, RunCheck, AnswerProbe, life, dvars

-----------------------------------------------------------------------------
\* Dead letters count their replays

Requested == {"task", "batch", "replay", "delete", "ready", "health"}
Named == Letters \cup {"none"}
Thread == [op : Requested \cup {"none"}, id : Named,
           pc : Replies \cup Requested \cup {"submit", "save"},
           count : 0..Gone, checks : Nat, passed : BOOLEAN]

ThreadsTypeOK ==
  /\ letter \in [Stores -> [Letters -> 0..Gone]]
  /\ replays \in [Letters -> 0..MaxReplays]
  /\ client \in [Clients -> Thread]
  /\ cut \subseteq Letters

\* what a thread has been asked for
AskedOf(x) ==
  /\ x.pc \in {"replay", "delete", "submit", "save"} => x.id \in Letters
  /\ x.pc \in {"replay", "submit", "save"} => x.op = "replay"

Saving(l) == {c \in InReplay(l) : client[c].pc = "save"}

\* A record is behind the replays by the ones that are about to be saved, and
\* what a replay read is not ahead of them.
Counted(l) ==
  LET n == Letter("default", l) IN
  /\ n # Gone => n <= replays[l]
  /\ n # Gone /\ l \notin cut => replays[l] = n + Cardinality(Saving(l))
  /\ \A c \in InReplay(l) :
       /\ client[c].count <= replays[l]
       /\ client[c].pc = "save" => client[c].count + 1 <= replays[l]

\* a letter that is gone for good
Buried(l) ==
  /\ Letter(dead_letter_store, l) = Gone
  /\ dead_letter_store = "default" => InReplay(l) = {}

LettersInv ==
  /\ ThreadsTypeOK
  /\ \A c \in Clients : AskedOf(client[c])
  /\ \A l \in Letters : Counted(l)
  /\ removed \subseteq Letters /\ \A l \in removed \ raced : Buried(l)

\* Few facts of arithmetic and of stores.
LEMMA LetterFacts ==
  /\ MaxReplays \in Nat \ {0} /\ Gone = MaxReplays + 1 /\ Gone \in Nat
  /\ "default" \in Stores /\ dead_letter_store \in Stores
  /\ \A S \in SUBSET Clients : IsFiniteSet(S) /\ Cardinality(S) \in Nat
<1>1. \A S \in SUBSET Clients : IsFiniteSet(S) /\ Cardinality(S) \in Nat
  BY DaemonAssumption, FS_Subset, FS_CardinalityType DEF DaemonAssumption
<1> QED
  BY <1>1, DaemonAssumption DEF DaemonAssumption, Gone, Stores, dead_letter_store

\* A thread that is not in a replay, before or after a step, leaves the replays as
\* they are.
LEMMA OutsideReplays ==
  ASSUME ThreadsTypeOK, NEW c \in Clients, NEW y,
         client' = [client EXCEPT ![c] = y],
         client[c].pc \notin {"submit", "save"}, y.pc \notin {"submit", "save"}
  PROVE  \A l \in Letters : /\ InReplay(l)' = InReplay(l) /\ Saving(l)' = Saving(l)
                            /\ \A d \in InReplay(l) : client'[d] = client[d]
<1>1. client'[c] = y /\ \A d \in Clients \ {c} : client'[d] = client[d]
  BY DEF ThreadsTypeOK
<1>2. \A l \in Letters : /\ InReplay(l)' = InReplay(l)
                         /\ \A d \in InReplay(l) : client'[d] = client[d]
  BY <1>1 DEF InReplay
<1> QED
  BY <1>2 DEF Saving

\* With the letters as they are, such a step keeps the invariant.
LEMMA AnswerKept ==
  ASSUME LettersInv, UNCHANGED letters, NEW c \in Clients, NEW y \in Thread,
         client' = [client EXCEPT ![c] = y], AskedOf(y),
         client[c].pc \notin {"submit", "save"}, y.pc \notin {"submit", "save"}
  PROVE  LettersInv'
<1>1. ThreadsTypeOK'
  BY DEF LettersInv, ThreadsTypeOK, letters
<1>2. \A d \in Clients : AskedOf(client[d])'
  BY DEF LettersInv, ThreadsTypeOK, AskedOf
<1>3. \A l \in Letters : /\ InReplay(l)' = InReplay(l) /\ Saving(l)' = Saving(l)
                         /\ \A d \in InReplay(l) : client'[d] = client[d]
  BY OutsideReplays DEF LettersInv
<1>4. \A l \in Letters : Counted(l)'
  BY <1>3 DEF LettersInv, Counted, letters, Letter
<1>5. \A l \in removed \ raced : Buried(l)'
  BY <1>3 DEF LettersInv, Buried, letters, Letter
<1> QED
  BY <1>1, <1>2, <1>4, <1>5 DEF LettersInv, letters

\* What an answer looks like.
LEMMA Answered ==
  \A a \in Replies :
    LET y == [NoRequest EXCEPT !.pc = a] IN
    y \in Thread /\ AskedOf(y) /\ y.pc = a /\ a \notin {"submit", "save"}
<1>1. 0 \in 0..Gone
  BY LetterFacts
<1> QED
  BY <1>1 DEF Thread, Named, AskedOf, NoRequest, Replies

\* A probe that goes on is a probe.
LEMMA ProbeEdits ==
  ASSUME NEW x \in Thread, NEW k \in Nat, NEW b \in BOOLEAN
  PROVE  /\ [x EXCEPT !.checks = k, !.passed = b] \in Thread
         /\ [x EXCEPT !.checks = k, !.passed = b].pc = x.pc
  BY DEF Thread

\* A request is one.
LEMMA RequestEdits ==
  ASSUME NEW x \in Thread, NEW op \in Requested, NEW id \in Named,
         NEW b \in BOOLEAN
  PROVE  /\ [x EXCEPT !.op = op, !.id = id, !.pc = op, !.passed = b] \in Thread
         /\ [x EXCEPT !.op = op, !.id = id, !.pc = op, !.passed = b].pc = op
         /\ [x EXCEPT !.op = op, !.id = id, !.pc = op, !.passed = b].op = op
         /\ [x EXCEPT !.op = op, !.id = id, !.pc = op, !.passed = b].id = id
<1> DEFINE y == [x EXCEPT !.op = op, !.id = id, !.pc = op, !.passed = b]
<1>1. op \in Replies \cup Requested \cup {"submit", "save"} /\ op \in Requested \cup {"none"}
  OBVIOUS
<1>2. y \in Thread
  BY <1>1 DEF Thread
<1>3. y.pc = op /\ y.op = op /\ y.id = id
  BY DEF Thread
<1> QED
  BY <1>2, <1>3

\* A replay that has read a record knows a count that is not ahead of it.
LEMMA LoadKept == ASSUME LettersInv, NEW c \in Clients, LoadLetter(c) PROVE LettersInv'
<1>0. PICK id : id = client[c].id
  OBVIOUS
<1> DEFINE n == Letter("default", id)
           y == [client[c] EXCEPT !.pc = "submit", !.count = n]
<1>1. client[c] \in Thread /\ client[c].pc = "replay" /\ client[c].op = "replay" /\ id \in Letters
  BY <1>0 DEF LettersInv, ThreadsTypeOK, LoadLetter, Serving, AskedOf
<1>2. CASE Answer(c, "not_found")
  BY <1>1, <1>2, Answered, AnswerKept DEF Answer, LoadLetter, Replies
<1>3. CASE n # Gone /\ client' = [client EXCEPT ![c].pc = "submit", ![c].count = n]
  <2>1. n \in 0..Gone /\ n \in Nat /\ n <= replays[id]
    BY <1>1, <1>3, LetterFacts DEF LettersInv, Counted, ThreadsTypeOK, Letter
  <2>2. /\ y \in Thread /\ y.pc = "submit" /\ y.op = "replay" /\ y.id = id /\ y.count = n
        /\ client' = [client EXCEPT ![c] = y]
    BY <1>0, <1>1, <1>3, <2>1 DEF Thread, LettersInv, ThreadsTypeOK
  <2> HIDE DEF y, n
  <2>3. UNCHANGED letters
    BY DEF LoadLetter
  <2>4. ThreadsTypeOK'
    BY <2>2, <2>3 DEF LettersInv, ThreadsTypeOK, letters
  <2>5. \A d \in Clients : AskedOf(client[d])'
    BY <1>1, <2>2 DEF LettersInv, ThreadsTypeOK, AskedOf
  <2>6. client'[c] = y /\ \A d \in Clients \ {c} : client'[d] = client[d]
    BY <2>2 DEF LettersInv, ThreadsTypeOK
  <2>7. \A l \in Letters : /\ InReplay(l)' = InReplay(l) \cup (IF l = id THEN {c} ELSE {})
                           /\ c \notin InReplay(l)
    BY <1>0, <1>1, <2>2, <2>6 DEF InReplay
  <2>8. \A l \in Letters : Saving(l)' = Saving(l)
    BY <2>2, <2>6, <2>7 DEF Saving
  <2>9. ASSUME NEW l \in Letters PROVE Counted(l)'
    <3>1. \A d \in InReplay(l)' : (d \in InReplay(l) /\ client'[d] = client[d]) \/ (l = id /\ d = c)
      <4>1. InReplay(l) \subseteq Clients
        BY DEF InReplay
      <4> QED
        BY <2>6, <2>7, <4>1
    <3>2. Counted(l)
      BY DEF LettersInv
    <3> QED
      BY <2>1, <2>2, <2>3, <2>6, <2>8, <3>1, <3>2 DEF Counted, letters, Letter
  <2>10. ASSUME NEW l \in removed \ raced PROVE Buried(l)'
    <3>1. Buried(l) /\ l \in Letters
      BY DEF LettersInv
    <3>2. dead_letter_store = "default" => l # id
      BY <1>3, <3>1 DEF Buried, n
    <3> QED
      BY <2>3, <2>7, <3>1, <3>2 DEF Buried, letters, Letter
  <2> QED
    BY <2>3, <2>4, <2>5, <2>9, <2>10 DEF LettersInv, letters
<1> QED
  BY <1>0, <1>2, <1>3 DEF LoadLetter

\* The replay is submitted: one more, and one that will be counted.
LEMMA SubmitReplayKept == ASSUME LettersInv, NEW c \in Clients, SubmitReplay(c) PROVE LettersInv'
<1>0. PICK id : id = client[c].id
  OBVIOUS
<1>1. /\ client[c] \in Thread /\ client[c].pc = "submit" /\ client[c].op = "replay"
      /\ id \in Letters /\ replays[id] < MaxReplays /\ UNCHANGED <<letter, cut, removed, raced>>
  BY <1>0 DEF LettersInv, ThreadsTypeOK, SubmitReplay, Serving, AskedOf
<1>2. c \in InReplay(id) /\ c \notin Saving(id)
      /\ \A l \in Letters \ {id} : c \notin InReplay(l)
  BY <1>0, <1>1 DEF InReplay, Saving
<1>3. CASE Answer(c, "error") /\ UNCHANGED replays
  <2> DEFINE y == [NoRequest EXCEPT !.pc = "error"]
  <2>1. y \in Thread /\ AskedOf(y) /\ y.pc = "error" /\ client' = [client EXCEPT ![c] = y]
    BY <1>3, Answered DEF Answer, Replies
  <2> HIDE DEF y
  <2>2. client'[c] = y /\ \A d \in Clients \ {c} : client'[d] = client[d]
    BY <2>1 DEF LettersInv, ThreadsTypeOK
  <2>3. ThreadsTypeOK' /\ \A d \in Clients : AskedOf(client[d])'
    BY <1>1, <1>3, <2>1 DEF LettersInv, ThreadsTypeOK, AskedOf
  <2>4. \A l \in Letters : InReplay(l)' = InReplay(l) \ {c} /\ Saving(l)' = Saving(l)
    BY <1>1, <2>1, <2>2 DEF InReplay, Saving
  <2>5. ASSUME NEW l \in Letters PROVE Counted(l)'
    <3>1. \A d \in InReplay(l)' : d \in InReplay(l) /\ client'[d] = client[d]
      BY <2>2, <2>4 DEF InReplay
    <3> QED
      BY <1>1, <1>3, <2>4, <3>1 DEF Counted, Letter, LettersInv
  <2>6. ASSUME NEW l \in removed \ raced PROVE Buried(l)'
    BY <1>1, <2>4 DEF Buried, Letter, LettersInv
  <2> QED
    BY <1>1, <2>3, <2>5, <2>6 DEF LettersInv
<1>4. CASE /\ client' = [client EXCEPT ![c].pc = "save"]
           /\ replays' = [replays EXCEPT ![id] = @ + 1]
  <2> DEFINE y == [client[c] EXCEPT !.pc = "save"]
  <2>1. /\ y \in Thread /\ y.pc = "save" /\ y.op = "replay" /\ y.id = id
        /\ y.count = client[c].count /\ client' = [client EXCEPT ![c] = y]
    BY <1>0, <1>1, <1>4 DEF Thread, LettersInv, ThreadsTypeOK
  <2> HIDE DEF y
  <2>2. client'[c] = y /\ \A d \in Clients \ {c} : client'[d] = client[d]
    BY <2>1 DEF LettersInv, ThreadsTypeOK
  <2>3. /\ replays[id] \in Nat /\ replays'[id] = replays[id] + 1
        /\ \A l \in Letters \ {id} : replays'[l] = replays[l]
        /\ replays' \in [Letters -> 0..MaxReplays]
    BY <1>1, <1>4, LetterFacts DEF LettersInv, ThreadsTypeOK
  <2>4. ThreadsTypeOK' /\ \A d \in Clients : AskedOf(client[d])'
    BY <1>1, <2>1, <2>3 DEF LettersInv, ThreadsTypeOK, AskedOf
  <2>5. /\ \A l \in Letters : InReplay(l)' = InReplay(l)
        /\ \A l \in Letters \ {id} : Saving(l)' = Saving(l)
        /\ Saving(id)' = Saving(id) \cup {c}
    BY <1>1, <1>2, <2>1, <2>2 DEF InReplay, Saving
  <2>6. Counted(id)'
    <3>1. Counted(id)
      BY <1>1 DEF LettersInv
    <3>2. Cardinality(Saving(id)') = Cardinality(Saving(id)) + 1 /\ Cardinality(Saving(id)) \in Nat
      <4>1. Saving(id) \in SUBSET Clients
        BY DEF Saving, InReplay
      <4> QED
        BY <1>2, <2>5, <4>1, LetterFacts, FS_AddElement
    <3>3. letter["default"][id] \in Nat /\ replays[id] \in Nat /\ client[c].count \in Nat
          /\ \A d \in Clients : client[d].count \in Nat
      BY <1>1, LetterFacts DEF LettersInv, ThreadsTypeOK, Thread
    <3>4. UNCHANGED Letter("default", id)
      BY <1>1 DEF Letter
    <3>5. \A d \in InReplay(id)' :
            /\ client'[d].count <= replays'[id]
            /\ client'[d].pc = "save" => client'[d].count + 1 <= replays'[id]
      <4> SUFFICES ASSUME NEW d \in InReplay(id)
                   PROVE  /\ client'[d].count <= replays'[id]
                          /\ client'[d].pc = "save" => client'[d].count + 1 <= replays'[id]
        BY <1>1, <2>5
      <4>1. d \in Clients /\ client[d].count <= replays[id]
            /\ (client[d].pc = "save" => client[d].count + 1 <= replays[id])
        BY <3>1 DEF Counted, InReplay
      <4>2. CASE d = c
        BY <2>1, <2>2, <2>3, <3>3, <4>1, <4>2
      <4>3. CASE d # c
        BY <2>2, <2>3, <3>3, <4>1, <4>3
      <4> QED
        BY <4>2, <4>3
    <3>6. Letter("default", id) # Gone => Letter("default", id) <= replays'[id]
      BY <2>3, <3>1, <3>3 DEF Counted, Letter
    <3>7. Letter("default", id) # Gone /\ id \notin cut
            => replays'[id] = Letter("default", id) + Cardinality(Saving(id)')
      BY <2>3, <3>1, <3>2, <3>3 DEF Counted, Letter
    <3> QED
      BY <1>1, <3>4, <3>5, <3>6, <3>7 DEF Counted
  <2>7. ASSUME NEW l \in Letters \ {id} PROVE Counted(l)'
    <3>1. \A d \in InReplay(l) : client'[d] = client[d]
      BY <1>2, <2>2 DEF InReplay
    <3> QED
      BY <1>1, <2>3, <2>5, <3>1 DEF Counted, Letter, LettersInv
  <2>8. ASSUME NEW l \in removed \ raced PROVE Buried(l)'
    BY <1>1, <2>5 DEF Buried, Letter, LettersInv
  <2> QED
    BY <1>1, <2>4, <2>6, <2>7, <2>8 DEF LettersInv
<1> QED
  BY <1>0, <1>3, <1>4 DEF SubmitReplay

\* A record is saved: as it was read and counted, and if another was there since,
\* the count may be short.
LEMMA SaveKept == ASSUME LettersInv, NEW c \in Clients, SaveLetter(c) PROVE LettersInv'
<1>0. PICK id : id = client[c].id
  OBVIOUS
<1>1. /\ client[c] \in Thread /\ client[c].pc = "save" /\ client[c].op = "replay"
      /\ id \in Letters /\ UNCHANGED <<replays, removed, raced>>
  BY <1>0 DEF LettersInv, ThreadsTypeOK, SaveLetter, Serving, AskedOf
<1>2. c \in Saving(id) /\ c \in InReplay(id) /\ \A l \in Letters \ {id} : c \notin InReplay(l)
  BY <1>0, <1>1 DEF InReplay, Saving
<1>3. \E a \in {"created", "error"} : Answer(c, a)
  BY DEF SaveLetter
<1>4. PICK y \in Thread : /\ AskedOf(y) /\ y.pc \in {"created", "error"}
                         /\ client' = [client EXCEPT ![c] = y]
  BY <1>3, Answered DEF Answer, Replies
<1>5. client'[c] = y /\ \A d \in Clients \ {c} : client'[d] = client[d]
  BY <1>4 DEF LettersInv, ThreadsTypeOK
<1>6. \A l \in Letters : InReplay(l)' = InReplay(l) \ {c} /\ Saving(l)' = Saving(l) \ {c}
  BY <1>1, <1>4, <1>5 DEF InReplay, Saving
<1>7. \A l \in Letters : \A d \in InReplay(l)' : d \in InReplay(l) /\ client'[d] = client[d]
  <2>1. \A l \in Letters : InReplay(l) \subseteq Clients
    BY DEF InReplay
  <2> QED
    BY <1>5, <1>6, <2>1
<1>8. \A d \in Clients : AskedOf(client[d])'
  BY <1>4 DEF LettersInv, ThreadsTypeOK, AskedOf
<1>9. /\ client[c].count \in Nat /\ client[c].count + 1 <= replays[id]
      /\ replays[id] \in 0..MaxReplays /\ MaxReplays \in Nat
  <2>1. client[c].count \in Nat /\ replays[id] \in 0..MaxReplays /\ MaxReplays \in Nat
    BY <1>1, LetterFacts DEF LettersInv, ThreadsTypeOK, Thread
  <2>2. Counted(id)
    BY <1>1 DEF LettersInv
  <2> QED
    BY <1>1, <1>2, <2>1, <2>2 DEF Counted
<1>10. id \in removed => id \in raced \/ dead_letter_store = "own"
  BY <1>2, LetterFacts DEF LettersInv, Buried, dead_letter_store
<1>11. CASE UNCHANGED letter /\ cut' = cut \cup {id}
  <2>1. ThreadsTypeOK'
    BY <1>1, <1>4, <1>11 DEF LettersInv, ThreadsTypeOK
  <2>2. ASSUME NEW l \in Letters PROVE Counted(l)'
    <3>1. Counted(l)
      BY DEF LettersInv
    <3>2. l # id => Saving(l)' = Saving(l)
      BY <1>2, <1>6 DEF Saving
    <3> QED
      BY <1>1, <1>7, <1>11, <3>1, <3>2 DEF Counted, Letter
  <2>3. ASSUME NEW l \in removed \ raced PROVE Buried(l)'
    BY <1>1, <1>6, <1>11 DEF Buried, Letter, LettersInv
  <2> QED
    BY <1>1, <1>8, <2>1, <2>2, <2>3 DEF LettersInv
<1>12. CASE /\ SetLetter("default", id, client[c].count + 1)
            /\ cut' = IF Letter("default", id) = client[c].count THEN cut ELSE cut \cup {id}
  <2>1. client[c].count + 1 \in 0..Gone /\ client[c].count + 1 # Gone
    BY <1>9, LetterFacts
  <2>2. /\ letter'["default"][id] = client[c].count + 1
        /\ \A l \in Letters \ {id} : letter'["default"][l] = letter["default"][l]
        /\ \A s \in Stores \ {"default"} : letter'[s] = letter[s]
        /\ letter' \in [Stores -> [Letters -> 0..Gone]]
    BY <1>1, <1>12, <2>1, LetterFacts DEF SetLetter, LettersInv, ThreadsTypeOK
  <2>3. ThreadsTypeOK'
    BY <1>1, <1>4, <1>12, <2>2 DEF LettersInv, ThreadsTypeOK
  <2>4. ASSUME id \notin cut'
        PROVE  replays[id] = client[c].count + 1 + Cardinality(Saving(id) \ {c})
    <3>1. Letter("default", id) = client[c].count /\ id \notin cut
      BY <1>12, <2>4
    <3>2. Counted(id) /\ Letter("default", id) # Gone
      BY <1>1, <1>9, <3>1, LetterFacts DEF LettersInv
    <3>3. replays[id] = client[c].count + Cardinality(Saving(id))
      BY <3>1, <3>2 DEF Counted
    <3>4. /\ Cardinality(Saving(id) \ {c}) = Cardinality(Saving(id)) - 1
          /\ Cardinality(Saving(id)) \in Nat
      <4>1. Saving(id) \in SUBSET Clients
        BY DEF Saving, InReplay
      <4> QED
        BY <1>2, <4>1, LetterFacts, FS_RemoveElement
    <3> QED
      BY <1>9, <3>3, <3>4
  <2>5. Counted(id)'
    <3>1. Counted(id)
      BY <1>1 DEF LettersInv
    <3>2. UNCHANGED replays[id] /\ Saving(id)' = Saving(id) \ {c}
      BY <1>1, <1>6
    <3>3. Letter("default", id)' = client[c].count + 1
      BY <2>2 DEF Letter
    <3>4. \A d \in InReplay(id)' :
            /\ client'[d].count <= replays'[id]
            /\ client'[d].pc = "save" => client'[d].count + 1 <= replays'[id]
      BY <1>1, <1>7, <3>1, <3>2 DEF Counted
    <3> QED
      BY <1>9, <2>4, <3>2, <3>3, <3>4 DEF Counted
  <2>6. ASSUME NEW l \in Letters \ {id} PROVE Counted(l)'
    <3>1. Counted(l)
      BY DEF LettersInv
    <3>2. Saving(l)' = Saving(l) /\ (l \notin cut' => l \notin cut)
      BY <1>2, <1>6, <1>12 DEF Saving
    <3> QED
      BY <1>1, <1>7, <2>2, <3>1, <3>2 DEF Counted, Letter
  <2>7. ASSUME NEW l \in removed \ raced PROVE Buried(l)'
    <3>1. Buried(l) /\ l \in Letters
      BY DEF LettersInv
    <3>2. l # id \/ dead_letter_store # "default"
      BY <1>10, <2>7 DEF dead_letter_store
    <3> QED
      BY <1>6, <2>2, <3>1, <3>2, LetterFacts DEF Buried, Letter, dead_letter_store
  <2> QED
    BY <1>1, <1>8, <2>3, <2>5, <2>6, <2>7 DEF LettersInv
<1> QED
  BY <1>0, <1>11, <1>12 DEF SaveLetter

\* A record is removed: it is gone, from the store that the route has.
LEMMA RemoveKept == ASSUME LettersInv, NEW c \in Clients, RemoveLetter(c) PROVE LettersInv'
<1>0. PICK id : id = client[c].id
  OBVIOUS
<1>1. /\ client[c] \in Thread /\ client[c].pc = "delete" /\ id \in Letters
      /\ UNCHANGED <<replays, cut>>
  BY <1>0 DEF LettersInv, ThreadsTypeOK, RemoveLetter, Serving, AskedOf
<1>2. \E a \in {"not_found", "removed"} : Answer(c, a)
  BY DEF RemoveLetter
<1>3. PICK y \in Thread : /\ AskedOf(y) /\ y.pc \notin {"submit", "save"}
                         /\ client' = [client EXCEPT ![c] = y]
  BY <1>2, Answered DEF Answer, Replies
<1>4. CASE UNCHANGED <<letter, removed, raced>>
  BY <1>1, <1>3, <1>4, AnswerKept DEF letters
<1>5. CASE /\ SetLetter(dead_letter_store, id, Gone)
           /\ removed' = removed \cup {id}
           /\ raced' = IF InReplay(id) = {} THEN raced ELSE raced \cup {id}
  <2>1. \A d \in Clients : AskedOf(client[d])'
    BY <1>3 DEF LettersInv, ThreadsTypeOK, AskedOf
  <2>2. \A l \in Letters : /\ InReplay(l)' = InReplay(l) /\ Saving(l)' = Saving(l)
                           /\ \A d \in InReplay(l) : client'[d] = client[d]
    BY <1>1, <1>3, OutsideReplays DEF LettersInv
  <2>3. /\ letter' \in [Stores -> [Letters -> 0..Gone]]
        /\ letter'[dead_letter_store][id] = Gone
        /\ \A s \in Stores, l \in Letters :
              letter'[s][l] = letter[s][l] \/ (s = dead_letter_store /\ l = id)
    BY <1>1, <1>5, LetterFacts DEF SetLetter, LettersInv, ThreadsTypeOK
  <2>4. ThreadsTypeOK'
    BY <1>1, <1>3, <2>3 DEF LettersInv, ThreadsTypeOK
  <2>5. ASSUME NEW l \in Letters PROVE Counted(l)'
    <3>1. Letter("default", l)' = Letter("default", l) \/ Letter("default", l)' = Gone
      BY <2>3, LetterFacts DEF Letter
    <3>2. Counted(l)
      BY DEF LettersInv
    <3>3. UNCHANGED Gone
      BY DEF Gone
    <3> QED
      BY <1>1, <2>2, <3>1, <3>2, <3>3 DEF Counted
  <2>6. ASSUME NEW l \in removed' \ raced' PROVE Buried(l)'
    <3>1. CASE l = id
      <4>1. InReplay(id) = {}
        BY <1>5, <2>6, <3>1
      <4> QED
        BY <1>1, <2>2, <2>3, <3>1, <4>1 DEF Buried, Letter, Gone, dead_letter_store
    <3>2. CASE l # id
      <4>1. Buried(l) /\ l \in Letters
        BY <1>5, <2>6, <3>2 DEF LettersInv
      <4> QED
        BY <2>2, <2>3, <3>2, <4>1, LetterFacts DEF Buried, Letter, Gone, dead_letter_store
    <3> QED
      BY <3>1, <3>2
  <2>7. removed' \subseteq Letters
    BY <1>1, <1>5 DEF LettersInv
  <2> QED
    BY <2>1, <2>4, <2>5, <2>6, <2>7 DEF LettersInv
<1> QED
  BY <1>0, <1>4, <1>5 DEF RemoveLetter

\* The process exits: what a replay was about to save is cut short.
LEMMA ExitKept == ASSUME LettersInv, Exit PROVE LettersInv'
<1>1. /\ client' = [c \in Clients |-> NoRequest] /\ UNCHANGED <<letter, replays, removed, raced>>
      /\ cut' = cut \cup {l \in Letters : Saving(l) # {}}
  BY DEF Exit, Saving
<1>2. NoRequest \in Thread /\ AskedOf(NoRequest) /\ NoRequest.pc = "idle"
  BY LetterFacts DEF NoRequest, Thread, Named, AskedOf, Replies
<1>3. \A l \in Letters : InReplay(l)' = {} /\ Saving(l)' = {}
  BY <1>1, <1>2 DEF InReplay, Saving
<1>4. ThreadsTypeOK' /\ \A c \in Clients : AskedOf(client[c])'
  BY <1>1, <1>2 DEF LettersInv, ThreadsTypeOK, AskedOf
<1>5. ASSUME NEW l \in Letters PROVE Counted(l)'
  <2>1. Counted(l)
    BY DEF LettersInv
  <2>2. l \notin cut' => l \notin cut /\ Saving(l) = {}
    BY <1>1
  <2>3. UNCHANGED Gone
    BY DEF Gone
  <2> QED
    BY <1>1, <1>3, <2>1, <2>2, <2>3 DEF Counted, Letter
<1>6. ASSUME NEW l \in removed \ raced PROVE Buried(l)'
  BY <1>1, <1>3 DEF Buried, Letter, LettersInv, Gone, dead_letter_store
<1> QED
  BY <1>1, <1>4, <1>5, <1>6 DEF LettersInv

\* Every step of the daemon, of its threads and of what is around it keeps it.
LEMMA LettersStep == LettersInv /\ [DaemonNext]_dvars => LettersInv'
<1> SUFFICES ASSUME LettersInv, [DaemonNext]_dvars PROVE LettersInv'
  OBVIOUS
<1>1. CASE UNCHANGED <<letters, client>>
  BY <1>1 DEF LettersInv, letters, ThreadsTypeOK, AskedOf, Counted, Saving, InReplay, Buried, Letter
<1>2. ASSUME NEW c \in Clients, NEW op \in Requested, NEW id \in Named,
             op \in {"replay", "delete"} => id \in Letters, Request(c, op, id)
      PROVE  LettersInv'
  <2> DEFINE b == op \in {"ready", "health"} /\ ~shutting_down
             y == [NoRequest EXCEPT !.op = op, !.id = id, !.pc = op, !.passed = b]
  <2>1. NoRequest \in Thread /\ b \in BOOLEAN
    BY LetterFacts DEF NoRequest, Thread, Named, Replies
  <2>2. client' = [client EXCEPT ![c] = y] /\ UNCHANGED letters
    BY <1>2 DEF Request
  <2>3. client[c].pc \notin {"submit", "save"}
    BY <1>2 DEF Request, Replies
  <2> HIDE DEF b
  <2>4. y \in Thread /\ y.pc = op /\ y.op = op /\ y.id = id
    <3>1. y \in Thread
      BY <2>1, RequestEdits, Zenon
    <3>2. y.pc = op /\ y.op = op /\ y.id = id
      BY DEF NoRequest
    <3> QED
      BY <3>1, <3>2
  <2> HIDE DEF y
  <2> QED
    BY <1>2, <2>2, <2>3, <2>4, AnswerKept DEF Requested, AskedOf
<1>3. ASSUME NEW c \in Clients, SubmitTask(c) \/ AnswerProbe(c) PROVE LettersInv'
  <2>1. \E a \in Replies : Answer(c, a)
    BY <1>3 DEF SubmitTask, AnswerProbe, Replies, HealthStatus
  <2>2. client[c].pc \notin {"submit", "save"} /\ UNCHANGED letters
    BY <1>3 DEF SubmitTask, AnswerProbe, Serving
  <2> QED
    BY <2>1, <2>2, Answered, AnswerKept DEF Answer
<1>4. ASSUME NEW c \in Clients, RunCheck(c) PROVE LettersInv'
  <2> DEFINE p == client[c].passed /\ Passes(core_checks[client[c].checks + 1])
             y == [client[c] EXCEPT !.checks = client[c].checks + 1, !.passed = p]
  <2>1. client[c] \in Thread /\ AskedOf(client[c]) /\ client[c].pc \in {"ready", "health"}
    BY <1>4 DEF LettersInv, ThreadsTypeOK, RunCheck, Serving
  <2>2. client' = [client EXCEPT ![c] = y] /\ UNCHANGED letters
    BY <1>4 DEF RunCheck, LettersInv, ThreadsTypeOK
  <2>3. p \in BOOLEAN /\ client[c].checks + 1 \in Nat
    BY <2>1 DEF Thread
  <2> HIDE DEF p
  <2>4. y \in Thread /\ y.pc = client[c].pc
    BY <2>1, <2>3, ProbeEdits, Zenon
  <2> HIDE DEF y
  <2>5. AskedOf(y) /\ y.pc \notin {"submit", "save"}
    BY <2>1, <2>4 DEF AskedOf
  <2> QED
    BY <2>1, <2>2, <2>4, <2>5, AnswerKept
<1>5. CASE Requesting
  <2>1. \A c \in Clients : Routes[c] \subseteq Requested
    BY DaemonAssumption DEF DaemonAssumption, Requested
  <2> QED
    BY <1>2, <1>5, <2>1 DEF Requesting, Named
<1>6. CASE Signal \/ FlagDrain \/ ShutQueue \/ Join \/ Down \/ Start \/ Environment
  BY <1>1, <1>6 DEF Signal, FlagDrain, ShutQueue, Join, Down, Start, Environment
<1> QED
  BY <1>1, <1>3, <1>4, <1>5, <1>6, LoadKept, SubmitReplayKept, SaveKept, RemoveKept, ExitKept
     DEF DaemonNext, dvars

\* The server says that it drains before its queue is shut, however often it is
\* told to stop; its dead letters count the replays that the queue took, and stay
\* deleted, through races of its threads, full disks and exits.
THEOREM DaemonTells == DaemonSpec => []DaemonSound
<1>1. DaemonInit => Flagged /\ LettersInv
  <2> SUFFICES ASSUME DaemonInit PROVE Flagged /\ LettersInv
    OBVIOUS
  <2>1. Flagged
    BY DEF DaemonInit, Flagged
  <2>2. NoRequest \in Thread /\ AskedOf(NoRequest) /\ NoRequest.pc = "idle"
    BY LetterFacts DEF NoRequest, Thread, Named, AskedOf, Replies
  <2>3. \A l \in Letters : InReplay(l) = {} /\ Saving(l) = {}
    BY <2>2 DEF DaemonInit, InReplay, Saving
  <2>4. ThreadsTypeOK
    BY <2>2, LetterFacts DEF DaemonInit, ThreadsTypeOK
  <2>5. \A l \in Letters : Counted(l)
    BY <2>3, LetterFacts, FS_EmptySet DEF DaemonInit, Counted, Letter
  <2> QED
    BY <2>1, <2>2, <2>4, <2>5 DEF DaemonInit, LettersInv
<1>2. Flagged /\ LettersInv => DaemonSound
  <2> SUFFICES ASSUME Flagged, LettersInv PROVE DaemonSound
    OBVIOUS
  <2>1. ASSUME NEW l \in Letters, Letter("default", l) # Gone
        PROVE  /\ Letter("default", l) <= replays[l]
               /\ l \notin cut /\ InReplay(l) = {} => Letter("default", l) = replays[l]
    <3>1. Counted(l)
      BY DEF LettersInv
    <3>2. InReplay(l) = {} => Saving(l) = {}
      BY DEF Saving
    <3>3. Letter("default", l) \in Nat
      BY LetterFacts DEF LettersInv, ThreadsTypeOK, Letter
    <3> QED
      BY <2>1, <3>1, <3>2, <3>3, FS_EmptySet DEF Counted
  <2> QED
    BY <2>1 DEF DaemonSound, FlagFirst, Flagged, ReplaysCounted, DeletedStaysGone, LettersInv, Buried
<1> QED
  BY <1>1, <1>2, FlaggedStep, LettersStep, PTL DEF DaemonSpec

-----------------------------------------------------------------------------
\* Pending deliveries are served before the client is closed

Posting == {w \in Posters : poster[w].pc = "post"}
Slots == 1..Len(jobs)

\* the caller of an event has put its job for a URL
Dispatched(j) == j[2] < caller[j[1]].next

InHand(j) == (\E i \in Slots : jobs[i] = j) \/ (\E w \in Posting : poster[w].job = j)

QueuedOnce ==
  /\ \A i \in Slots : jobs[i] # Sentinel =>
       Dispatched(jobs[i]) /\ posted[jobs[i]].n = 0 /\ ~posted[jobs[i]].ok
  /\ \A i, k \in Slots : i # k /\ jobs[i] = jobs[k] => jobs[i] = Sentinel

PostedByOne ==
  \A w \in Posting :
    LET j == poster[w].job IN
    /\ j \in Jobs /\ Dispatched(j)
    /\ posted[j].n = poster[w].tried /\ poster[w].tried < Attempts /\ ~posted[j].ok
    /\ \A i \in Slots : jobs[i] # j
    /\ \A v \in Posting \ {w} : poster[v].job # j

\* Until the wait for them is over, a job of early is served or in somebody's
\* hands; after it, if it was not cut short, served.
EarlyServed ==
  /\ closer.pc \in {"open", "flush"} => \A j \in early : Served(j) \/ InHand(j)
  /\ closer.pc \in {"stop", "join", "closed"} /\ ~closer.late => \A j \in early : Served(j)

\* what is counted is what is queued or being posted
Tallied == unfinished = Len(jobs) + Cardinality(Posting)

NextUrl == \A e \in Events : caller[e].pc \in {"idle", "put"} => caller[e].next <= Urls

\* nobody posts what was not put
NotYet == \A j \in Jobs : ~Dispatched(j) => posted[j].n = 0 /\ ~posted[j].ok

WebhookInv ==
  WebhookTypeOK /\ NextUrl /\ NotYet /\ Tallied /\ QueuedOnce /\ PostedByOne /\ EarlyServed

\* Facts of numbers, threads and sentinels.
LEMMA WebhookFacts ==
  /\ Urls \in Nat \ {0} /\ Attempts \in Nat \ {0} /\ Sentinel \notin Jobs
  /\ \A S \in SUBSET Posters : IsFiniteSet(S) /\ Cardinality(S) \in Nat
<1>1. \A S \in SUBSET Posters : IsFiniteSet(S) /\ Cardinality(S) \in Nat
  BY WebhookAssumption, FS_Subset, FS_CardinalityType DEF WebhookAssumption
<1>2. Sentinel \notin Jobs
  BY DEF Sentinel, Jobs
<1> QED
  BY <1>1, <1>2, WebhookAssumption DEF WebhookAssumption

\* A caller that begins or is turned away changes nothing that is in hand.
LEMMA DispatchKept ==
  ASSUME WebhookInv, NEW e \in Events, NEW s \in Statuses, Dispatch(e, s) PROVE WebhookInv'
<1>1. /\ caller' \in [Events -> [pc : {"idle", "put", "done", "dropped"}, next : 1..(Urls + 1)]]
      /\ \A f \in Events : /\ caller'[f].next = caller[f].next
                           /\ caller'[f].pc = caller[f].pc \/ caller[f].pc = "idle"
  BY SMTT(20) DEF Dispatch, WebhookInv, WebhookTypeOK
<1>2. UNCHANGED <<jobs, unfinished, poster, posted, closer, early>>
  BY DEF Dispatch
<1>3. WebhookTypeOK' /\ NextUrl'
  BY <1>1, <1>2 DEF WebhookInv, WebhookTypeOK, NextUrl
<1>4. \A j \in Jobs : Dispatched(j) => Dispatched(j)'
  BY <1>1 DEF Dispatched, Jobs
<1>5. \A i \in Slots : jobs[i] # Sentinel => jobs[i] \in Jobs
  BY DEF WebhookInv, WebhookTypeOK, Slots
<1>6. QueuedOnce' /\ PostedByOne'
  BY <1>2, <1>4, <1>5 DEF WebhookInv, QueuedOnce, PostedByOne, Slots, Posting, Sentinel
<1>7. Tallied' /\ EarlyServed'
  BY <1>2 DEF WebhookInv, Tallied, EarlyServed, Slots, Posting, InHand, Served
<1>8. NotYet'
  BY <1>2, <1>4 DEF WebhookInv, NotYet
<1> QED
  BY <1>3, <1>6, <1>7, <1>8 DEF WebhookInv

PosterRec == [pc : {"none", "get", "post", "gone"}, job : Jobs \cup {Sentinel}, tried : 0..Attempts]
CallerRec == [pc : {"idle", "put", "done", "dropped"}, next : 1..(Urls + 1)]

\* What a thread of the pool does leaves one.
LEMMA PosterEdits ==
  ASSUME NEW x \in PosterRec
  PROVE  /\ \A p \in {"get", "gone"} :
              /\ [x EXCEPT !.pc = p] \in PosterRec /\ [x EXCEPT !.pc = p].pc = p
              /\ [x EXCEPT !.pc = p].job = x.job
         /\ \A n \in 0..Attempts :
              /\ [x EXCEPT !.tried = n] \in PosterRec /\ [x EXCEPT !.tried = n].tried = n
              /\ [x EXCEPT !.tried = n].pc = x.pc /\ [x EXCEPT !.tried = n].job = x.job
  BY DEF PosterRec

\* Jobs are pairs, callers and their jobs have numbers.
LEMMA JobParts ==
  ASSUME WebhookTypeOK
  PROVE  /\ \A j \in Jobs : j[1] \in Events /\ j[2] \in Nat
         /\ \A e \in Events : caller[e] \in CallerRec /\ caller[e].next \in Nat
         /\ \A w \in Posters : poster[w] \in PosterRec
         /\ jobs \in Seq(Jobs \cup {Sentinel}) /\ Len(jobs) \in Nat /\ unfinished \in Nat
         /\ \A i \in Slots : jobs[i] \in Jobs \cup {Sentinel}
<1>1. \A j \in Jobs : j[1] \in Events /\ j[2] \in Nat
  BY WebhookFacts DEF Jobs
<1>2. \A e \in Events : caller[e] \in CallerRec /\ caller[e].next \in Nat
  BY WebhookFacts DEF CallerRec, WebhookTypeOK
<1>3. \A w \in Posters : poster[w] \in PosterRec
  BY DEF PosterRec, WebhookTypeOK
<1> QED
  BY <1>1, <1>2, <1>3 DEF WebhookTypeOK, Slots

\* The types hold when the parts that a step wrote have them.
LEMMA WebhookTypes ==
  ASSUME WebhookTypeOK,
         UNCHANGED caller \/ caller' \in [Events -> CallerRec],
         UNCHANGED jobs \/ jobs' \in Seq(Jobs \cup {Sentinel}),
         UNCHANGED unfinished \/ unfinished' \in Nat,
         UNCHANGED poster \/ poster' \in [Posters -> PosterRec],
         UNCHANGED posted \/ posted' \in [Jobs -> [n : 0..Attempts, ok : BOOLEAN]],
         UNCHANGED closer \/ closer' \in [pc : {"open", "flush", "stop", "join", "closed"}, late : BOOLEAN],
         UNCHANGED early \/ early' \subseteq Jobs
  PROVE  WebhookTypeOK'
  BY DEF WebhookTypeOK, CallerRec, PosterRec

\* The pool is started by the first job; it is posting what it was.
LEMMA PoolStarts ==
  ASSUME WebhookTypeOK, poster' = EnsureThreads
  PROVE  /\ poster' \in [Posters -> PosterRec]
         /\ Posting' = Posting
         /\ \A w \in Posting : poster'[w] = poster[w]
<1>1. CASE poster' = poster
  BY <1>1 DEF WebhookTypeOK, Posting, PosterRec
<1>2. CASE /\ \A w \in Posters : poster[w].pc = "none"
           /\ poster' = [w \in Posters |-> [poster[w] EXCEPT !.pc = "get"]]
  <2>1. \A w \in Posters : poster'[w] \in PosterRec /\ poster'[w].pc = "get"
    <3>1. \A w \in Posters : poster[w] \in PosterRec
      BY JobParts
    <3>2. \A w \in Posters : poster'[w] = [poster[w] EXCEPT !.pc = "get"]
      BY <1>2
    <3> QED
      <4> SUFFICES ASSUME NEW w \in Posters
                   PROVE  poster'[w] \in PosterRec /\ poster'[w].pc = "get"
        OBVIOUS
      <4>1. PICK x \in PosterRec : x = poster[w]
        BY <3>1
      <4>2. [x EXCEPT !.pc = "get"] \in PosterRec /\ [x EXCEPT !.pc = "get"].pc = "get"
        BY PosterEdits
      <4> QED
        BY <3>2, <4>1, <4>2
  <2> QED
    BY <1>2, <2>1 DEF Posting
<1> QED
  BY <1>1, <1>2 DEF EnsureThreads

\* A job is put: it is in hand from then on, and no other is like it.
LEMMA PutKept == ASSUME WebhookInv, NEW e \in Events, PutJob(e) PROVE WebhookInv'
<1>0. PICK u : u = caller[e].next
  OBVIOUS
<1> DEFINE j == <<e, u>>
<1>1. caller[e].pc = "put" /\ u \in 1..Urls /\ j \in Jobs /\ j # Sentinel /\ u + 1 \in 1..(Urls + 1)
  BY <1>0, WebhookFacts DEF PutJob, WebhookInv, WebhookTypeOK, NextUrl, Jobs
<1>2. /\ caller'[e].next = u + 1 /\ caller'[e].pc = (IF u = Urls THEN "done" ELSE "put")
      /\ \A f \in Events \ {e} : caller'[f] = caller[f]
      /\ caller' \in [Events -> CallerRec]
  BY <1>0, <1>1 DEF PutJob, WebhookInv, WebhookTypeOK, CallerRec
<1>3. /\ jobs' \in Seq(Jobs \cup {Sentinel}) /\ Len(jobs') = Len(jobs) + 1
      /\ jobs'[Len(jobs) + 1] = j /\ \A i \in Slots : jobs'[i] = jobs[i]
      /\ Len(jobs) \in Nat
  BY <1>0, <1>1 DEF PutJob, WebhookInv, WebhookTypeOK, Slots
<1>4. Slots' = Slots \cup {Len(jobs) + 1}
  BY <1>3 DEF Slots
<1>5. UNCHANGED <<posted, closer>> /\ unfinished' = unfinished + 1
  BY DEF PutJob
<1>6. /\ Posting' = Posting /\ \A w \in Posting : poster'[w] = poster[w]
      /\ poster' \in [Posters -> PosterRec]
  BY PoolStarts DEF PutJob, WebhookInv
<1>7. early' \subseteq early \cup {j} /\ (Closed => early' = early)
  BY <1>0 DEF PutJob
<1>8. WebhookTypeOK'
  <2>1. unfinished' \in Nat /\ early' \subseteq Jobs
    <3>1. unfinished \in Nat /\ early \subseteq Jobs
      BY JobParts DEF WebhookInv, WebhookTypeOK
    <3> QED
      BY <1>1, <1>5, <1>7, <3>1
  <2> QED
    BY <1>2, <1>3, <1>5, <1>6, <2>1, WebhookTypes DEF WebhookInv
<1>9. NextUrl'
  BY <1>1, <1>2, WebhookFacts DEF WebhookInv, NextUrl
<1>10. Tallied'
  <2>1. Cardinality(Posting) \in Nat
    BY WebhookFacts DEF Posting
  <2> QED
    BY <1>3, <1>5, <1>6, <2>1 DEF WebhookInv, Tallied
<1>11. /\ \A k \in Jobs : Dispatched(k) => Dispatched(k)'
       /\ ~Dispatched(j) /\ Dispatched(j)'
  <2>1. /\ \A k \in Jobs : k[1] \in Events /\ k[2] \in Nat
        /\ \A f \in Events : caller[f].next \in Nat
    BY JobParts DEF WebhookInv
  <2>2. ASSUME NEW k \in Jobs, Dispatched(k) PROVE Dispatched(k)'
    BY <1>0, <1>1, <1>2, <2>1, <2>2 DEF Dispatched
  <2>3. ~Dispatched(j) /\ Dispatched(j)'
    BY <1>0, <1>1, <1>2 DEF Dispatched
  <2> QED
    BY <2>2, <2>3
<1>12. \A i \in Slots : jobs[i] \in Jobs \cup {Sentinel}
  BY DEF WebhookInv, WebhookTypeOK, Slots
<1>13. posted[j].n = 0 /\ ~posted[j].ok /\ NotYet'
  BY <1>1, <1>5, <1>11 DEF WebhookInv, NotYet
<1> HIDE DEF j
<1>14. \A i \in Slots : jobs[i] # j
  BY <1>1, <1>11 DEF WebhookInv, QueuedOnce
<1>15. \A w \in Posting : poster[w].job # j
  BY <1>11 DEF WebhookInv, PostedByOne
<1>16. QueuedOnce'
  <2>1. ASSUME NEW i \in Slots', jobs'[i] # Sentinel
        PROVE  \E k \in Jobs : /\ jobs'[i] = k /\ Dispatched(k)'
                               /\ posted'[k].n = 0 /\ ~posted'[k].ok
    <3>1. CASE i \in Slots
      <4>1. jobs'[i] = jobs[i] /\ jobs[i] \in Jobs
        BY <1>3, <1>12, <2>1, <3>1 DEF Sentinel
      <4>2. Dispatched(jobs[i]) /\ posted[jobs[i]].n = 0 /\ ~posted[jobs[i]].ok
        BY <2>1, <3>1, <4>1 DEF WebhookInv, QueuedOnce, Sentinel
      <4>3. PICK k \in Jobs : k = jobs[i]
        BY <4>1
      <4>4. Dispatched(k)'
        BY <1>11, <4>2, <4>3
      <4> QED
        BY <1>5, <4>1, <4>2, <4>3, <4>4
    <3>2. CASE jobs'[i] = j
      BY <1>1, <1>5, <1>11, <1>13, <3>2
    <3> QED
      BY <1>3, <1>4, <3>1, <3>2
  <2>2. ASSUME NEW i \in Slots', NEW k \in Slots', i # k, jobs'[i] = jobs'[k]
        PROVE  jobs'[i] = Sentinel
    BY <1>3, <1>4, <1>14, <2>2 DEF WebhookInv, QueuedOnce
  <2>3. ASSUME NEW i \in Slots', jobs'[i] # Sentinel
        PROVE  (Dispatched(jobs[i]) /\ posted[jobs[i]].n = 0 /\ ~posted[jobs[i]].ok)'
    BY <2>1, <2>3 DEF Dispatched
  <2> QED
    BY <2>2, <2>3 DEF QueuedOnce, Sentinel
<1>17. PostedByOne'
  <2>1. ASSUME NEW w \in Posting
        PROVE  /\ poster[w].job \in Jobs /\ Dispatched(poster[w].job)'
               /\ \A i \in Slots' : jobs'[i] # poster[w].job
    <3>1. poster[w].job \in Jobs /\ Dispatched(poster[w].job)
      BY DEF WebhookInv, PostedByOne
    <3>2. PICK k \in Jobs : k = poster[w].job
      BY <3>1
    <3>3. Dispatched(k)'
      BY <1>11, <3>1, <3>2
    <3>4. \A i \in Slots : jobs[i] # poster[w].job
      BY DEF WebhookInv, PostedByOne
    <3> QED
      BY <1>3, <1>4, <1>6, <1>15, <3>1, <3>2, <3>3, <3>4 DEF Dispatched
  <2> QED
    BY <1>5, <1>6, <2>1 DEF WebhookInv, PostedByOne, Jobs
<1>18. EarlyServed'
  <2>1. \A k \in early : InHand(k) => InHand(k)'
    BY <1>3, <1>4, <1>6 DEF InHand
  <2>2. InHand(j)'
    BY <1>3, <1>4 DEF InHand
  <2>3. \A k : Served(k)' = Served(k)
    BY <1>5 DEF Served
  <2>4. CASE closer.pc \in {"open", "flush"}
    BY <1>5, <1>7, <2>1, <2>2, <2>3, <2>4 DEF WebhookInv, EarlyServed
  <2>5. CASE closer.pc \in {"stop", "join", "closed"}
    BY <1>5, <1>7, <2>3, <2>5 DEF WebhookInv, EarlyServed, Closed
  <2>6. closer.pc \in {"open", "flush", "stop", "join", "closed"}
    BY DEF WebhookInv, WebhookTypeOK
  <2> QED
    BY <2>4, <2>5, <2>6
<1> QED
  BY <1>8, <1>9, <1>10, <1>13, <1>16, <1>17, <1>18 DEF WebhookInv

\* What a thread has posted before goes with it to another job or to its end.
LEMMA GetKept == ASSUME WebhookInv, NEW w \in Posters, GetJob(w) PROVE WebhookInv'
<1>0. PICK head : head = Head(jobs)
  OBVIOUS
<1>1. /\ UNCHANGED <<caller, posted, closer, early>> /\ poster[w].pc = "get" /\ w \notin Posting
      /\ jobs # <<>> /\ jobs' = Tail(jobs) /\ poster[w] \in PosterRec
  BY JobParts DEF GetJob, Posting, WebhookInv
<1>2. /\ jobs' \in Seq(Jobs \cup {Sentinel}) /\ Len(jobs') = Len(jobs) - 1 /\ Len(jobs) >= 1
      /\ head = jobs[1] /\ \A i \in 1..(Len(jobs) - 1) : jobs'[i] = jobs[i + 1]
      /\ Len(jobs) \in Nat /\ 1 \in Slots
  <2>1. jobs \in Seq(Jobs \cup {Sentinel})
    BY DEF WebhookInv, WebhookTypeOK
  <2> QED
    BY <1>0, <1>1, <2>1 DEF Slots
<1>3. \A i \in Slots' : i + 1 \in Slots /\ i + 1 # 1 /\ jobs'[i] = jobs[i + 1]
  BY <1>2 DEF Slots
<1>4. NextUrl' /\ NotYet' /\ QueuedOnce'
  <2>1. NextUrl' /\ NotYet'
    BY <1>1 DEF WebhookInv, NextUrl, NotYet, Dispatched
  <2>2. QueuedOnce'
    <3>1. ASSUME NEW i \in Slots', jobs'[i] # Sentinel
          PROVE  (Dispatched(jobs[i]) /\ posted[jobs[i]].n = 0 /\ ~posted[jobs[i]].ok)'
      BY <1>1, <1>3, <3>1 DEF WebhookInv, QueuedOnce, Dispatched
    <3>2. ASSUME NEW i \in Slots', NEW k \in Slots', i # k, jobs'[i] = jobs'[k]
          PROVE  jobs'[i] = Sentinel
      <4>1. i + 1 # k + 1
        BY <3>2 DEF Slots
      <4> QED
        BY <1>3, <3>2, <4>1 DEF WebhookInv, QueuedOnce
    <3> QED
      BY <3>1, <3>2 DEF QueuedOnce, Sentinel
  <2> QED
    BY <2>1, <2>2
<1>5. \A i \in Slots : jobs[i] = head \/ \E k \in Slots' : jobs'[k] = jobs[i]
  <2>1. \A i \in Slots : i # 1 => i - 1 \in Slots' /\ jobs'[i - 1] = jobs[i]
    BY <1>2 DEF Slots
  <2> QED
    BY <1>2, <2>1
<1>6. \A v \in Posters \ {w} : poster'[v] = poster[v]
  BY DEF GetJob, WebhookInv, WebhookTypeOK
<1>7. Cardinality(Posting) \in Nat /\ unfinished = Len(jobs) + Cardinality(Posting)
  BY WebhookFacts DEF Posting, WebhookInv, Tallied
<1>8. \A k : Served(k)' = Served(k)
  BY <1>1 DEF Served
<1>9. CASE head = Sentinel
  <2>1. /\ poster' = [poster EXCEPT ![w].pc = "gone"] /\ unfinished' = unfinished - 1
    BY <1>0, <1>9 DEF GetJob
  <2>2. poster'[w] \in PosterRec /\ poster'[w].pc = "gone"
    <3>1. poster'[w] = [poster[w] EXCEPT !.pc = "gone"]
      BY <2>1 DEF WebhookInv, WebhookTypeOK
    <3>2. PICK x \in PosterRec : x = poster[w]
      BY <1>1
    <3>3. [x EXCEPT !.pc = "gone"] \in PosterRec /\ [x EXCEPT !.pc = "gone"].pc = "gone"
      BY PosterEdits
    <3> QED
      BY <3>1, <3>2, <3>3
  <2>3. poster' \in [Posters -> PosterRec] /\ Posting' = Posting
    <3>1. Posting' = Posting
      BY <1>1, <1>6, <2>2 DEF Posting
    <3>2. poster \in [Posters -> PosterRec]
      BY DEF WebhookInv, WebhookTypeOK, PosterRec
    <3> QED
      BY <2>1, <2>2, <3>1, <3>2
  <2>4. WebhookTypeOK' /\ Tallied'
    <3>1. unfinished' \in Nat /\ Tallied'
      BY <1>2, <1>7, <2>1, <2>3 DEF Tallied
    <3> QED
      BY <1>1, <1>2, <2>3, <3>1, WebhookTypes DEF WebhookInv
  <2>5. PostedByOne'
    <3>1. \A v \in Posting : poster'[v] = poster[v]
      BY <1>1, <1>6 DEF Posting
    <3>2. \A v \in Posting : \A i \in Slots' : jobs'[i] # poster[v].job
      BY <1>3 DEF WebhookInv, PostedByOne
    <3>3. \A v \in Posting : LET j == poster[v].job IN
            /\ j \in Jobs /\ Dispatched(j) /\ posted[j].n = poster[v].tried
            /\ poster[v].tried < Attempts /\ ~posted[j].ok
            /\ \A x \in Posting \ {v} : poster[x].job # j
      BY DEF WebhookInv, PostedByOne
    <3> SUFFICES ASSUME NEW v \in Posting
                 PROVE  LET j == poster'[v].job IN
                        /\ j \in Jobs /\ j[2] < caller'[j[1]].next
                        /\ posted'[j].n = poster'[v].tried /\ poster'[v].tried < Attempts
                        /\ ~posted'[j].ok /\ \A i \in Slots' : jobs'[i] # j
                        /\ \A x \in Posting \ {v} : poster'[x].job # j
      BY <2>3 DEF PostedByOne, Dispatched
    <3> QED
      BY <1>1, <3>1, <3>2, <3>3 DEF Dispatched
  <2>6. EarlyServed'
    <3>1. \A k \in early : InHand(k) => InHand(k)'
      <4>1. \A k \in early : k # Sentinel
        BY WebhookFacts DEF WebhookInv, WebhookTypeOK
      <4> QED
        BY <1>1, <1>5, <1>6, <1>9, <2>3, <4>1 DEF InHand, Posting
    <3> QED
      BY <1>1, <1>8, <3>1 DEF WebhookInv, EarlyServed
  <2> QED
    BY <1>4, <2>4, <2>5, <2>6 DEF WebhookInv
<1>10. CASE head # Sentinel
  <2>1. /\ poster' = [poster EXCEPT ![w] = [pc |-> "post", job |-> head, tried |-> 0]]
        /\ UNCHANGED unfinished
    BY <1>0, <1>10 DEF GetJob
  <2>2. head \in Jobs /\ Dispatched(head) /\ posted[head].n = 0 /\ ~posted[head].ok
    <3>1. head \in Jobs
      BY <1>2, <1>10, JobParts DEF WebhookInv
    <3> QED
      BY <1>2, <1>10, <3>1 DEF WebhookInv, QueuedOnce
  <2>3. /\ poster'[w] \in PosterRec /\ poster'[w].pc = "post" /\ poster'[w].job = head
        /\ poster'[w].tried = 0
    <3>1. poster'[w] = [pc |-> "post", job |-> head, tried |-> 0]
      BY <2>1 DEF WebhookInv, WebhookTypeOK
    <3> QED
      BY <2>2, <3>1, WebhookFacts DEF PosterRec
  <2>4. poster' \in [Posters -> PosterRec] /\ Posting' = Posting \cup {w}
    <3>1. Posting' = Posting \cup {w}
      BY <1>6, <2>3 DEF Posting
    <3>2. poster \in [Posters -> PosterRec]
      BY DEF WebhookInv, WebhookTypeOK, PosterRec
    <3> QED
      BY <2>1, <2>3, <3>1, <3>2
  <2>5. WebhookTypeOK' /\ Tallied'
    <3>1. Cardinality(Posting') = Cardinality(Posting) + 1
      <4>1. IsFiniteSet(Posting)
        BY WebhookFacts DEF Posting
      <4> QED
        BY <1>1, <2>4, <4>1, FS_AddElement
    <3>2. Tallied'
      BY <1>2, <1>7, <2>1, <3>1 DEF Tallied
    <3> QED
      BY <1>1, <1>2, <2>1, <2>4, <3>2, WebhookTypes DEF WebhookInv
  <2>6. PostedByOne'
    <3>1. \A v \in Posting : poster'[v] = poster[v] /\ v # w
      BY <1>1, <1>6 DEF Posting
    <3>2. \A v \in Posting : poster[v].job # head /\ \A i \in Slots' : jobs'[i] # poster[v].job
      BY <1>2, <1>3 DEF WebhookInv, PostedByOne
    <3>3. \A i \in Slots' : jobs'[i] # head
      BY <1>2, <1>3, <1>10 DEF WebhookInv, QueuedOnce
    <3>4. \A v \in Posting : LET j == poster[v].job IN
            /\ j \in Jobs /\ Dispatched(j) /\ posted[j].n = poster[v].tried
            /\ poster[v].tried < Attempts /\ ~posted[j].ok
            /\ \A x \in Posting \ {v} : poster[x].job # j
      BY DEF WebhookInv, PostedByOne
    <3>5. 0 < Attempts
      BY WebhookFacts
    <3> SUFFICES ASSUME NEW v \in Posting'
                 PROVE  LET j == poster'[v].job IN
                        /\ j \in Jobs /\ j[2] < caller'[j[1]].next
                        /\ posted'[j].n = poster'[v].tried /\ poster'[v].tried < Attempts
                        /\ ~posted'[j].ok /\ \A i \in Slots' : jobs'[i] # j
                        /\ \A x \in Posting' \ {v} : poster'[x].job # j
      BY DEF PostedByOne, Dispatched
    <3>6. CASE v = w
      BY <1>1, <2>2, <2>3, <2>4, <3>1, <3>2, <3>3, <3>5, <3>6 DEF Dispatched
    <3>7. CASE v \in Posting
      <4>1. poster'[v] = poster[v]
        BY <3>1, <3>7
      <4>2. \A x \in Posting' \ {v} : poster'[x].job # poster[v].job
        <5>1. \A x \in Posting \ {v} : poster'[x].job # poster[v].job
          BY <3>1, <3>4, <3>7
        <5>2. poster'[w].job # poster[v].job
          BY <2>3, <3>2, <3>7
        <5> QED
          BY <2>4, <5>1, <5>2
      <4>3. LET j == poster[v].job IN
            /\ j \in Jobs /\ Dispatched(j) /\ posted[j].n = poster[v].tried
            /\ poster[v].tried < Attempts /\ ~posted[j].ok
            /\ \A i \in Slots' : jobs'[i] # j
        BY <3>2, <3>4, <3>7
      <4> QED
        BY <1>1, <4>1, <4>2, <4>3 DEF Dispatched
    <3> QED
      BY <2>4, <3>6, <3>7
  <2>7. EarlyServed'
    <3>1. \A k \in early : InHand(k) => InHand(k)'
      <4>1. \A v \in Posting : poster'[v] = poster[v]
        BY <1>1, <1>6 DEF Posting
      <4>2. ASSUME NEW k, InHand(k) PROVE InHand(k)'
        <5>1. CASE k = head
          BY <2>3, <2>4, <5>1 DEF InHand
        <5>2. CASE k # head
          BY <1>5, <2>4, <4>1, <4>2, <5>2 DEF InHand
        <5> QED
          BY <5>1, <5>2
      <4> QED
        BY <4>2
    <3> QED
      BY <1>1, <1>8, <3>1 DEF WebhookInv, EarlyServed
  <2> QED
    BY <1>4, <2>5, <2>6, <2>7 DEF WebhookInv
<1> QED
  BY <1>9, <1>10

\* A job that is done is nobody's.
LEMMA DoneParts ==
  ASSUME WebhookInv, NEW w \in Posting, JobDone(w), UNCHANGED jobs
  PROVE  /\ poster' \in [Posters -> PosterRec] /\ Posting' = Posting \ {w}
         /\ \A v \in Posting \ {w} : poster'[v] = poster[v]
         /\ Tallied' /\ unfinished' \in Nat
<1>1. w \in Posters /\ poster[w] \in PosterRec /\ poster \in [Posters -> PosterRec]
  BY JobParts DEF Posting, WebhookInv, WebhookTypeOK, PosterRec
<1>2. poster'[w] \in PosterRec /\ poster'[w].pc = "get"
  <2>1. poster'[w] = [poster[w] EXCEPT !.pc = "get"]
    BY <1>1 DEF JobDone
  <2>2. PICK x \in PosterRec : x = poster[w]
    BY <1>1
  <2>3. [x EXCEPT !.pc = "get"] \in PosterRec /\ [x EXCEPT !.pc = "get"].pc = "get"
    BY PosterEdits
  <2> QED
    BY <2>1, <2>2, <2>3
<1>3. \A v \in Posters \ {w} : poster'[v] = poster[v]
  BY <1>1 DEF JobDone
<1>4. poster' \in [Posters -> PosterRec]
  BY <1>1, <1>2 DEF JobDone
<1>5. Posting' = Posting \ {w} /\ \A v \in Posting \ {w} : poster'[v] = poster[v]
  BY <1>2, <1>3 DEF Posting
<1>6. Cardinality(Posting') = Cardinality(Posting) - 1 /\ Cardinality(Posting) \in Nat
      /\ Cardinality(Posting') \in Nat
  <2>1. IsFiniteSet(Posting) /\ Cardinality(Posting) \in Nat /\ Posting' \in SUBSET Posters
    BY <1>5, WebhookFacts DEF Posting
  <2>2. Cardinality(Posting \ {w}) = Cardinality(Posting) - 1
    BY <2>1, FS_RemoveElement
  <2> QED
    BY <1>5, <2>1, <2>2, WebhookFacts
<1>7. Len(jobs) \in Nat /\ unfinished = Len(jobs) + Cardinality(Posting)
  BY JobParts DEF WebhookInv, Tallied
<1>8. Tallied' /\ unfinished' \in Nat
  BY <1>6, <1>7 DEF JobDone, Tallied
<1> QED
  BY <1>4, <1>5, <1>8

\* An attempt: the job is served after it, or its thread still has it.
LEMMA PostKept ==
  ASSUME WebhookInv, NEW w \in Posters, NEW ok \in BOOLEAN, Post(w, ok) PROVE WebhookInv'
<1>0. PICK j, n : j = poster[w].job /\ n = poster[w].tried + 1
  OBVIOUS
<1>1. /\ UNCHANGED <<caller, jobs, closer, early>> /\ w \in Posting
      /\ posted' = [posted EXCEPT ![j] = [n |-> n, ok |-> ok]]
      /\ IF ok \/ n = Attempts THEN JobDone(w)
         ELSE poster' = [poster EXCEPT ![w].tried = n] /\ UNCHANGED unfinished
  BY <1>0 DEF Post, Posting
<1>2. /\ j \in Jobs /\ Dispatched(j) /\ posted[j].n = poster[w].tried /\ ~posted[j].ok
      /\ poster[w].tried < Attempts /\ \A i \in Slots : jobs[i] # j
      /\ \A v \in Posting \ {w} : poster[v].job # j
  BY <1>0, <1>1 DEF WebhookInv, PostedByOne
<1>3. poster[w] \in PosterRec /\ poster[w].tried \in Nat /\ n \in 0..Attempts /\ n \in Nat
      /\ poster \in [Posters -> PosterRec]
  <2>1. poster[w] \in PosterRec /\ poster \in [Posters -> PosterRec]
    BY JobParts DEF WebhookInv, WebhookTypeOK, PosterRec
  <2>2. poster[w].tried \in 0..Attempts
    BY <2>1 DEF PosterRec
  <2> QED
    BY <1>0, <1>2, <2>1, <2>2, WebhookFacts
<1>4. /\ posted'[j].n = n /\ posted'[j].ok = ok
      /\ \A k \in Jobs \ {j} : posted'[k] = posted[k]
      /\ posted' \in [Jobs -> [n : 0..Attempts, ok : BOOLEAN]]
  <2>1. posted \in [Jobs -> [n : 0..Attempts, ok : BOOLEAN]]
    BY DEF WebhookInv, WebhookTypeOK
  <2>2. [n |-> n, ok |-> ok] \in [n : 0..Attempts, ok : BOOLEAN]
    BY <1>3
  <2>3. posted'[j] = [n |-> n, ok |-> ok]
    BY <1>1, <1>2, <2>1
  <2> QED
    BY <1>1, <1>2, <2>1, <2>2, <2>3
<1>5. NextUrl' /\ NotYet'
  BY <1>1, <1>2, <1>4 DEF WebhookInv, NextUrl, NotYet, Dispatched
<1>6. QueuedOnce'
  <2>1. \A i \in Slots : jobs[i] # Sentinel => jobs[i] \in Jobs \ {j}
    BY <1>2, JobParts DEF WebhookInv
  <2> QED
    BY <1>1, <1>4, <2>1 DEF WebhookInv, QueuedOnce, Slots, Dispatched, Sentinel
<1>7. \A v \in Posting \ {w} : LET k == poster[v].job IN
            /\ k \in Jobs \ {j} /\ Dispatched(k) /\ posted[k].n = poster[v].tried
            /\ poster[v].tried < Attempts /\ ~posted[k].ok
            /\ \A i \in Slots : jobs[i] # k
            /\ \A x \in Posting \ {v} : poster[x].job # k
  BY <1>2 DEF WebhookInv, PostedByOne
<1>8. /\ Posting' \subseteq Posting /\ UNCHANGED Slots
      /\ \A v \in Posting \ {w} : poster'[v] = poster[v]
      /\ WebhookTypeOK' /\ Tallied'
      /\ \/ w \notin Posting' /\ Served(j)'
         \/ /\ w \in Posting' /\ ~ok /\ n < Attempts
            /\ poster'[w].tried = n /\ poster'[w].job = j
  <2>1. CASE ok \/ n = Attempts
    <3>1. JobDone(w)
      BY <1>1, <2>1
    <3>2. Served(j)'
      BY <1>4, <2>1 DEF Served
    <3> QED
      BY <1>1, <1>4, <3>1, <3>2, DoneParts, WebhookTypes DEF Slots, WebhookInv
  <2>2. CASE ~ok /\ n # Attempts
    <3>1. poster' = [poster EXCEPT ![w].tried = n] /\ UNCHANGED unfinished
      BY <1>1, <2>2
    <3>2. poster'[w] \in PosterRec /\ poster'[w].tried = n /\ poster'[w].pc = poster[w].pc
          /\ poster'[w].job = j
      <4>1. poster'[w] = [poster[w] EXCEPT !.tried = n]
        BY <1>3, <3>1
      <4>2. PICK x \in PosterRec : x = poster[w]
        BY <1>3
      <4>3. [x EXCEPT !.tried = n] \in PosterRec /\ [x EXCEPT !.tried = n].tried = n
            /\ [x EXCEPT !.tried = n].pc = x.pc /\ [x EXCEPT !.tried = n].job = x.job
        BY <1>3, PosterEdits
      <4> QED
        BY <1>0, <4>1, <4>2, <4>3
    <3>3. poster' \in [Posters -> PosterRec] /\ \A v \in Posters \ {w} : poster'[v] = poster[v]
      BY <1>3, <3>1, <3>2
    <3>4. Posting' = Posting
      BY <3>2, <3>3 DEF Posting
    <3>5. Tallied'
      BY <1>1, <3>1, <3>4 DEF Tallied, WebhookInv
    <3>6. WebhookTypeOK'
      BY <1>1, <1>4, <3>1, <3>3, WebhookTypes DEF WebhookInv
    <3>7. n < Attempts
      BY <1>3, <2>2, WebhookFacts
    <3> QED
      BY <1>1, <2>2, <3>2, <3>3, <3>4, <3>5, <3>6, <3>7 DEF Slots, Posting
  <2> QED
    BY <2>1, <2>2
<1>9. PostedByOne'
  <2> SUFFICES ASSUME NEW v \in Posting'
               PROVE  LET k == poster'[v].job IN
                      /\ k \in Jobs /\ k[2] < caller'[k[1]].next
                      /\ posted'[k].n = poster'[v].tried /\ poster'[v].tried < Attempts
                      /\ ~posted'[k].ok /\ \A i \in Slots' : jobs'[i] # k
                      /\ \A x \in Posting' \ {v} : poster'[x].job # k
    BY DEF PostedByOne, Dispatched
  <2>1. CASE v = w
    <3>1. \A x \in Posting' \ {w} : poster'[x].job # j
      BY <1>2, <1>8
    <3> QED
      BY <1>1, <1>2, <1>4, <1>8, <2>1, <3>1 DEF Dispatched
  <2>2. CASE v # w
    <3>1. v \in Posting \ {w} /\ poster'[v] = poster[v]
      BY <1>8, <2>2
    <3>2. \A x \in Posting' \ {v} : poster'[x].job # poster[v].job
      BY <1>7, <1>8, <3>1
    <3> QED
      BY <1>1, <1>4, <1>7, <1>8, <3>1, <3>2 DEF Dispatched
  <2> QED
    BY <2>1, <2>2
<1>10. EarlyServed'
  <2>1. \A k \in Jobs \ {j} : Served(k)' = Served(k)
    BY <1>4 DEF Served
  <2>2. ~Served(j)
    <3>1. posted[j].n # Attempts
      BY <1>2, <1>3, WebhookFacts
    <3> QED
      BY <1>2, <3>1 DEF Served
  <2>3. early \subseteq Jobs
    BY DEF WebhookInv, WebhookTypeOK
  <2>4. \A k \in Jobs \ {j} : InHand(k) => InHand(k)'
    <3>1. ASSUME NEW k \in Jobs \ {j}, NEW v \in Posting, poster[v].job = k
          PROVE  v \in Posting' /\ poster'[v].job = k
      <4>1. v # w
        BY <1>0, <3>1
      <4>2. Posting \ {w} \subseteq Posting'
        BY <1>1, <1>3, DoneParts DEF Posting, PosterRec
      <4> QED
        BY <1>8, <3>1, <4>1, <4>2
    <3>2. ASSUME NEW k \in Jobs \ {j}, NEW i \in Slots, jobs[i] = k
          PROVE  i \in Slots' /\ jobs'[i] = k
      BY <1>1, <1>8, <3>2
    <3> QED
      BY <3>1, <3>2 DEF InHand
  <2>5. Served(j)' \/ InHand(j)'
    BY <1>8 DEF InHand
  <2>6. closer.pc \in {"open", "flush"} => \A k \in early : Served(k)' \/ InHand(k)'
    BY <2>1, <2>3, <2>4, <2>5 DEF WebhookInv, EarlyServed
  <2>7. closer.pc \in {"stop", "join", "closed"} /\ ~closer.late => \A k \in early : Served(k)'
    BY <2>1, <2>2, <2>3 DEF WebhookInv, EarlyServed
  <2> QED
    BY <1>1, <2>6, <2>7 DEF EarlyServed
<1> QED
  BY <1>5, <1>6, <1>8, <1>9, <1>10 DEF WebhookInv

\* Once the client is closed a job may be dropped; nobody waits for it then.
LEMMA DropKept ==
  ASSUME WebhookInv, NEW w \in Posters, PostOnClosedClient(w) PROVE WebhookInv'
<1>1. /\ UNCHANGED <<caller, jobs, posted, closer, early>> /\ JobDone(w)
      /\ w \in Posting /\ closer.pc = "closed" /\ UNCHANGED Slots
  BY DEF PostOnClosedClient, Posting, Slots
<1>2. /\ poster' \in [Posters -> PosterRec] /\ Posting' = Posting \ {w}
      /\ \A v \in Posting \ {w} : poster'[v] = poster[v]
      /\ Tallied' /\ unfinished' \in Nat
  BY <1>1, DoneParts
<1>3. WebhookTypeOK'
  BY <1>1, <1>2, WebhookTypes DEF WebhookInv
<1>4. NextUrl' /\ NotYet' /\ QueuedOnce'
  BY <1>1 DEF WebhookInv, NextUrl, NotYet, QueuedOnce, Dispatched, Sentinel
<1>5. PostedByOne'
  <2> SUFFICES ASSUME NEW v \in Posting \ {w}
               PROVE  LET k == poster[v].job IN
                      /\ k \in Jobs /\ k[2] < caller'[k[1]].next
                      /\ posted'[k].n = poster[v].tried /\ poster[v].tried < Attempts
                      /\ ~posted'[k].ok /\ \A i \in Slots' : jobs'[i] # k
                      /\ \A x \in Posting' \ {v} : poster'[x].job # k
    BY <1>2 DEF PostedByOne, Dispatched
  <2>1. LET k == poster[v].job IN
            /\ k \in Jobs /\ Dispatched(k) /\ posted[k].n = poster[v].tried
            /\ poster[v].tried < Attempts /\ ~posted[k].ok
            /\ \A i \in Slots : jobs[i] # k
            /\ \A x \in Posting \ {v} : poster[x].job # k
    BY DEF WebhookInv, PostedByOne
  <2>2. \A x \in Posting' \ {v} : poster'[x].job # poster[v].job
    BY <1>2, <2>1
  <2> QED
    BY <1>1, <2>1, <2>2 DEF Dispatched
<1>6. EarlyServed'
  BY <1>1 DEF WebhookInv, EarlyServed, Served
<1> QED
  BY <1>2, <1>3, <1>4, <1>5, <1>6 DEF WebhookInv

\* The threads keep what they had when close() goes on.
LEMMA PoolIdles ==
  ASSUME WebhookInv, UNCHANGED <<caller, poster, posted, early>>, UNCHANGED <<jobs, unfinished>>,
         closer' \in [pc : {"open", "flush", "stop", "join", "closed"}, late : BOOLEAN],
         EarlyServed'
  PROVE  WebhookInv'
<1>1. WebhookTypeOK'
  BY WebhookTypes DEF WebhookInv
<1>2. /\ NextUrl' /\ NotYet' /\ Tallied' /\ QueuedOnce' /\ PostedByOne'
  BY DEF WebhookInv, NextUrl, NotYet, Tallied, QueuedOnce, PostedByOne, Dispatched, Slots,
         Posting, Sentinel
<1> QED
  BY <1>1, <1>2 DEF WebhookInv

\* close() begins, and ends.
LEMMA CloseKept ==
  ASSUME WebhookInv, Close \/ (\E late \in BOOLEAN : CloseClient(late)) PROVE WebhookInv'
<1>1. UNCHANGED <<caller, jobs, unfinished, poster, posted, early>>
  BY DEF Close, CloseClient
<1>2. closer \in [pc : {"open", "flush", "stop", "join", "closed"}, late : BOOLEAN]
  BY DEF WebhookInv, WebhookTypeOK
<1>3. CASE Close
  <2>1. closer.pc = "open" /\ closer' = [closer EXCEPT !.pc = "flush"]
    BY <1>3 DEF Close
  <2>2. closer' \in [pc : {"open", "flush", "stop", "join", "closed"}, late : BOOLEAN]
        /\ closer'.pc = "flush"
    BY <1>2, <2>1
  <2>3. EarlyServed'
    BY <1>1, <2>1, <2>2 DEF WebhookInv, EarlyServed, Served, InHand, Slots, Posting
  <2> QED
    BY <1>1, <2>2, <2>3, PoolIdles
<1>4. ASSUME NEW late \in BOOLEAN, CloseClient(late) PROVE WebhookInv'
  <2>1. closer.pc = "join" /\ closer' = [pc |-> "closed", late |-> closer.late \/ late]
    BY <1>4 DEF CloseClient
  <2>2. /\ closer' \in [pc : {"open", "flush", "stop", "join", "closed"}, late : BOOLEAN]
        /\ closer'.pc = "closed" /\ (closer.late => closer'.late)
    BY <1>2, <2>1
  <2>3. EarlyServed'
    BY <1>1, <2>1, <2>2 DEF WebhookInv, EarlyServed, Served
  <2> QED
    BY <1>1, <2>2, <2>3, PoolIdles
<1> QED
  BY <1>3, <1>4

\* flush() ends when nothing is in hand, or late.
LEMMA FlushKept ==
  ASSUME WebhookInv, NEW late \in BOOLEAN, Flush(late) PROVE WebhookInv'
<1>1. /\ UNCHANGED <<caller, jobs, unfinished, poster, posted, early>> /\ closer.pc = "flush"
      /\ closer' = [pc |-> "stop", late |-> late] /\ (late \/ unfinished = 0)
  BY DEF Flush
<1>2. /\ closer' \in [pc : {"open", "flush", "stop", "join", "closed"}, late : BOOLEAN]
      /\ closer'.pc = "stop" /\ closer'.late = late
  BY <1>1
<1>3. ASSUME unfinished = 0 PROVE \A j : ~InHand(j)
  <2>1. Len(jobs) \in Nat /\ Cardinality(Posting) \in Nat /\ IsFiniteSet(Posting)
    BY JobParts, WebhookFacts DEF WebhookInv, Posting
  <2>2. Len(jobs) = 0 /\ Cardinality(Posting) = 0
    BY <1>3, <2>1 DEF WebhookInv, Tallied
  <2>3. Posting = {} /\ Slots = {}
    BY <2>1, <2>2, FS_EmptySet DEF Slots
  <2> QED
    BY <2>3 DEF InHand
<1>4. ~late => \A j \in early : Served(j)
  BY <1>1, <1>3 DEF WebhookInv, EarlyServed
<1>5. \A j : Served(j)' = Served(j)
  BY <1>1 DEF Served
<1>6. EarlyServed'
  BY <1>1, <1>2, <1>4, <1>5 DEF EarlyServed
<1> QED
  BY <1>1, <1>2, <1>6, PoolIdles

\* The sentinels that stop the threads are counted, and no jobs.
LEMMA StopKept == ASSUME WebhookInv, StopThreads PROVE WebhookInv'
<1>0. PICK started : started = Cardinality({w \in Posters : poster[w].pc # "none"})
  OBVIOUS
<1>1. /\ UNCHANGED <<caller, poster, posted, early>> /\ closer.pc = "stop" /\ started \in Nat
      /\ jobs' = jobs \o [i \in 1..started |-> Sentinel] /\ unfinished' = unfinished + started
      /\ closer' = [closer EXCEPT !.pc = "join"]
  BY <1>0, WebhookFacts DEF StopThreads
<1>2. /\ jobs' \in Seq(Jobs \cup {Sentinel}) /\ Len(jobs') = Len(jobs) + started
      /\ \A i \in Slots : jobs'[i] = jobs[i] /\ i \in Slots'
      /\ \A i \in Slots' \ Slots : jobs'[i] = Sentinel
      /\ Len(jobs) \in Nat
  <2>1. [i \in 1..started |-> Sentinel] \in Seq(Jobs \cup {Sentinel})
        /\ Len([i \in 1..started |-> Sentinel]) = started
    BY <1>1
  <2>2. jobs \in Seq(Jobs \cup {Sentinel}) /\ Len(jobs) \in Nat
    BY JobParts DEF WebhookInv
  <2> QED
    BY <1>1, <2>1, <2>2 DEF Slots
<1>3. /\ closer' \in [pc : {"open", "flush", "stop", "join", "closed"}, late : BOOLEAN]
      /\ closer'.pc = "join" /\ closer'.late = closer.late
  <2>1. closer \in [pc : {"open", "flush", "stop", "join", "closed"}, late : BOOLEAN]
    BY DEF WebhookInv, WebhookTypeOK
  <2> QED
    BY <1>1, <2>1
<1>4. Posting' = Posting /\ Cardinality(Posting) \in Nat
  BY <1>1, WebhookFacts DEF Posting
<1>5. WebhookTypeOK' /\ Tallied'
  <2>1. Tallied' /\ unfinished' \in Nat
    BY <1>1, <1>2, <1>4 DEF WebhookInv, Tallied
  <2> QED
    BY <1>1, <1>2, <1>3, <2>1, WebhookTypes DEF WebhookInv
<1>6. NextUrl' /\ NotYet'
  BY <1>1 DEF WebhookInv, NextUrl, NotYet, Dispatched
<1>7. QueuedOnce'
  <2>1. ASSUME NEW i \in Slots', jobs'[i] # Sentinel
        PROVE  i \in Slots /\ jobs'[i] = jobs[i]
    BY <1>2, <2>1
  <2>2. ASSUME NEW i \in Slots', jobs'[i] # Sentinel
        PROVE  (Dispatched(jobs[i]) /\ posted[jobs[i]].n = 0 /\ ~posted[jobs[i]].ok)'
    BY <1>1, <2>1, <2>2 DEF WebhookInv, QueuedOnce, Dispatched
  <2>3. ASSUME NEW i \in Slots', NEW k \in Slots', i # k, jobs'[i] = jobs'[k]
        PROVE  jobs'[i] = Sentinel
    BY <1>2, <2>1, <2>3 DEF WebhookInv, QueuedOnce
  <2> QED
    BY <2>2, <2>3 DEF QueuedOnce, Sentinel
<1>8. PostedByOne'
  <2>1. \A v \in Posting : \A i \in Slots' : jobs'[i] # poster[v].job
    BY <1>2, WebhookFacts DEF WebhookInv, PostedByOne
  <2> QED
    BY <1>1, <1>4, <2>1 DEF WebhookInv, PostedByOne, Dispatched, Jobs
<1>9. EarlyServed'
  BY <1>1, <1>3 DEF WebhookInv, EarlyServed, Served
<1> QED
  BY <1>5, <1>6, <1>7, <1>8, <1>9 DEF WebhookInv

\* A dispatcher that closes in time has served every job that was on the queue
\* before: delivered it, or tried it as often as the policy allows.
THEOREM PendingServed == WebhookSpec => []WebhooksSound
<1>1. WebhookInit => WebhookInv
  <2> SUFFICES ASSUME WebhookInit PROVE WebhookInv
    OBVIOUS
  <2>1. jobs = <<>> /\ Len(jobs) = 0 /\ jobs \in Seq(Jobs \cup {Sentinel}) /\ Slots = {}
    BY DEF WebhookInit, Slots
  <2>2. \A w \in Posters : poster[w] = [pc |-> "none", job |-> Sentinel, tried |-> 0]
    BY DEF WebhookInit
  <2>3. Posting = {} /\ Cardinality(Posting) = 0
    BY <2>2, FS_EmptySet DEF Posting
  <2>4. WebhookTypeOK
    BY <2>1, WebhookFacts DEF WebhookInit, WebhookTypeOK
  <2>5. NextUrl /\ NotYet /\ Tallied /\ QueuedOnce /\ PostedByOne /\ EarlyServed
    BY <2>1, <2>3, WebhookFacts DEF WebhookInit, NextUrl, NotYet, Tallied, QueuedOnce,
       PostedByOne, EarlyServed
  <2> QED
    BY <2>4, <2>5 DEF WebhookInv
<1>2. WebhookInv /\ [WebhookNext]_wvars => WebhookInv'
  <2> SUFFICES ASSUME WebhookInv, [WebhookNext]_wvars PROVE WebhookInv'
    OBVIOUS
  <2>1. CASE UNCHANGED wvars
    BY <2>1 DEF wvars, WebhookInv, WebhookTypeOK, NextUrl, NotYet, Tallied, QueuedOnce, PostedByOne,
       EarlyServed, Dispatched, Slots, Posting, InHand, Served, Sentinel
  <2> QED
    BY <2>1, DispatchKept, PutKept, GetKept, PostKept, DropKept, CloseKept, FlushKept, StopKept
       DEF WebhookNext, Delivering, Closing
<1>3. WebhookInv => WebhooksSound
  BY DEF WebhookInv, WebhooksSound, PendingAreServed, EarlyServed
<1> QED
  BY <1>1, <1>2, <1>3, PTL DEF WebhookSpec

-----------------------------------------------------------------------------
\* What a batch hands on, line by line

Heard == {"none", "short", "whole"}
SynthTask == [pc : {"queued", "write", "backoff", "rewrite", "narrated", "cancelled"},
              tries : Int, hit : BOOLEAN, made : BOOLEAN, audio : Heard]
WriterOf == {"none", "partial", "cached", "gone"}

\* a narrated line is a cached one or one that was synthesized
Billed(x) ==
  /\ x \in SynthTask
  /\ x.pc \in {"queued", "write", "backoff"} => ~x.hit /\ ~x.made
  /\ x.pc = "rewrite" => ~x.hit /\ x.made
  /\ x.pc = "narrated" => (x.hit <=> ~x.made)

\* the file of a text that one line has is whole, and so is what the line is read from
OwnFile(i) ==
  SameText(i) = {} =>
    /\ cached[TextOf[i]] # "half"
    /\ task[i].pc = "write" => TextOf[i] \in partial /\ fd[i] = "partial"
    /\ task[i].pc # "rewrite"
    /\ task[i].pc = "narrated" => task[i].audio = "whole"

VoiceInv ==
  /\ task \in [Lines -> SynthTask] /\ fd \in [Lines -> WriterOf] /\ partial \subseteq Texts
  /\ cached \in [Texts -> {"absent", "half", "whole"}]
  /\ \A i \in Lines : Billed(task[i]) /\ OwnFile(i)
  /\ batch = "done" => /\ \A i \in Lines : task[i].pc = "narrated"
                       /\ flags = CachedFlags

\* A line that is read is billed for what it was.
LEMMA ReadEdits ==
  ASSUME NEW x \in SynthTask, NEW a \in Heard
  PROVE  /\ [x EXCEPT !.pc = "narrated", !.hit = TRUE, !.made = FALSE, !.audio = a] \in SynthTask
         /\ [x EXCEPT !.pc = "narrated", !.hit = TRUE, !.made = FALSE, !.audio = a].pc = "narrated"
         /\ [x EXCEPT !.pc = "narrated", !.hit = TRUE, !.made = FALSE, !.audio = a].hit
         /\ ~[x EXCEPT !.pc = "narrated", !.hit = TRUE, !.made = FALSE, !.audio = a].made
         /\ [x EXCEPT !.pc = "narrated", !.hit = TRUE, !.made = FALSE, !.audio = a].audio = a
  BY Zenon DEF SynthTask

\* A line that is synthesized keeps what its task knew.
LEMMA MadeEdits ==
  ASSUME NEW x \in SynthTask, NEW a \in Heard
  PROVE  /\ [x EXCEPT !.pc = "narrated", !.made = TRUE, !.audio = a] \in SynthTask
         /\ [x EXCEPT !.pc = "narrated", !.made = TRUE, !.audio = a].pc = "narrated"
         /\ [x EXCEPT !.pc = "narrated", !.made = TRUE, !.audio = a].hit = x.hit
         /\ [x EXCEPT !.pc = "narrated", !.made = TRUE, !.audio = a].made
         /\ [x EXCEPT !.pc = "narrated", !.made = TRUE, !.audio = a].audio = a
  BY Zenon DEF SynthTask

\* A line that is read a second time is billed already.
LEMMA RereadEdits ==
  ASSUME NEW x \in SynthTask, NEW a \in Heard
  PROVE  /\ [x EXCEPT !.pc = "narrated", !.audio = a] \in SynthTask
         /\ [x EXCEPT !.pc = "narrated", !.audio = a].pc = "narrated"
         /\ [x EXCEPT !.pc = "narrated", !.audio = a].hit = x.hit
         /\ [x EXCEPT !.pc = "narrated", !.audio = a].made = x.made
         /\ [x EXCEPT !.pc = "narrated", !.audio = a].audio = a
  BY Zenon DEF SynthTask

\* A line that is synthesized badly is so too.
LEMMA CorruptEdits ==
  ASSUME NEW x \in SynthTask
  PROVE  /\ [x EXCEPT !.pc = "rewrite", !.made = TRUE] \in SynthTask
         /\ [x EXCEPT !.pc = "rewrite", !.made = TRUE].pc = "rewrite"
         /\ [x EXCEPT !.pc = "rewrite", !.made = TRUE].hit = x.hit
         /\ [x EXCEPT !.pc = "rewrite", !.made = TRUE].made
  BY Zenon DEF SynthTask

\* So does a line whose file turns out corrupt.
LEMMA RewriteEdits ==
  ASSUME NEW x \in SynthTask, NEW h \in BOOLEAN, NEW m \in BOOLEAN
  PROVE  /\ [x EXCEPT !.pc = "rewrite", !.hit = h, !.made = m] \in SynthTask
         /\ [x EXCEPT !.pc = "rewrite", !.hit = h, !.made = m].pc = "rewrite"
         /\ [x EXCEPT !.pc = "rewrite", !.hit = h, !.made = m].hit = h
         /\ [x EXCEPT !.pc = "rewrite", !.hit = h, !.made = m].made = m
  BY Zenon DEF SynthTask

\* A task that goes on to its next attempt has billed nothing.
LEMMA TryEdits ==
  ASSUME NEW x \in SynthTask
  PROVE  /\ [x EXCEPT !.pc = "write"] \in SynthTask /\ [x EXCEPT !.pc = "write"].pc = "write"
         /\ [x EXCEPT !.pc = "write"].hit = x.hit /\ [x EXCEPT !.pc = "write"].made = x.made
         /\ \A n \in Int : /\ [x EXCEPT !.pc = "backoff", !.tries = n] \in SynthTask
                           /\ [x EXCEPT !.pc = "backoff", !.tries = n].pc = "backoff"
                           /\ [x EXCEPT !.pc = "backoff", !.tries = n].hit = x.hit
                           /\ [x EXCEPT !.pc = "backoff", !.tries = n].made = x.made
  BY Zenon DEF SynthTask

\* A line's text is one of the script's.
LEMMA LineTexts ==
  ASSUME NEW i \in Lines
  PROVE  /\ TextOf[i] \in Texts
         /\ \A j \in Lines \ {i} : SameText(j) = {} => TextOf[j] # TextOf[i]
<1>1. DOMAIN TextOf = Lines
  BY VoiceAssumption
<1> QED
  BY <1>1 DEF Texts, Range, SameText

\* A task's own step changes its line, and files of its text only.
LEMMA LineKept ==
  ASSUME VoiceInv, batch = "running", batch' = batch, NEW i \in Lines, NEW y, Billed(y),
         task' = [task EXCEPT ![i] = y], fd' \in [Lines -> WriterOf], partial' \subseteq Texts,
         cached' \in [Texts -> {"absent", "half", "whole"}],
         \A j \in Lines : TextOf[j] # TextOf[i] =>
            fd'[j] = fd[j] /\ (TextOf[j] \in partial => TextOf[j] \in partial')
              /\ cached'[TextOf[j]] = cached[TextOf[j]],
         OwnFile(i)'
  PROVE  VoiceInv'
<1>1. task' \in [Lines -> SynthTask]
  BY DEF VoiceInv, Billed
<1>2. \A j \in Lines : Billed(task'[j])
  BY DEF VoiceInv
<1>3. ASSUME NEW j \in Lines PROVE OwnFile(j)'
  <2>1. CASE j = i
    BY <2>1
  <2>2. CASE j # i
    <3>1. task'[j] = task[j] /\ OwnFile(j)
      BY <2>2 DEF VoiceInv
    <3> QED
      BY <2>2, <3>1, LineTexts DEF OwnFile, SameText
  <2> QED
    BY <2>1, <2>2
<1> QED
  BY <1>1, <1>2, <1>3 DEF VoiceInv

\* A batch that fails leaves what is whole.
LEMMA FailKept ==
  ASSUME VoiceInv, NEW left \in SUBSET Texts, NEW whole \in [Texts -> {"absent", "half", "whole"}],
         \A i \in Lines : SameText(i) = {} => whole[TextOf[i]] # "half", Fail(left, whole)
  PROVE  VoiceInv'
<1>1. Fresh \in SynthTask
  BY DEF Fresh, SynthTask, Heard
<1> DEFINE y == [Fresh EXCEPT !.pc = "cancelled"]
<1>2. y \in SynthTask /\ y.pc = "cancelled"
  BY <1>1 DEF SynthTask, Heard
<1>3. Billed(y)
  BY <1>2 DEF Billed
<1>4. \A i \in Lines : task'[i] = y
  BY DEF Fail
<1>5. \A i \in Lines : OwnFile(i)'
  BY <1>2, <1>4 DEF Fail, OwnFile, SameText
<1>6. task' \in [Lines -> SynthTask] /\ fd' \in [Lines -> WriterOf]
  BY <1>2 DEF Fail, WriterOf
<1> QED
  BY <1>3, <1>4, <1>5, <1>6 DEF Fail, VoiceInv

\* A line gets its file, or begins one.
LEMMA BeginKept == ASSUME VoiceInv, NEW i \in Lines, Begin(i) PROVE VoiceInv'
<1>0. PICK x \in SynthTask : x = task[i]
  BY DEF VoiceInv
<1>1. /\ x.pc = "queued" /\ batch = "running" /\ batch' = batch /\ Billed(x) /\ TextOf[i] \in Texts
      /\ ~x.hit /\ ~x.made
  BY <1>0, LineTexts DEF Begin, VoiceInv, Billed
<1>2. CASE cached[TextOf[i]] = "absent"
  <2> DEFINE y == [x EXCEPT !.pc = "write"]
  <2>1. y \in SynthTask /\ y.pc = "write" /\ y.hit = x.hit /\ y.made = x.made
    BY TryEdits, Zenon
  <2>2. Billed(y)
    BY <1>1, <2>1 DEF Billed
  <2>3. /\ task' = [task EXCEPT ![i] = y] /\ fd' = [fd EXCEPT ![i] = "partial"]
        /\ partial' = partial \cup {TextOf[i]} /\ cached' = cached
    BY <1>0, <1>2 DEF Begin
  <2>4. task'[i] = y /\ fd'[i] = "partial" /\ TextOf[i] \in partial'
    BY <2>3 DEF VoiceInv
  <2>5. OwnFile(i)'
    BY <1>2, <2>1, <2>3, <2>4 DEF OwnFile, SameText
  <2>6. fd' \in [Lines -> WriterOf] /\ partial' \subseteq Texts
    BY <1>1, <2>3 DEF VoiceInv, WriterOf
  <2> HIDE DEF y
  <2> QED
    BY <1>1, <2>2, <2>3, <2>5, <2>6, LineKept DEF VoiceInv
<1>3. CASE cached[TextOf[i]] # "absent"
  <2>0. Read(i, TRUE, FALSE, cached[TextOf[i]]) /\ partial' = partial
    BY <1>3 DEF Begin
  <2>1. CASE task' = [task EXCEPT ![i] = [@ EXCEPT !.pc = "narrated", !.hit = TRUE, !.made = FALSE,
                           !.audio = IF cached[TextOf[i]] = "whole" THEN "whole" ELSE "short"]]
             /\ cached' = [cached EXCEPT ![TextOf[i]] = cached[TextOf[i]]]
             /\ fd' = [fd EXCEPT ![i] = "none"]
    <3>0. PICK a \in Heard : a = IF cached[TextOf[i]] = "whole" THEN "whole" ELSE "short"
      BY DEF Heard
    <3> DEFINE y == [x EXCEPT !.pc = "narrated", !.hit = TRUE, !.made = FALSE, !.audio = a]
    <3>1. y \in SynthTask /\ y.pc = "narrated" /\ y.hit /\ ~y.made /\ y.audio = a
      BY ReadEdits, Zenon
    <3>2. Billed(y)
      BY <3>1 DEF Billed
    <3>3. task' = [task EXCEPT ![i] = y] /\ cached' = cached
      BY <1>0, <2>1, <3>0 DEF VoiceInv
    <3>4. task'[i] = y
      BY <3>3 DEF VoiceInv
    <3>5. OwnFile(i)'
      BY <1>1, <1>3, <3>0, <3>1, <3>3, <3>4 DEF OwnFile, VoiceInv, SameText
    <3>6. fd' \in [Lines -> WriterOf]
      BY <2>1 DEF VoiceInv, WriterOf
    <3>7. \A j \in Lines : TextOf[j] # TextOf[i] => fd'[j] = fd[j]
      BY <2>1 DEF VoiceInv
    <3> HIDE DEF y
    <3> QED
      BY <1>1, <2>0, <3>2, <3>3, <3>5, <3>6, <3>7, LineKept DEF VoiceInv
  <2>2. CASE /\ cached[TextOf[i]] # "whole"
             /\ task' = [task EXCEPT ![i] = [@ EXCEPT !.pc = "rewrite", !.hit = FALSE, !.made = TRUE]]
             /\ cached' = [cached EXCEPT ![TextOf[i]] = "half"]
             /\ fd' = [j \in Lines |-> IF j = i THEN "cached"
                                 ELSE IF j \in SameText(i) /\ fd[j] = "cached" THEN "gone"
                                 ELSE fd[j]]
    <3>h. PICK h \in BOOLEAN, m \in BOOLEAN : h = FALSE /\ m = TRUE
      OBVIOUS
    <3> DEFINE y == [x EXCEPT !.pc = "rewrite", !.hit = h, !.made = m]
    <3>0. [x EXCEPT !.pc = "rewrite", !.hit = FALSE, !.made = TRUE] = y
      BY <3>h
    <3>1. /\ y \in SynthTask /\ y.pc = "rewrite" /\ y.hit = h /\ y.made = m
      BY RewriteEdits, Zenon
    <3>2. Billed(y)
      BY <3>1, <3>h DEF Billed
    <3>3. task' = [task EXCEPT ![i] = y]
      BY <1>0, <2>2, <3>0
    <3>4. SameText(i) # {}
      BY <1>1, <1>3, <2>2 DEF VoiceInv, OwnFile
    <3>5. OwnFile(i)'
      BY <3>4 DEF OwnFile, SameText
    <3>6. fd' \in [Lines -> WriterOf] /\ cached' \in [Texts -> {"absent", "half", "whole"}]
      BY <2>2 DEF VoiceInv, WriterOf
    <3>7. \A j \in Lines : TextOf[j] # TextOf[i] =>
            fd'[j] = fd[j] /\ cached'[TextOf[j]] = cached[TextOf[j]]
      BY <2>2, LineTexts DEF VoiceInv, SameText
    <3> HIDE DEF y
    <3> QED
      BY <1>1, <2>0, <3>2, <3>3, <3>5, <3>6, <3>7, LineKept DEF VoiceInv
  <2> QED
    BY <2>0, <2>1, <2>2 DEF Read
<1> QED
  BY <1>2, <1>3

\* The provider answers: the file is moved into place and read.
LEMMA SynthesizedKept == ASSUME VoiceInv, NEW i \in Lines, Synthesized(i) PROVE VoiceInv'
<1>0. PICK x \in SynthTask, t \in Texts : x = task[i] /\ t = TextOf[i]
  BY LineTexts DEF VoiceInv
<1>1. x.pc = "write" /\ batch = "running" /\ Billed(x) /\ ~x.hit /\ ~x.made /\ OwnFile(i)
  BY <1>0 DEF Synthesized, VoiceInv, Billed
<1> DEFINE kept == IF fd[i] = "cached" THEN [cached EXCEPT ![t] = Written(i)] ELSE cached
           moved == [j \in Lines |-> IF j \in SameText(i) \cup {i}
                                     THEN CASE fd[j] = "partial" -> "cached"
                                            [] fd[j] = "cached" -> "gone"
                                            [] OTHER -> fd[j]
                                     ELSE fd[j]]
           file == IF \E j \in SameText(i) : fd[j] = "partial" THEN "half" ELSE "whole"
<1>2. CASE t \notin partial
  <2>1. Fail(partial, kept)
    BY <1>0, <1>2 DEF Synthesized
  <2>2. SameText(i) # {}
    BY <1>0, <1>1, <1>2 DEF OwnFile
  <2>3. kept \in [Texts -> {"absent", "half", "whole"}]
    BY DEF VoiceInv, Written
  <2>4. ASSUME NEW j \in Lines, SameText(j) = {} PROVE kept[TextOf[j]] # "half"
    <3>1. j # i /\ TextOf[j] # t /\ TextOf[j] \in Texts
      BY <1>0, <2>2, <2>4, LineTexts
    <3> QED
      BY <2>4, <3>1 DEF VoiceInv, OwnFile
  <2> HIDE DEF kept
  <2> QED
    BY <2>1, <2>3, <2>4, FailKept DEF VoiceInv
<1>3. CASE t \in partial
  <2>1. partial' = partial \ {t} /\ batch' = batch
    BY <1>0, <1>3 DEF Synthesized
  <2>2. moved \in [Lines -> WriterOf] /\ \A j \in Lines : TextOf[j] # t => moved[j] = fd[j]
    BY <1>0 DEF VoiceInv, WriterOf, SameText
  <2>3. SameText(i) = {} => file = "whole"
    OBVIOUS
  <2>p. partial' \subseteq Texts /\ \A j \in Lines : TextOf[j] # t /\ TextOf[j] \in partial
                                      => TextOf[j] \in partial'
    BY <2>1 DEF VoiceInv
  <2>4. CASE /\ task' = [task EXCEPT ![i] =
                            [@ EXCEPT !.pc = "narrated", !.made = TRUE, !.audio =
                               IF file = "whole" THEN "whole" ELSE "short"]]
             /\ cached' = [cached EXCEPT ![t] = file]
             /\ fd' = [moved EXCEPT ![i] = "none"]
    <3>0. PICK a \in Heard : a = IF file = "whole" THEN "whole" ELSE "short"
      BY DEF Heard
    <3> DEFINE y == [x EXCEPT !.pc = "narrated", !.made = TRUE, !.audio = a]
    <3>1. y \in SynthTask /\ y.pc = "narrated" /\ y.hit = x.hit /\ y.made /\ y.audio = a
      BY MadeEdits, Zenon
    <3>2. Billed(y)
      BY <1>1, <3>1 DEF Billed
    <3>3. task' = [task EXCEPT ![i] = y]
      BY <1>0, <2>4, <3>0
    <3>4. task'[i] = y /\ cached'[t] = file
      BY <2>4, <3>3 DEF VoiceInv
    <3>5. OwnFile(i)'
      BY <1>0, <2>3, <3>0, <3>1, <3>4 DEF OwnFile, SameText
    <3>6. fd' \in [Lines -> WriterOf] /\ cached' \in [Texts -> {"absent", "half", "whole"}]
      BY <2>2, <2>4 DEF VoiceInv, WriterOf
    <3>7. \A j \in Lines : TextOf[j] # t => fd'[j] = fd[j] /\ cached'[TextOf[j]] = cached[TextOf[j]]
      BY <1>0, <2>2, <2>4, LineTexts DEF VoiceInv
    <3> HIDE DEF y
    <3> QED
      BY <1>0, <1>1, <2>1, <2>p, <3>2, <3>3, <3>5, <3>6, <3>7, LineKept
  <2>5. CASE /\ file = "half"
             /\ task' = [task EXCEPT ![i] = [@ EXCEPT !.pc = "rewrite", !.made = TRUE]]
             /\ cached' = [cached EXCEPT ![t] = "half"]
             /\ fd' = [j \in Lines |-> IF j = i THEN "cached"
                                       ELSE IF j \in SameText(i) /\ moved[j] = "cached"
                                       THEN "gone" ELSE moved[j]]
    <3> DEFINE y == [x EXCEPT !.pc = "rewrite", !.made = TRUE]
    <3>1. y \in SynthTask /\ y.pc = "rewrite" /\ y.hit = x.hit /\ y.made
      BY CorruptEdits, Zenon
    <3>2. Billed(y)
      BY <1>1, <3>1 DEF Billed
    <3>3. task' = [task EXCEPT ![i] = y]
      BY <1>0, <2>5
    <3>5. OwnFile(i)'
      BY <2>3, <2>5 DEF OwnFile, SameText
    <3>6. fd' \in [Lines -> WriterOf] /\ cached' \in [Texts -> {"absent", "half", "whole"}]
      BY <2>2, <2>5 DEF VoiceInv, WriterOf
    <3>7. \A j \in Lines : TextOf[j] # t => fd'[j] = fd[j] /\ cached'[TextOf[j]] = cached[TextOf[j]]
      BY <1>0, <2>2, <2>5, LineTexts DEF VoiceInv, SameText
    <3> HIDE DEF y
    <3> QED
      BY <1>0, <1>1, <2>1, <2>p, <3>2, <3>3, <3>5, <3>6, <3>7, LineKept
  <2> QED
    BY <1>0, <1>3, <2>4, <2>5 DEF Synthesized
<1> QED
  BY <1>2, <1>3

\* The provider fails: no other text's files are touched.
LEMMA SynthesisFailsKept == ASSUME VoiceInv, NEW i \in Lines, SynthesisFails(i) PROVE VoiceInv'
<1>0. PICK x \in SynthTask, t \in Texts : x = task[i] /\ t = TextOf[i]
  BY LineTexts DEF VoiceInv
<1>1. x.pc = "write" /\ batch = "running" /\ Billed(x) /\ ~x.hit /\ ~x.made
  BY <1>0 DEF SynthesisFails, VoiceInv, Billed
<1>2. CASE /\ task' = [task EXCEPT ![i].pc = "backoff", ![i].tries = @ + 1]
           /\ partial' = partial \ {t}
           /\ fd' = [j \in Lines |-> IF j = i THEN "none"
                                     ELSE IF j \in SameText(i) /\ fd[j] = "partial" THEN "gone"
                                     ELSE fd[j]]
           /\ UNCHANGED <<batch, cached>>
  <2> DEFINE y == [x EXCEPT !.pc = "backoff", !.tries = x.tries + 1]
  <2>0. x.tries + 1 \in Int
    BY DEF SynthTask
  <2>1. y \in SynthTask /\ y.pc = "backoff" /\ y.hit = x.hit /\ y.made = x.made
    BY <2>0, TryEdits, Zenon
  <2>2. Billed(y)
    BY <1>1, <2>1 DEF Billed
  <2>3. task' = [task EXCEPT ![i] = y]
    BY <1>0, <1>2 DEF VoiceInv, SynthTask
  <2>4. task'[i] = y
    BY <2>3 DEF VoiceInv
  <2>5. OwnFile(i)'
    BY <1>2, <2>1, <2>4 DEF OwnFile, SameText, VoiceInv
  <2>6. fd' \in [Lines -> WriterOf] /\ partial' \subseteq Texts
    BY <1>2 DEF VoiceInv, WriterOf
  <2>7. \A j \in Lines : TextOf[j] # t => fd'[j] = fd[j] /\ (TextOf[j] \in partial => TextOf[j] \in partial')
    BY <1>0, <1>2 DEF SameText, VoiceInv
  <2> HIDE DEF y
  <2> QED
    BY <1>0, <1>1, <1>2, <2>2, <2>3, <2>5, <2>6, <2>7, LineKept DEF VoiceInv
<1>3. CASE Fail(partial \ {t}, cached)
  <2>1. partial \ {t} \in SUBSET Texts
    BY DEF VoiceInv
  <2> QED
    BY <1>3, <2>1, FailKept DEF VoiceInv, OwnFile
<1> QED
  BY <1>0, <1>2, <1>3 DEF SynthesisFails

\* A retry begins a new file.
LEMMA RetryKept == ASSUME VoiceInv, NEW i \in Lines, Retry(i) PROVE VoiceInv'
<1>0. PICK x \in SynthTask : x = task[i]
  BY DEF VoiceInv
<1>1. /\ x.pc = "backoff" /\ batch = "running" /\ UNCHANGED <<batch, cached>> /\ Billed(x)
      /\ ~x.hit /\ ~x.made /\ TextOf[i] \in Texts /\ OwnFile(i)
      /\ fd' = [fd EXCEPT ![i] = "partial"] /\ partial' = partial \cup {TextOf[i]}
  BY <1>0, LineTexts DEF Retry, VoiceInv, Billed
<1> DEFINE y == [x EXCEPT !.pc = "write"]
<1>2. y \in SynthTask /\ y.pc = "write" /\ y.hit = x.hit /\ y.made = x.made
  BY TryEdits, Zenon
<1>3. Billed(y)
  BY <1>1, <1>2 DEF Billed
<1>4. task' = [task EXCEPT ![i] = y]
  BY <1>0 DEF Retry
<1>5. task'[i] = y /\ fd'[i] = "partial"
  BY <1>1, <1>4 DEF VoiceInv
<1>6. OwnFile(i)'
  BY <1>1, <1>2, <1>5 DEF OwnFile, SameText
<1>7. fd' \in [Lines -> WriterOf] /\ partial' \subseteq Texts
  BY <1>1 DEF VoiceInv, WriterOf
<1>8. \A j \in Lines : TextOf[j] # TextOf[i] => fd'[j] = fd[j]
  BY <1>1 DEF VoiceInv
<1> HIDE DEF y
<1> QED
  BY <1>1, <1>3, <1>4, <1>6, <1>7, <1>8, LineKept DEF VoiceInv

\* A corrupt file is written again, and read.
LEMMA RewrittenKept == ASSUME VoiceInv, NEW i \in Lines, Rewritten(i) PROVE VoiceInv'
<1>0. PICK x \in SynthTask : x = task[i]
  BY DEF VoiceInv
<1>1. x.pc = "rewrite" /\ batch = "running" /\ Billed(x) /\ ~x.hit /\ x.made /\ TextOf[i] \in Texts
  BY <1>0, LineTexts DEF Rewritten, VoiceInv, Billed
<1>2. CASE /\ task' = [task EXCEPT ![i].pc = "narrated", ![i].audio = "whole"]
           /\ cached' = [cached EXCEPT ![TextOf[i]] = "whole"]
           /\ fd' = [fd EXCEPT ![i] = "none"]
           /\ UNCHANGED <<batch, partial>>
  <2>0. PICK a \in Heard : a = "whole"
    BY DEF Heard
  <2> DEFINE y == [x EXCEPT !.pc = "narrated", !.audio = a]
  <2>1. y \in SynthTask /\ y.pc = "narrated" /\ y.hit = x.hit /\ y.made = x.made /\ y.audio = a
    BY RereadEdits, Zenon
  <2>2. Billed(y)
    BY <1>1, <2>1 DEF Billed
  <2>3. task' = [task EXCEPT ![i] = y]
    BY <1>0, <1>2, <2>0 DEF VoiceInv, SynthTask
  <2>4. task'[i] = y /\ cached'[TextOf[i]] = "whole"
    BY <1>1, <1>2, <2>3 DEF VoiceInv
  <2>5. OwnFile(i)'
    BY <2>0, <2>1, <2>4 DEF OwnFile, SameText
  <2>6. fd' \in [Lines -> WriterOf] /\ cached' \in [Texts -> {"absent", "half", "whole"}]
    BY <1>2 DEF VoiceInv, WriterOf
  <2>7. \A j \in Lines : TextOf[j] # TextOf[i] => fd'[j] = fd[j] /\ cached'[TextOf[j]] = cached[TextOf[j]]
    BY <1>2, LineTexts DEF VoiceInv
  <2> HIDE DEF y
  <2> QED
    BY <1>1, <1>2, <2>2, <2>3, <2>5, <2>6, <2>7, LineKept DEF VoiceInv
<1>3. CASE Fail(partial, cached)
  BY <1>3, FailKept DEF VoiceInv, OwnFile
<1> QED
  BY <1>2, <1>3 DEF Rewritten

\* The files a complete batch leaves are among those it had.
LEMMA CompleteKept == ASSUME VoiceInv, Complete PROVE VoiceInv'
<1>1. /\ batch' = "done" /\ flags' = CachedFlags /\ UNCHANGED <<task, fd, partial>>
      /\ \A i \in Lines : task[i].pc = "narrated"
  BY DEF Complete
<1>2. PICK gone : cached' = [t \in Texts |-> IF t \in gone THEN "absent" ELSE cached[t]]
  BY DEF Complete
<1>3. cached' \in [Texts -> {"absent", "half", "whole"}]
  BY <1>2 DEF VoiceInv
<1>4. \A i \in Lines : OwnFile(i)'
  BY <1>1, <1>2, LineTexts DEF VoiceInv, OwnFile, SameText
<1>5. flags' = CachedFlags'
  BY <1>1 DEF CachedFlags
<1> QED
  BY <1>1, <1>3, <1>4, <1>5 DEF VoiceInv

\* The next batch finds the files as they are.
LEMMA NextBatchKept == ASSUME VoiceInv, NextBatch PROVE VoiceInv'
<1>1. /\ batch' = "running" /\ UNCHANGED <<fd, partial, cached>>
      /\ task' = [i \in Lines |-> Fresh]
  BY DEF NextBatch
<1>2. Fresh \in SynthTask /\ Fresh.pc = "queued" /\ Billed(Fresh)
  BY DEF Fresh, SynthTask, Heard, Billed
<1>3. \A i \in Lines : task'[i] = Fresh
  BY <1>1
<1>4. \A i \in Lines : OwnFile(i)'
  BY <1>1, <1>2, <1>3 DEF VoiceInv, OwnFile, SameText
<1> QED
  BY <1>1, <1>2, <1>3, <1>4 DEF VoiceInv

\* The bill follows the lines, and a line no other line repeats is heard in full,
\* for any script, provider, number of tasks and batches.
THEOREM NarrationHonest == VoiceSpec => []VoiceSound
<1>1. VoiceInit => VoiceInv
  <2> SUFFICES ASSUME VoiceInit PROVE VoiceInv
    OBVIOUS
  <2>1. Fresh \in SynthTask /\ Fresh.pc = "queued" /\ Billed(Fresh)
    BY DEF Fresh, SynthTask, Heard, Billed
  <2>2. \A i \in Lines : task[i] = Fresh /\ cached[TextOf[i]] = "absent"
    BY LineTexts DEF VoiceInit
  <2>3. \A i \in Lines : OwnFile(i)
    BY <2>1, <2>2 DEF OwnFile
  <2> QED
    BY <2>1, <2>2, <2>3 DEF VoiceInit, VoiceInv, WriterOf
<1>2. VoiceInv /\ [VoiceNext]_vvars => VoiceInv'
  <2> SUFFICES ASSUME VoiceInv, [VoiceNext]_vvars PROVE VoiceInv'
    OBVIOUS
  <2>1. CASE UNCHANGED vvars
    BY <2>1 DEF vvars, VoiceInv, OwnFile, SameText, CachedFlags
  <2>2. CASE TimedOut
    BY <2>2, FailKept DEF TimedOut, VoiceInv, OwnFile
  <2> QED
    BY <2>1, <2>2, BeginKept, SynthesizedKept, SynthesisFailsKept, RetryKept, RewrittenKept,
       CompleteKept, NextBatchKept DEF VoiceNext
<1>3. VoiceInv => VoiceSound
  <2> SUFFICES ASSUME VoiceInv PROVE VoiceSound
    OBVIOUS
  <2>1. ASSUME batch = "done", NEW i \in Lines
        PROVE  /\ flags[i] <=> ~task[i].made
               /\ SameText(i) = {} => task[i].audio = "whole"
    <3>1. task[i].pc = "narrated" /\ flags[i] = task[i].hit /\ Billed(task[i]) /\ OwnFile(i)
      BY <2>1 DEF VoiceInv, CachedFlags
    <3> QED
      BY <3>1 DEF Billed, OwnFile
  <2> QED
    BY <2>1 DEF VoiceSound, FlagsFollowLines, OwnTextHeardWhole
<1> QED
  BY <1>1, <1>2, <1>3, PTL DEF VoiceSpec

-----------------------------------------------------------------------------
\* A race keeps what its candidates came to, whenever cancel() comes

CandidatePcs == {"check", "submit", "note", "collect", "returned", "ranked"}
CancelRec == [pc : {"idle", "looked", "dropped"}, of : Cands,
              queued : BOOLEAN, noted : BOOLEAN]
CandidateRun == [steps : 0..RaceSteps, verdict : {"none"} \cup Verdicts, score : Scores \cup {0}]

RaceTyped ==
  /\ phase \in [Cands -> {"queued", "running", "cancelled", "done"}]
  /\ flagged \subseteq Cands /\ noted \subseteq Cands /\ spared \subseteq Cands
  /\ future \in [Cands -> {"none", "pending", "entered", "working", "cancelled", "done"}]
  /\ run \in [Cands -> CandidateRun]
  /\ runner \in [pc : CandidatePcs, next : Cands]
  /\ results \in Seq({"none"} \cup Verdicts) /\ promoted \in 0..Candidates
  /\ canceller \in [Cancellers -> CancelRec]

\* what the phase of a candidate says of its future and its pipeline
PhaseTrue(i) ==
  /\ phase[i] = "queued" => /\ future[i] \in {"none", "pending", "entered", "cancelled"}
                            /\ run[i].steps = 0 /\ run[i].verdict = "none"
  /\ phase[i] = "cancelled" => /\ future[i] # "working" /\ run[i].steps = 0
                               /\ run[i].verdict \in {"none", "cancelled"}
  /\ phase[i] = "running" => future[i] = "working"
  /\ phase[i] = "done" => future[i] = "done" /\ run[i].verdict # "none"
  /\ run[i].verdict = "success" => run[i].steps = RaceSteps
  /\ i \in spared => /\ i \in flagged /\ run[i].steps = 0
                     /\ run[i].verdict \in {"none", "cancelled", "failed"}

\* how far run_all() has come
RunnerTrue ==
  /\ runner.pc \in {"check", "submit"} => \A j \in Cands : j >= runner.next => future[j] = "none"
  /\ runner.pc = "note" => \A j \in Cands : j > runner.next => future[j] = "none"
  /\ \A j \in Cands : j \in noted \/ future[j] = "none" \/ (runner.pc = "note" /\ j = runner.next)
  /\ runner.pc \in {"check", "submit", "note"} => results = <<>>
  /\ runner.pc = "collect" => Len(results) = runner.next - 1
  /\ runner.pc \in {"returned", "ranked"} => Len(results) = Candidates

\* a result is what the candidate came to, for good
ResultsTrue ==
  /\ \A j \in Cands : j <= Len(results) =>
       /\ results[j] = "success" <=> run[j].verdict = "success"
       /\ future[j] \in {"none", "cancelled", "done"}
  /\ promoted # 0 => runner.pc = "ranked" /\ results[promoted] = "success"

RaceInv == RaceTyped /\ (\A i \in Cands : PhaseTrue(i)) /\ RunnerTrue /\ ResultsTrue

\* a cancel() that drops a candidate has set its flag
CancelTrue == \A c \in Cancellers : canceller[c].pc = "dropped" => canceller[c].of \in flagged

\* There is a candidate, and a step.
LEMMA RaceFacts == Candidates \in Nat \ {0} /\ RaceSteps \in Nat \ {0} /\ Cands = 1..Candidates
  BY RaceAssumption DEF Candidates, Lesser, Greater, DefaultCandidates, Cands

\* A share is one, whatever was measured.
LEMMA ClampBounds == \A n \in Int : Clamp(n) \in 0..100
  BY DEF Clamp, Lesser, Greater

\* Four shares with their weights make a score.
LEMMA ScoreBounds == \A m \in Metrics : Score(m) \in Nat /\ Score(m) <= 10000
<1> TAKE m \in Metrics
<1>1. /\ m.ranked \in 0..100 /\ m.likeness \in Int /\ m.duration \in Int /\ m.swapped \in Int
      /\ m.footage \in Int
  BY RaceAssumption
<1>2. PICK like \in 0..100 : like = Clamp(m.likeness)
  BY <1>1, ClampBounds
<1>3. (m.ranked * like) \div 100 \in Int
  BY <1>1
<1>4. PICK match \in 0..100 : match = Clamp((m.ranked * Clamp(m.likeness)) \div 100)
  BY <1>2, <1>3, ClampBounds
<1>5. 100 - (IF m.duration < 100 THEN 100 - m.duration ELSE m.duration - 100) \in Int
  BY <1>1
<1>6. PICK fit \in 0..100 :
        fit = Clamp(100 - IF m.duration < 100 THEN 100 - m.duration ELSE m.duration - 100)
  BY <1>5, ClampBounds
<1>7. m.swapped * 10 \in Int /\ 100 - ((m.swapped - 30) * 50) \div 30 \in Int
  BY <1>1
<1>8. PICK swaps \in 0..100 : swaps = SwapMarks(m.swapped)
  <2>1. /\ Clamp(m.swapped * 10) \in 0..100
        /\ Clamp(100 - ((m.swapped - 30) * 50) \div 30) \in 0..100
    BY <1>7, ClampBounds
  <2>2. m.swapped < 5 \/ m.swapped \in 5..30 \/ m.swapped > 30
    BY <1>1
  <2>3. CASE m.swapped < 5
    <3>1. SwapMarks(m.swapped) = Clamp(m.swapped * 10)
      BY <1>1, <2>3, SMTT(20) DEF SwapMarks
    <3> QED
      BY <2>1, <3>1
  <2>4. CASE m.swapped \in 5..30
    BY <1>1, <2>4 DEF SwapMarks
  <2>5. CASE m.swapped > 30
    <3>1. SwapMarks(m.swapped) = Clamp(100 - ((m.swapped - 30) * 50) \div 30)
      BY <1>1, <2>5, SMTT(20) DEF SwapMarks
    <3> QED
      BY <2>1, <3>1
  <2> QED
    BY <2>2, <2>3, <2>4, <2>5
<1>9. PICK cover \in 0..100 : cover = IF m.footage = 0 THEN m.ranked ELSE Clamp(m.footage)
  BY <1>1, ClampBounds
<1>10. Score(m) = 0 \/ Score(m) = match * 40 + fit * 25 + swaps * 20 + cover * 15
  BY <1>4, <1>6, <1>8, <1>9 DEF Score
<1>11. /\ match * 40 + fit * 25 + swaps * 20 + cover * 15 \in Nat
       /\ match * 40 + fit * 25 + swaps * 20 + cover * 15 <= 10000
  OBVIOUS
<1>12. CASE Score(m) = 0
  BY <1>12
<1> QED
  BY <1>10, <1>11, <1>12

\* The best of some candidates has no better beside it.
LEMMA BestIsBest ==
  ASSUME RaceTyped, NEW S \in SUBSET Cands, S # {}
  PROVE  Best(S) \in S /\ \A j \in S : run[Best(S)].score >= run[j].score
<1>0. ASSUME NEW j \in S PROVE run[j].score \in Nat /\ run[j].score <= 10000 /\ j \in Nat
  <2>1. run[j].score \in Scores \cup {0}
    BY DEF RaceTyped, CandidateRun
  <2>2. \A w \in Scores : w \in Nat /\ w <= 10000
    BY ScoreBounds DEF Scores
  <2> QED
    BY <2>1, <2>2, RaceFacts
<1> DEFINE Short == {10000 - run[j].score : j \in S}
<1>1. Short \in SUBSET Nat /\ Short # {}
  BY <1>0
<1>2. PICK top \in S : \A j \in S : run[j].score <= run[top].score
  <2>1. PICK m \in Short : \A k \in Short : m <= k
    <3> HIDE DEF Short
    <3> QED
      BY <1>1, LeastNatural, Zenon
  <2>2. PICK top \in S : m = 10000 - run[top].score
    OBVIOUS
  <2>3. ASSUME NEW j \in S PROVE run[j].score <= run[top].score
    <3>1. PICK a \in Nat, b \in Nat : a = run[j].score /\ b = run[top].score
      BY <1>0
    <3>2. 10000 - b <= 10000 - a
      BY <2>1, <2>2, <3>1
    <3> QED
      BY <3>1, <3>2
  <2> QED
    BY <2>3
<1> DEFINE Tied == {j \in S : run[j].score = run[top].score}
<1>t. Tied \in SUBSET Nat /\ Tied # {}
  BY <1>0
<1>3. PICK i \in Tied : \A k \in Tied : i <= k
  <2> HIDE DEF Tied
  <2> QED
    BY <1>t, LeastNatural, Zenon
<1>4. \A j \in S : run[j].score < run[i].score \/ (run[j].score = run[i].score /\ i <= j)
  BY <1>0, <1>2, <1>3
<1>5. i \in S
  OBVIOUS
<1> HIDE DEF Short, Tied
<1>6. /\ Best(S) \in S
      /\ \A j \in S : run[j].score < run[Best(S)].score
                        \/ (run[j].score = run[Best(S)].score /\ Best(S) <= j)
  BY <1>4, <1>5, Zenon DEF Best
<1> QED
  BY <1>0, <1>6

\* run_all() goes on to the next candidate, or to collecting.
LEMMA AdvanceRunner ==
  ASSUME RaceTyped
  PROVE  /\ Advance \in [pc : CandidatePcs, next : Cands]
         /\ Advance.pc = "collect" => Advance.next = 1 /\ runner.next = Candidates
         /\ Advance.pc # "collect" => Advance.pc = "check" /\ Advance.next = runner.next + 1
  BY RaceFacts DEF RaceTyped, Advance, CandidatePcs

\* A candidate that was cancelled is passed over.
LEMMA CheckPhaseKept == ASSUME RaceInv, CheckPhase PROVE RaceInv'
<1>1. /\ runner.pc = "check" /\ results = <<>> /\ Len(results) = 0 /\ runner.next \in Cands
      /\ UNCHANGED <<phase, flagged, future, noted, run, results, canceller, spared, promoted>>
  BY DEF CheckPhase, RaceInv, RunnerTrue, RaceTyped
<1>2. /\ runner' \in [pc : CandidatePcs, next : Cands]
      /\ \/ runner'.pc = "submit" /\ runner'.next = runner.next
         \/ runner'.pc = "check" /\ runner'.next = runner.next + 1
         \/ runner'.pc = "collect" /\ runner'.next = 1 /\ runner.next = Candidates
  BY <1>1, AdvanceRunner DEF CheckPhase, RaceInv, RaceTyped, CandidatePcs
<1>3. RaceTyped' /\ \A i \in Cands : PhaseTrue(i)'
  BY <1>1, <1>2 DEF RaceInv, RaceTyped, PhaseTrue
<1>4. RunnerTrue'
  BY <1>1, <1>2, RaceFacts DEF RaceInv, RunnerTrue
<1>5. ResultsTrue'
  BY <1>1 DEF RaceInv, ResultsTrue
<1> QED
  BY <1>3, <1>4, <1>5 DEF RaceInv

\* A candidate that is submitted is pending.
LEMMA PoolSubmitKept == ASSUME RaceInv, PoolSubmit PROVE RaceInv'
<1>0. PICK n : n = runner.next
  OBVIOUS
<1>1. /\ runner.pc = "submit" /\ results = <<>> /\ Len(results) = 0 /\ n \in Cands
      /\ future[n] = "none" /\ future' = [future EXCEPT ![n] = "pending"]
      /\ UNCHANGED <<phase, flagged, noted, run, results, canceller, spared, promoted>>
  BY <1>0, RaceFacts DEF PoolSubmit, RaceInv, RunnerTrue, RaceTyped
<1>2. runner' \in [pc : CandidatePcs, next : Cands] /\ runner'.pc = "note" /\ runner'.next = n
  BY <1>0 DEF PoolSubmit, RaceInv, RaceTyped, CandidatePcs
<1>3. RaceTyped'
  BY <1>1, <1>2 DEF RaceInv, RaceTyped
<1>4. \A i \in Cands : PhaseTrue(i)'
  BY <1>1 DEF RaceInv, RaceTyped, PhaseTrue
<1>5. RunnerTrue'
  BY <1>0, <1>1, <1>2, RaceFacts DEF RaceInv, RaceTyped, RunnerTrue
<1>6. ResultsTrue'
  BY <1>1, RaceFacts DEF RaceInv, ResultsTrue
<1> QED
  BY <1>3, <1>4, <1>5, <1>6 DEF RaceInv

\* A future that is kept late is still found by the cancellation that came first.
LEMMA NoteFutureKept == ASSUME RaceInv, NoteFuture PROVE RaceInv'
<1>0. PICK n : n = runner.next
  OBVIOUS
<1>1. /\ runner.pc = "note" /\ results = <<>> /\ Len(results) = 0 /\ n \in Cands
      /\ noted' = noted \cup {n} /\ runner' = Advance
      /\ \/ future' = future
         \/ phase[n] = "cancelled" /\ future[n] = "pending" /\ future' = [future EXCEPT ![n] = "cancelled"]
      /\ UNCHANGED <<phase, flagged, run, results, canceller, spared, promoted>>
  BY <1>0 DEF NoteFuture, RaceInv, RunnerTrue, RaceTyped
<1>2. /\ runner' \in [pc : CandidatePcs, next : Cands]
      /\ \/ runner'.pc = "check" /\ runner'.next = n + 1
         \/ runner'.pc = "collect" /\ runner'.next = 1 /\ n = Candidates
  BY <1>0, <1>1, AdvanceRunner DEF RaceInv
<1>3. RaceTyped'
  BY <1>1, <1>2 DEF RaceInv, RaceTyped
<1>4. \A i \in Cands : PhaseTrue(i)'
  BY <1>1 DEF RaceInv, RaceTyped, PhaseTrue
<1>5. RunnerTrue'
  <2>1. \A j \in Cands : j \in noted' \/ future[j] = "none"
    BY <1>0, <1>1 DEF RaceInv, RunnerTrue
  <2>2. \A j \in Cands : j # n => future'[j] = future[j]
    BY <1>1 DEF RaceInv, RaceTyped
  <2>3. \A j \in Cands : j > n => future[j] = "none"
    BY <1>0, <1>1 DEF RaceInv, RunnerTrue
  <2> QED
    BY <1>1, <1>2, <2>1, <2>2, <2>3, RaceFacts DEF RunnerTrue
<1>6. ResultsTrue'
  BY <1>1, RaceFacts DEF RaceInv, ResultsTrue
<1> QED
  BY <1>3, <1>4, <1>5, <1>6 DEF RaceInv

\* Results are appended in input order.
LEMMA CollectKept == ASSUME RaceInv, Collect PROVE RaceInv'
<1>0. PICK n : n = runner.next
  OBVIOUS
<1> DEFINE v == SlotOf(n)
<1>1. /\ runner.pc = "collect" /\ Len(results) = n - 1 /\ n \in Cands
      /\ n \in noted => future[n] \in {"done", "cancelled"}
      /\ results' = Append(results, v) /\ results \in Seq({"none"} \cup Verdicts)
      /\ UNCHANGED <<phase, flagged, future, noted, run, canceller, spared, promoted>>
  BY <1>0 DEF Collect, RaceInv, RunnerTrue, RaceTyped
<1>2. n \notin noted => future[n] = "none"
  BY <1>1 DEF RaceInv, RunnerTrue
<1>3. v \in {"none"} \cup Verdicts /\ (v = "success" <=> run[n].verdict = "success")
  <2>1. run[n].verdict \in {"none"} \cup Verdicts /\ PhaseTrue(n)
    BY <1>1 DEF RaceInv, RaceTyped, CandidateRun
  <2> QED
    BY <1>1, <1>2, <2>1 DEF SlotOf, PhaseTrue, Verdicts, RaceInv, RaceTyped
<1> HIDE DEF v
<1>4. /\ results' \in Seq({"none"} \cup Verdicts) /\ Len(results') = n /\ results'[n] = v
      /\ \A j \in Cands : j <= n - 1 => results'[j] = results[j]
  BY <1>1, <1>3, RaceFacts
<1>5. /\ runner' \in [pc : CandidatePcs, next : Cands]
      /\ \/ runner'.pc = "returned" /\ n = Candidates
         \/ runner'.pc = "collect" /\ runner'.next = n + 1
  BY <1>0, <1>1, RaceFacts DEF Collect, RaceInv, RaceTyped, CandidatePcs
<1>6. RaceTyped' /\ \A i \in Cands : PhaseTrue(i)'
  BY <1>1, <1>4, <1>5 DEF RaceInv, RaceTyped, PhaseTrue
<1>7. RunnerTrue'
  BY <1>1, <1>2, <1>4, <1>5, RaceFacts DEF RaceInv, RunnerTrue
<1>8. ResultsTrue'
  <2>1. promoted' = 0
    BY <1>1 DEF RaceInv, ResultsTrue
  <2>2. \A j \in Cands : j <= n => j = n \/ j <= n - 1
    BY <1>1, RaceFacts
  <2>3. future[n] \in {"none", "cancelled", "done"}
    BY <1>1, <1>2
  <2> QED
    BY <1>1, <1>3, <1>4, <2>1, <2>2, <2>3 DEF RaceInv, ResultsTrue
<1> QED
  BY <1>6, <1>7, <1>8 DEF RaceInv

\* Only a success is promoted.
LEMMA PromoteKept == ASSUME RaceInv, Promote PROVE RaceInv'
<1>1. /\ runner.pc = "returned" /\ runner' = [runner EXCEPT !.pc = "ranked"]
      /\ promoted' \in {0} \cup (IF Successes = {} THEN {} ELSE {Best(Successes)})
      /\ UNCHANGED <<phase, flagged, future, noted, run, results, canceller, spared>>
  BY DEF Promote
<1>2. Len(results) = Candidates /\ Successes \in SUBSET Cands
  BY <1>1, RaceFacts DEF RaceInv, RunnerTrue, Successes
<1>3. promoted' = 0 \/ (promoted' \in Cands /\ results[promoted'] = "success")
  BY <1>1, <1>2, BestIsBest DEF RaceInv, Successes
<1>4. runner' \in [pc : CandidatePcs, next : Cands] /\ runner'.pc = "ranked"
  BY <1>1 DEF RaceInv, RaceTyped, CandidatePcs
<1>5. RaceTyped' /\ \A i \in Cands : PhaseTrue(i)'
  BY <1>1, <1>3, <1>4, RaceFacts DEF RaceInv, RaceTyped, PhaseTrue
<1>6. RunnerTrue'
  BY <1>1, <1>2, <1>4 DEF RaceInv, RunnerTrue
<1>7. ResultsTrue'
  BY <1>1, <1>2, <1>3, <1>4 DEF RaceInv, ResultsTrue
<1> QED
  BY <1>5, <1>6, <1>7 DEF RaceInv

\* A thread of the pool takes a pending future.
LEMMA TakeFutureKept == ASSUME RaceInv, NEW i \in Cands, TakeFuture(i) PROVE RaceInv'
<1>1. /\ future[i] = "pending" /\ future' = [future EXCEPT ![i] = "entered"]
      /\ UNCHANGED <<phase, flagged, noted, run, runner, results, canceller, spared, promoted>>
  BY DEF TakeFuture
<1>2. RaceTyped'
  BY <1>1 DEF RaceInv, RaceTyped
<1>3. \A j \in Cands : PhaseTrue(j)'
  BY <1>1 DEF RaceInv, RaceTyped, PhaseTrue
<1>4. RunnerTrue'
  BY <1>1 DEF RaceInv, RaceTyped, RunnerTrue
<1>5. ResultsTrue'
  BY <1>1 DEF RaceInv, RaceTyped, ResultsTrue
<1> QED
  BY <1>2, <1>3, <1>4, <1>5 DEF RaceInv

\* A candidate that was cancelled does not begin.
LEMMA EnterKept == ASSUME RaceInv, NEW i \in Cands, EnterCandidate(i) PROVE RaceInv'
<1>1. /\ future[i] = "entered" /\ PhaseTrue(i) /\ run[i] \in CandidateRun
      /\ UNCHANGED <<flagged, noted, runner, results, canceller, spared, promoted>>
  BY DEF EnterCandidate, RaceInv, RaceTyped
<1>2. CASE phase[i] = "cancelled"
  <2>1. /\ future' = [future EXCEPT ![i] = "done"] /\ phase' = phase
        /\ run' = [run EXCEPT ![i].verdict = "cancelled"]
    BY <1>2 DEF EnterCandidate
  <2>2. run' \in [Cands -> CandidateRun] /\ run'[i].verdict = "cancelled" /\ run'[i].steps = run[i].steps
    BY <1>1, <2>1 DEF CandidateRun, Verdicts, RaceInv, RaceTyped
  <2>3. RaceTyped'
    BY <1>1, <2>1, <2>2 DEF RaceInv, RaceTyped
  <2>4. ASSUME NEW j \in Cands PROVE PhaseTrue(j)'
    BY <1>1, <1>2, <2>1, <2>2 DEF RaceInv, RaceTyped, PhaseTrue
  <2>5. RunnerTrue'
    BY <1>1, <2>1 DEF RaceInv, RaceTyped, RunnerTrue
  <2>6. ResultsTrue'
    BY <1>1, <2>1 DEF RaceInv, RaceTyped, ResultsTrue
  <2> QED
    BY <2>3, <2>4, <2>5, <2>6 DEF RaceInv
<1>3. CASE phase[i] # "cancelled"
  <2>1. /\ future' = [future EXCEPT ![i] = "working"] /\ run' = run
        /\ phase' = [phase EXCEPT ![i] = "running"]
    BY <1>3 DEF EnterCandidate
  <2>2. phase[i] = "queued"
    BY <1>1, <1>3 DEF RaceInv, RaceTyped, PhaseTrue
  <2>3. RaceTyped'
    BY <1>1, <2>1 DEF RaceInv, RaceTyped
  <2>4. ASSUME NEW j \in Cands PROVE PhaseTrue(j)'
    BY <1>1, <2>1, <2>2 DEF RaceInv, RaceTyped, PhaseTrue
  <2>5. RunnerTrue'
    BY <1>1, <2>1 DEF RaceInv, RaceTyped, RunnerTrue
  <2>6. ResultsTrue'
    BY <1>1, <2>1 DEF RaceInv, RaceTyped, ResultsTrue
  <2> QED
    BY <2>3, <2>4, <2>5, <2>6 DEF RaceInv
<1> QED
  BY <1>2, <1>3

\* A pipeline that works goes a step on, or ends as it ends.
LEMMA RunStepKept == ASSUME RaceInv, NEW i \in Cands, RunCandidateStep(i) PROVE RaceInv'
<1>0. PICK x \in CandidateRun : x = run[i]
  BY DEF RaceInv, RaceTyped
<1>1. /\ future[i] = "working" /\ x.verdict = "none" /\ PhaseTrue(i)
      /\ UNCHANGED <<phase, flagged, future, noted, runner, results, canceller, spared, promoted>>
  BY <1>0 DEF RunCandidateStep, RaceInv
<1>2. PICK y \in CandidateRun :
        /\ run' = [run EXCEPT ![i] = y]
        /\ y.verdict = "success" => y.steps = RaceSteps
        /\ i \in spared => y.steps = 0 /\ y.verdict \in {"cancelled", "failed"}
  <2>0. i \in spared => x.steps = 0 /\ Stops(i)
    BY <1>0, <1>1, RaceFacts DEF PhaseTrue, Stops, RaceInv
  <2>1. CASE \E v \in {"cancelled", "failed"} : run' = [run EXCEPT ![i].verdict = v]
    <3>0. PICK v \in {"cancelled", "failed"} : run' = [run EXCEPT ![i].verdict = v]
      BY <2>1
    <3> DEFINE y == [x EXCEPT !.verdict = v]
    <3>1. y \in CandidateRun /\ y.verdict = v /\ y.steps = x.steps
      BY DEF CandidateRun, Verdicts
    <3> QED
      BY <1>0, <2>0, <3>0, <3>1 DEF RaceInv, RaceTyped
  <2>2. CASE ~Stops(i) /\ x.steps < RaceSteps /\ run' = [run EXCEPT ![i].steps = @ + 1]
    <3> DEFINE y == [x EXCEPT !.steps = x.steps + 1]
    <3>1. y \in CandidateRun /\ y.verdict = "none"
      BY <1>1, <2>2, RaceFacts DEF CandidateRun
    <3> QED
      BY <1>0, <2>0, <2>2, <3>1 DEF RaceInv, RaceTyped
  <2>3. CASE ~Stops(i) /\ run' = [run EXCEPT ![i].verdict = "paused"]
    <3> DEFINE y == [x EXCEPT !.verdict = "paused"]
    <3>1. y \in CandidateRun /\ y.verdict = "paused"
      BY DEF CandidateRun, Verdicts
    <3> QED
      BY <1>0, <2>0, <2>3, <3>1 DEF RaceInv, RaceTyped
  <2>4. CASE \E s \in Scores : /\ x.steps = RaceSteps
                               /\ run' = [run EXCEPT ![i].verdict = "success", ![i].score = s]
    <3>0. PICK w \in Scores : /\ x.steps = RaceSteps
                              /\ run' = [run EXCEPT ![i].verdict = "success", ![i].score = w]
      BY <2>4
    <3> DEFINE y == [x EXCEPT !.verdict = "success", !.score = w]
    <3>1. y \in CandidateRun /\ y.steps = RaceSteps
      BY <3>0 DEF CandidateRun, Verdicts
    <3>2. run' = [run EXCEPT ![i] = y]
      BY <1>0, <3>0 DEF RaceInv, RaceTyped, CandidateRun
    <3>3. i \notin spared
      BY <2>0, <3>0, RaceFacts
    <3> QED
      BY <3>1, <3>2, <3>3
  <2> QED
    BY <1>0, <2>1, <2>2, <2>3, <2>4 DEF RunCandidateStep
<1>3. RaceTyped'
  BY <1>1, <1>2 DEF RaceInv, RaceTyped
<1>4. phase[i] = "running"
  BY <1>1 DEF PhaseTrue, RaceInv, RaceTyped
<1>5. ASSUME NEW j \in Cands PROVE PhaseTrue(j)'
  <2>1. CASE j = i
    <3>1. run'[i] = y /\ phase[i] = "running"
      BY <1>1, <1>2, <1>4 DEF RaceInv, RaceTyped, PhaseTrue
    <3> QED
      BY <1>1, <1>2, <1>4, <2>1, <3>1 DEF PhaseTrue
  <2>2. CASE j # i
    <3>1. run'[j] = run[j] /\ PhaseTrue(j)
      BY <1>2, <2>2 DEF RaceInv, RaceTyped
    <3> QED
      BY <1>1, <3>1 DEF PhaseTrue
  <2> QED
    BY <2>1, <2>2
<1>6. RunnerTrue'
  BY <1>1 DEF RaceInv, RunnerTrue
<1>7. ResultsTrue'
  <2>1. \A j \in Cands : j # i => run'[j] = run[j]
    BY <1>2 DEF RaceInv, RaceTyped
  <2> QED
    BY <1>1, <2>1 DEF RaceInv, ResultsTrue
<1> QED
  BY <1>3, <1>5, <1>6, <1>7 DEF RaceInv

\* A candidate that has ended stays as it ended.
LEMMA LeaveKept == ASSUME RaceInv, NEW i \in Cands, LeaveCandidate(i) PROVE RaceInv'
<1>1. /\ future[i] = "working" /\ run[i].verdict # "none" /\ PhaseTrue(i)
      /\ phase' = [phase EXCEPT ![i] = "done"] /\ future' = [future EXCEPT ![i] = "done"]
      /\ UNCHANGED <<flagged, noted, run, runner, results, canceller, spared, promoted>>
  BY DEF LeaveCandidate, RaceInv
<1>2. phase[i] = "running"
  BY <1>1 DEF PhaseTrue, RaceInv, RaceTyped
<1>3. RaceTyped'
  BY <1>1 DEF RaceInv, RaceTyped
<1>4. ASSUME NEW j \in Cands PROVE PhaseTrue(j)'
  BY <1>1, <1>2 DEF RaceInv, RaceTyped, PhaseTrue
<1>5. RunnerTrue'
  BY <1>1 DEF RaceInv, RaceTyped, RunnerTrue
<1>6. ResultsTrue'
  BY <1>1 DEF RaceInv, RaceTyped, ResultsTrue
<1> QED
  BY <1>3, <1>4, <1>5, <1>6 DEF RaceInv

\* What cancel() saw is a record of it.
LEMMA LookRecord ==
  ASSUME NEW i \in Cands, NEW q \in BOOLEAN, NEW n \in BOOLEAN
  PROVE  [pc |-> "looked", of |-> i, queued |-> q, noted |-> n] \in CancelRec
  BY Zenon DEF CancelRec

\* It looks, and changes nothing.
LEMMA CancelLookKept ==
  ASSUME RaceInv, NEW c \in Cancellers, NEW i \in Cands, CancelLook(c, i) PROVE RaceInv'
<1>0. (phase[i] = "queued") \in BOOLEAN /\ (i \in noted) \in BOOLEAN
  OBVIOUS
<1> DEFINE y == [pc |-> "looked", of |-> i, queued |-> phase[i] = "queued",
                 noted |-> i \in noted]
<1>1. y \in CancelRec
  BY <1>0, LookRecord, Zenon
<1>2. /\ canceller' = [canceller EXCEPT ![c] = y]
      /\ UNCHANGED <<phase, flagged, future, noted, run, runner, results, spared, promoted>>
  BY DEF CancelLook
<1> HIDE DEF y
<1>3. canceller' \in [Cancellers -> CancelRec]
  BY <1>1, <1>2 DEF RaceInv, RaceTyped
<1> QED
  BY <1>2, <1>3 DEF RaceInv, RaceTyped, PhaseTrue, RunnerTrue, ResultsTrue

\* It goes on, and what it saw stays.
LEMMA CancelEdits ==
  ASSUME NEW x \in CancelRec, NEW p \in {"idle", "looked", "dropped"}
  PROVE  [x EXCEPT !.pc = p] \in CancelRec
  BY DEF CancelRec

\* The flag is set; a future that was queued is cancelled in the pool.
LEMMA CancelActKept == ASSUME RaceInv, NEW c \in Cancellers, CancelAct(c) PROVE RaceInv'
<1>0. PICK n \in Cands, x \in CancelRec : n = canceller[c].of /\ x = canceller[c]
  BY DEF RaceInv, RaceTyped, CancelRec
<1>1. /\ flagged' = flagged \cup {n}
      /\ UNCHANGED <<phase, noted, run, runner, results, promoted>>
  BY <1>0 DEF CancelAct
<1>2. \/ future' = future
      \/ future[n] \in {"pending", "cancelled"} /\ future' = [future EXCEPT ![n] = "cancelled"]
  BY <1>0, Zenon DEF CancelAct
<1>3. \E p \in {"idle", "looked", "dropped"} : canceller' = [canceller EXCEPT ![c] = [x EXCEPT !.pc = p]]
  BY <1>0, Zenon DEF CancelAct
<1>4. canceller' \in [Cancellers -> CancelRec]
  BY <1>3, CancelEdits DEF RaceInv, RaceTyped
<1>9. spared' = spared \/ (~Begun(n) /\ spared' = spared \cup {n})
  BY <1>0, Zenon DEF CancelAct
<1>5. RaceTyped'
  BY <1>1, <1>2, <1>4, <1>9 DEF RaceInv, RaceTyped
<1>6. ASSUME NEW j \in Cands PROVE PhaseTrue(j)'
  <2>1. ~Begun(n) => run[n].steps = 0 /\ run[n].verdict = "none"
    BY DEF RaceInv, RaceTyped, PhaseTrue, Begun
  <2>2. PhaseTrue(j) /\ (j # n => future'[j] = future[j])
    BY <1>2 DEF RaceInv, RaceTyped
  <2>3. future'[n] = future[n] \/ (future[n] \in {"pending", "cancelled"} /\ future'[n] = "cancelled")
    BY <1>2 DEF RaceInv, RaceTyped
  <2> QED
    BY <1>1, <1>9, <2>1, <2>2, <2>3 DEF PhaseTrue
<1>7. RunnerTrue'
  <2>1. future[n] # "none" \/ future' = future
    BY <1>2
  <2> QED
    BY <1>1, <1>2, <2>1 DEF RaceInv, RaceTyped, RunnerTrue
<1>8. ResultsTrue'
  BY <1>1, <1>2 DEF RaceInv, RaceTyped, ResultsTrue
<1> QED
  BY <1>5, <1>6, <1>7, <1>8 DEF RaceInv

\* The phase follows, and a candidate that had not begun takes no step.
LEMMA CancelMarkKept ==
  ASSUME RaceInv, CancelTrue, NEW c \in Cancellers, CancelMark(c) PROVE RaceInv'
<1>0. PICK n \in Cands, x \in CancelRec : n = canceller[c].of /\ x = canceller[c]
  BY DEF RaceInv, RaceTyped, CancelRec
<1>1. /\ phase' = IF phase[n] = "queued" THEN [phase EXCEPT ![n] = "cancelled"] ELSE phase
      /\ spared' = IF Begun(n) THEN spared ELSE spared \cup {n}
      /\ canceller' = [canceller EXCEPT ![c] = [x EXCEPT !.pc = "idle"]]
      /\ UNCHANGED <<flagged, future, noted, run, runner, results, promoted>> /\ n \in flagged
  BY <1>0 DEF CancelMark, CancelTrue
<1>2. canceller' \in [Cancellers -> CancelRec]
  BY <1>1, CancelEdits DEF RaceInv, RaceTyped
<1>3. RaceTyped'
  BY <1>1, <1>2 DEF RaceInv, RaceTyped
<1>4. ASSUME NEW j \in Cands PROVE PhaseTrue(j)'
  <2>1. CASE j # n
    BY <1>1, <2>1 DEF RaceInv, RaceTyped, PhaseTrue
  <2>2. CASE j = n
    <3>1. phase[n] \in {"queued", "cancelled", "running", "done"} /\ PhaseTrue(n)
      BY DEF RaceInv, RaceTyped
    <3>2. ~Begun(n) => run[n].steps = 0 /\ run[n].verdict = "none"
      BY <3>1 DEF PhaseTrue, Begun
    <3>3. phase'[n] = IF phase[n] = "queued" THEN "cancelled" ELSE phase[n]
      BY <1>1 DEF RaceInv, RaceTyped
    <3> QED
      BY <1>1, <2>2, <3>1, <3>2, <3>3 DEF PhaseTrue
  <2> QED
    BY <2>1, <2>2
<1>5. RunnerTrue' /\ ResultsTrue'
  BY <1>1 DEF RaceInv, RunnerTrue, ResultsTrue
<1> QED
  BY <1>3, <1>4, <1>5 DEF RaceInv

\* A cancel() drops a candidate only after it has set the flag.
LEMMA CancelsKept == RaceInv /\ CancelTrue /\ [RaceNext]_rvars => CancelTrue'
<1> SUFFICES ASSUME RaceInv, CancelTrue, [RaceNext]_rvars PROVE CancelTrue'
  OBVIOUS
<1>1. canceller \in [Cancellers -> CancelRec]
  BY DEF RaceInv, RaceTyped
<1>2. CASE RaceStep \/ UNCHANGED rvars
  <2>1. UNCHANGED <<flagged, canceller>>
    BY <1>2 DEF RaceStep, rvars, CheckPhase, PoolSubmit, NoteFuture, Collect, Promote,
       TakeFuture, EnterCandidate, RunCandidateStep, LeaveCandidate
  <2> QED
    BY <2>1 DEF CancelTrue
<1>3. ASSUME NEW c \in Cancellers, NEW i \in Cands, CancelLook(c, i) PROVE CancelTrue'
  BY <1>1, <1>3 DEF CancelTrue, CancelLook
<1>4. ASSUME NEW c \in Cancellers, CancelAct(c) PROVE CancelTrue'
  <2>1. /\ flagged' = flagged \cup {canceller[c].of}
        /\ \A d \in Cancellers : canceller'[d].of = canceller[d].of
                                   /\ (d # c => canceller'[d].pc = canceller[d].pc)
    BY <1>1, <1>4 DEF CancelAct, CancelRec
  <2> QED
    BY <2>1 DEF CancelTrue
<1>5. ASSUME NEW c \in Cancellers, CancelMark(c) PROVE CancelTrue'
  BY <1>1, <1>5 DEF CancelTrue, CancelMark, CancelRec
<1> QED
  BY <1>2, <1>3, <1>4, <1>5 DEF RaceNext

\* A candidate whose cancel() returned before it began takes no step, and the results
\* are what the candidates came to, for any candidates, pool, scores and cancelling threads.
THEOREM RaceKeepsResults == RaceSpec => []RaceSound
<1>1. RaceInit => RaceInv /\ CancelTrue
  <2> SUFFICES ASSUME RaceInit PROVE RaceInv /\ CancelTrue
    OBVIOUS
  <2>1. \A c \in Cancellers : canceller[c] \in CancelRec
    <3>1. 1 \in Cands
      BY RaceFacts
    <3>2. [pc |-> "idle", of |-> 1, queued |-> FALSE, noted |-> FALSE] \in CancelRec
      BY <3>1, Zenon DEF CancelRec
    <3> QED
      BY <3>2 DEF RaceInit
  <2>2. canceller \in [Cancellers -> CancelRec]
    BY <2>1 DEF RaceInit
  <2>3. RaceTyped
    BY <2>2, RaceFacts DEF RaceInit, RaceTyped, CandidateRun, CandidatePcs
  <2>4. \A i \in Cands : PhaseTrue(i)
    BY RaceFacts DEF RaceInit, PhaseTrue
  <2>5. RunnerTrue /\ ResultsTrue
    BY RaceFacts DEF RaceInit, RunnerTrue, ResultsTrue
  <2> QED
    BY <2>3, <2>4, <2>5 DEF RaceInv, RaceInit, CancelTrue
<1>2. RaceInv /\ CancelTrue /\ [RaceNext]_rvars => RaceInv' /\ CancelTrue'
  <2> SUFFICES ASSUME RaceInv, CancelTrue, [RaceNext]_rvars PROVE RaceInv'
    BY CancelsKept
  <2>1. CASE UNCHANGED rvars
    BY <2>1 DEF rvars, RaceInv, RaceTyped, PhaseTrue, RunnerTrue, ResultsTrue
  <2> QED
    BY <2>1, CheckPhaseKept, PoolSubmitKept, NoteFutureKept, CollectKept, PromoteKept,
       TakeFutureKept, EnterKept, RunStepKept, LeaveKept, CancelLookKept, CancelActKept,
       CancelMarkKept DEF RaceNext, RaceStep
<1>3. RaceInv => RaceSound
  <2> SUFFICES ASSUME RaceInv PROVE RaceSound
    OBVIOUS
  <2>1. RaceTypeOK
    <3>1. Len(results) <= Candidates
      BY RaceFacts DEF RaceInv, RaceTyped, RunnerTrue, CandidatePcs
    <3>2. canceller \in [Cancellers -> [pc : {"idle", "looked", "dropped"}, of : Cands,
                                        queued : BOOLEAN, noted : BOOLEAN]]
      BY DEF RaceInv, RaceTyped, CancelRec
    <3> QED
      BY <3>1, <3>2, RaceFacts, SMTT(20) DEF RaceInv, RaceTyped, CandidateRun, CandidatePcs, RaceTypeOK
  <2>2. CancelBeforeStart
    BY DEF RaceInv, RaceTyped, PhaseTrue, CancelBeforeStart
  <2>3. SlotsAreTrue
    <3> SUFFICES ASSUME runner.pc \in {"returned", "ranked"} PROVE SlotsAreTrue!2
      BY DEF SlotsAreTrue
    <3>1. Len(results) = Candidates /\ \A i \in Cands : i <= Len(results)
      BY RaceFacts DEF RaceInv, RunnerTrue
    <3>2. \A i \in Cands : results[i] = "success" <=> run[i].verdict = "success"
      BY <3>1 DEF RaceInv, ResultsTrue
    <3>3. Successes \in SUBSET Cands
      BY <3>1, RaceFacts DEF Successes
    <3>4. ASSUME NEW i \in Cands, run[i].verdict = "success"
          PROVE  run[Best(Successes)].score >= run[i].score
      <4>1. i \in Successes
        BY <3>1, <3>2, <3>4, RaceFacts DEF Successes
      <4> QED
        BY <3>3, <4>1, BestIsBest DEF RaceInv
    <3>5. promoted # 0 => promoted \in Cands /\ run[promoted].verdict = "success"
      BY <3>2, RaceFacts DEF RaceInv, RaceTyped, ResultsTrue
    <3>6. promoted # 0 => promoted \notin spared
      BY <3>5, RaceFacts DEF RaceInv, PhaseTrue
    <3> QED
      BY <3>2, <3>4, <3>5, <3>6 DEF RaceInv, PhaseTrue
  <2> QED
    BY <2>1, <2>2, <2>3 DEF RaceSound
<1> QED
  BY <1>1, <1>2, <1>3, PTL DEF RaceSpec

-----------------------------------------------------------------------------
\* Tenants get their rate, and the tasks are bounded, however requests overlap

AcquirePcs == {"idle", "limit", "clock", "lock", "admit", "submit"}
HandlerRec == [pc : AcquirePcs, req : Requests, bucket : Int, now : Int]
Tenants == {TenantOf(r) : r \in Requests}
BucketRec == [tenant : Tenants, tokens : Int, last : Int, born : Int, granted : Int]

\* the earliest clock a thread may still use on a bucket
Earliest(h, i) ==
  IF handler[h].pc = "lock" /\ handler[h].bucket = i THEN handler[h].now ELSE tick

\* the ticks of a bucket's life that each thread cannot go back to any more
Passed(i) ==
  {p \in Handlers \X (0..LastTick) : buckets[i].born <= p[2] /\ p[2] < Earliest(p[1], i)}

\* what a bucket has given out and still holds
Given(i) == buckets[i].granted * Cost + buckets[i].tokens

\* a tick is refilled once for each thread that is past it, but for the last time
\* when the bucket's own clock is behind that thread
RateKept(i) ==
  /\ Given(i) <= Capacity + Refill * Cardinality(Passed(i))
  /\ \A h \in Handlers : Earliest(h, i) > buckets[i].last =>
       Given(i) + Refill * (Earliest(h, i) - buckets[i].last)
         <= Capacity + Refill * Cardinality(Passed(i))

AdmissionTyped ==
  /\ tick \in 0..LastTick /\ active \in Nat /\ draining \in BOOLEAN
  /\ buckets \in Seq(BucketRec) /\ lru \in Seq(1..Len(buckets)) /\ Len(lru) <= MaxBuckets
  /\ handler \in [Handlers -> HandlerRec]
  /\ \A i \in 1..Len(buckets) :
       /\ 0 <= buckets[i].tokens /\ buckets[i].tokens <= Capacity /\ buckets[i].granted >= 0
       /\ 0 <= buckets[i].born /\ buckets[i].born <= buckets[i].last /\ buckets[i].last <= tick
  /\ \A h \in Handlers :
       /\ handler[h].pc \in {"clock", "lock"} => handler[h].bucket \in 1..Len(buckets)
       /\ handler[h].pc = "lock" => /\ buckets[handler[h].bucket].born <= handler[h].now
                                    /\ handler[h].now <= tick

AdmissionInv ==
  AdmissionTyped /\ (\A i \in 1..Len(buckets) : RateKept(i)) /\ OvershootBounded

\* The largest request is one that may be sent.
LEMMA LargestFacts ==
  /\ Largest \in Sizes /\ Largest \in Nat \ {0} /\ \A m \in Sizes : m <= Largest
  /\ Requests # {} /\ \A r \in Requests : r.size \in Sizes /\ TenantOf(r) \in Tenants
  BY AdmissionAssumption DEF Largest, Sizes, Tenants

\* A thread that waits holds no clock.
LEMMA WaitingFacts == Waiting \in HandlerRec /\ Waiting.pc = "idle"
<1>1. (CHOOSE r \in Requests : TRUE) \in Requests
  BY LargestFacts
<1> QED
  BY <1>1 DEF Waiting, HandlerRec, AcquirePcs

\* Counting is in natural numbers.
LEMMA AdmissionFacts ==
  /\ Cardinality(Handlers) \in Nat /\ IsFiniteSet(Handlers) /\ LastTick \in Nat
  /\ {TaskLimit, Capacity, Refill, Cost, MaxBuckets, MaxMade} \subseteq Nat \ {0}
  BY AdmissionAssumption, FS_CardinalityType

\* No more ticks are passed than there are, now and after a step.
LEMMA PassedFinite ==
  ASSUME NEW i
  PROVE  /\ IsFiniteSet(Passed(i)) /\ Cardinality(Passed(i)) \in Nat
         /\ IsFiniteSet(Passed(i)') /\ Cardinality(Passed(i)') \in Nat
<1>0. 0 \in Int /\ LastTick \in Int /\ IsFiniteSet(Handlers)
  BY AdmissionFacts
<1>1. IsFiniteSet(0..LastTick) /\ IsFiniteSet(Handlers)
  BY ONLY <1>0, FS_Interval
<1>2. IsFiniteSet(Handlers \X (0..LastTick))
  BY <1>1, FS_Product
<1>3. Passed(i) \in SUBSET (Handlers \X (0..LastTick)) /\ Passed(i)' \in SUBSET (Handlers \X (0..LastTick))
  BY DEF Passed
<1> QED
  BY <1>2, <1>3, FS_Subset, FS_CardinalityType

\* What a bucket gave out is counted in whole numbers.
LEMMA GivenInt ==
  ASSUME AdmissionTyped, NEW i \in 1..Len(buckets)
  PROVE  /\ Given(i) \in Int /\ buckets[i] \in BucketRec /\ buckets[i].tokens \in Nat
         /\ buckets[i].last \in Nat /\ buckets[i].granted \in Nat /\ buckets[i].born \in Nat
         /\ \A h \in Handlers : Earliest(h, i) \in buckets[i].born..tick
<1>1. /\ buckets[i] \in BucketRec /\ buckets[i].tokens \in Nat /\ buckets[i].granted \in Nat
      /\ buckets[i].last \in Nat /\ buckets[i].born \in Nat /\ tick \in Nat
      /\ buckets[i].born <= tick
  <2>1. buckets[i] \in BucketRec /\ tick \in Nat
    BY AdmissionFacts DEF AdmissionTyped
  <2>2. /\ buckets[i].tokens \in Int /\ buckets[i].granted \in Int
        /\ buckets[i].last \in Int /\ buckets[i].born \in Int
    BY <2>1 DEF BucketRec
  <2>3. /\ 0 <= buckets[i].tokens /\ buckets[i].granted >= 0
        /\ 0 <= buckets[i].born /\ buckets[i].born <= buckets[i].last /\ buckets[i].last <= tick
    BY DEF AdmissionTyped
  <2> QED
    BY <2>1, <2>2, <2>3
<1>2. Given(i) \in Int
  BY <1>1, AdmissionFacts, SMTT(20) DEF Given
<1>3. ASSUME NEW h \in Handlers PROVE Earliest(h, i) \in buckets[i].born..tick
  <2>1. handler[h] \in HandlerRec
    BY DEF AdmissionTyped
  <2> QED
    BY <1>1, <2>1 DEF AdmissionTyped, Earliest, HandlerRec
<1> QED
  BY <1>1, <1>2, <1>3

\* A step that touches neither a bucket nor a clock that may be used on it keeps its rate.
LEMMA RateUntouched ==
  ASSUME AdmissionInv, NEW i \in 1..Len(buckets), buckets'[i] = buckets[i],
         \A h \in Handlers : Earliest(h, i)' = Earliest(h, i)
  PROVE  RateKept(i)'
<1>1. Passed(i)' = Passed(i)
  BY DEF Passed
<1>2. RateKept(i)
  BY DEF AdmissionInv
<1> QED
  BY <1>1, <1>2 DEF RateKept, Given

\* A thread that holds no clock before and after a step uses none.
LEMMA NoClock ==
  ASSUME AdmissionInv, NEW h \in Handlers, NEW y, y.pc # "lock", handler[h].pc # "lock",
         handler' = [handler EXCEPT ![h] = y], tick' = tick
  PROVE  \A i : \A g \in Handlers : Earliest(g, i)' = Earliest(g, i)
<1> TAKE i
<1> TAKE g \in Handlers
<1>1. handler'[g] = IF g = h THEN y ELSE handler[g]
  BY DEF AdmissionInv, AdmissionTyped
<1> QED
  BY <1>1 DEF Earliest

\* The threads that are about to submit change with the thread that steps.
LEMMA SubmittingStep ==
  ASSUME AdmissionInv, NEW h \in Handlers, NEW y, handler' = [handler EXCEPT ![h] = y]
  PROVE  /\ IsFiniteSet(Submitting) /\ Cardinality(Submitting) \in 0..Cardinality(Handlers)
         /\ IsFiniteSet(Submitting') /\ Cardinality(Submitting') \in 0..Cardinality(Handlers)
         /\ (y.pc = "submit" <=> handler[h].pc = "submit") => Submitting' = Submitting
         /\ y.pc # "submit" /\ handler[h].pc = "submit" =>
              Cardinality(Submitting') = Cardinality(Submitting) - 1
<1>1. Submitting \in SUBSET Handlers /\ Submitting' \in SUBSET Handlers
  BY DEF Submitting
<1>2. /\ IsFiniteSet(Submitting) /\ Cardinality(Submitting) \in 0..Cardinality(Handlers)
      /\ IsFiniteSet(Submitting') /\ Cardinality(Submitting') \in 0..Cardinality(Handlers)
  BY <1>1, AdmissionFacts, FS_Subset, FS_CardinalityType
<1>3. \A g \in Handlers : handler'[g] = IF g = h THEN y ELSE handler[g]
  BY DEF AdmissionInv, AdmissionTyped
<1>4. (y.pc = "submit" <=> handler[h].pc = "submit") => Submitting' = Submitting
  BY <1>3 DEF Submitting
<1>5. ASSUME y.pc # "submit", handler[h].pc = "submit"
      PROVE  Cardinality(Submitting') = Cardinality(Submitting) - 1
  <2>1. Submitting' = Submitting \ {h} /\ h \in Submitting
    BY <1>3, <1>5 DEF Submitting
  <2> QED
    BY <1>2, <2>1, FS_RemoveElement
<1> QED
  BY <1>2, <1>4, <1>5

\* A thread's step that leaves the buckets, the clock and the tasks alone.
LEMMA ThreadStep ==
  ASSUME AdmissionInv, NEW h \in Handlers, NEW y \in HandlerRec, y.pc # "lock",
         handler[h].pc # "lock", handler' = [handler EXCEPT ![h] = y],
         y.pc = "clock" => y.bucket \in 1..Len(buckets),
         y.pc = "submit" => handler[h].pc = "submit" \/ active < TaskLimit,
         handler[h].pc = "submit" => y.pc = "submit",
         lru' \in Seq(1..Len(buckets)), Len(lru') <= MaxBuckets,
         UNCHANGED <<tick, buckets, active, draining>>
  PROVE  AdmissionInv'
<1>1. \A g \in Handlers : handler'[g] = IF g = h THEN y ELSE handler[g]
  BY DEF AdmissionInv, AdmissionTyped
<1>2. AdmissionTyped'
  <2>1. handler' \in [Handlers -> HandlerRec]
    BY DEF AdmissionInv, AdmissionTyped
  <2> QED
    BY <1>1, <2>1 DEF AdmissionInv, AdmissionTyped
<1>3. \A i \in 1..Len(buckets') : RateKept(i)'
  BY NoClock, RateUntouched
<1>4. OvershootBounded'
  <2>1. CASE Submitting' = Submitting
    BY <2>1 DEF AdmissionInv, OvershootBounded
  <2>2. CASE Submitting' # Submitting
    <3>1. active < TaskLimit
      BY <2>2, SubmittingStep
    <3>a. Cardinality(Submitting') \in 0..Cardinality(Handlers)
      BY SubmittingStep
    <3>2. PICK n \in Nat, k \in Nat :
             n = Cardinality(Handlers) /\ k = Cardinality(Submitting') /\ k <= n
      BY <3>a, AdmissionFacts
    <3>3. k * Largest <= n * Largest
      BY <3>2, LargestFacts
    <3> QED
      BY <3>1, <3>2, <3>3, LargestFacts, AdmissionFacts, SMTT(20)
         DEF AdmissionInv, AdmissionTyped, OvershootBounded
  <2> QED
    BY <2>1, <2>2
<1> QED
  BY <1>2, <1>3, <1>4 DEF AdmissionInv

\* A request that is let in is looked at first.
LEMMA ArriveKept ==
  ASSUME AdmissionInv, NEW h \in Handlers, NEW r \in Requests, Arrive(h, r) PROVE AdmissionInv'
<1>0. PICK x \in HandlerRec : x = handler[h]
  BY DEF AdmissionInv, AdmissionTyped
<1> DEFINE y == [x EXCEPT !.pc = "limit", !.req = r]
<1>1. y \in HandlerRec /\ y.pc = "limit"
  BY DEF HandlerRec, AcquirePcs
<1>2. /\ handler' = [handler EXCEPT ![h] = y] /\ handler[h].pc = "idle"
      /\ UNCHANGED <<tick, buckets, lru, active, draining>>
  BY <1>0 DEF Arrive, AdmissionInv, AdmissionTyped, HandlerRec
<1> HIDE DEF y
<1> QED
  BY <1>1, <1>2, ThreadStep DEF AdmissionInv, AdmissionTyped

\* A request that fits leaves room for the others that passed the check.
LEMMA AdmitKept == ASSUME AdmissionInv, NEW h \in Handlers, Admit(h) PROVE AdmissionInv'
<1>0. PICK x \in HandlerRec : x = handler[h]
  BY DEF AdmissionInv, AdmissionTyped
<1>1. handler[h].pc = "admit" /\ UNCHANGED <<tick, buckets, lru, active, draining>>
  BY DEF Admit
<1>2. CASE Fits(x.req.size) /\ handler' = [handler EXCEPT ![h].pc = "submit"]
  <2> DEFINE y == [x EXCEPT !.pc = "submit"]
  <2>1. y \in HandlerRec /\ y.pc = "submit"
    BY DEF HandlerRec, AcquirePcs
  <2>2. handler' = [handler EXCEPT ![h] = y]
    BY <1>0, <1>2
  <2>3. x.req.size \in Nat \ {0}
    BY LargestFacts, AdmissionAssumption DEF HandlerRec
  <2>4. active < TaskLimit
    BY <1>2, <2>3, AdmissionFacts DEF Fits, AdmissionInv, AdmissionTyped
  <2> HIDE DEF y
  <2> QED
    BY <1>1, <2>1, <2>2, <2>4, ThreadStep DEF AdmissionInv, AdmissionTyped
<1>3. CASE handler' = [handler EXCEPT ![h] = Waiting]
  BY <1>1, <1>3, WaitingFacts, ThreadStep DEF AdmissionInv, AdmissionTyped
<1> QED
  BY <1>0, <1>2, <1>3 DEF Admit, HandlerDone

\* The check's answer is used when the tasks may be more; a submission uses it up.
LEMMA SubmitKept == ASSUME AdmissionInv, NEW h \in Handlers, Submit(h) PROVE AdmissionInv'
<1>0. PICK x \in HandlerRec : x = handler[h]
  BY DEF AdmissionInv, AdmissionTyped
<1>1. /\ x.pc = "submit" /\ handler' = [handler EXCEPT ![h] = Waiting]
      /\ active' = active + x.req.size /\ UNCHANGED <<tick, buckets, lru, draining>>
  BY <1>0 DEF Submit, HandlerDone
<1>2. x.req.size \in Nat \ {0} /\ x.req.size <= Largest
  BY LargestFacts, AdmissionAssumption DEF HandlerRec
<1>3. \A g \in Handlers : handler'[g] = IF g = h THEN Waiting ELSE handler[g]
  BY <1>1 DEF AdmissionInv, AdmissionTyped
<1>4. AdmissionTyped'
  <2>1. handler' \in [Handlers -> HandlerRec] /\ active' \in Nat
    BY <1>1, <1>2, WaitingFacts DEF AdmissionInv, AdmissionTyped
  <2> QED
    BY <1>1, <1>3, <2>1, WaitingFacts DEF AdmissionInv, AdmissionTyped
<1>5. \A i \in 1..Len(buckets') : RateKept(i)'
  <2>1. \A i : \A g \in Handlers : Earliest(g, i)' = Earliest(g, i)
    BY <1>0, <1>1, WaitingFacts, NoClock
  <2> QED
    BY <1>1, <2>1, RateUntouched
<1>6. OvershootBounded'
  <2>1. Cardinality(Submitting') = Cardinality(Submitting) - 1 /\ Cardinality(Submitting) \in Nat
    <3>1. Cardinality(Submitting) \in 0..Cardinality(Handlers) /\ Waiting.pc # "submit"
      BY <1>1, WaitingFacts, SubmittingStep
    <3>2. Cardinality(Submitting') = Cardinality(Submitting) - 1
      BY <1>0, <1>1, <3>1, SubmittingStep
    <3> QED
      BY <3>1, <3>2, AdmissionFacts
  <2>2. PICK k \in Nat : k = Cardinality(Submitting)
    BY <2>1
  <2>3. PICK n \in Nat : n = Cardinality(Handlers)
    BY AdmissionFacts
  <2>4. (k - 1) * Largest = k * Largest - Largest /\ k * Largest \in Int /\ n * Largest \in Int
    BY LargestFacts
  <2>5. active + k * Largest < TaskLimit + n * Largest
    BY <2>2, <2>3 DEF AdmissionInv, OvershootBounded
  <2>6. active \in Nat /\ TaskLimit \in Nat /\ Largest \in Nat
    BY AdmissionFacts, LargestFacts DEF AdmissionInv, AdmissionTyped
  <2>7. active + x.req.size + (k - 1) * Largest < TaskLimit + n * Largest
    BY <1>2, <2>4, <2>5, <2>6
  <2> QED
    BY <1>1, <2>1, <2>2, <2>3, <2>7 DEF OvershootBounded
<1> QED
  BY <1>4, <1>5, <1>6 DEF AdmissionInv

\* A thread that has found a bucket goes on with it.
LEMMA FoundEdits ==
  ASSUME NEW x \in HandlerRec, NEW k \in Int
  PROVE  /\ [x EXCEPT !.pc = "clock", !.bucket = k] \in HandlerRec
         /\ [x EXCEPT !.pc = "clock", !.bucket = k].pc = "clock"
         /\ [x EXCEPT !.pc = "clock", !.bucket = k].bucket = k
<1>1. "clock" \in AcquirePcs
  BY DEF AcquirePcs
<1> QED
  BY <1>1 DEF HandlerRec

\* What is left of a list without one of its members is shorter by one.
LEMMA DroppedFacts ==
  ASSUME NEW B, NEW s \in Seq(B), NEW i \in 1..Len(s)
  PROVE  Dropped(s, i) \in Seq(B) /\ Len(Dropped(s, i)) = Len(s) - 1
<1>1. PICK n \in Nat : n = Len(s)
  OBVIOUS
<1>2. i \in Int /\ 1 <= i /\ i <= n /\ i - 1 \in Int /\ i + 1 \in Int /\ 1 \in Int /\ n \in Int
  BY <1>1
<1>3. \A k \in 1..n : s[k] \in B
  BY <1>1
<1>4. /\ \A k \in 1..(i - 1) : s[k] \in B
      /\ \A k \in (i + 1)..n : s[k] \in B
  BY <1>2, <1>3
<1>5. SubSeq(s, 1, i - 1) \in Seq(B) /\ Len(SubSeq(s, 1, i - 1)) = i - 1
  BY <1>2, <1>4, SubSeqProperties
<1>6. SubSeq(s, i + 1, n) \in Seq(B) /\ Len(SubSeq(s, i + 1, n)) = n - i
  <2>1. /\ SubSeq(s, i + 1, n) \in Seq(B)
        /\ Len(SubSeq(s, i + 1, n)) = IF i + 1 <= n THEN n - (i + 1) + 1 ELSE 0
    BY <1>2, <1>4, SubSeqProperties
  <2> QED
    BY <1>2, <2>1
<1>7. /\ Dropped(s, i) \in Seq(B)
      /\ Len(Dropped(s, i)) = Len(SubSeq(s, 1, i - 1)) + Len(SubSeq(s, i + 1, n))
  BY <1>1, <1>5, <1>6, ConcatProperties DEF Dropped
<1>8. (i - 1) + (n - i) = n - 1
  BY <1>2
<1>9. Len(Dropped(s, i)) = n - 1
  BY <1>5, <1>6, <1>7, <1>8
<1> QED
  BY <1>1, <1>7, <1>9

\* A thread that finds its tenant's bucket makes it the last used one.
LEMMA TrackedKept ==
  ASSUME AdmissionInv, NEW h \in Handlers, NEW i \in 1..Len(lru), handler[h].pc = "limit",
         lru' = Append(Dropped(lru, i), lru[i]),
         handler' = [handler EXCEPT ![h].pc = "clock", ![h].bucket = lru[i]],
         UNCHANGED <<tick, buckets, active, draining>>
  PROVE  AdmissionInv'
<1>0. PICK x \in HandlerRec, n \in Nat, k \in Int : x = handler[h] /\ n = Len(buckets) /\ k = lru[i]
  <2>1. handler[h] \in HandlerRec
    BY DEF AdmissionInv, AdmissionTyped
  <2>2. Len(buckets) \in Nat
    BY LenProperties DEF AdmissionInv, AdmissionTyped
  <2>3. lru[i] \in 1..Len(buckets)
    BY ElementOfSeq DEF AdmissionInv, AdmissionTyped
  <2>4. lru[i] \in Int
    BY <2>2, <2>3
  <2> QED
    BY <2>1, <2>2, <2>4
<1>1. lru \in Seq(1..n) /\ Len(lru) \in Nat /\ Len(lru) <= MaxBuckets /\ k \in 1..n
  BY <1>0 DEF AdmissionInv, AdmissionTyped
<1> DEFINE y == [x EXCEPT !.pc = "clock", !.bucket = k]
<1>2. y \in HandlerRec /\ y.pc = "clock" /\ y.bucket = k
  BY FoundEdits
<1>3. handler' = [handler EXCEPT ![h] = y]
  BY <1>0 DEF AdmissionInv, AdmissionTyped, HandlerRec
<1>4. lru' \in Seq(1..n) /\ Len(lru') <= MaxBuckets
  <2>1. PICK q \in Seq(1..n) : q = Dropped(lru, i) /\ Len(q) = Len(lru) - 1
    BY <1>1, DroppedFacts
  <2>2. lru' = Append(q, k)
    BY <1>0, <2>1
  <2> QED
    BY <1>1, <2>1, <2>2
<1> HIDE DEF y
<1> QED
  BY <1>0, <1>1, <1>2, <1>3, <1>4, ThreadStep

\* A new bucket is full, and its life begins.
LEMMA NewBucketKept ==
  ASSUME AdmissionInv, NEW h \in Handlers, NEW t \in Tenants, NEW last, handler[h].pc = "limit",
         last = IF Len(lru) >= MaxBuckets THEN Tail(lru) ELSE lru,
         buckets' = Append(buckets, NewBucket(t)), lru' = Append(last, Len(buckets) + 1),
         handler' = [handler EXCEPT ![h].pc = "clock", ![h].bucket = Len(buckets) + 1],
         UNCHANGED <<tick, active, draining>>
  PROVE  AdmissionInv'
<1>0. PICK x \in HandlerRec, n \in Nat : x = handler[h] /\ n = Len(buckets) /\ n + 1 \in Int
  <2>1. handler[h] \in HandlerRec
    BY DEF AdmissionInv, AdmissionTyped
  <2>2. Len(buckets) \in Nat
    BY LenProperties DEF AdmissionInv, AdmissionTyped
  <2>3. Len(buckets) + 1 \in Int
    BY <2>2
  <2> QED
    BY <2>1, <2>2, <2>3
<1>1. /\ lru \in Seq(1..n) /\ Len(lru) \in Nat /\ Len(lru) <= MaxBuckets
      /\ buckets \in Seq(BucketRec) /\ tick \in 0..LastTick
  BY <1>0 DEF AdmissionInv, AdmissionTyped
<1> DEFINE y == [x EXCEPT !.pc = "clock", !.bucket = n + 1]
<1>2. y \in HandlerRec /\ y.pc = "clock" /\ y.bucket = n + 1
  BY <1>0, FoundEdits
<1>3. handler' = [handler EXCEPT ![h] = y]
  BY <1>0 DEF AdmissionInv, AdmissionTyped, HandlerRec
<1>4. \A g \in Handlers : handler'[g] = IF g = h THEN y ELSE handler[g]
  BY <1>3 DEF AdmissionInv, AdmissionTyped
<1>5. NewBucket(t) \in BucketRec
  BY <1>1, AdmissionFacts DEF NewBucket, BucketRec
<1>6. /\ buckets' \in Seq(BucketRec) /\ Len(buckets') = n + 1 /\ buckets'[n + 1] = NewBucket(t)
      /\ \A i \in 1..n : buckets'[i] = buckets[i]
  BY <1>0, <1>1, <1>5, AppendProperties
<1>7. lru' \in Seq(1..(n + 1)) /\ Len(lru') <= MaxBuckets
  <2>1. MaxBuckets \in Nat \ {0}
    BY AdmissionFacts
  <2>2. last \in Seq(1..n) /\ Len(last) \in Nat /\ Len(last) < MaxBuckets
    <3>1. CASE Len(lru) >= MaxBuckets
      <4>1. lru # <<>>
        BY <1>1, <2>1, <3>1
      <4> QED
        BY <1>1, <2>1, <3>1, <4>1, HeadTailProperties
    <3>2. CASE ~(Len(lru) >= MaxBuckets)
      BY <1>1, <2>1, <3>2
    <3> QED
      BY <3>1, <3>2
  <2>3. last \in Seq(1..(n + 1)) /\ n + 1 \in 1..(n + 1)
    BY <2>2
  <2> QED
    BY <1>0, <2>1, <2>2, <2>3, AppendProperties
<1>8. AdmissionTyped'
  <2>1. handler' \in [Handlers -> HandlerRec]
    BY <1>2, <1>3 DEF AdmissionInv, AdmissionTyped
  <2>2. ASSUME NEW i \in 1..Len(buckets')
        PROVE  /\ 0 <= buckets'[i].tokens /\ buckets'[i].tokens <= Capacity
               /\ buckets'[i].granted >= 0 /\ 0 <= buckets'[i].born
               /\ buckets'[i].born <= buckets'[i].last /\ buckets'[i].last <= tick
    <3>1. CASE i = n + 1
      BY <1>1, <1>6, <3>1, AdmissionFacts, SMTT(20) DEF NewBucket
    <3>2. CASE i # n + 1
      <4>1. i \in 1..n
        BY <1>6, <3>2
      <4> QED
        BY <1>0, <1>6, <4>1 DEF AdmissionInv, AdmissionTyped
    <3> QED
      BY <3>1, <3>2
  <2>3. ASSUME NEW g \in Handlers
        PROVE  /\ handler'[g].pc \in {"clock", "lock"} => handler'[g].bucket \in 1..Len(buckets')
               /\ handler'[g].pc = "lock" => /\ buckets'[handler'[g].bucket].born <= handler'[g].now
                                             /\ handler'[g].now <= tick
    BY <1>0, <1>2, <1>4, <1>6 DEF AdmissionInv, AdmissionTyped
  <2> QED
    BY <1>6, <1>7, <2>1, <2>2, <2>3 DEF AdmissionInv, AdmissionTyped
<1>9. \A i : \A g \in Handlers : Earliest(g, i)' = Earliest(g, i)
  BY <1>2, <1>3, NoClock
<1>10. ASSUME NEW i \in 1..Len(buckets') PROVE RateKept(i)'
  <2>1. CASE i \in 1..n
    BY <1>0, <1>6, <1>9, <2>1, RateUntouched
  <2>2. CASE i = n + 1
    <3>1. \A g \in Handlers : Earliest(g, i) = tick
      BY <1>0, <2>2 DEF AdmissionInv, AdmissionTyped, Earliest
    <3>2. \A g \in Handlers : Earliest(g, i)' = buckets'[i].last
      BY <1>6, <1>9, <2>2, <3>1 DEF NewBucket
    <3>4. Given(i)' = Capacity
      BY <1>6, <2>2, AdmissionFacts DEF Given, NewBucket
    <3>5. Cardinality(Passed(i))' \in Nat
      BY PassedFinite
    <3>6. PICK m \in Nat : m = Cardinality(Passed(i))'
      BY <3>5
    <3>7. Refill * m \in Nat /\ Capacity \in Nat
      BY AdmissionFacts
    <3>8. Given(i)' <= Capacity + Refill * Cardinality(Passed(i))'
      BY <3>4, <3>6, <3>7
    <3>9. buckets'[i].last \in Int
      BY <1>1, <1>6, <2>2 DEF NewBucket
    <3> QED
      BY <3>2, <3>8, <3>9 DEF RateKept
  <2> QED
    BY <1>6, <2>1, <2>2
<1>11. OvershootBounded'
  BY <1>0, <1>2, <1>3, SubmittingStep DEF AdmissionInv, OvershootBounded
<1> QED
  BY <1>8, <1>10, <1>11 DEF AdmissionInv

\* Either way the thread knows its bucket.
LEMMA FindBucketKept == ASSUME AdmissionInv, NEW h \in Handlers, FindBucket(h) PROVE AdmissionInv'
<1>0. PICK t \in Tenants : t = TenantOf(handler[h].req)
  BY LargestFacts DEF AdmissionInv, AdmissionTyped, HandlerRec
<1>1. handler[h].pc = "limit" /\ BucketFor(h, t) /\ UNCHANGED <<tick, active, draining>>
  BY <1>0 DEF FindBucket
<1>2. CASE Tracked(t) # {}
  <2>1. PICK i : i = (CHOOSE k \in Tracked(t) : TRUE)
    OBVIOUS
  <2>2. i \in 1..Len(lru)
    BY <1>2, <2>1 DEF Tracked
  <2>3. /\ lru' = Append(Dropped(lru, i), lru[i]) /\ UNCHANGED buckets
        /\ handler' = [handler EXCEPT ![h].pc = "clock", ![h].bucket = lru[i]]
    BY <1>1, <1>2, <2>1, Zenon DEF BucketFor
  <2> QED
    BY <1>1, <2>2, <2>3, TrackedKept
<1>3. CASE Tracked(t) = {}
  <2>1. PICK last : last = IF Len(lru) >= MaxBuckets THEN Tail(lru) ELSE lru
    OBVIOUS
  <2>2. /\ buckets' = Append(buckets, NewBucket(t)) /\ lru' = Append(last, Len(buckets) + 1)
        /\ handler' = [handler EXCEPT ![h].pc = "clock", ![h].bucket = Len(buckets) + 1]
    BY <1>1, <1>3, <2>1, Zenon DEF BucketFor
  <2> QED
    BY <1>1, <2>1, <2>2, NewBucketKept
<1> QED
  BY <1>2, <1>3

\* A clock that is read now is the latest.
LEMMA ReadClockKept == ASSUME AdmissionInv, NEW h \in Handlers, ReadClock(h) PROVE AdmissionInv'
<1>0. PICK x \in HandlerRec, n \in Int : x = handler[h] /\ n = tick
  BY AdmissionFacts DEF AdmissionInv, AdmissionTyped
<1> DEFINE y == [x EXCEPT !.pc = "lock", !.now = n]
<1>1. y \in HandlerRec /\ y.pc = "lock" /\ y.now = n /\ y.bucket = x.bucket
  BY DEF HandlerRec, AcquirePcs
<1>2. /\ x.pc = "clock" /\ handler' = [handler EXCEPT ![h] = y]
      /\ UNCHANGED <<tick, buckets, lru, active, draining>>
  BY <1>0 DEF ReadClock, AdmissionInv, AdmissionTyped, HandlerRec
<1>3. \A g \in Handlers : handler'[g] = IF g = h THEN y ELSE handler[g]
  BY <1>2 DEF AdmissionInv, AdmissionTyped
<1>4. AdmissionTyped'
  <2>1. handler' \in [Handlers -> HandlerRec]
    BY <1>1, <1>2 DEF AdmissionInv, AdmissionTyped
  <2>2. x.bucket \in 1..Len(buckets) /\ buckets[x.bucket].born <= n
    <3>1. x.bucket \in 1..Len(buckets)
      BY <1>0, <1>2 DEF AdmissionInv, AdmissionTyped
    <3>2. /\ buckets[x.bucket].born <= buckets[x.bucket].last /\ buckets[x.bucket].last <= n
          /\ buckets[x.bucket].born \in Nat /\ buckets[x.bucket].last \in Nat
      BY <1>0, <3>1, GivenInt DEF AdmissionInv, AdmissionTyped
    <3> QED
      BY <3>1, <3>2
  <2> QED
    BY <1>0, <1>1, <1>2, <1>3, <2>1, <2>2 DEF AdmissionInv, AdmissionTyped
<1>5. \A i : \A g \in Handlers : Earliest(g, i)' = Earliest(g, i)
  BY <1>0, <1>1, <1>2, <1>3 DEF Earliest
<1>6. \A i \in 1..Len(buckets') : RateKept(i)'
  BY <1>2, <1>5, RateUntouched
<1>7. OvershootBounded'
  BY <1>0, <1>1, <1>2, SubmittingStep DEF AdmissionInv, OvershootBounded
<1> QED
  BY <1>4, <1>6, <1>7 DEF AdmissionInv

\* An acquisition passes the ticks from the clock it used to now.
LEMMA PassedBy ==
  ASSUME AdmissionInv, NEW h \in Handlers, NEW i \in 1..Len(buckets), NEW n \in Int, NEW y,
         handler[h].pc = "lock", handler[h].bucket = i, handler[h].now = n, y.pc # "lock",
         handler' = [handler EXCEPT ![h] = y], tick' = tick,
         buckets'[i].born = buckets[i].born
  PROVE  /\ Cardinality(Passed(i)') = Cardinality(Passed(i)) + (tick - n)
         /\ \A g \in Handlers : Earliest(g, i)' = IF g = h THEN tick ELSE Earliest(g, i)
<1>1. PICK b \in Nat : b = buckets[i].born
  BY GivenInt DEF AdmissionInv
<1>2. b <= n /\ n <= tick /\ tick \in 0..LastTick /\ tick \in Nat /\ LastTick \in Nat
  BY <1>1, AdmissionFacts DEF AdmissionInv, AdmissionTyped
<1>3. \A g \in Handlers : handler'[g] = IF g = h THEN y ELSE handler[g]
  BY DEF AdmissionInv, AdmissionTyped
<1>4. \A g \in Handlers : Earliest(g, i)' = IF g = h THEN tick ELSE Earliest(g, i)
  BY <1>3 DEF Earliest
<1>5. Earliest(h, i) = n
  BY DEF Earliest
<1> DEFINE more == {h} \X (n..(tick - 1))
<1>6. Passed(i)' = Passed(i) \cup more
  <2>1. ASSUME NEW p \in Passed(i)' PROVE p \in Passed(i) \cup more
    <3>1. p \in Handlers \X (0..LastTick) /\ b <= p[2] /\ p[2] < Earliest(p[1], i)'
      BY <1>1 DEF Passed
    <3>2. CASE p[1] = h
      <4>1. p[2] < tick /\ p = <<h, p[2]>>
        BY <1>4, <3>1, <3>2
      <4>2. CASE p[2] < n
        BY <1>1, <1>5, <3>1, <3>2, <4>2 DEF Passed
      <4>3. CASE ~(p[2] < n)
        <5>1. p[2] \in n..(tick - 1)
          BY <1>2, <3>1, <4>1, <4>3
        <5> QED
          BY <4>1, <5>1
      <4> QED
        BY <4>2, <4>3
    <3>3. CASE p[1] # h
      BY <1>1, <1>4, <3>1, <3>3 DEF Passed
    <3> QED
      BY <3>2, <3>3
  <2>2. ASSUME NEW p \in Passed(i) PROVE p \in Passed(i)'
    <3>1. p \in Handlers \X (0..LastTick) /\ b <= p[2] /\ p[2] < Earliest(p[1], i)
      BY <1>1 DEF Passed
    <3>2. p[2] < Earliest(p[1], i)'
      BY <1>2, <1>4, <1>5, <3>1
    <3> QED
      BY <1>1, <3>1, <3>2 DEF Passed
  <2>3. ASSUME NEW p \in more PROVE p \in Passed(i)'
    <3>1. PICK u \in n..(tick - 1) : p = <<h, u>>
      OBVIOUS
    <3>2. u \in 0..LastTick /\ b <= u /\ u < tick
      BY <1>1, <1>2
    <3> QED
      BY <1>1, <1>4, <3>1, <3>2 DEF Passed
  <2> HIDE DEF more
  <2> QED
    BY <2>1, <2>2, <2>3
<1>7. Passed(i) \cap more = {}
  BY <1>5 DEF Passed
<1>8. IsFiniteSet(more) /\ Cardinality(more) = tick - n
  <2>1. IsFiniteSet({h}) /\ Cardinality({h}) = 1
    BY FS_Singleton
  <2>2. IsFiniteSet(n..(tick - 1)) /\ Cardinality(n..(tick - 1)) = tick - n
    <3>1. /\ IsFiniteSet(n..(tick - 1))
          /\ Cardinality(n..(tick - 1)) = IF n > tick - 1 THEN 0 ELSE tick - 1 - n + 1
      BY <1>2, tick - 1 \in Int, FS_Interval
    <3> QED
      BY <1>2, <3>1
  <2>3. IsFiniteSet(more) /\ Cardinality(more) = Cardinality({h}) * Cardinality(n..(tick - 1))
    BY <2>1, <2>2, FS_Product
  <2> HIDE DEF more
  <2> QED
    BY <1>2, <2>1, <2>2, <2>3
<1>9. Cardinality(Passed(i) \cup more) = Cardinality(Passed(i)) + Cardinality(more) - 0
  <2> HIDE DEF more
  <2> QED
    BY <1>7, <1>8, PassedFinite, FS_Union, FS_EmptySet
<1> HIDE DEF more
<1> QED
  BY <1>2, <1>4, <1>6, <1>8, <1>9, PassedFinite

\* Refills are proportional to the ticks.
LEMMA RefillAdds ==
  ASSUME NEW a \in Int, NEW b \in Int
  PROVE  /\ Refill * a \in Int /\ Refill * b \in Int
         /\ Refill * (a + b) = Refill * a + Refill * b
         /\ Refill * (a - b) = Refill * a - Refill * b
         /\ a <= b => Refill * a <= Refill * b
<1>1. Refill \in Nat
  BY AdmissionFacts
<1> QED
  BY <1>1

\* A refill is a whole number.
LEMMA RefillInt == ASSUME NEW a \in Int PROVE Refill * a \in Int
  BY RefillAdds

\* The more ticks, the larger the refill.
LEMMA RefillGrows ==
  ASSUME NEW a \in Int, NEW b \in Int, a <= b PROVE Refill * a <= Refill * b
  BY RefillAdds

\* One more tick refills as much as a single one.
LEMMA RefillOneMore == ASSUME NEW a \in Int PROVE Refill * (a + 1) = Refill * a + Refill
  BY AdmissionFacts

\* A refill never exceeds the capacity, nor the time since the last acquisition.
LEMMA RefilledFacts ==
  ASSUME NEW b \in BucketRec, NEW n \in Int, 0 <= b.tokens, b.tokens <= Capacity
  PROVE  /\ Refilled(b, n) \in Nat /\ Refilled(b, n) <= Capacity
         /\ n > b.last => Refilled(b, n) <= b.tokens + Refill * (n - b.last)
         /\ n <= b.last => Refilled(b, n) <= b.tokens
<1>1. b.tokens \in Nat /\ b.last \in Int /\ Capacity \in Nat /\ Refill \in Nat
  BY AdmissionFacts DEF BucketRec
<1>2. PICK d \in Nat : d = Positive(n - b.last)
  BY <1>1 DEF Positive
<1>3. d * Refill \in Nat /\ d * Refill = Refill * d
  BY <1>1
<1>4. Refilled(b, n) = IF Capacity <= b.tokens + d * Refill THEN Capacity ELSE b.tokens + d * Refill
  BY <1>2 DEF Refilled, Least
<1>5. n > b.last => d = n - b.last
  BY <1>1, <1>2 DEF Positive
<1>6. n <= b.last => d = 0
  BY <1>1, <1>2 DEF Positive
<1>7. 0 * Refill = 0
  BY <1>1
<1> QED
  BY <1>1, <1>3, <1>4, <1>5, <1>6, <1>7

\* What an acquisition leaves of a bucket.
LEMMA AcquiredBucket ==
  ASSUME NEW b \in BucketRec, NEW n \in Int, 0 <= b.tokens, b.tokens <= Capacity, b.granted >= 0,
         NEW c, \/ c = RefusedAt(b, n)
                \/ Refilled(b, n) >= Cost /\ c = GrantedAt(b, n)
  PROVE  /\ c \in BucketRec /\ 0 <= c.tokens /\ c.tokens <= Capacity /\ c.granted >= 0
         /\ c.last = n /\ c.born = b.born
         /\ c.granted * Cost + c.tokens = b.granted * Cost + Refilled(b, n)
<1>1. PICK f \in Int, m \in Int : f = Refilled(b, n) /\ m = b.granted /\ 0 <= f /\ f <= Capacity
  BY RefilledFacts DEF BucketRec
<1>2. Cost \in Nat \ {0} /\ Capacity \in Nat
  BY AdmissionFacts
<1>3. CASE c = RefusedAt(b, n)
  <2>1. c = [b EXCEPT !.tokens = f, !.last = n]
    BY <1>1, <1>3 DEF RefusedAt
  <2>2. c \in BucketRec /\ c.tokens = f /\ c.last = n /\ c.born = b.born /\ c.granted = m
    BY <1>1, <2>1 DEF BucketRec
  <2> QED
    BY <1>1, <2>2
<1>4. CASE f >= Cost /\ c = GrantedAt(b, n)
  <2>0. f - Cost \in Int /\ m + 1 \in Int
    BY <1>1, <1>2
  <2>1. c = [b EXCEPT !.tokens = f - Cost, !.last = n, !.granted = m + 1]
    BY <1>1, <1>4 DEF GrantedAt
  <2>2. c \in BucketRec /\ c.tokens = f - Cost /\ c.last = n /\ c.born = b.born /\ c.granted = m + 1
    BY <2>0, <2>1 DEF BucketRec
  <2>3. (m + 1) * Cost = m * Cost + Cost /\ m * Cost \in Int
    BY <1>2
  <2>4. (m + 1) * Cost + (f - Cost) = m * Cost + f
    BY <1>2, <2>3
  <2> QED
    BY <1>1, <1>2, <1>4, <2>2, <2>4
<1> QED
  BY <1>1, <1>3, <1>4

\* Whatever clock an acquisition uses, the bucket's rate is kept.
LEMMA TryAcquireKept == ASSUME AdmissionInv, NEW h \in Handlers, TryAcquire(h) PROVE AdmissionInv'
<1>0. PICK x \in HandlerRec, i \in Int, n \in Int :
         x = handler[h] /\ i = x.bucket /\ n = x.now
  BY DEF AdmissionInv, AdmissionTyped, HandlerRec
<1>1. /\ x.pc = "lock" /\ i \in 1..Len(buckets) /\ buckets[i].born <= n /\ n <= tick
      /\ UNCHANGED <<tick, lru, active, draining>> /\ tick \in Nat
  BY <1>0, AdmissionFacts DEF TryAcquire, AdmissionInv, AdmissionTyped
<1>2. PICK b \in BucketRec : b = buckets[i]
  BY <1>1, GivenInt DEF AdmissionInv
<1>3. 0 <= b.tokens /\ b.tokens <= Capacity /\ b.granted >= 0 /\ 0 <= b.born /\ b.last \in Nat
  BY <1>1, <1>2, GivenInt DEF AdmissionInv, AdmissionTyped
<1>4. PICK c : /\ buckets' = [buckets EXCEPT ![i] = c]
               /\ \/ c = RefusedAt(b, n)
                  \/ Refilled(b, n) >= Cost /\ c = GrantedAt(b, n)
  BY <1>0, <1>2 DEF TryAcquire
<1>5. /\ c \in BucketRec /\ 0 <= c.tokens /\ c.tokens <= Capacity /\ c.granted >= 0
      /\ c.last = n /\ c.born = b.born
      /\ c.granted * Cost + c.tokens = b.granted * Cost + Refilled(b, n)
  BY <1>3, <1>4, AcquiredBucket
<1>6. PICK y \in HandlerRec : handler' = [handler EXCEPT ![h] = y] /\ y.pc \in {"admit", "idle"}
  <2>1. CASE handler' = [handler EXCEPT ![h].pc = "admit", ![h].now = 0, ![h].bucket = 0]
    <3> DEFINE y == [x EXCEPT !.pc = "admit", !.now = 0, !.bucket = 0]
    <3>0. "admit" \in AcquirePcs /\ 0 \in Int
      BY DEF AcquirePcs
    <3>1. y \in HandlerRec /\ y.pc = "admit"
      BY <3>0 DEF HandlerRec
    <3>2. handler' = [handler EXCEPT ![h] = y]
      BY <1>0, <2>1 DEF AdmissionInv, AdmissionTyped, HandlerRec
    <3> QED
      BY <3>1, <3>2
  <2>2. CASE handler' = HandlerDone(h)
    BY <2>2, WaitingFacts DEF HandlerDone
  <2> QED
    BY <2>1, <2>2 DEF TryAcquire
<1>7. \A g \in Handlers : handler'[g] = IF g = h THEN y ELSE handler[g]
  BY <1>6 DEF AdmissionInv, AdmissionTyped
<1>8. /\ buckets' \in Seq(BucketRec) /\ Len(buckets') = Len(buckets) /\ buckets'[i] = c
      /\ \A k \in 1..Len(buckets) : k # i => buckets'[k] = buckets[k]
  BY <1>1, <1>4, <1>5 DEF AdmissionInv, AdmissionTyped
<1>9. AdmissionTyped'
  <2>1. handler' \in [Handlers -> HandlerRec]
    BY <1>6 DEF AdmissionInv, AdmissionTyped
  <2>2. ASSUME NEW k \in 1..Len(buckets')
        PROVE  /\ 0 <= buckets'[k].tokens /\ buckets'[k].tokens <= Capacity
               /\ buckets'[k].granted >= 0 /\ 0 <= buckets'[k].born
               /\ buckets'[k].born <= buckets'[k].last /\ buckets'[k].last <= tick
               /\ buckets'[k].born = buckets[k].born
    <3>1. CASE k = i
      BY <1>1, <1>2, <1>3, <1>5, <1>8, <3>1
    <3>2. CASE k # i
      BY <1>8, <3>2 DEF AdmissionInv, AdmissionTyped
    <3> QED
      BY <3>1, <3>2
  <2>3. ASSUME NEW g \in Handlers
        PROVE  /\ handler'[g].pc \in {"clock", "lock"} => handler'[g].bucket \in 1..Len(buckets')
               /\ handler'[g].pc = "lock" => /\ buckets'[handler'[g].bucket].born <= handler'[g].now
                                             /\ handler'[g].now <= tick
    <3>1. CASE g = h
      BY <1>6, <1>7, <3>1
    <3>2. CASE g # h
      <4>1. handler'[g] = handler[g]
        BY <1>7, <3>2
      <4> QED
        BY <1>8, <2>2, <4>1 DEF AdmissionInv, AdmissionTyped
    <3> QED
      BY <3>1, <3>2
  <2> QED
    BY <1>1, <1>8, <2>1, <2>2, <2>3 DEF AdmissionInv, AdmissionTyped
<1>10. ASSUME NEW k \in 1..Len(buckets'), k # i PROVE RateKept(k)'
  <2>1. \A g \in Handlers : Earliest(g, k)' = Earliest(g, k)
    BY <1>0, <1>1, <1>6, <1>7, <1>10 DEF Earliest
  <2> QED
    BY <1>8, <1>10, <2>1, RateUntouched
<1>11. RateKept(i)'
  <2>1. /\ Cardinality(Passed(i)') = Cardinality(Passed(i)) + (tick - n)
        /\ \A g \in Handlers : Earliest(g, i)' = IF g = h THEN tick ELSE Earliest(g, i)
    BY <1>0, <1>1, <1>2, <1>5, <1>6, <1>8, PassedBy
  <2>2. PICK a \in Nat : a = Cardinality(Passed(i))
    BY PassedFinite
  <2>3. PICK v \in Int : v = Given(i)
    BY <1>1, GivenInt DEF AdmissionInv
  <2>4. PICK w \in Int : w = Given(i)'
    BY <1>5, <1>8, AdmissionFacts, SMTT(20) DEF Given, BucketRec
  <2>5. w = b.granted * Cost + Refilled(b, n) /\ v = b.granted * Cost + b.tokens
    BY <1>2, <1>5, <1>8, <2>3, <2>4 DEF Given
  <2>6. /\ b.granted * Cost \in Int /\ b.tokens \in Int /\ Refilled(b, n) \in Int /\ Capacity \in Nat
    BY <1>3, RefilledFacts, AdmissionFacts DEF BucketRec
  <2>7. RateKept(i)
    BY <1>1 DEF AdmissionInv
  <2>8. w <= Capacity + Refill * a
    <3>1. CASE n > b.last
      <4>1. Earliest(h, i) = n
        BY <1>0, <1>1 DEF Earliest
      <4>2. v + Refill * (n - b.last) <= Capacity + Refill * a
        BY <1>2, <2>2, <2>3, <2>7, <3>1, <4>1 DEF RateKept
      <4>3. Refilled(b, n) <= b.tokens + Refill * (n - b.last)
        BY <1>3, <3>1, RefilledFacts
      <4>4. Refill * (n - b.last) \in Int /\ Refill * a \in Int
        <5>1. n - b.last \in Int
          BY <1>3
        <5> QED
          BY <5>1, RefillAdds
      <4> QED
        BY <2>5, <2>6, <4>2, <4>3, <4>4
    <3>2. CASE n <= b.last
      <4>1. Refilled(b, n) <= b.tokens
        BY <1>3, <3>2, RefilledFacts
      <4>2. v <= Capacity + Refill * a /\ Refill * a \in Int
        BY <2>2, <2>3, <2>7, RefillAdds DEF RateKept
      <4> QED
        BY <2>5, <2>6, <4>1, <4>2
    <3> QED
      BY <1>3, <3>1, <3>2
  <2>9. Refill * (a + (tick - n)) = Refill * a + Refill * (tick - n) /\ Refill * a \in Int
    BY <1>1, RefillAdds
  <2>10. ASSUME NEW e \in Int, n <= e, e <= tick
         PROVE  w + Refill * (e - n) <= Capacity + Refill * (a + (tick - n))
    <3>0. e - n \in Int /\ tick - n \in Int /\ e - n <= tick - n
      BY <1>1, <2>10
    <3>1. /\ Refill * (e - n) <= Refill * (tick - n)
          /\ Refill * (e - n) \in Int /\ Refill * (tick - n) \in Int
      BY <3>0, RefillAdds
    <3> QED
      BY <2>6, <2>8, <2>9, <3>1
  <2>11. w <= Capacity + Refill * (a + (tick - n))
    <3>1. Refill * (n - n) = 0
      BY AdmissionFacts
    <3> QED
      BY <1>1, <2>10, <3>1
  <2>12. \A g \in Handlers : Earliest(g, i)' \in Int /\ Earliest(g, i)' <= tick
    <3>1. \A g \in Handlers : Earliest(g, i) \in Nat /\ Earliest(g, i) <= tick
      BY <1>1, GivenInt DEF AdmissionInv
    <3> QED
      BY <1>1, <2>1, <3>1
  <2> QED
    BY <1>5, <1>8, <2>1, <2>2, <2>4, <2>10, <2>11, <2>12 DEF RateKept
<1>12. OvershootBounded'
  BY <1>0, <1>1, <1>6, SubmittingStep DEF AdmissionInv, OvershootBounded
<1> QED
  BY <1>8, <1>9, <1>10, <1>11, <1>12 DEF AdmissionInv

\* A tick is passed by the threads that hold no clock of the bucket, and refilled once.
LEMMA TickKept == ASSUME AdmissionInv, Tick PROVE AdmissionInv'
<1>1. /\ tick < LastTick /\ tick' = tick + 1 /\ tick \in Nat
      /\ UNCHANGED <<buckets, lru, handler, active, draining>>
  BY AdmissionFacts DEF Tick, AdmissionInv, AdmissionTyped
<1>2. AdmissionTyped'
  <2>1. tick' \in 0..LastTick
    BY <1>1, AdmissionFacts
  <2>2. ASSUME NEW i \in 1..Len(buckets) PROVE buckets[i].last <= tick'
    <3>1. buckets[i].last \in Nat /\ buckets[i].last <= tick
      BY GivenInt DEF AdmissionInv, AdmissionTyped
    <3> QED
      BY <1>1, <3>1
  <2>3. ASSUME NEW h \in Handlers, handler[h].pc = "lock" PROVE handler[h].now <= tick'
    <3>1. handler[h].now \in Int /\ handler[h].now <= tick
      BY <2>3 DEF AdmissionInv, AdmissionTyped, HandlerRec
    <3> QED
      BY <1>1, <3>1
  <2> QED
    BY <1>1, <2>1, <2>2, <2>3 DEF AdmissionInv, AdmissionTyped
<1>3. ASSUME NEW i \in 1..Len(buckets) PROVE RateKept(i)'
  <2>0. PICK a \in Nat, b \in Nat, v \in Int, last \in Nat, born \in Nat :
          /\ a = Cardinality(Passed(i)) /\ b = Cardinality(Passed(i)') /\ v = Given(i)
          /\ last = buckets[i].last /\ born = buckets[i].born
    BY PassedFinite, GivenInt DEF AdmissionInv
  <2>1. /\ born <= tick /\ last <= tick /\ RateKept(i) /\ Given(i)' = v
        /\ \A h \in Handlers : Earliest(h, i) \in born..tick
    <3>1. buckets[i].born <= buckets[i].last /\ buckets[i].last <= tick /\ RateKept(i)
      BY DEF AdmissionInv, AdmissionTyped
    <3>2. born <= tick /\ last <= tick
      BY <1>1, <2>0, <3>1
    <3>3. \A h \in Handlers : Earliest(h, i) \in born..tick
      BY <2>0, GivenInt DEF AdmissionInv
    <3>4. Given(i)' = v
      BY <1>1, <2>0 DEF Given
    <3> QED
      BY <3>1, <3>2, <3>3, <3>4
  <2>2. ASSUME NEW h \in Handlers
        PROVE  \/ Earliest(h, i)' = Earliest(h, i)
               \/ Earliest(h, i) = tick /\ Earliest(h, i)' = tick + 1
    BY <1>1 DEF Earliest
  <2>3. Passed(i) \subseteq Passed(i)'
    <3>1. ASSUME NEW p \in Passed(i) PROVE p \in Passed(i)'
      <4>1. p \in Handlers \X (0..LastTick) /\ born <= p[2] /\ p[2] < Earliest(p[1], i)
        BY <2>0 DEF Passed
      <4>2. p[2] < Earliest(p[1], i)'
        BY <1>1, <2>1, <2>2, <4>1
      <4> QED
        BY <1>1, <2>0, <4>1, <4>2 DEF Passed
    <3> QED
      BY <3>1
  <2>4. a <= b
    BY <2>0, <2>3, PassedFinite, FS_Subset
  <2>5. ASSUME NEW h \in Handlers, Earliest(h, i) = tick, Earliest(h, i)' = tick + 1
        PROVE  a + 1 <= b
    <3>1. <<h, tick>> \in Passed(i)' /\ <<h, tick>> \notin Passed(i)
      BY <1>1, <2>0, <2>1, <2>5, AdmissionFacts, SMTT(20) DEF Passed
    <3>2. Cardinality(Passed(i) \cup {<<h, tick>>}) = a + 1
      BY <2>0, <3>1, PassedFinite, FS_AddElement
    <3>3. Passed(i) \cup {<<h, tick>>} \in SUBSET (Passed(i)')
      BY <2>3, <3>1
    <3> QED
      BY <2>0, <3>2, <3>3, PassedFinite, FS_Subset
  <2>6. v <= Capacity + Refill * a /\ Refill * a \in Int /\ Refill * b \in Int /\ Capacity \in Int
    <3>1. v <= Capacity + Refill * a
      BY <2>0, <2>1 DEF RateKept
    <3>2. a \in Int /\ b \in Int /\ Capacity \in Int
      BY AdmissionFacts
    <3>3. Refill * a \in Int /\ Refill * b \in Int
      BY <3>2, RefillInt
    <3> QED
      BY <3>1, <3>2, <3>3
  <2>7. v <= Capacity + Refill * b /\ Refill * a <= Refill * b
    <3>1. Refill * a <= Refill * b
      BY <2>4, RefillGrows
    <3> QED
      BY <2>6, <3>1
  <2>8. ASSUME NEW h \in Handlers, Earliest(h, i)' > last
        PROVE  v + Refill * (Earliest(h, i)' - last) <= Capacity + Refill * b
    <3>1. CASE Earliest(h, i)' = Earliest(h, i)
      <4>1. PICK e \in Nat : e = Earliest(h, i)
        BY <2>1, <2>0
      <4>2. v + Refill * (e - last) <= Capacity + Refill * a
        BY <2>0, <2>1, <2>8, <3>1, <4>1 DEF RateKept
      <4>3. Refill * (e - last) \in Int
        <5>1. e - last \in Int
          OBVIOUS
        <5> QED
          BY <5>1, RefillInt
      <4>4. v + Refill * (e - last) <= Capacity + Refill * b
        BY <2>6, <2>7, <4>2, <4>3
      <4> QED
        BY <3>1, <4>1, <4>4
    <3>2. CASE Earliest(h, i) = tick /\ Earliest(h, i)' = tick + 1
      <4>1. v + Refill * (tick - last) <= Capacity + Refill * a
        <5>1. CASE tick > last
          BY <2>0, <2>1, <3>2, <5>1 DEF RateKept
        <5>2. CASE tick = last
          <6>1. Refill * (tick - last) = 0
            BY <1>1, <5>2, AdmissionFacts
          <6>2. v + 0 = v
            OBVIOUS
          <6> QED
            BY <2>6, <6>1, <6>2
        <5> QED
          BY <1>1, <2>1, <5>1, <5>2
      <4>2. PICK d \in Int : d = tick - last /\ d + 1 = (tick + 1) - last
        BY <1>1
      <4>3. Refill * (d + 1) = Refill * d + Refill /\ Refill * d \in Int /\ Refill \in Int
        <5>1. Refill * (d + 1) = Refill * d + Refill
          BY RefillOneMore
        <5>2. Refill * d \in Int
          BY RefillInt
        <5> QED
          BY <5>1, <5>2, AdmissionFacts
      <4>4. Refill * a + Refill <= Refill * b
        <5>1. a + 1 \in Int /\ a + 1 <= b
          BY <2>5, <3>2
        <5>2. Refill * (a + 1) <= Refill * b
          BY <5>1, RefillGrows
        <5>3. Refill * (a + 1) = Refill * a + Refill
          BY RefillOneMore
        <5> QED
          BY <5>2, <5>3
      <4>5. v + Refill * d <= Capacity + Refill * a
        BY <4>1, <4>2
      <4>6. v + (Refill * d + Refill) <= Capacity + Refill * b
        BY <2>6, <4>3, <4>4, <4>5
      <4> QED
        BY <3>2, <4>2, <4>3, <4>6
    <3> QED
      BY <2>2, <3>1, <3>2
  <2>9. buckets'[i].last = last /\ Cardinality(Passed(i))' = b
    BY <1>1, <2>0
  <2> QED
    BY <2>1, <2>7, <2>8, <2>9 DEF RateKept
<1>4. Submitting' = Submitting
  BY <1>1 DEF Submitting
<1>5. OvershootBounded'
  BY <1>1, <1>4 DEF AdmissionInv, OvershootBounded
<1> QED
  BY <1>1, <1>2, <1>3, <1>5 DEF AdmissionInv

\* A task that ends makes room, and a drain changes no count.
LEMMA TasksKept == ASSUME AdmissionInv, TaskEnds \/ BeginDrain PROVE AdmissionInv'
<1>0. active \in Nat /\ draining \in BOOLEAN
  BY DEF AdmissionInv, AdmissionTyped
<1>1. /\ UNCHANGED <<tick, buckets, lru, handler>> /\ active' \in Nat /\ active' <= active
      /\ draining' \in BOOLEAN
  <2>1. CASE TaskEnds
    BY <1>0, <2>1 DEF TaskEnds
  <2>2. CASE BeginDrain
    BY <1>0, <2>2 DEF BeginDrain
  <2> QED
    BY <2>1, <2>2
<1>2. AdmissionTyped'
  BY <1>1 DEF AdmissionInv, AdmissionTyped
<1>3. \A i \in 1..Len(buckets') : RateKept(i)'
  BY <1>1, RateUntouched DEF Earliest
<1>4. OvershootBounded'
  <2>1. Submitting' = Submitting
    BY <1>1 DEF Submitting
  <2>2. IsFiniteSet(Submitting) /\ Cardinality(Submitting) \in Nat
    <3>1. Submitting \in SUBSET Handlers
      BY DEF Submitting
    <3> QED
      BY <3>1, AdmissionFacts, FS_Subset, FS_CardinalityType
  <2>3. PICK k \in Int, n \in Int :
          k = Cardinality(Submitting) * Largest /\ n = Cardinality(Handlers) * Largest
    BY <2>2, AdmissionFacts, LargestFacts
  <2>4. PICK x \in Nat, y \in Nat, m \in Nat : x = active /\ y = active' /\ m = TaskLimit
    BY <1>0, <1>1, AdmissionFacts
  <2>5. x + k < m + n /\ y <= x
    BY <1>1, <2>3, <2>4 DEF AdmissionInv, OvershootBounded
  <2>6. active' + k < TaskLimit + n
    <3>1. y + k <= x + k
      BY <2>5
    <3>2. y + k < m + n
      BY <2>5, <3>1
    <3> QED
      BY <2>4, <3>2
  <2> QED
    BY <2>1, <2>3, <2>6 DEF OvershootBounded
<1> QED
  BY <1>2, <1>3, <1>4 DEF AdmissionInv

\* Each thread passes each tick of a bucket's life once.
LEMMA PassedAtMost ==
  ASSUME AdmissionTyped, NEW i \in 1..Len(buckets)
  PROVE  /\ tick - buckets[i].born \in Nat
         /\ Cardinality(Passed(i)) <= Cardinality(Handlers) * (tick - buckets[i].born)
<1>1. PICK b \in Nat : b = buckets[i].born
  BY GivenInt
<1>2. b <= tick /\ tick \in Nat /\ tick - 1 \in Int
  <2>1. tick \in Nat
    BY AdmissionFacts DEF AdmissionTyped
  <2>2. buckets[i].born <= buckets[i].last /\ buckets[i].last <= tick /\ buckets[i].last \in Nat
    BY GivenInt DEF AdmissionTyped
  <2> QED
    BY <1>1, <2>1, <2>2
<1>3. IsFiniteSet(b..(tick - 1)) /\ Cardinality(b..(tick - 1)) = tick - b
  <2>1. /\ IsFiniteSet(b..(tick - 1))
        /\ Cardinality(b..(tick - 1)) = IF b > tick - 1 THEN 0 ELSE tick - 1 - b + 1
    BY <1>2, FS_Interval
  <2> QED
    BY <1>2, <2>1
<1>4. /\ IsFiniteSet(Handlers \X (b..(tick - 1)))
      /\ Cardinality(Handlers \X (b..(tick - 1))) = Cardinality(Handlers) * (tick - b)
  BY <1>3, AdmissionFacts, FS_Product
<1>5. ASSUME NEW p \in Passed(i) PROVE p \in Handlers \X (b..(tick - 1))
  <2>1. p \in Handlers \X (0..LastTick) /\ b <= p[2] /\ p[2] < Earliest(p[1], i)
    BY <1>1 DEF Passed
  <2>2. Earliest(p[1], i) <= tick /\ Earliest(p[1], i) \in Int
    BY <1>2, <2>1, GivenInt
  <2>3. p[2] \in b..(tick - 1) /\ p[1] \in Handlers /\ p = <<p[1], p[2]>>
    BY <1>2, <2>1, <2>2
  <2> QED
    BY <2>3
<1>6. Passed(i) \in SUBSET (Handlers \X (b..(tick - 1)))
  BY <1>5
<1> QED
  BY <1>1, <1>2, <1>4, <1>6, FS_Subset

\* However many threads serve requests and whenever they look at the clock, a tenant gets
\* what its bucket promises once per thread, and the tasks exceed their limit by no more
\* than a largest request for each thread.
THEOREM AdmissionHolds == AdmissionSpec => []AdmissionSound
<1>1. AdmissionInit => AdmissionInv
  <2> SUFFICES ASSUME AdmissionInit PROVE AdmissionInv
    OBVIOUS
  <2>1. \A h \in Handlers : handler[h] = Waiting
    BY DEF AdmissionInit
  <2>2. AdmissionTyped
    <3>1. tick \in 0..LastTick /\ active \in Nat /\ draining \in BOOLEAN
      <4>1. tick = 0 /\ active = 0 /\ draining = FALSE
        BY DEF AdmissionInit
      <4>2. 0 \in 0..LastTick /\ 0 \in Nat
        BY AdmissionFacts
      <4>3. FALSE \in BOOLEAN
        OBVIOUS
      <4> QED
        BY <4>1, <4>2, <4>3, Zenon
    <3>2. buckets = <<>> /\ Len(buckets) = 0 /\ buckets \in Seq(BucketRec) /\ 1..Len(buckets) = {}
      BY DEF AdmissionInit
    <3>3. lru \in Seq(1..Len(buckets)) /\ Len(lru) <= MaxBuckets
      <4>1. lru = <<>> /\ Len(lru) = 0 /\ lru \in Seq(1..Len(buckets))
        BY DEF AdmissionInit
      <4> QED
        BY <4>1, AdmissionFacts
    <3>4. handler \in [Handlers -> HandlerRec]
      BY WaitingFacts DEF AdmissionInit
    <3>5. \A h \in Handlers : handler[h].pc \notin {"clock", "lock"}
      BY <2>1, WaitingFacts
    <3> QED
      BY <3>1, <3>2, <3>3, <3>4, <3>5 DEF AdmissionTyped
  <2>3. Submitting = {}
    BY <2>1, WaitingFacts DEF Submitting
  <2>4. PICK n \in Nat : n = Cardinality(Handlers)
    BY AdmissionFacts
  <2>5. n * Largest \in Nat /\ 0 * Largest = 0
    BY LargestFacts
  <2>6. OvershootBounded
    BY <2>3, <2>4, <2>5, AdmissionFacts, FS_EmptySet DEF AdmissionInit, OvershootBounded
  <2> QED
    BY <2>2, <2>6 DEF AdmissionInit, AdmissionInv
<1>2. AdmissionInv /\ [AdmissionNext]_avars => AdmissionInv'
  <2> SUFFICES ASSUME AdmissionInv, [AdmissionNext]_avars PROVE AdmissionInv'
    OBVIOUS
  <2>1. CASE UNCHANGED avars
    <3>1. AdmissionTyped'
      BY <2>1 DEF avars, AdmissionInv, AdmissionTyped
    <3>2. \A i \in 1..Len(buckets') : RateKept(i)'
      BY <2>1, RateUntouched DEF avars, Earliest
    <3>3. OvershootBounded'
      BY <2>1 DEF avars, AdmissionInv, OvershootBounded, Submitting
    <3> QED
      BY <3>1, <3>2, <3>3 DEF AdmissionInv
  <2> QED
    BY <2>1, ArriveKept, FindBucketKept, ReadClockKept, TryAcquireKept, AdmitKept, SubmitKept,
       TasksKept, TickKept DEF AdmissionNext, Handle
<1>3. AdmissionInv => AdmissionSound
  <2> SUFFICES ASSUME AdmissionInv PROVE AdmissionSound
    OBVIOUS
  <2>1. AdmissionTypeOK
    <3>1. ASSUME NEW i \in 1..Len(buckets)
          PROVE  /\ buckets[i].tokens \in 0..Capacity /\ buckets[i].granted \in Nat
                 /\ {buckets[i].last, buckets[i].born} \subseteq 0..tick
      <4>1. /\ buckets[i].tokens \in Nat /\ buckets[i].granted \in Nat /\ tick \in Nat
            /\ buckets[i].last \in Nat /\ buckets[i].born \in Nat /\ Capacity \in Nat
        BY GivenInt, AdmissionFacts DEF AdmissionInv, AdmissionTyped
      <4>2. /\ buckets[i].tokens <= Capacity
            /\ buckets[i].born <= buckets[i].last /\ buckets[i].last <= tick
        BY DEF AdmissionInv, AdmissionTyped
      <4> QED
        BY <4>1, <4>2
    <3>2. ASSUME NEW h \in Handlers
          PROVE  /\ handler[h].pc \in {"idle", "limit", "clock", "lock", "admit", "submit"}
                 /\ handler[h].req \in Requests
                 /\ handler[h].pc \in {"clock", "lock"} => handler[h].bucket \in 1..Len(buckets)
                 /\ handler[h].pc = "lock" => handler[h].now \in 0..tick
      <4>1. handler[h] \in HandlerRec
        BY DEF AdmissionInv, AdmissionTyped
      <4>2. ASSUME handler[h].pc = "lock" PROVE handler[h].now \in 0..tick
        <5>1. PICK k \in 1..Len(buckets) : k = handler[h].bucket
          BY <4>2 DEF AdmissionInv, AdmissionTyped
        <5>2. buckets[k].born \in Nat /\ buckets[k].born <= handler[h].now /\ handler[h].now <= tick
          BY <4>2, <5>1, GivenInt DEF AdmissionInv, AdmissionTyped
        <5> QED
          BY <4>1, <5>2, AdmissionFacts DEF HandlerRec, AdmissionInv, AdmissionTyped
      <4> QED
        BY <4>1, <4>2 DEF AdmissionInv, AdmissionTyped, HandlerRec, AcquirePcs
    <3>3. \A i \in 1..Len(lru) : lru[i] \in 1..Len(buckets)
      BY DEF AdmissionInv, AdmissionTyped
    <3> QED
      BY <3>1, <3>2, <3>3 DEF AdmissionInv, AdmissionTyped, AdmissionTypeOK
  <2>2. RateBounded
    <3> SUFFICES ASSUME NEW i \in 1..Len(buckets)
                 PROVE  buckets[i].granted * Cost
                          <= Capacity + Refill * (tick - buckets[i].born) * Cardinality(Handlers)
      BY DEF RateBounded
    <3>1. PICK a \in Nat, n \in Nat, d \in Nat, v \in Int, f \in Nat :
            /\ a = Cardinality(Passed(i)) /\ n = Cardinality(Handlers) /\ d = tick - buckets[i].born
            /\ v = buckets[i].granted * Cost /\ f = buckets[i].tokens
      <4>1. Cardinality(Passed(i)) \in Nat /\ Cardinality(Handlers) \in Nat
        BY PassedFinite, AdmissionFacts
      <4>2. tick - buckets[i].born \in Nat /\ buckets[i].tokens \in Nat /\ buckets[i].granted \in Nat
        BY PassedAtMost, GivenInt DEF AdmissionInv
      <4>3. buckets[i].granted * Cost \in Int
        BY <4>2, AdmissionFacts
      <4> QED
        BY <4>1, <4>2, <4>3
    <3>2. a <= n * d
      BY <3>1, PassedAtMost DEF AdmissionInv
    <3>3. v + f <= Capacity + Refill * a
      BY <3>1 DEF AdmissionInv, RateKept, Given
    <3>4. n * d \in Int /\ Refill \in Nat /\ Capacity \in Nat
      BY AdmissionFacts
    <3>5. Refill * a <= Refill * (n * d) /\ Refill * a \in Int /\ Refill * (n * d) \in Int
      BY <3>2, <3>4, RefillAdds
    <3>6. Refill * (n * d) = Refill * d * n
      BY <3>4
    <3>7. v <= Capacity + Refill * d * n
      BY <3>3, <3>4, <3>5, <3>6
    <3> QED
      BY <3>1, <3>7
  <2> QED
    BY <2>1, <2>2 DEF AdmissionInv, AdmissionSound
<1> QED
  BY <1>1, <1>2, <1>3, PTL DEF AdmissionSpec
=============================================================================
