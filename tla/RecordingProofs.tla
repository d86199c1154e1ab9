-------------------------- MODULE RecordingProofs --------------------------
(***************************************************************************)
(* Proofs about Recording, for any meetings, apps, threads, modes and      *)
(* budgets.                                                                *)
(*                                                                         *)
(* The inductive invariant has three layers.  Of any threads: the types,   *)
(* where each thread may be, that what is recorded has no job that could   *)
(* begin, who holds the detector's lock, and why the streams are open.  Of *)
(* threads that do not overlap: who has the recorder in hand, and what its *)
(* buffers and files have heard.  Of events one after the other: which     *)
(* meeting is in whose hand, and how long it is.                           *)
(*                                                                         *)
(* First what each step does, from its definition; then, layer by layer,   *)
(* that no step breaks it.                                                 *)
(***************************************************************************)
EXTENDS Recording, TLAPS

(***************************************************************************)
(* The invariants.                                                         *)
(***************************************************************************)
\* Where each thread may be, and what it has in hand there.
Place(t) ==
    LET th == thread[t] IN
    /\ th.at = "rest" => th = AtRest
    /\ th.at = "commit" => th.meeting # None
    /\ th.at = "discarding" => t = Detector \/ th.meeting # None
    /\ th.at = "pause" => t \in Handlers
    /\ th.then = "discard" => t \in Handlers /\ th.meeting # None
    /\ t # Detector /\ th.at = "start" => th.then \in {"start", "tray"}
    /\ t # Detector /\ th.at \in {"stop", "clear", "finish"} => th.then \in {"rest", "discard"}
    /\ t = Main => th.at \in {"rest", "repair"}
    /\ t = Detector => th.at # "repair"

Placed ==
    /\ recorder.committed => recorder.meeting # None
    /\ \A t \in Threads : Place(t)

Base == RecordingTypeOK /\ Placed

\* What is being recorded has no transcription that could begin.
Unqueued ==
    \A m \in Meetings :
        /\ meeting[m].state = "NEW" => job[m] = "none"
        /\ meeting[m].state = "RECORDING" => job[m] \notin {"pending", "running"}

\* One thread at a time holds the detector's lock, and what it ends the detector follows.
Locked ==
    /\ \A t, u \in Threads : thread[t].locked /\ thread[u].locked => t = u
    /\ \A t \in Threads :
          thread[t].locked /\ thread[t].at \in {"stop", "clear", "finish"} => Follows
    /\ thread[Detector].at # "rest" => thread[Detector].locked

\* The detector is about to use the streams, or to close them.
Uses ==
    LET th == thread[Detector] IN
    th.at \in {"discarding", "start", "commit"} \/ (th.at = "finish" /\ th.then = "start")

Open ==
    ~Has("half") /\ recorder.streams /\ ~recorder.committed => det.state = "AWAKE" \/ Uses

Alone == \A t, u \in Threads : thread[t].at # "rest" /\ thread[u].at # "rest" => t = u

Somebody(at) == \E t \in Threads : thread[t].at = at

\* What a thread knows of the recorder when nobody else is at it.
Handed ==
    \A t \in Threads :
        /\ thread[t].at \in {"stop", "clear"} => recorder.committed
        /\ thread[t].at = "clear" => ~recorder.pump
        /\ thread[t].at \in {"finish", "repair"} => ~recorder.committed
        /\ t = Detector /\ thread[t].at \in {"start", "commit", "discarding"} =>
               ~recorder.committed

\* What was heard after a hang-up waits for nobody but the file of a recording that goes on.
Fed ==
    /\ recorder.committed => recorder.armed /\ recorder.writer = recorder.meeting
    /\ ~recorder.committed =>
          recorder.writer = None /\ "after" \notin recorder.ring \union recorder.queue
    /\ recorder.committed /\ ((recorder.streams /\ ~recorder.pump) \/ "after" \in recorder.queue) =>
          recorder.meeting \in unheard \/ Somebody("clear")

\* What is on disk of the time after a hang-up is of a meeting kept, or recorded unheard.
Marked(m) == m \in kept \union unheard

AfterIsMarked == \A m \in Meetings : "after" \in disk[m] => Marked(m)

InHand == Alone /\ Handed /\ Fed /\ AfterIsMarked

\* What is recorded is the meeting in hand, and the one the detector follows.
InStep ==
    /\ recorder.committed => recorder.meeting \in In("RECORDING")
    /\ Follows /\ recorder.committed => det.meeting = recorder.meeting

\* No meeting the user threw away comes back, nothing is heard of a new one, and nothing
\* long is thrown away.
Told ==
    /\ \A m \in thrown : meeting[m].state \in {"DISCARDED", "GONE"}
    /\ \A m \in Meetings : meeting[m].state = "NEW" => ~IsLong(m)
    /\ \A m \in Meetings \ thrown : meeting[m].state = "DISCARDED" => ~IsLong(m)

\* What a thread knows of the meetings: which one is in its hand, and how long it is.
Knows(t) ==
    LET th == thread[t] IN
    /\ th.at \in {"start", "commit"} => ~recorder.committed /\ (t # Detector => ~Follows)
    /\ th.at \in {"commit", "finish"} => th.meeting \in In("RECORDING")
    /\ th.at \in {"stop", "clear"} => th.meeting = recorder.meeting
    /\ th.at = "repair" => th.todo \subseteq In("RECORDING")
    /\ th.at = "discarding" /\ t # Detector =>
          /\ meeting[th.meeting].state # "NEW"
          /\ recorder.committed => recorder.meeting # th.meeting
    /\ th.at = "commit" /\ t # Detector /\ th.then \notin {"resume", "tray"} =>
          ~IsLong(th.meeting)
    /\ th.at \in {"clear", "finish"} /\ ~th.long => ~IsLong(th.meeting)

Calls == InStep /\ Told /\ \A t \in Threads : Knows(t)

\* Nothing is marked recording that nobody has in hand, but what the tray left.
InSomeHand ==
    \A m \in In("RECORDING") \ stranded :
        \/ recorder.committed /\ recorder.meeting = m
        \/ \E t \in Threads : thread[t].at \in {"commit", "finish"} /\ thread[t].meeting = m
        \/ \E t \in Threads : thread[t].at = "repair" /\ m \in thread[t].todo

\* All of it: what holds of any threads, of threads that do not overlap, and of events
\* one after the other.
RecordingIInv ==
    /\ Base /\ Unqueued /\ Locked /\ Open
    /\ ~Has("overlap") => InHand
    /\ InTurn => Calls /\ InSomeHand

(***************************************************************************)
(* What the recorder's methods do to its fields.                           *)
(***************************************************************************)
LEMMA ClosedIsRecorder == Closed \in Recorder
BY DEF Closed, Recorder

LEMMA RingGrows ==
    ASSUME RecorderTypeOK, NEW sounds \in SUBSET Sound
    PROVE  /\ Ring(sounds) \in SUBSET Sound
           /\ Ring(sounds) \subseteq recorder.ring \union sounds
           /\ Stored(sounds) \in [Meetings -> SUBSET Sound]
           /\ ~Writes \/ recorder.paused => Stored(sounds) = disk
           /\ \A m \in Meetings : m # recorder.writer => Stored(sounds)[m] = disk[m]
           /\ \A m \in Meetings : disk[m] \subseteq Stored(sounds)[m]
           /\ \A m \in Meetings : Stored(sounds)[m] \subseteq disk[m] \union sounds
<1>1. /\ recorder.ring \in SUBSET Sound /\ recorder.writer \in Meetings \union {None}
      /\ disk \in [Meetings -> SUBSET Sound]
  BY DEF RecorderTypeOK, Recorder
<1> QED BY <1>1 DEF Ring, Stored, OnDisk, Writes

LEMMA HeardIsSound == Heard \in Sound /\ Kept(Heard) \in Sound
BY DEF Heard, Kept, Sound

LEMMA HearDoes ==
    ASSUME RecorderTypeOK, Hear
    PROVE  /\ RecorderTypeOK'
           /\ recorder'.streams = recorder.streams /\ recorder'.committed = recorder.committed
           /\ recorder'.armed = recorder.armed /\ recorder'.pump = recorder.pump
           /\ recorder'.holding = recorder.holding /\ recorder'.paused = recorder.paused
           /\ recorder'.meeting = recorder.meeting /\ recorder'.writer = recorder.writer
           /\ recorder.streams
           /\ recorder'.queue \subseteq recorder.queue \union {Kept(Heard)}
           /\ recorder'.ring \subseteq recorder.ring \union {Heard}
           /\ recorder.pump => recorder'.queue = recorder.queue /\ disk' = Stored({Heard})
           /\ ~recorder.pump => disk' = disk /\ recorder'.ring = recorder.ring
<1>1. recorder \in Recorder
  BY DEF RecorderTypeOK
<1>2. CASE recorder.pump
  <2>1. recorder' = [recorder EXCEPT !.ring = Ring({Heard})] /\ disk' = Stored({Heard})
        /\ recorder.streams
    BY <1>2 DEF Hear
  <2>2. Ring({Heard}) \in SUBSET Sound /\ Ring({Heard}) \subseteq recorder.ring \union {Heard}
        /\ Stored({Heard}) \in [Meetings -> SUBSET Sound]
    BY RingGrows, HeardIsSound
  <2> QED BY <1>1, <1>2, <2>1, <2>2 DEF RecorderTypeOK, Recorder
<1>3. CASE ~recorder.pump
  <2>1. recorder' = [recorder EXCEPT !.queue = @ \union {Kept(Heard)}] /\ disk' = disk
        /\ recorder.streams
    BY <1>3 DEF Hear
  <2> QED BY <1>1, <1>3, <2>1, HeardIsSound DEF RecorderTypeOK, Recorder
<1> QED BY <1>2, <1>3

LEMMA ArmedIs ==
    ASSUME RecorderTypeOK
    PROVE  /\ Armed \in Recorder /\ Armed.armed
           /\ Armed.committed = recorder.committed /\ Armed.writer = recorder.writer
           /\ Armed.meeting = recorder.meeting /\ Armed.holding = recorder.holding
           /\ Armed.pump = recorder.pump /\ Armed.paused = recorder.paused
           /\ Armed.ring \subseteq recorder.ring /\ Armed.queue \subseteq recorder.queue
           /\ recorder.armed => Armed = recorder
<1>1. recorder \in Recorder
  BY DEF RecorderTypeOK
<1>2. CASE recorder.armed
  BY <1>1, <1>2 DEF Armed, Recorder
<1>3. CASE ~recorder.armed
  <2>1. Armed = [recorder EXCEPT !.armed = TRUE, !.streams = TRUE, !.queue = {}, !.ring = {}]
    BY <1>3 DEF Armed
  <2> QED BY <1>1, <1>3, <2>1 DEF Recorder
<1> QED BY <1>2, <1>3

\* commit where nothing is recorded.
LEMMA CommitDoes ==
    ASSUME RecorderTypeOK, NEW m \in Meetings, commit(m), ~recorder.committed
    PROVE  /\ RecorderTypeOK'
           /\ recorder'.committed /\ recorder'.armed
           /\ recorder'.meeting = m /\ recorder'.writer = m
           /\ recorder'.ring = {} /\ recorder'.queue \subseteq recorder.queue
           /\ recorder'.pump = recorder.pump
           /\ disk' = OnDisk(m, Armed.ring)
<1>1. /\ recorder' = [Armed EXCEPT !.committed = TRUE, !.meeting = m, !.writer = m, !.ring = {}]
      /\ disk' = OnDisk(m, Armed.ring)
  BY DEF commit
<1>2. recorder' \in Recorder /\ recorder'.committed /\ recorder'.armed
      /\ recorder'.meeting = m /\ recorder'.writer = m
      /\ recorder'.ring = {} /\ recorder'.queue = Armed.queue
      /\ recorder'.pump = recorder.pump
  BY <1>1, ArmedIs DEF Recorder
<1>3. Armed.ring \subseteq Sound
  BY ArmedIs DEF Recorder
<1>4. disk' \in [Meetings -> SUBSET Sound]
  BY <1>1, <1>3 DEF RecorderTypeOK, OnDisk
<1> QED BY <1>1, <1>2, <1>4, ArmedIs DEF RecorderTypeOK

\* And where something is: only what is open already.
LEMMA CommitAgain ==
    ASSUME RecorderTypeOK, NEW m \in Meetings, commit(m), recorder.committed
    PROVE  /\ RecorderTypeOK' /\ recorder' = Armed /\ disk' = disk
           /\ recorder'.committed /\ recorder'.meeting = recorder.meeting
BY ArmedIs DEF commit, arm, RecorderTypeOK

LEMMA StopCloseDoes ==
    ASSUME RecorderTypeOK, StopClose
    PROVE  /\ RecorderTypeOK'
           /\ recorder'.streams = recorder.streams /\ recorder'.committed = recorder.committed
           /\ recorder'.armed = recorder.armed /\ recorder'.pump = FALSE
           /\ recorder'.holding = recorder.holding /\ recorder'.paused = recorder.paused
           /\ recorder'.meeting = recorder.meeting /\ recorder'.writer = recorder.writer
           /\ recorder'.queue = {}
           /\ recorder'.ring \subseteq recorder.ring \union recorder.queue
           /\ disk' = Stored(recorder.queue)
<1>1. recorder \in Recorder /\ recorder.queue \in SUBSET Sound
  BY DEF RecorderTypeOK, Recorder
<1>2. recorder' = [recorder EXCEPT !.pump = FALSE, !.queue = {}, !.ring = Ring(recorder.queue)]
      /\ disk' = Stored(recorder.queue)
  BY DEF StopClose
<1>3. Ring(recorder.queue) \in SUBSET Sound
      /\ Ring(recorder.queue) \subseteq recorder.ring \union recorder.queue
      /\ Stored(recorder.queue) \in [Meetings -> SUBSET Sound]
  BY <1>1, RingGrows
<1> QED BY <1>1, <1>2, <1>3 DEF RecorderTypeOK, Recorder

LEMMA StopClearDoes ==
    ASSUME RecorderTypeOK, StopClear
    PROVE  /\ RecorderTypeOK' /\ disk' = disk
           /\ recorder'.streams = FALSE /\ recorder'.committed = FALSE /\ recorder'.armed = FALSE
           /\ recorder'.writer = None /\ recorder'.ring = {} /\ recorder'.queue = {}
           /\ recorder'.pump = recorder.pump
<1>1. recorder \in Recorder
  BY DEF RecorderTypeOK
<1>2. recorder' = [Closed EXCEPT !.meeting = recorder.meeting, !.pump = recorder.pump]
  BY DEF StopClear
<1> QED BY <1>1, <1>2 DEF Closed, Recorder, RecorderTypeOK, StopClear

LEMMA DiscardClearDoes ==
    ASSUME RecorderTypeOK, DiscardClear
    PROVE  /\ RecorderTypeOK' /\ disk' = disk
           /\ recorder'.streams = FALSE /\ recorder'.committed = FALSE /\ recorder'.armed = FALSE
           /\ recorder'.writer = recorder.writer /\ recorder'.meeting = recorder.meeting
           /\ recorder'.ring = {} /\ recorder'.queue = {} /\ recorder'.pump = recorder.pump
<1>1. recorder \in Recorder
  BY DEF RecorderTypeOK
<1>2. recorder' = [recorder EXCEPT !.armed = FALSE, !.streams = FALSE,
                        !.committed = FALSE, !.queue = {}, !.ring = {}]
  BY DEF DiscardClear
<1> QED BY <1>1, <1>2 DEF Recorder, RecorderTypeOK, DiscardClear

LEMMA SplitDoes ==
    ASSUME RecorderTypeOK, split
    PROVE  /\ RecorderTypeOK' /\ disk' = disk
           /\ recorder.committed /\ recorder.writer # None
           /\ recorder'.committed = FALSE /\ recorder'.armed = recorder.armed
           /\ recorder'.writer = None
           /\ recorder'.pump = recorder.pump /\ recorder'.streams = recorder.streams
           /\ "after" \notin recorder'.ring \union recorder'.queue
<1>1. recorder \in Recorder
  BY DEF RecorderTypeOK
<1>2. recorder' = [recorder EXCEPT !.writer = None, !.committed = FALSE,
                        !.holding = FALSE, !.meeting = None, !.ring = NextCall(recorder.ring),
                        !.queue = NextCall(recorder.queue)]
  BY <1>1 DEF split, Recorder
<1>3. \A s \in SUBSET Sound : NextCall(s) \in SUBSET Sound /\ "after" \notin NextCall(s)
  BY DEF NextCall, Sound
<1>4. NextCall(recorder.ring) \in SUBSET Sound /\ "after" \notin NextCall(recorder.ring)
      /\ NextCall(recorder.queue) \in SUBSET Sound /\ "after" \notin NextCall(recorder.queue)
  BY <1>1, <1>3 DEF Recorder
<1> QED BY <1>1, <1>2, <1>4 DEF Recorder, RecorderTypeOK, split, CanSplit

LEMMA HeldDoes ==
    ASSUME RecorderTypeOK, recorder' = Held(recorder), disk' = disk
    PROVE  /\ RecorderTypeOK'
           /\ recorder'.streams = recorder.streams /\ recorder'.committed = recorder.committed
           /\ recorder'.armed = recorder.armed /\ recorder'.pump = recorder.pump
           /\ recorder'.meeting = recorder.meeting /\ recorder'.writer = recorder.writer
           /\ recorder'.queue = recorder.queue /\ recorder'.ring \subseteq recorder.ring
<1>1. recorder \in Recorder
  BY DEF RecorderTypeOK
<1>2. recorder' = recorder \/ recorder' = [recorder EXCEPT !.holding = TRUE, !.ring = {}]
  BY DEF Held
<1>3. CASE recorder' = recorder
  BY <1>3 DEF RecorderTypeOK
<1>4. CASE recorder' = [recorder EXCEPT !.holding = TRUE, !.ring = {}]
  BY <1>1, <1>4 DEF Recorder, RecorderTypeOK
<1> QED BY <1>2, <1>3, <1>4

LEMMA ReleaseDoes ==
    ASSUME RecorderTypeOK, NEW keep \in BOOLEAN, release_hold(keep)
    PROVE  /\ RecorderTypeOK'
           /\ recorder'.streams = recorder.streams /\ recorder'.committed = recorder.committed
           /\ recorder'.armed = recorder.armed /\ recorder'.pump = recorder.pump
           /\ recorder'.meeting = recorder.meeting /\ recorder'.writer = recorder.writer
           /\ recorder'.queue = recorder.queue /\ recorder'.ring \subseteq recorder.ring
           /\ \/ disk' = disk
              \/ keep /\ recorder.writer # None /\ disk' = OnDisk(recorder.writer, recorder.ring)
<1>1. recorder \in Recorder
  BY DEF RecorderTypeOK
<1>2. CASE ~recorder.holding
  BY <1>1, <1>2 DEF release_hold, recorderVars, RecorderTypeOK
<1>3. CASE recorder.holding
  <2>1. /\ recorder' = [recorder EXCEPT !.holding = FALSE,
                            !.ring = IF recorder.writer = None THEN recorder.ring ELSE {}]
        /\ disk' = IF keep /\ recorder.writer # None
                   THEN OnDisk(recorder.writer, recorder.ring) ELSE disk
    BY <1>1, <1>3 DEF release_hold, Recorder
  <2>2. disk' \in [Meetings -> SUBSET Sound]
    BY <1>1, <2>1 DEF RecorderTypeOK, Recorder, OnDisk
  <2> QED BY <1>1, <2>1, <2>2 DEF Recorder, RecorderTypeOK
<1> QED BY <1>2, <1>3

LEMMA PauseDoes ==
    ASSUME RecorderTypeOK, NEW wanted \in BOOLEAN, SetPaused(wanted)
    PROVE  /\ RecorderTypeOK' /\ disk' = disk
           /\ recorder'.streams = recorder.streams /\ recorder'.committed = recorder.committed
           /\ recorder'.armed = recorder.armed /\ recorder'.pump = recorder.pump
           /\ recorder'.meeting = recorder.meeting /\ recorder'.writer = recorder.writer
           /\ recorder'.queue = recorder.queue /\ recorder'.ring = recorder.ring
<1>1. recorder \in Recorder /\ recorder' = [recorder EXCEPT !.paused = wanted]
  BY DEF RecorderTypeOK, SetPaused
<1> QED BY <1>1 DEF Recorder, RecorderTypeOK, SetPaused

LEMMA DeviceDoes ==
    ASSUME RecorderTypeOK, DeviceGone
    PROVE  /\ RecorderTypeOK' /\ disk' = disk
           /\ recorder'.streams = FALSE /\ recorder'.committed = recorder.committed
           /\ recorder'.armed = recorder.armed /\ recorder'.pump = FALSE
           /\ recorder'.meeting = recorder.meeting /\ recorder'.writer = recorder.writer
           /\ recorder'.queue = recorder.queue /\ recorder'.ring = recorder.ring
           /\ recorder.pump
<1>1. recorder \in Recorder /\ recorder' = [recorder EXCEPT !.pump = FALSE, !.streams = FALSE]
  BY DEF RecorderTypeOK, DeviceGone
<1> QED BY <1>1 DEF Recorder, RecorderTypeOK, DeviceGone

LEMMA HalfDoes ==
    ASSUME RecorderTypeOK, ArmsHalf
    PROVE  /\ recorder' \in Recorder
           /\ recorder'.streams = TRUE /\ recorder'.committed = recorder.committed
           /\ recorder'.armed = recorder.armed /\ recorder'.pump = recorder.pump
           /\ recorder'.meeting = recorder.meeting /\ recorder'.writer = recorder.writer
           /\ recorder'.queue = recorder.queue /\ recorder'.ring = recorder.ring
<1>1. recorder \in Recorder /\ recorder' = [recorder EXCEPT !.streams = TRUE]
  BY DEF RecorderTypeOK, ArmsHalf
<1> QED BY <1>1 DEF Recorder

LEMMA StartThreadDoes ==
    ASSUME RecorderTypeOK,
           recorder' = [recorder EXCEPT !.pump = TRUE, !.queue = {}, !.ring = Ring(recorder.queue)],
           disk' = Stored(recorder.queue)
    PROVE  /\ RecorderTypeOK'
           /\ recorder'.streams = recorder.streams /\ recorder'.committed = recorder.committed
           /\ recorder'.armed = recorder.armed /\ recorder'.pump = TRUE
           /\ recorder'.meeting = recorder.meeting /\ recorder'.writer = recorder.writer
           /\ recorder'.queue = {}
           /\ recorder'.ring \subseteq recorder.ring \union recorder.queue
<1>1. recorder \in Recorder /\ recorder.queue \in SUBSET Sound
  BY DEF RecorderTypeOK, Recorder
<1>2. Ring(recorder.queue) \in SUBSET Sound
      /\ Ring(recorder.queue) \subseteq recorder.ring \union recorder.queue
      /\ Stored(recorder.queue) \in [Meetings -> SUBSET Sound]
  BY <1>1, RingGrows
<1> QED BY <1>1, <1>2 DEF RecorderTypeOK, Recorder

LEMMA StartDoes ==
    ASSUME RecorderTypeOK, NEW m \in Meetings,
           recorder' = [Armed EXCEPT !.committed = TRUE, !.meeting = m,
                                   !.writer = m, !.pump = TRUE, !.queue = {}, !.ring = {}],
           disk' = IF Armed.paused THEN OnDisk(m, Armed.ring)
                   ELSE OnDisk(m, Armed.ring \union Armed.queue)
    PROVE  /\ RecorderTypeOK'
           /\ recorder'.committed /\ recorder'.armed /\ recorder'.pump
           /\ recorder'.meeting = m /\ recorder'.writer = m
           /\ recorder'.queue = {} /\ recorder'.ring = {}
           /\ \A p \in Meetings : p # m => disk'[p] = disk[p]
           /\ disk'[m] \subseteq disk[m] \union recorder.ring \union recorder.queue
<1>1. Armed \in Recorder /\ Armed.armed
      /\ Armed.ring \subseteq recorder.ring /\ Armed.queue \subseteq recorder.queue
  BY ArmedIs
<1>2. /\ Armed.ring \subseteq Sound /\ Armed.queue \subseteq Sound
      /\ disk \in [Meetings -> SUBSET Sound]
  BY <1>1 DEF Recorder, RecorderTypeOK
<1>3. recorder' \in Recorder /\ recorder'.committed /\ recorder'.armed /\ recorder'.pump
      /\ recorder'.meeting = m /\ recorder'.writer = m
      /\ recorder'.queue = {} /\ recorder'.ring = {}
  BY <1>1 DEF Recorder
<1>4. disk' \in [Meetings -> SUBSET Sound]
      /\ (\A p \in Meetings : p # m => disk'[p] = disk[p])
      /\ disk'[m] \subseteq disk[m] \union recorder.ring \union recorder.queue
  BY <1>1, <1>2 DEF OnDisk
<1> QED BY <1>3, <1>4 DEF RecorderTypeOK

(***************************************************************************)
(* What finish and discard do to the meetings.                             *)
(***************************************************************************)
\* What history says of a file stays with what was in it.
Carried ==
    /\ \A p \in Meetings : Marked(p) => Marked(p)'
    /\ kept' \subseteq Meetings /\ unheard' \subseteq Meetings
    /\ unheard \subseteq unheard'
    /\ (\A p \in Meetings : "after" \in disk[p] => Marked(p))
          => (\A p \in Meetings : "after" \in disk'[p] => Marked(p)')

Rows ==
    /\ meeting \in [Meetings -> Meeting] /\ job \in [Meetings -> Job]
    /\ disk \in [Meetings -> SUBSET Sound]
    /\ kept \subseteq Meetings /\ unheard \subseteq Meetings

\* Only m changes its state, is recorded no more, and a job comes only for what was recorded.
Settles(m) ==
    /\ \A p \in Meetings : p # m => meeting'[p] = meeting[p]
    /\ meeting'[m].state # "RECORDING"
    /\ meeting'[m].state = "NEW" => meeting[m].state = "NEW"
    /\ meeting[m].state \in {"DISCARDED", "GONE"} /\ meeting[m].state # meeting'[m].state =>
          meeting[m].state = "DISCARDED" /\ meeting'[m].state \in {"RECORDED", "GONE"}
    /\ \A p \in Meetings : job'[p] # job[p] => meeting'[p].state \in {"RECORDED", "GONE"}
    /\ \A p \in Meetings : disk'[p] # disk[p] => meeting'[p].state \in {"RECORDED", "GONE"}

LEMMA DiscardDoes ==
    ASSUME Rows, NEW m \in Meetings, discard(m)
    PROVE  /\ Rows' /\ disk' = disk /\ Carried
           /\ job' = job
           /\ \A p \in Meetings : p # m => meeting'[p] = meeting[p]
           /\ meeting'[m].state = meeting[m].state \/ meeting'[m].state = "DISCARDED"
           /\ meeting'[m].state \in {"NEW", "DISCARDED", "GONE"}
           /\ meeting'[m].state = "NEW" => meeting[m].state = "NEW"
           /\ meeting[m].state = "GONE" => meeting'[m].state = "GONE"
<1>1. meeting[m] \in Meeting
  BY DEF Rows
<1>2. UNCHANGED <<job, disk, kept, unheard>>
  BY DEF discard, marks
<1>3. CASE meeting[m].state \in {"RECORDING", "RECORDED", "TAKEN"}
  <2>1. meeting' = [meeting EXCEPT ![m].state = "DISCARDED"]
    BY <1>3 DEF discard, InState
  <2>2. meeting'[m] = [meeting[m] EXCEPT !.state = "DISCARDED"]
        /\ \A p \in Meetings : p # m => meeting'[p] = meeting[p]
    BY <2>1 DEF Rows
  <2>3. meeting'[m] \in Meeting /\ meeting'[m].state = "DISCARDED"
    BY <1>1, <2>2 DEF Meeting, State
  <2> QED BY <1>2, <1>3, <2>1, <2>2, <2>3 DEF Rows, Carried, Marked
<1>4. CASE meeting[m].state \notin {"RECORDING", "RECORDED", "TAKEN"}
  <2>1. meeting' = meeting
    BY <1>4 DEF discard
  <2> QED BY <1>1, <1>2, <1>4, <2>1 DEF Rows, Carried, Marked, Meeting, State
<1> QED BY <1>3, <1>4

LEMMA SaveDoes ==
    ASSUME Rows, NEW m \in Meetings, Save(m)
    PROVE  /\ Rows' /\ disk' = disk /\ Carried
           /\ \A p \in Meetings : p # m => meeting'[p] = meeting[p] /\ job'[p] = job[p]
           /\ meeting'[m].state = "RECORDED"
<1>1. meeting[m] \in Meeting
  BY DEF Rows
<1>2. meeting' = [meeting EXCEPT ![m].state = "RECORDED"] /\ job' = [job EXCEPT ![m] = "pending"]
      /\ UNCHANGED <<disk, kept, unheard>>
  BY DEF Save, InState, marks
<1>3. meeting'[m] = [meeting[m] EXCEPT !.state = "RECORDED"]
      /\ \A p \in Meetings : p # m => meeting'[p] = meeting[p]
  BY <1>2 DEF Rows
<1>4. meeting'[m] \in Meeting /\ meeting'[m].state = "RECORDED"
  BY <1>1, <1>3 DEF Meeting, State
<1>5. job' \in [Meetings -> Job] /\ \A p \in Meetings : p # m => job'[p] = job[p]
  BY <1>2 DEF Rows, Job
<1> QED BY <1>2, <1>3, <1>4, <1>5 DEF Rows, Carried, Marked

LEMMA JoinDoes ==
    ASSUME Rows, NEW m \in Meetings, NEW other \in Meetings, Join(m, other)
    PROVE  /\ Rows' /\ Carried
           /\ \A p \in Meetings : p # m => meeting'[p] = meeting[p]
           /\ meeting'[m].state = "GONE" /\ meeting'[other].state = "RECORDED"
           /\ \A p \in Meetings \ {m, other} : job'[p] = job[p] /\ disk'[p] = disk[p]
<1>1. meeting[m] \in Meeting /\ m # other /\ meeting[other].state = "RECORDED"
  BY DEF Rows, Join
<1>2. /\ meeting' = [meeting EXCEPT ![m].state = "GONE"]
      /\ job' = [job EXCEPT ![other] = "pending", ![m] = "none"]
      /\ disk' = [disk EXCEPT ![other] = disk[other] \union disk[m], ![m] = {}]
      /\ kept' = IF m \in kept THEN kept \union {other} ELSE kept
      /\ unheard' = IF m \in unheard THEN unheard \union {other} ELSE unheard
  BY <1>1 DEF Join, InState, Rows
<1>3. meeting'[m] = [meeting[m] EXCEPT !.state = "GONE"]
      /\ \A p \in Meetings : p # m => meeting'[p] = meeting[p]
  BY <1>2 DEF Rows
<1>4. meeting'[m] \in Meeting /\ meeting'[m].state = "GONE"
  BY <1>1, <1>3 DEF Meeting, State
<1>5. job' \in [Meetings -> Job] /\ \A p \in Meetings \ {m, other} : job'[p] = job[p]
  BY <1>2 DEF Rows, Job
<1>6. /\ disk' \in [Meetings -> SUBSET Sound]
      /\ disk'[m] = {} /\ disk'[other] = disk[other] \union disk[m]
      /\ \A p \in Meetings \ {m, other} : disk'[p] = disk[p]
  BY <1>1, <1>2 DEF Rows
<1>7. Carried
  <2>1. \A p \in Meetings : Marked(p) => Marked(p)'
    BY <1>2 DEF Marked
  <2>2. Marked(m) => Marked(other)'
    BY <1>2 DEF Marked
  <2>3. kept' \subseteq Meetings /\ unheard' \subseteq Meetings /\ unheard \subseteq unheard'
    BY <1>2 DEF Rows
  <2> QED BY <1>6, <2>1, <2>2, <2>3 DEF Carried
<1> QED BY <1>1, <1>2, <1>3, <1>4, <1>5, <1>6, <1>7 DEF Rows, Carried

LEMMA FinishDoes ==
    ASSUME Rows, NEW m \in Meetings, NEW long \in BOOLEAN, finish(m, long)
    PROVE  /\ Rows' /\ Carried /\ Settles(m)
           /\ meeting'[m].state = "DISCARDED" /\ meeting[m].state # "DISCARDED" => ~long
           /\ meeting'[m].state = "DISCARDED" => disk' = disk
<1>1. CASE meeting[m].state = "GONE"
  <2>1. UNCHANGED <<meeting, job, disk, kept, unheard>>
    BY <1>1 DEF finish, marks
  <2> QED BY <1>1, <2>1 DEF Rows, Carried, Marked, Settles
<1>2. CASE meeting[m].state # "GONE" /\ ~long /\ meeting[m].source = "detected"
  <2>1. discard(m)
    BY <1>2 DEF finish
  <2> QED BY <1>2, <2>1, DiscardDoes DEF Settles
<1>3. CASE meeting[m].state # "GONE" /\ ~(~long /\ meeting[m].source = "detected")
  <2>1. Save(m) \/ \E other \in Meetings : Join(m, other)
    BY <1>3 DEF finish
  <2>2. CASE Save(m)
    BY <1>3, <2>2, SaveDoes DEF Settles
  <2>3. ASSUME NEW other \in Meetings, Join(m, other)
        PROVE  /\ Rows' /\ Carried /\ Settles(m) /\ meeting'[m].state # "DISCARDED"
    BY <1>3, <2>3, JoinDoes DEF Settles
  <2> QED BY <2>1, <2>2, <2>3
<1> QED BY <1>1, <1>2, <1>3

(***************************************************************************)
(* Threads and budgets.                                                    *)
(***************************************************************************)
LEMMA ThreadsDiffer ==
    /\ Detector \in Threads /\ Main \in Threads /\ Detector # Main
    /\ \A h \in Handlers : h \in Threads /\ h # Detector /\ h # Main
BY ThreadsAreApart DEF Threads, Detector, Main

LEMMA AtRestIsThread ==
    /\ AtRest \in Thread /\ AtRest.at = "rest" /\ AtRest.then = "rest" /\ ~AtRest.locked
    /\ AtRest.meeting = None /\ AtRest.todo = {} /\ ~AtRest.long
BY DEF AtRest, Thread, At

Only(t) == \A u \in Threads \ {t} : thread'[u] = thread[u]

LEMMA BecomesDoes ==
    ASSUME thread \in [Threads -> Thread], NEW t \in Threads, NEW th \in Thread, Becomes(t, th)
    PROVE  thread' \in [Threads -> Thread] /\ thread'[t] = th /\ Only(t)
BY DEF Becomes, Only

Budgeted ==
    /\ left' \in [Events \union Circumstances -> Nat]
    /\ \A c \in Circumstances : left'[c] = left[c]
    /\ \A e \in Events : left[e] = 0 => left'[e] = 0

LEMMA SpendDoes ==
    ASSUME RecordingTypeOK, NEW e \in Events, Spend(e)
    PROVE  Budgeted /\ left[e] > 0
<1>1. left \in [Events \union Circumstances -> Nat]
  BY DEF RecordingTypeOK
<1>2. left' = [left EXCEPT ![e] = left[e] - 1] /\ left[e] > 0
  BY DEF Spend
<1>3. \A c \in Circumstances : c \notin Events
  BY DEF Events, Circumstances
<1>4. left[e] - 1 \in Nat
  BY <1>1, <1>2
<1> QED BY <1>1, <1>2, <1>3, <1>4 DEF Budgeted

LEMMA KeepsBudget ==
    ASSUME RecordingTypeOK, left' = left
    PROVE  Budgeted
BY DEF RecordingTypeOK, Budgeted

LEMMA BaseRows == ASSUME Base PROVE Rows /\ RecorderTypeOK
BY DEF Base, RecordingTypeOK, Rows, RecorderTypeOK

\* One thread moves on, and what it has in hand is there.
LEMMA PlacedStays ==
    ASSUME Base, NEW t \in Threads, Only(t),
           Place(t)', recorder'.committed => recorder'.meeting # None
    PROVE  Placed'
BY DEF Base, Placed, Place, Only

LEMMA PlacedAside ==
    ASSUME Base, thread' = thread, recorder'.committed => recorder'.meeting # None
    PROVE  Placed'
BY DEF Base, Placed, Place

(***************************************************************************)
(* Presses.                                                                *)
(***************************************************************************)
LEMMA AtBegin ==
    ASSUME Base, NEW t \in Threads, Begins(t)
    PROVE  thread[t] = AtRest /\ thread \in [Threads -> Thread]
BY DEF Base, Placed, Place, Begins, RecordingTypeOK

LEMMA StartPressedDoes ==
    ASSUME Base, NEW h \in Handlers, StartPressed(h) \/ TrayStart(h)
    PROVE  /\ Base' /\ Budgeted /\ Only(h) /\ Begins(h) /\ Noticed
           /\ TrayStart(h) => left["tray"] > 0
           /\ StartPressed(h) \/ ~Has("hasty") => ~recorder.committed
           /\ thread'[h].at = "start" /\ ~thread'[h].locked
           /\ thread'[h].then \in {"start", "tray"}
           /\ thread'[h].then = "tray" => TrayStart(h)
           /\ UNCHANGED <<recorder, disk, meeting, job, det, outside, history>>
<1>1. h \in Threads /\ thread[h] = AtRest /\ thread \in [Threads -> Thread] /\ h # Main /\ h # Detector
  BY AtBegin, ThreadsDiffer DEF StartPressed, TrayStart
<1> DEFINE th(how) == [AtRest EXCEPT !.at = "start", !.then = how]
<1>2. \A how \in {"start", "tray"} : th(how) \in Thread /\ th(how).at = "start" /\ th(how).then = how
                 /\ ~th(how).locked
  BY DEF AtRest, Thread, At
<1>3. PICK how \in {"start", "tray"} : /\ Becomes(h, th(how))
                                       /\ how = "start" => StartPressed(h)
                                       /\ how = "tray" => TrayStart(h)
  BY <1>1 DEF StartPressed, TrayStart
<1>4. thread' \in [Threads -> Thread] /\ thread'[h] = th(how) /\ Only(h)
  BY <1>1, <1>2, <1>3, BecomesDoes
<1>5. UNCHANGED <<recorder, disk, meeting, job, det, outside, history>>
  BY DEF StartPressed, TrayStart
<1>6. Budgeted /\ (TrayStart(h) => left["tray"] > 0)
  BY SpendDoes DEF StartPressed, TrayStart, Base, Events
<1>7. RecordingTypeOK'
  BY <1>4, <1>5, <1>6 DEF Base, RecordingTypeOK, RecorderTypeOK, Budgeted, outside, history
<1>8. Placed'
  BY <1>1, <1>2, <1>4, <1>5, PlacedStays DEF Place, Base, Placed
<1>9. /\ Begins(h) /\ Noticed
      /\ StartPressed(h) \/ ~Has("hasty") => ~recorder.committed
  BY DEF StartPressed, TrayStart
<1>10. /\ thread'[h].at = "start" /\ ~thread'[h].locked
       /\ thread'[h].then \in {"start", "tray"}
       /\ thread'[h].then = "tray" => TrayStart(h)
  BY <1>2, <1>3, <1>4
<1> QED BY <1>4, <1>5, <1>6, <1>7, <1>8, <1>9, <1>10 DEF Base

\* Made, or taken up again.
NamedAs(t, m) ==
    /\ thread'[t].meeting = m
    /\ meeting'[m].state = "RECORDING"
    /\ meeting[m].state \in {"NEW", "RECORDED"}
    /\ meeting[m].state = "NEW" => job' = job
    /\ meeting[m].state = "RECORDED" =>
          /\ job'[m] \notin {"pending", "running"}
          /\ thread[t].then = "start" => thread'[t].then = "resume"
    /\ thread[t].then = "tray" => meeting[m].state = "NEW"
    /\ \A p \in Meetings : p # m => meeting'[p] = meeting[p] /\ job'[p] = job[p]

LEMMA NamedDoes ==
    ASSUME Base, NEW t \in Threads, Named(t)
    PROVE  /\ Base' /\ Only(t) /\ left' = left
           /\ UNCHANGED <<recorder, disk, det, outside, history>>
           /\ thread[t].at = "start" /\ thread'[t].at = "commit"
           /\ thread'[t].locked = thread[t].locked /\ t # Main
           /\ thread'[t].then = "tray" => thread[t].then = "tray"
           /\ \E m \in Meetings : NamedAs(t, m)
<1>1. thread[t] \in Thread /\ thread \in [Threads -> Thread]
      /\ meeting \in [Meetings -> Meeting] /\ job \in [Meetings -> Job]
  BY DEF Base, RecordingTypeOK
<1>2. thread[t].at = "start" /\ UNCHANGED <<recorder, disk, det, outside, left, history>>
  BY DEF Named
<1>3. t # Main
  BY <1>2 DEF Base, Placed, Place
<1>4. PICK m \in Meetings : \/ Create(t, m, IF t = Detector THEN "detected" ELSE "manual")
                            \/ thread[t].then # "tray" /\ Reopen(t, m)
  BY DEF Named
<1>5. thread[t].then # "discard" \/ (t \in Handlers /\ thread[t].meeting # None)
  BY DEF Base, Placed, Place
<1>6. CASE Create(t, m, IF t = Detector THEN "detected" ELSE "manual")
  <2> DEFINE th == [thread[t] EXCEPT !.at = "commit", !.meeting = m]
             new == [state |-> "RECORDING", source |-> IF t = Detector THEN "detected" ELSE "manual"]
  <2>1. meeting[m].state = "NEW" /\ meeting' = [meeting EXCEPT ![m] = new] /\ job' = job
        /\ Becomes(t, th)
    BY <1>6 DEF Create, In
  <2>2. new \in Meeting /\ new.state = "RECORDING"
    BY DEF Meeting, State
  <2>3. th \in Thread /\ th.at = "commit" /\ th.meeting = m /\ th.locked = thread[t].locked
        /\ th.then = thread[t].then
    BY <1>1 DEF Thread, At
  <2> HIDE DEF th, new
  <2>4. thread' \in [Threads -> Thread] /\ thread'[t] = th /\ Only(t)
    BY <1>1, <2>1, <2>3, BecomesDoes
  <2>5. meeting' \in [Meetings -> Meeting] /\ meeting'[m].state = "RECORDING"
        /\ \A p \in Meetings : p # m => meeting'[p] = meeting[p]
    BY <1>1, <2>1, <2>2
  <2>6. RecordingTypeOK'
    BY <1>2, <2>1, <2>4, <2>5 DEF Base, RecordingTypeOK, RecorderTypeOK, outside, history
  <2>7. Placed'
    <3>1. Place(t)'
      BY <1>3, <1>5, <2>3, <2>4, NoneIsNoMeeting DEF Place
    <3> QED BY <1>2, <2>4, <3>1, PlacedStays DEF Base, Placed
  <2>8. NamedAs(t, m)
    BY <2>1, <2>3, <2>4, <2>5 DEF NamedAs
  <2> QED BY <1>2, <1>3, <2>3, <2>4, <2>6, <2>7, <2>8 DEF Base
<1>7. CASE thread[t].then # "tray" /\ Reopen(t, m)
  <2> DEFINE th == [thread[t] EXCEPT !.at = "commit", !.meeting = m,
                       !.then = IF thread[t].then = "start" THEN "resume" ELSE thread[t].then]
  <2>1. meeting[m].state = "RECORDED" /\ meeting' = [meeting EXCEPT ![m].state = "RECORDING"]
        /\ job' = [job EXCEPT ![m] = IF job[m] = "pending" THEN "cancelled" ELSE job[m]]
        /\ job[m] # "running" /\ Becomes(t, th)
    BY <1>1, <1>7 DEF Reopen, In, InState, Thread
  <2>2. meeting'[m] = [meeting[m] EXCEPT !.state = "RECORDING"]
        /\ \A p \in Meetings : p # m => meeting'[p] = meeting[p]
    BY <1>1, <2>1
  <2>3. meeting[m] \in Meeting
    BY <1>1
  <2>4. meeting'[m] \in Meeting /\ meeting'[m].state = "RECORDING"
    BY <2>2, <2>3 DEF Meeting, State
  <2>5. meeting' \in [Meetings -> Meeting]
    BY <1>1, <2>1, <2>2, <2>4
  <2>6. /\ job' \in [Meetings -> Job] /\ \A p \in Meetings : p # m => job'[p] = job[p]
        /\ job'[m] \notin {"pending", "running"}
    BY <1>1, <2>1 DEF Job
  <2>7. th \in Thread /\ th.at = "commit" /\ th.meeting = m /\ th.locked = thread[t].locked
        /\ (thread[t].then = "start" => th.then = "resume")
        /\ th.then \in {thread[t].then, "resume"}
    BY <1>1 DEF Thread, At
  <2> HIDE DEF th
  <2>8. thread' \in [Threads -> Thread] /\ thread'[t] = th /\ Only(t)
    BY <1>1, <2>1, <2>7, BecomesDoes
  <2>9. RecordingTypeOK'
    BY <1>2, <2>5, <2>6, <2>8 DEF Base, RecordingTypeOK, RecorderTypeOK, outside, history
  <2>10. Placed'
    <3>1. Place(t)'
      BY <1>3, <1>5, <2>7, <2>8, NoneIsNoMeeting DEF Place
    <3> QED BY <1>2, <2>8, <3>1, PlacedStays DEF Base, Placed
  <2>11. NamedAs(t, m)
    BY <1>7, <2>1, <2>2, <2>4, <2>6, <2>7, <2>8 DEF NamedAs
  <2> QED BY <1>2, <1>3, <2>7, <2>8, <2>9, <2>10, <2>11 DEF Base
<1> QED BY <1>4, <1>6, <1>7

LEMMA StartCommitsDoes ==
    ASSUME Base, NEW h \in Handlers, StartCommits(h)
    PROVE  /\ Base' /\ Only(h) /\ thread[h].at = "commit" /\ thread'[h] = AtRest
           /\ UNCHANGED <<meeting, job, det, outside, left, history>>
           /\ recorder'.committed /\ thread[h].meeting \in Meetings
           /\ IF recorder.committed
              THEN /\ recorder' = [recorder EXCEPT !.pump = TRUE, !.queue = {},
                                              !.ring = Ring(recorder.queue)]
                   /\ disk' = Stored(recorder.queue)
              ELSE /\ recorder' = [Armed EXCEPT !.committed = TRUE, !.meeting = thread[h].meeting,
                                   !.writer = thread[h].meeting, !.pump = TRUE, !.queue = {},
                                   !.ring = {}]
                   /\ disk' = IF Armed.paused THEN OnDisk(thread[h].meeting, Armed.ring)
                              ELSE OnDisk(thread[h].meeting, Armed.ring \union Armed.queue)
<1>1. h \in Threads /\ thread \in [Threads -> Thread] /\ thread[h] \in Thread /\ h # Detector /\ h # Main
  BY ThreadsDiffer DEF Base, RecordingTypeOK
<1>2. /\ thread[h].at = "commit" /\ Becomes(h, AtRest)
      /\ UNCHANGED <<meeting, job, det, outside, left, history>>
  BY DEF StartCommits
<1>3. thread[h].meeting \in Meetings
  BY <1>1, <1>2 DEF Base, Placed, Place, Thread
<1>4. thread' \in [Threads -> Thread] /\ thread'[h] = AtRest /\ Only(h)
  BY <1>1, <1>2, AtRestIsThread, BecomesDoes
<1> DEFINE m == thread[h].meeting
<1>5. IF recorder.committed
              THEN /\ recorder' = [recorder EXCEPT !.pump = TRUE, !.queue = {},
                                              !.ring = Ring(recorder.queue)]
                   /\ disk' = Stored(recorder.queue)
              ELSE /\ recorder' = [Armed EXCEPT !.committed = TRUE, !.meeting = m,
                                   !.writer = m, !.pump = TRUE, !.queue = {},
                                   !.ring = {}]
                   /\ disk' = IF Armed.paused THEN OnDisk(m, Armed.ring)
                              ELSE OnDisk(m, Armed.ring \union Armed.queue)
  BY DEF StartCommits
<1> HIDE DEF m
<1>6. RecorderTypeOK' /\ recorder'.committed /\ recorder'.meeting # None
  <2>1. CASE recorder.committed
    BY <1>5, <2>1, BaseRows, StartThreadDoes DEF Base, Placed
  <2>2. CASE ~recorder.committed
    <3>1. m \in Meetings
      BY <1>3 DEF m
    <3> QED BY <1>5, <2>2, <3>1, BaseRows, StartDoes, NoneIsNoMeeting
  <2> QED BY <2>1, <2>2
<1>7. RecordingTypeOK'
  BY <1>2, <1>4, <1>6 DEF Base, RecordingTypeOK, outside, history
<1>8. Placed'
  <2>1. Place(h)'
    BY <1>1, <1>4, AtRestIsThread DEF Place
  <2> QED BY <1>1, <1>4, <1>6, <2>1, PlacedStays
<1> QED BY <1>2, <1>3, <1>4, <1>5, <1>6, <1>7, <1>8 DEF Base, m

LEMMA StartFailsDoes ==
    ASSUME Base, NEW h \in Handlers, StartFails(h)
    PROVE  /\ Base' /\ Budgeted /\ Only(h) /\ left["noDevice"] > 0
           /\ thread[h].at = "commit" /\ thread'[h] = AtRest /\ thread[h].meeting \in Meetings
           /\ UNCHANGED <<det, outside, thrown>> /\ ~recorder.armed
           /\ recorder'.committed = recorder.committed /\ recorder'.armed = recorder.armed
           /\ recorder'.pump = recorder.pump
           /\ recorder'.meeting = recorder.meeting /\ recorder'.writer = recorder.writer
           /\ recorder'.queue = recorder.queue /\ recorder'.ring = recorder.ring
           /\ recorder'.streams = recorder.streams \/ Has("half")
           /\ \/ thread[h].then = "resume" /\ finish(thread[h].meeting, TRUE)
              \/ thread[h].then = "tray" /\ UNCHANGED <<meeting, job, disk, marks>>
              \/ thread[h].then \notin {"resume", "tray"} /\ discard(thread[h].meeting)
           /\ stranded' = IF thread[h].then = "tray" THEN stranded \union {thread[h].meeting}
                          ELSE stranded
<1>1. h \in Threads /\ thread \in [Threads -> Thread] /\ thread[h] \in Thread /\ h # Detector /\ h # Main
  BY ThreadsDiffer DEF Base, RecordingTypeOK
<1>2. /\ thread[h].at = "commit" /\ Becomes(h, AtRest) /\ ~recorder.armed
      /\ UNCHANGED <<det, outside, thrown>>
      /\ stranded' = IF thread[h].then = "tray" THEN stranded \union {thread[h].meeting}
                     ELSE stranded
  BY DEF StartFails
<1>3. thread[h].meeting \in Meetings
  BY <1>1, <1>2 DEF Base, Placed, Place, Thread
<1>4. thread' \in [Threads -> Thread] /\ thread'[h] = AtRest /\ Only(h)
  BY <1>1, <1>2, AtRestIsThread, BecomesDoes
<1>5. Budgeted /\ left["noDevice"] > 0
  BY SpendDoes DEF StartFails, Base, Events
<1>6. /\ recorder' \in Recorder /\ recorder'.committed = recorder.committed /\ recorder'.armed = recorder.armed
      /\ recorder'.pump = recorder.pump
      /\ recorder'.meeting = recorder.meeting /\ recorder'.writer = recorder.writer
      /\ recorder'.queue = recorder.queue /\ recorder'.ring = recorder.ring
      /\ recorder'.streams = recorder.streams \/ Has("half")
  <2>1. CASE Has("half")
    BY <2>1, BaseRows, HalfDoes DEF StartFails
  <2>2. CASE ~Has("half")
    BY <2>2, BaseRows DEF StartFails, RecorderTypeOK
  <2> QED BY <2>1, <2>2
<1>7. \/ thread[h].then = "resume" /\ finish(thread[h].meeting, TRUE)
      \/ thread[h].then = "tray" /\ UNCHANGED <<meeting, job, disk, marks>>
      \/ thread[h].then \notin {"resume", "tray"} /\ discard(thread[h].meeting)
  BY DEF StartFails
<1>8. Rows'
  <2>1. CASE finish(thread[h].meeting, TRUE)
    BY <1>3, <2>1, BaseRows, FinishDoes
  <2>2. CASE UNCHANGED <<meeting, job, disk, marks>>
    BY <2>2, BaseRows DEF marks, Rows
  <2>3. CASE discard(thread[h].meeting)
    BY <1>3, <2>3, BaseRows, DiscardDoes
  <2> QED BY <1>7, <2>1, <2>2, <2>3
<1>9. RecordingTypeOK'
  BY <1>2, <1>3, <1>4, <1>5, <1>6, <1>8 DEF Base, RecordingTypeOK, RecorderTypeOK, outside, Budgeted, Rows
<1>10. Placed'
  <2>1. Place(h)'
    BY <1>1, <1>4, AtRestIsThread DEF Place
  <2> QED BY <1>1, <1>4, <1>6, <2>1, PlacedStays DEF Base, Placed
<1> QED BY <1>2, <1>3, <1>4, <1>5, <1>6, <1>7, <1>9, <1>10 DEF Base

\* One of three.
StopsAs(h) ==
    \/ /\ EndsNow /\ LockFree(h) /\ thread'[h].at = "stop" /\ thread'[h].locked
       /\ thread'[h].meeting = det.meeting
    \/ /\ recorder.committed /\ thread'[h].at = "stop" /\ ~thread'[h].locked
       /\ thread'[h].meeting = recorder.meeting
    \/ /\ ~recorder.committed /\ thread'[h].at = "repair" /\ ~thread'[h].locked
       /\ thread'[h].todo = In("RECORDING")

LEMMA StopPressedDoes ==
    ASSUME Base, NEW h \in Handlers, StopPressed(h)
    PROVE  /\ Base' /\ Budgeted /\ Only(h) /\ Begins(h)
           /\ UNCHANGED <<recorder, disk, meeting, job, det, outside, history>>
           /\ thread'[h].then = "rest" /\ StopsAs(h)
<1>1. h \in Threads /\ thread[h] = AtRest /\ thread \in [Threads -> Thread] /\ h # Main /\ h # Detector
  BY AtBegin, ThreadsDiffer DEF StopPressed
<1>2. Budgeted /\ Begins(h) /\ UNCHANGED <<recorder, disk, meeting, job, det, outside, history>>
  BY SpendDoes DEF StopPressed, Base, Events
<1>3. recorder.meeting \in Meetings \union {None} /\ det.meeting \in Meetings \union {None}
  BY DEF Base, RecordingTypeOK, RecorderTypeOK, Recorder, Watcher
<1>4. In("RECORDING") \subseteq Meetings
  BY DEF In
<1>5. PICK th \in Thread :
         /\ Becomes(h, th) /\ th.then = "rest" /\ th.at \in {"stop", "repair"}
         /\ \/ /\ EndsNow /\ LockFree(h) /\ th.at = "stop" /\ th.locked
               /\ th.meeting = det.meeting
            \/ /\ recorder.committed /\ th.at = "stop" /\ ~th.locked
               /\ th.meeting = recorder.meeting
            \/ /\ ~recorder.committed /\ th.at = "repair" /\ ~th.locked
               /\ th.todo = In("RECORDING")
  <2>1. CASE /\ EndsNow /\ LockFree(h)
             /\ Becomes(h, [AtRest EXCEPT !.at = "stop", !.meeting = det.meeting, !.locked = TRUE])
    <3> DEFINE th == [AtRest EXCEPT !.at = "stop", !.meeting = det.meeting, !.locked = TRUE]
    <3>1. th \in Thread /\ th.at = "stop" /\ th.locked /\ th.meeting = det.meeting /\ th.then = "rest"
      BY <1>3 DEF AtRest, Thread, At
    <3> QED BY <2>1, <3>1
  <2>2. CASE /\ recorder.committed
             /\ Becomes(h, [AtRest EXCEPT !.at = "stop", !.meeting = recorder.meeting])
    <3> DEFINE th == [AtRest EXCEPT !.at = "stop", !.meeting = recorder.meeting]
    <3>1. th \in Thread /\ th.at = "stop" /\ ~th.locked /\ th.meeting = recorder.meeting /\ th.then = "rest"
      BY <1>3 DEF AtRest, Thread, At
    <3> QED BY <2>2, <3>1
  <2>3. CASE /\ ~recorder.committed
             /\ Becomes(h, [AtRest EXCEPT !.at = "repair", !.todo = In("RECORDING")])
    <3> DEFINE th == [AtRest EXCEPT !.at = "repair", !.todo = In("RECORDING")]
    <3>1. th \in Thread /\ th.at = "repair" /\ ~th.locked /\ th.todo = In("RECORDING") /\ th.then = "rest"
      BY <1>4 DEF AtRest, Thread, At
    <3> QED BY <2>3, <3>1
  <2> QED BY <1>1, <2>1, <2>2, <2>3 DEF StopPressed
<1>6. thread' \in [Threads -> Thread] /\ thread'[h] = th /\ Only(h)
  BY <1>1, <1>5, BecomesDoes
<1>7. StopsAs(h)
  BY <1>5, <1>6 DEF StopsAs
<1>8. RecordingTypeOK'
  BY <1>2, <1>6 DEF Base, RecordingTypeOK, RecorderTypeOK, Budgeted, outside, history
<1>9. Placed'
  <2>1. Place(h)'
    BY <1>1, <1>5, <1>6 DEF Place
  <2> QED BY <1>1, <1>2, <1>6, <2>1, PlacedStays DEF Base, Placed
<1> QED BY <1>2, <1>5, <1>6, <1>7, <1>8, <1>9 DEF Base

LEMMA ClosesDoes ==
    ASSUME Base, NEW t \in Threads, Closes(t)
    PROVE  /\ Base' /\ Only(t) /\ t # Main /\ StopClose
           /\ UNCHANGED <<meeting, job, det, outside, left, history>>
           /\ thread[t].at = "stop" /\ thread'[t].at = "clear"
           /\ thread'[t].meeting = thread[t].meeting /\ thread'[t].locked = thread[t].locked
           /\ thread'[t].then = thread[t].then
           /\ thread'[t].long <=> recorder.writer # None /\ "call" \in disk'[recorder.writer]
<1>1. thread[t] \in Thread /\ thread \in [Threads -> Thread] /\ thread[t].at = "stop" /\ t # Main
  BY DEF Base, RecordingTypeOK, Closes, Placed, Place
<1> DEFINE long == recorder.writer # None /\ "call" \in disk'[recorder.writer]
           th == [thread[t] EXCEPT !.at = "clear", !.long = long]
<1>2. Becomes(t, th) /\ StopClose /\ UNCHANGED <<meeting, job, det, outside, left, history>>
  BY DEF Closes
<1>3. long \in BOOLEAN
  OBVIOUS
<1> HIDE DEF long
<1>4. th \in Thread /\ th.at = "clear" /\ th.meeting = thread[t].meeting
      /\ th.locked = thread[t].locked /\ th.then = thread[t].then /\ th.long = long
  BY <1>1, <1>3 DEF Thread, At
<1> HIDE DEF th
<1>5. thread' \in [Threads -> Thread] /\ thread'[t] = th /\ Only(t)
  BY <1>1, <1>2, <1>4, BecomesDoes
<1>6. RecorderTypeOK' /\ recorder'.committed = recorder.committed /\ recorder'.meeting = recorder.meeting
  BY <1>2, BaseRows, StopCloseDoes
<1>7. RecordingTypeOK'
  BY <1>2, <1>5, <1>6 DEF Base, RecordingTypeOK, outside, history
<1>8. Placed'
  <2>1. Place(t)'
    BY <1>1, <1>4, <1>5 DEF Place, Base, Placed
  <2> QED BY <1>5, <1>6, <2>1, PlacedStays DEF Base, Placed
<1>9. thread'[t].long <=> recorder.writer # None /\ "call" \in disk'[recorder.writer]
  BY <1>4, <1>5 DEF long
<1> QED BY <1>1, <1>2, <1>4, <1>5, <1>7, <1>8, <1>9 DEF Base

LEMMA ClearsDoes ==
    ASSUME Base, NEW t \in Threads, Clears(t)
    PROVE  /\ Base' /\ Only(t) /\ t # Main /\ StopClear
           /\ UNCHANGED <<meeting, job, det, outside, left, history>>
           /\ thread[t].at = "clear" /\ thread'[t].at = "finish"
           /\ thread'[t].meeting = thread[t].meeting /\ thread'[t].locked = thread[t].locked
           /\ thread'[t].then = thread[t].then /\ thread'[t].long = thread[t].long
<1>1. thread[t] \in Thread /\ thread \in [Threads -> Thread] /\ thread[t].at = "clear" /\ t # Main
  BY DEF Base, RecordingTypeOK, Clears, Placed, Place
<1> DEFINE th == [thread[t] EXCEPT !.at = "finish"]
<1>2. Becomes(t, th) /\ StopClear /\ UNCHANGED <<meeting, job, det, outside, left, history>>
  BY DEF Clears, Goes
<1>4. th \in Thread /\ th.at = "finish" /\ th.meeting = thread[t].meeting
      /\ th.locked = thread[t].locked /\ th.then = thread[t].then /\ th.long = thread[t].long
  BY <1>1 DEF Thread, At
<1> HIDE DEF th
<1>5. thread' \in [Threads -> Thread] /\ thread'[t] = th /\ Only(t)
  BY <1>1, <1>2, <1>4, BecomesDoes
<1>6. RecorderTypeOK' /\ recorder'.committed = FALSE
  BY <1>2, BaseRows, StopClearDoes
<1>7. RecordingTypeOK'
  BY <1>2, <1>5, <1>6 DEF Base, RecordingTypeOK, outside, history
<1>8. Placed'
  <2>1. Place(t)'
    BY <1>1, <1>4, <1>5 DEF Place, Base, Placed
  <2> QED BY <1>5, <1>6, <2>1, PlacedStays DEF Base, Placed
<1> QED BY <1>1, <1>2, <1>4, <1>5, <1>7, <1>8 DEF Base

(***************************************************************************)
(* The end of a recording, and the other presses.                          *)
(***************************************************************************)
LEMMA WatcherIs ==
    ASSUME NEW d \in Watcher
    PROVE  /\ Forgotten(d) \in Watcher /\ Forgotten(d).state = "IDLE"
           /\ Ended(d) \in Watcher /\ Ended(d).state = "IDLE"
           /\ Asleep \in Watcher /\ Asleep.state = "IDLE"
<1>1. Asleep \in Watcher /\ Asleep.state = "IDLE"
  BY DEF Asleep, Watcher
<1>2. Forgotten(d) \in Watcher /\ Forgotten(d).state = "IDLE" /\ Forgotten(d).fresh = d.fresh
  BY <1>1 DEF Forgotten, Asleep, Watcher
<1>3. d.owner # None => d.owner \in Apps
  BY DEF Watcher
<1>4. Ended(d) = [Forgotten(d) EXCEPT !.fresh =
                    IF d.owner = None THEN Forgotten(d).fresh ELSE Forgotten(d).fresh \union {d.owner}]
  BY <1>2 DEF Ended, Watcher
<1>5. Ended(d) \in Watcher /\ Ended(d).state = "IDLE"
  BY <1>2, <1>3, <1>4 DEF Watcher
<1> QED BY <1>1, <1>2, <1>5

\* Where the thread goes once the meeting is finished.
GoesFrom(t) ==
    \/ /\ thread[t].then = "start" /\ t = Detector
       /\ thread'[t].at = "start" /\ thread'[t].then = "rest"
       /\ thread'[t].locked = thread[t].locked
    \/ /\ thread[t].then = "discard" /\ t \in Handlers
       /\ thread'[t].at = "discarding" /\ ~thread'[t].locked
       /\ thread'[t].then = "discard"
       /\ thread'[t].meeting = thread[t].meeting
    \/ /\ thread[t].then \notin {"start", "discard"}
       /\ thread'[t] = AtRest

\* The meeting in hand is finished, if there is one.
FinishesIt(t) ==
    \/ thread[t].meeting = None /\ UNCHANGED <<meeting, job, disk, marks>>
    \/ thread[t].meeting \in Meetings /\ finish(thread[t].meeting, thread[t].long)

LEMMA FinishesDoes ==
    ASSUME Base, NEW t \in Threads, Finishes(t)
    PROVE  /\ Base' /\ Only(t) /\ t # Main /\ left' = left
           /\ UNCHANGED <<recorder, outside, thrown, stranded>>
           /\ thread[t].at = "finish" /\ thread[t].long \in BOOLEAN
           /\ FinishesIt(t) /\ GoesFrom(t)
           /\ IF thread[t].locked /\ thread[t].then # "start"
              THEN det'.state = "IDLE" ELSE det' = det
<1>1. /\ thread[t] \in Thread /\ thread \in [Threads -> Thread] /\ thread[t].at = "finish" /\ t # Main
      /\ det \in Watcher
      /\ (t # Detector => thread[t].then \in {"rest", "discard"})
      /\ (thread[t].then = "discard" => t \in Handlers /\ thread[t].meeting # None)
  BY DEF Base, RecordingTypeOK, Finishes, Placed, Place
<1>2. /\ UNCHANGED <<recorder, outside, left, thrown, stranded>>
      /\ det' = IF thread[t].locked /\ thread[t].then # "start" THEN Ended(det) ELSE det
  BY DEF Finishes
<1>3. FinishesIt(t)
  BY <1>1 DEF Finishes, FinishesIt, Thread
<1>4. Rows'
  <2>1. CASE UNCHANGED <<meeting, job, disk, marks>>
    BY <2>1, BaseRows DEF marks, Rows
  <2>2. CASE thread[t].meeting \in Meetings /\ finish(thread[t].meeting, thread[t].long)
    BY <1>1, <2>2, BaseRows, FinishDoes DEF Thread
  <2> QED BY <1>3, <2>1, <2>2 DEF FinishesIt
<1>5. det' \in Watcher /\ IF thread[t].locked /\ thread[t].then # "start"
                          THEN det'.state = "IDLE" ELSE det' = det
  BY <1>1, <1>2, WatcherIs
<1>6. thread' \in [Threads -> Thread] /\ Only(t) /\ GoesFrom(t)
  <2>1. CASE thread[t].then = "start"
    <3> DEFINE th == [thread[t] EXCEPT !.at = "start", !.then = "rest"]
    <3>1. Becomes(t, th)
      BY <2>1 DEF Finishes
    <3>2. th \in Thread /\ th.at = "start" /\ th.then = "rest" /\ th.locked = thread[t].locked
      BY <1>1 DEF Thread, At
    <3> QED BY <1>1, <2>1, <3>1, <3>2, BecomesDoes DEF GoesFrom
  <2>2. CASE thread[t].then = "discard"
    <3> DEFINE th == [thread[t] EXCEPT !.at = "discarding", !.locked = FALSE]
    <3>1. Becomes(t, th)
      BY <2>2 DEF Finishes
    <3>2. th \in Thread /\ th.at = "discarding" /\ th.then = "discard" /\ ~th.locked
          /\ th.meeting = thread[t].meeting
      BY <1>1, <2>2 DEF Thread, At
    <3> QED BY <1>1, <2>2, <3>1, <3>2, BecomesDoes DEF GoesFrom
  <2>3. CASE thread[t].then \notin {"start", "discard"}
    <3>1. Becomes(t, AtRest)
      BY <2>3 DEF Finishes
    <3> QED BY <1>1, <2>3, <3>1, AtRestIsThread, BecomesDoes DEF GoesFrom
  <2> QED BY <2>1, <2>2, <2>3
<1>7. RecordingTypeOK'
  BY <1>2, <1>4, <1>5, <1>6 DEF Base, RecordingTypeOK, RecorderTypeOK, Rows, outside
<1>8. Placed'
  <2>1. CASE thread[t].then = "start"
    BY <1>1, <1>2, <1>6, <2>1, PlacedStays DEF Place, GoesFrom, Base, Placed
  <2>2. CASE thread[t].then = "discard"
    <3>1. Place(t)'
      BY <1>1, <1>6, <2>2, ThreadsDiffer DEF Place, GoesFrom
    <3> QED BY <1>2, <1>6, <3>1, PlacedStays DEF Base, Placed
  <2>3. CASE thread'[t] = AtRest
    <3>1. Place(t)'
      BY <1>1, <2>3, AtRestIsThread DEF Place
    <3> QED BY <1>2, <1>6, <3>1, PlacedStays DEF Base, Placed
  <2> QED BY <1>6, <2>1, <2>2, <2>3 DEF GoesFrom
<1> QED BY <1>1, <1>2, <1>3, <1>5, <1>6, <1>7, <1>8 DEF Base, Thread

\* One more is repaired, or the thread is done with them.
RepairsOne(t, m) ==
    /\ m \in thread[t].todo
    /\ IF disk[m] # {} THEN finish(m, IsLong(m)) ELSE discard(m)
    /\ thread'[t].at = "repair" /\ thread'[t].todo = thread[t].todo \ {m}
    /\ thread'[t].locked = thread[t].locked /\ thread'[t].then = thread[t].then

LEMMA RepairsDoes ==
    ASSUME Base, NEW t \in Threads, Repairs(t)
    PROVE  /\ Base' /\ Only(t) /\ left' = left /\ t # Detector
           /\ UNCHANGED <<recorder, det, outside, thrown, stranded>>
           /\ thread[t].at = "repair" /\ thread[t].todo \subseteq Meetings
           /\ \/ \E m \in Meetings : RepairsOne(t, m)
              \/ /\ thread[t].todo = {} /\ thread'[t] = AtRest
                 /\ UNCHANGED <<meeting, job, disk, marks>>
<1>1. thread[t] \in Thread /\ thread \in [Threads -> Thread] /\ thread[t].at = "repair" /\ t # Detector
      /\ thread[t].todo \subseteq Meetings
  BY DEF Base, RecordingTypeOK, Repairs, Placed, Place, Thread
<1>2. UNCHANGED <<recorder, det, outside, left, thrown, stranded>>
  BY DEF Repairs
<1>3. CASE /\ thread[t].todo = {} /\ Becomes(t, AtRest)
           /\ UNCHANGED <<meeting, job, disk, marks>>
  <2>1. thread' \in [Threads -> Thread] /\ thread'[t] = AtRest /\ Only(t)
    BY <1>1, <1>3, AtRestIsThread, BecomesDoes
  <2>2. RecordingTypeOK'
    BY <1>2, <1>3, <2>1 DEF Base, RecordingTypeOK, RecorderTypeOK, outside, marks
  <2>3. Place(t)'
    BY <1>1, <2>1, AtRestIsThread DEF Place
  <2>4. Placed'
    BY <1>2, <2>1, <2>3, PlacedStays DEF Base, Placed
  <2> QED BY <1>1, <1>2, <1>3, <2>1, <2>2, <2>4 DEF Base
<1>4. ASSUME NEW m \in Meetings, m \in thread[t].todo,
             IF disk[m] # {} THEN finish(m, IsLong(m)) ELSE discard(m),
             Becomes(t, [thread[t] EXCEPT !.todo = @ \ {m}])
      PROVE  Base' /\ Only(t) /\ RepairsOne(t, m)
  <2> DEFINE th == [thread[t] EXCEPT !.todo = thread[t].todo \ {m}]
  <2>1. Becomes(t, th)
    BY <1>1, <1>4 DEF Thread
  <2>2. th \in Thread /\ th.at = "repair" /\ th.todo = thread[t].todo \ {m}
        /\ th.locked = thread[t].locked /\ th.then = thread[t].then /\ th.meeting = thread[t].meeting
    BY <1>1 DEF Thread
  <2> HIDE DEF th
  <2>3. thread' \in [Threads -> Thread] /\ thread'[t] = th /\ Only(t)
    BY <1>1, <2>1, <2>2, BecomesDoes
  <2>4. Rows'
    <3>1. IsLong(m) \in BOOLEAN
      BY DEF IsLong
    <3>2. CASE finish(m, IsLong(m))
      BY <3>1, <3>2, BaseRows, FinishDoes
    <3>3. CASE discard(m)
      BY <3>3, BaseRows, DiscardDoes
    <3> QED BY <1>4, <3>2, <3>3
  <2>5. RecordingTypeOK'
    BY <1>2, <2>3, <2>4 DEF Base, RecordingTypeOK, RecorderTypeOK, outside, Rows
  <2>6. Place(t)'
    BY <1>1, <2>2, <2>3 DEF Place, Base, Placed
  <2>7. Placed'
    BY <1>2, <2>3, <2>6, PlacedStays DEF Base, Placed
  <2>8. RepairsOne(t, m)
    BY <1>4, <2>2, <2>3 DEF RepairsOne
  <2> QED BY <2>3, <2>5, <2>7, <2>8 DEF Base
<1> QED BY <1>1, <1>2, <1>3, <1>4 DEF Repairs

LEMMA KeepPressedDoes ==
    ASSUME Base, NEW h \in Handlers, KeepPressed(h)
    PROVE  /\ Base' /\ Budgeted /\ thread' = thread /\ Begins(h) /\ LockFree(h)
           /\ UNCHANGED <<meeting, job, outside, thrown, stranded, unheard>>
           /\ recorder.committed /\ recorder.meeting \in Meetings
           /\ kept' = kept \union {recorder.meeting}
           /\ recorder.meeting = det.meeting /\ det'.meeting = det.meeting
           /\ det'.state = IF det.state = "GRACE" THEN "RECORDING" ELSE det.state
           /\ release_hold(TRUE) \/ UNCHANGED recorderVars
<1>1. det \in Watcher /\ recorder.committed /\ recorder.meeting = det.meeting
  BY DEF Base, RecordingTypeOK, KeepPressed
<1>2. recorder.meeting \in Meetings
  BY <1>1 DEF Base, Placed, RecordingTypeOK, RecorderTypeOK, Recorder
<1>3. Budgeted /\ Begins(h) /\ LockFree(h) /\ kept' = kept \union {recorder.meeting}
      /\ UNCHANGED <<meeting, job, outside, thread, thrown, stranded, unheard>>
  BY SpendDoes DEF KeepPressed, Base, Events
<1>4. det' = [det EXCEPT !.state = IF det.state = "GRACE" THEN "RECORDING" ELSE det.state,
                         !.keepGoing = TRUE, !.owner = None]
  BY <1>1 DEF KeepPressed, Watcher
<1>5. det' \in Watcher /\ det'.meeting = det.meeting
      /\ det'.state = IF det.state = "GRACE" THEN "RECORDING" ELSE det.state
  BY <1>1, <1>4 DEF Watcher
<1>6. release_hold(TRUE) \/ UNCHANGED recorderVars
  BY DEF KeepPressed
<1>7. RecorderTypeOK' /\ recorder'.meeting = recorder.meeting
  BY <1>6, BaseRows, ReleaseDoes DEF recorderVars, RecorderTypeOK
<1>8. RecordingTypeOK'
  BY <1>2, <1>3, <1>5, <1>7 DEF Base, RecordingTypeOK, outside, Budgeted
<1>9. Placed'
  BY <1>1, <1>2, <1>3, <1>7, PlacedAside, NoneIsNoMeeting
<1> QED BY <1>1, <1>2, <1>3, <1>5, <1>6, <1>8, <1>9 DEF Base

LEMMA PausePressedDoes ==
    ASSUME Base, NEW h \in Handlers, PausePressed(h)
    PROVE  /\ Base' /\ Budgeted /\ Only(h) /\ Begins(h)
           /\ UNCHANGED <<recorder, disk, meeting, job, det, outside, history>>
           /\ thread'[h].at = "pause" /\ ~thread'[h].locked /\ thread'[h].then = "rest"
<1>1. h \in Threads /\ thread[h] = AtRest /\ thread \in [Threads -> Thread] /\ h # Main /\ h # Detector
  BY AtBegin, ThreadsDiffer DEF PausePressed
<1>2. Budgeted /\ Begins(h) /\ UNCHANGED <<recorder, disk, meeting, job, det, outside, history>>
  BY SpendDoes DEF PausePressed, Base, Events
<1> DEFINE th == [AtRest EXCEPT !.at = "pause"]
<1>3. th \in Thread /\ th.at = "pause" /\ ~th.locked /\ th.then = "rest"
  BY DEF AtRest, Thread, At
<1>4. Becomes(h, th)
  BY <1>1 DEF PausePressed, Goes
<1>5. thread' \in [Threads -> Thread] /\ thread'[h] = th /\ Only(h)
  BY <1>1, <1>3, <1>4, BecomesDoes
<1>6. RecordingTypeOK'
  BY <1>2, <1>5 DEF Base, RecordingTypeOK, RecorderTypeOK, Budgeted, outside, history
<1>7. Placed'
  <2>1. Place(h)'
    BY <1>1, <1>3, <1>5 DEF Place
  <2> QED BY <1>1, <1>2, <1>5, <2>1, PlacedStays DEF Base, Placed
<1> QED BY <1>2, <1>3, <1>5, <1>6, <1>7 DEF Base

LEMMA PausesDoes ==
    ASSUME Base, NEW h \in Handlers, Pauses(h)
    PROVE  /\ Base' /\ Only(h) /\ thread[h].at = "pause" /\ thread'[h] = AtRest
           /\ UNCHANGED <<meeting, job, det, outside, left, history>>
           /\ \E wanted \in BOOLEAN : SetPaused(wanted)
<1>1. h \in Threads /\ thread \in [Threads -> Thread] /\ thread[h].at = "pause"
      /\ recorder.paused \in BOOLEAN
  BY ThreadsDiffer DEF Pauses, Base, RecordingTypeOK, RecorderTypeOK, Recorder
<1>2. Becomes(h, AtRest) /\ UNCHANGED <<meeting, job, det, outside, left, history>>
      /\ SetPaused(~recorder.paused)
  BY DEF Pauses
<1>3. thread' \in [Threads -> Thread] /\ thread'[h] = AtRest /\ Only(h)
  BY <1>1, <1>2, AtRestIsThread, BecomesDoes
<1>4. PICK wanted \in BOOLEAN : SetPaused(wanted)
  BY <1>1, <1>2
<1>5. RecorderTypeOK' /\ recorder'.committed = recorder.committed /\ recorder'.meeting = recorder.meeting
  BY <1>4, BaseRows, PauseDoes
<1>6. RecordingTypeOK'
  BY <1>2, <1>3, <1>5 DEF Base, RecordingTypeOK, outside, history
<1>7. Placed'
  <2>1. Place(h)'
    BY <1>3, AtRestIsThread, ThreadsDiffer DEF Place
  <2> QED BY <1>1, <1>3, <1>5, <2>1, PlacedStays DEF Base, Placed
<1> QED BY <1>1, <1>2, <1>3, <1>4, <1>6, <1>7 DEF Base

\* What is being recorded is stopped first.
DiscardsAs(h, m) ==
    /\ meeting[m].state \in {"RECORDING", "RECORDED", "TAKEN"}
    /\ thread'[h].meeting = m
    /\ \/ /\ ~(recorder.committed /\ recorder.meeting = m)
          /\ thread'[h].at = "discarding" /\ ~thread'[h].locked
       \/ /\ recorder.committed /\ recorder.meeting = m
          /\ EndsNow /\ LockFree(h)
          /\ thread'[h].at = "stop" /\ thread'[h].locked
       \/ /\ recorder.committed /\ recorder.meeting = m
          /\ thread'[h].at = "stop" /\ ~thread'[h].locked

LEMMA DiscardPressedDoes ==
    ASSUME Base, NEW h \in Handlers, DiscardPressed(h)
    PROVE  /\ Base' /\ Budgeted /\ Only(h) /\ Begins(h)
           /\ UNCHANGED <<recorder, disk, meeting, job, det, outside, history>>
           /\ thread'[h].then # "tray"
           /\ \E m \in Meetings : DiscardsAs(h, m)
<1>1. h \in Threads /\ thread[h] = AtRest /\ thread \in [Threads -> Thread] /\ h # Main /\ h # Detector
  BY AtBegin, ThreadsDiffer DEF DiscardPressed
<1>2. Budgeted /\ Begins(h) /\ UNCHANGED <<recorder, disk, meeting, job, det, outside, history>>
  BY SpendDoes DEF DiscardPressed, Base, Events
<1>3. PICK m \in In("RECORDING") \union In("RECORDED") \union In("TAKEN") :
         IF ~(recorder.committed /\ recorder.meeting = m)
         THEN Becomes(h, [thread[h] EXCEPT !.at = "discarding", !.meeting = m])
         ELSE IF EndsNow
         THEN /\ LockFree(h)
              /\ Becomes(h, [thread[h] EXCEPT !.at = "stop", !.meeting = m,
                                 !.then = "discard", !.locked = TRUE])
         ELSE Becomes(h, [thread[h] EXCEPT !.at = "stop", !.meeting = m, !.then = "discard"])
  BY DEF DiscardPressed
<1>4. m \in Meetings /\ meeting[m].state \in {"RECORDING", "RECORDED", "TAKEN"}
  BY DEF In
<1>5. PICK th \in Thread :
         /\ Becomes(h, th) /\ th.meeting = m /\ th.then \in {"rest", "discard"}
         /\ \/ /\ ~(recorder.committed /\ recorder.meeting = m)
               /\ th.at = "discarding" /\ ~th.locked
            \/ /\ recorder.committed /\ recorder.meeting = m
               /\ EndsNow /\ LockFree(h)
               /\ th.at = "stop" /\ th.locked
            \/ /\ recorder.committed /\ recorder.meeting = m
               /\ th.at = "stop" /\ ~th.locked
  <2>1. CASE ~(recorder.committed /\ recorder.meeting = m)
    <3> DEFINE th == [AtRest EXCEPT !.at = "discarding", !.meeting = m]
    <3>1. th \in Thread /\ th.at = "discarding" /\ ~th.locked /\ th.meeting = m /\ th.then = "rest"
      BY <1>4 DEF AtRest, Thread, At
    <3> QED BY <1>1, <1>3, <2>1, <3>1
  <2>2. CASE recorder.committed /\ recorder.meeting = m /\ EndsNow
    <3> DEFINE th == [AtRest EXCEPT !.at = "stop", !.meeting = m, !.then = "discard", !.locked = TRUE]
    <3>1. th \in Thread /\ th.at = "stop" /\ th.locked /\ th.meeting = m /\ th.then = "discard"
      BY <1>4 DEF AtRest, Thread, At
    <3> QED BY <1>1, <1>3, <2>2, <3>1
  <2>3. CASE recorder.committed /\ recorder.meeting = m /\ ~EndsNow
    <3> DEFINE th == [AtRest EXCEPT !.at = "stop", !.meeting = m, !.then = "discard"]
    <3>1. th \in Thread /\ th.at = "stop" /\ ~th.locked /\ th.meeting = m /\ th.then = "discard"
      BY <1>4 DEF AtRest, Thread, At
    <3> QED BY <1>1, <1>3, <2>3, <3>1
  <2> QED BY <2>1, <2>2, <2>3
<1>6. thread' \in [Threads -> Thread] /\ thread'[h] = th /\ Only(h)
  BY <1>1, <1>5, BecomesDoes
<1>7. DiscardsAs(h, m)
  BY <1>4, <1>5, <1>6 DEF DiscardsAs
<1>8. RecordingTypeOK'
  BY <1>2, <1>6 DEF Base, RecordingTypeOK, RecorderTypeOK, Budgeted, outside, history
<1>9. Placed'
  <2>1. Place(h)'
    BY <1>1, <1>4, <1>5, <1>6, NoneIsNoMeeting DEF Place
  <2> QED BY <1>1, <1>2, <1>6, <2>1, PlacedStays DEF Base, Placed
<1> QED BY <1>2, <1>4, <1>5, <1>6, <1>7, <1>8, <1>9 DEF Base

LEMMA DiscardsDoes ==
    ASSUME Base, NEW h \in Handlers, Discards(h)
    PROVE  /\ Base' /\ Only(h) /\ left' = left
           /\ thread[h].at = "discarding" /\ thread'[h] = AtRest
           /\ thread[h].meeting \in Meetings
           /\ discard(thread[h].meeting) /\ thrown' = thrown \union {thread[h].meeting}
           /\ UNCHANGED <<recorder, det, outside, stranded>>
<1>1. h \in Threads /\ thread \in [Threads -> Thread] /\ thread[h] \in Thread
      /\ thread[h].at = "discarding" /\ h # Detector
  BY ThreadsDiffer DEF Discards, Base, RecordingTypeOK
<1>2. thread[h].meeting \in Meetings
  BY <1>1 DEF Base, Placed, Place, Thread
<1>3. Becomes(h, AtRest) /\ UNCHANGED <<recorder, det, outside, left, stranded>>
      /\ discard(thread[h].meeting) /\ thrown' = thrown \union {thread[h].meeting}
  BY DEF Discards
<1>4. thread' \in [Threads -> Thread] /\ thread'[h] = AtRest /\ Only(h)
  BY <1>1, <1>3, AtRestIsThread, BecomesDoes
<1>5. Rows'
  BY <1>2, <1>3, BaseRows, DiscardDoes
<1>6. RecordingTypeOK'
  BY <1>2, <1>3, <1>4, <1>5 DEF Base, RecordingTypeOK, RecorderTypeOK, outside, Rows
<1>7. Placed'
  <2>1. Place(h)'
    BY <1>4, AtRestIsThread, ThreadsDiffer DEF Place
  <2> QED BY <1>1, <1>3, <1>4, <2>1, PlacedStays DEF Base, Placed
<1> QED BY <1>1, <1>2, <1>3, <1>4, <1>6, <1>7 DEF Base

(***************************************************************************)
(* The detector's look.                                                    *)
(***************************************************************************)
\* What every look leaves alone.
Aside == UNCHANGED <<meeting, job, outside, left, history>>

\* A look leaves the state, the meeting and the wake to its case.
LEMMA SeenIs ==
    ASSUME Base, NEW d \in Seen
    PROVE  d \in Watcher /\ d.state = det.state /\ d.meeting = det.meeting
           /\ d.wake = det.wake /\ d.owner = det.owner
<1>1. det \in Watcher /\ mic \subseteq Apps
  BY DEF Base, RecordingTypeOK
<1>2. PICK f \in SUBSET mic : d = [det EXCEPT !.fresh = f, !.looked = TRUE, !.seen = mic]
  BY DEF Seen
<1> QED BY <1>1, <1>2 DEF Watcher

LEMMA JoinedIs ==
    ASSUME NEW d \in Watcher, NEW e \in Joined(d)
    PROVE  e \in Watcher /\ e.state = d.state /\ e.meeting = d.meeting /\ e.wake = d.wake
<1>1. CASE d.owner = None /\ ~d.keepGoing /\ d.fresh # {}
  <2>1. PICK app \in d.fresh : e = [d EXCEPT !.owner = app, !.fresh = d.fresh \ {app}]
    BY <1>1 DEF Joined
  <2>2. app \in Apps
    BY <2>1 DEF Watcher
  <2> QED BY <2>1, <2>2 DEF Watcher
<1>2. CASE ~(d.owner = None /\ ~d.keepGoing /\ d.fresh # {})
  BY <1>2 DEF Joined
<1> QED BY <1>1, <1>2

\* The detector is free to look.
Looks == /\ Begins(Detector) /\ LockFree(Detector) /\ thread[Detector] = AtRest
         /\ thread[Main].at = "rest"

LEMMA LookIs == ASSUME Base, NEW d, Look(d) PROVE Looks
BY AtBegin, ThreadsDiffer DEF Look, Looks

\* A recording is found that somebody else began.
LEMMA AdoptsDoes ==
    ASSUME Base, NEW d \in Seen, Adopts(d), Aside
    PROVE  /\ Base' /\ UNCHANGED <<recorder, disk, thread>> /\ recorder.committed
           /\ det'.state = "RECORDING" /\ det'.meeting = recorder.meeting
           /\ det.state \in {"IDLE", "AWAKE"}
<1>1. d \in Watcher /\ d.state = det.state /\ mic \subseteq Apps
      /\ recorder.meeting \in Meetings \union {None}
  BY SeenIs DEF Base, RecordingTypeOK, RecorderTypeOK, Recorder
<1>2. PICK app \in IF mic = {} THEN {None} ELSE mic :
          det' = [d EXCEPT !.state = "RECORDING", !.wake = None, !.fresh = d.fresh \ mic,
                           !.meeting = recorder.meeting, !.owner = app]
  BY <1>1 DEF Adopts, Watcher
<1>3. app \in Apps \union {None}
  BY <1>1
<1>4. det' \in Watcher /\ det'.state = "RECORDING" /\ det'.meeting = recorder.meeting
  BY <1>1, <1>2, <1>3 DEF Watcher
<1>5. UNCHANGED <<recorder, disk, thread>> /\ recorder.committed /\ det.state \in {"IDLE", "AWAKE"}
  BY <1>1 DEF Adopts
<1>6. RecordingTypeOK'
  BY <1>4, <1>5 DEF Base, RecordingTypeOK, RecorderTypeOK, Aside, outside, history
<1>7. Placed'
  BY <1>5, PlacedAside DEF Base, Placed
<1> QED BY <1>4, <1>5, <1>6, <1>7 DEF Base

\* The cases in which nothing but what the detector knows changes.
KnowsMore(d) == StaysIdle(d) \/ StaysAwake(d) \/ GoesOn(d) \/ Waits(d)

LEMMA KnowsMoreDoes ==
    ASSUME Base, NEW d \in Seen, KnowsMore(d), Aside
    PROVE  /\ Base' /\ UNCHANGED <<recorder, disk, thread>>
           /\ det'.state = det.state /\ det'.meeting = det.meeting
<1>1. d \in Watcher /\ d.state = det.state /\ d.meeting = det.meeting
  BY SeenIs
<1>2. det' \in Watcher /\ det'.state = det.state /\ det'.meeting = det.meeting
      /\ UNCHANGED <<recorder, disk, thread>>
  <2>1. CASE StaysIdle(d) \/ StaysAwake(d) \/ Waits(d)
    BY <1>1, <2>1 DEF StaysIdle, StaysAwake, Waits
  <2>2. CASE GoesOn(d)
    BY <1>1, <2>2, JoinedIs DEF GoesOn
  <2> QED BY <2>1, <2>2 DEF KnowsMore
<1>3. RecordingTypeOK'
  BY <1>2 DEF Base, RecordingTypeOK, RecorderTypeOK, Aside, outside, history
<1>4. Placed'
  BY <1>2, PlacedAside DEF Base, Placed
<1> QED BY <1>2, <1>3, <1>4 DEF Base

LEMMA ForgetsDoes ==
    ASSUME Base, NEW d \in Seen, Forgets(d), Aside
    PROVE  /\ Base' /\ UNCHANGED <<recorder, disk, thread>> /\ ~recorder.committed
           /\ det'.state = "IDLE" /\ det.state \in {"RECORDING", "GRACE"}
<1>1. det' \in Watcher /\ det'.state = "IDLE" /\ det.state \in {"RECORDING", "GRACE"}
      /\ UNCHANGED <<recorder, disk, thread>> /\ ~recorder.committed
  BY SeenIs, WatcherIs DEF Forgets
<1>2. RecordingTypeOK'
  BY <1>1 DEF Base, RecordingTypeOK, RecorderTypeOK, Aside, outside, history
<1>3. Placed'
  BY <1>1, PlacedAside DEF Base, Placed
<1> QED BY <1>1, <1>2, <1>3 DEF Base

LEMMA WakesDoes ==
    ASSUME Base, NEW d \in Seen, Wakes(d), Aside
    PROVE  /\ Base' /\ UNCHANGED <<disk, thread>> /\ ~recorder.committed
           /\ recorder' = Armed /\ det'.state = "AWAKE" /\ det.state = "IDLE"
<1>1. d \in Watcher /\ d.state = det.state
  BY SeenIs
<1>2. PICK app \in d.fresh : det' = [d EXCEPT !.state = "AWAKE", !.wake = app]
  BY DEF Wakes
<1>3. det' \in Watcher /\ det'.state = "AWAKE" /\ det.state = "IDLE"
  BY <1>1, <1>2 DEF Watcher, Wakes
<1>4. UNCHANGED <<disk, thread>> /\ ~recorder.committed /\ recorder' = Armed
  BY DEF Wakes, arm
<1>5. RecorderTypeOK' /\ ~recorder'.committed
  BY <1>4, ArmedIs, BaseRows DEF RecorderTypeOK
<1>6. RecordingTypeOK'
  BY <1>3, <1>4, <1>5 DEF Base, RecordingTypeOK, Aside, outside, history
<1>7. Placed'
  BY <1>4, <1>5, PlacedAside DEF Base, Placed
<1> QED BY <1>3, <1>4, <1>6, <1>7 DEF Base

LEMMA HangsUpDoes ==
    ASSUME Base, NEW d \in Seen, HangsUp(d), Aside
    PROVE  /\ Base' /\ UNCHANGED <<disk, thread>> /\ recorder.committed
           /\ recorder' = Held(recorder) /\ det.state = "RECORDING" /\ det'.state = "GRACE"
           /\ det'.meeting = det.meeting
<1>1. d \in Watcher /\ d.state = det.state /\ d.meeting = det.meeting /\ det \in Watcher
  BY SeenIs DEF Base, RecordingTypeOK
<1>2. PICK e \in Joined(d) : /\ e.state = "RECORDING"
                             /\ det' = [e EXCEPT !.state = "GRACE", !.atRelease = det.seen \ {e.owner}]
  BY DEF HangsUp
<1>3. e \in Watcher /\ e.state = d.state /\ e.meeting = d.meeting
  BY <1>1, JoinedIs
<1>4. det' \in Watcher /\ det'.state = "GRACE" /\ det'.meeting = det.meeting /\ det.state = "RECORDING"
  BY <1>1, <1>2, <1>3 DEF Watcher
<1>5. UNCHANGED <<disk, thread>> /\ recorder.committed /\ recorder' = Held(recorder)
  BY DEF HangsUp, Recording
<1>6. RecorderTypeOK' /\ recorder'.meeting = recorder.meeting /\ recorder'.committed
  BY <1>5, HeldDoes, BaseRows
<1>7. RecordingTypeOK'
  BY <1>4, <1>5, <1>6 DEF Base, RecordingTypeOK, Aside, outside, history
<1>8. Placed'
  BY <1>5, <1>6, PlacedAside DEF Base, Placed
<1> QED BY <1>4, <1>5, <1>7, <1>8 DEF Base

LEMMA NewcomersAreApps ==
    ASSUME NEW d \in Watcher PROVE Newcomers(d) \subseteq Apps
BY DEF Newcomers, Watcher

LEMMA RejoinsDoes ==
    ASSUME Base, NEW d \in Seen, Rejoins(d), Aside
    PROVE  /\ Base' /\ thread' = thread /\ recorder.committed
           /\ release_hold(FALSE) /\ Follows /\ det'.state = "RECORDING"
           /\ det'.meeting = det.meeting
<1>1. d \in Watcher /\ d.state = det.state /\ d.meeting = det.meeting
  BY SeenIs
<1>2. PICK app \in Newcomers(d) :
          det' = [d EXCEPT !.state = "RECORDING", !.owner = app, !.fresh = d.fresh \ {app}]
  BY <1>1 DEF Rejoins, Watcher
<1>3. app \in Apps
  BY <1>1, NewcomersAreApps
<1>4. det' \in Watcher /\ det'.state = "RECORDING" /\ det'.meeting = det.meeting
  BY <1>1, <1>2, <1>3 DEF Watcher
<1>5. thread' = thread /\ recorder.committed /\ release_hold(FALSE) /\ Follows
  BY <1>1 DEF Rejoins, Recording, Follows
<1>6. RecorderTypeOK' /\ recorder'.meeting = recorder.meeting /\ recorder'.committed
  BY <1>5, ReleaseDoes, BaseRows
<1>7. RecordingTypeOK'
  BY <1>4, <1>5, <1>6 DEF Base, RecordingTypeOK, Aside, outside, history
<1>8. Placed'
  BY <1>5, <1>6, PlacedAside DEF Base, Placed
<1> QED BY <1>4, <1>5, <1>7, <1>8 DEF Base

\* The wake ends.
LEMMA GivesUpDoes ==
    ASSUME Base, NEW d \in Seen, GivesUp(d), Looks, Aside
    PROVE  /\ Base' /\ UNCHANGED <<recorder, disk>> /\ Only(Detector) /\ ~recorder.committed
           /\ det'.state = "IDLE" /\ det.state = "AWAKE"
           /\ thread'[Detector].at = "discarding" /\ thread'[Detector].locked
           /\ thread'[Detector].then = "rest"
<1>1. d \in Watcher /\ d.state = det.state /\ thread \in [Threads -> Thread]
  BY SeenIs DEF Base, RecordingTypeOK
<1> DEFINE th == [AtRest EXCEPT !.at = "discarding", !.locked = TRUE]
<1>2. /\ det.state = "AWAKE" /\ ~recorder.committed /\ UNCHANGED <<recorder, disk>>
      /\ Becomes(Detector, th)
      /\ det' = [d EXCEPT !.state = "IDLE", !.wake = None, !.fresh = d.fresh \ {d.wake}]
  BY <1>1 DEF GivesUp, Discarded, Watcher
<1>3. det' \in Watcher /\ det'.state = "IDLE"
  BY <1>1, <1>2 DEF Watcher
<1>4. th \in Thread /\ th.at = "discarding" /\ th.locked /\ th.then = "rest"
  BY DEF AtRest, Thread, At
<1> HIDE DEF th
<1>5. thread' \in [Threads -> Thread] /\ thread'[Detector] = th /\ Only(Detector)
  BY <1>1, <1>2, <1>4, ThreadsDiffer, BecomesDoes
<1>6. RecordingTypeOK'
  BY <1>2, <1>3, <1>5 DEF Base, RecordingTypeOK, RecorderTypeOK, Aside, outside, history
<1>7. Placed'
  <2>1. Place(Detector)'
    BY <1>4, <1>5, ThreadsDiffer DEF Place
  <2> QED BY <1>2, <1>5, <2>1, ThreadsDiffer, PlacedStays DEF Base, Placed
<1> QED BY <1>2, <1>3, <1>4, <1>5, <1>6, <1>7 DEF Base

\* The evidence held.
LEMMA CommitsDoes ==
    ASSUME Base, NEW d \in Seen, Commits(d), Looks, Aside
    PROVE  /\ Base' /\ UNCHANGED <<recorder, disk>> /\ Only(Detector) /\ ~recorder.committed
           /\ det'.state = "AWAKE" /\ det.state = "AWAKE"
           /\ thread'[Detector].at = "start" /\ thread'[Detector].locked
           /\ thread'[Detector].then = "rest"
<1>1. d \in Watcher /\ d.state = det.state /\ thread \in [Threads -> Thread] /\ mic \subseteq Apps
  BY SeenIs DEF Base, RecordingTypeOK
<1> DEFINE th == [AtRest EXCEPT !.at = "start", !.locked = TRUE, !.process = d.wake]
<1>2. /\ det.state = "AWAKE" /\ ~recorder.committed /\ UNCHANGED <<recorder, disk>>
      /\ Becomes(Detector, th) /\ det' = d /\ d.wake \in Apps
  BY <1>1 DEF Commits
<1>3. det' \in Watcher /\ det'.state = "AWAKE"
  BY <1>1, <1>2
<1>4. th \in Thread /\ th.at = "start" /\ th.locked /\ th.then = "rest"
  BY <1>2 DEF AtRest, Thread, At
<1> HIDE DEF th
<1>5. thread' \in [Threads -> Thread] /\ thread'[Detector] = th /\ Only(Detector)
  BY <1>1, <1>2, <1>4, ThreadsDiffer, BecomesDoes
<1>6. RecordingTypeOK'
  BY <1>2, <1>3, <1>5 DEF Base, RecordingTypeOK, RecorderTypeOK, Aside, outside, history
<1>7. Placed'
  <2>1. Place(Detector)'
    BY <1>4, <1>5, ThreadsDiffer DEF Place
  <2> QED BY <1>2, <1>5, <2>1, ThreadsDiffer, PlacedStays DEF Base, Placed
<1> QED BY <1>2, <1>3, <1>4, <1>5, <1>6, <1>7 DEF Base

\* The detector stops the recording it follows.
Stopping(d) ==
    /\ recorder.committed /\ Follows /\ UNCHANGED <<recorder, disk>> /\ Only(Detector)
    /\ det'.state = det.state /\ det'.meeting = det.meeting
    /\ thread'[Detector].at = "stop" /\ thread'[Detector].locked
    /\ thread'[Detector].meeting = det.meeting /\ thread'[Detector].then = "rest"

\* Or leaves it behind for the next one.
Splitting(d) ==
    /\ split /\ Follows /\ Only(Detector)
    /\ det'.state = det.state /\ det'.meeting = det.meeting
    /\ thread'[Detector].at = "finish" /\ thread'[Detector].locked
    /\ thread'[Detector].meeting = det.meeting /\ thread'[Detector].then = "start"
    /\ thread'[Detector].long <=> IsLong(recorder.writer)

LEMMA StoppingDoes ==
    ASSUME Base, NEW d \in Watcher, d.state = det.state, d.meeting = det.meeting, Aside,
           Becomes(Detector, [AtRest EXCEPT !.at = "stop", !.locked = TRUE, !.meeting = d.meeting]),
           Recording(d), UNCHANGED <<recorder, disk>>,
           NEW new \in Watcher, det' = new, new.state = d.state, new.meeting = d.meeting
    PROVE  Base' /\ Stopping(d)
<1>1. thread \in [Threads -> Thread] /\ d.meeting \in Meetings \union {None}
  BY DEF Base, RecordingTypeOK, Watcher
<1> DEFINE th == [AtRest EXCEPT !.at = "stop", !.locked = TRUE, !.meeting = d.meeting]
<1>2. th \in Thread /\ th.at = "stop" /\ th.locked /\ th.then = "rest" /\ th.meeting = d.meeting
  BY <1>1 DEF AtRest, Thread, At
<1>3. Becomes(Detector, th)
  OBVIOUS
<1> HIDE DEF th
<1>4. thread' \in [Threads -> Thread] /\ thread'[Detector] = th /\ Only(Detector)
  BY <1>1, <1>2, <1>3, ThreadsDiffer, BecomesDoes
<1>5. RecordingTypeOK'
  BY <1>4 DEF Base, RecordingTypeOK, RecorderTypeOK, Aside, outside, history
<1>6. Placed'
  <2>1. Place(Detector)'
    BY <1>2, <1>4, ThreadsDiffer DEF Place
  <2> QED BY <1>4, <2>1, ThreadsDiffer, PlacedStays DEF Base, Placed
<1> QED BY <1>2, <1>4, <1>5, <1>6 DEF Base, Stopping, Recording, Follows

LEMMA EndsCallDoes ==
    ASSUME Base, NEW d \in Seen, EndsCall(d), Aside
    PROVE  Base' /\ Stopping(d)
BY SeenIs, StoppingDoes DEF EndsCall

LEMMA HandsOverDoes ==
    ASSUME Base, NEW d \in Seen, HandsOver(d), Aside
    PROVE  Base' /\ (Stopping(d) \/ Splitting(d))
<1>1. /\ d \in Watcher /\ d.state = det.state /\ d.meeting = det.meeting
      /\ thread \in [Threads -> Thread] /\ d.meeting \in Meetings \union {None}
  BY SeenIs DEF Base, RecordingTypeOK, Watcher
<1>2. PICK app \in Newcomers(d) :
       IF detection = "on" /\ CanSplit
       THEN /\ split
            /\ det' = [d EXCEPT !.keepGoing = FALSE]
            /\ Becomes(Detector, [AtRest EXCEPT !.at = "finish", !.locked = TRUE,
                  !.meeting = d.meeting, !.long = IsLong(recorder.writer),
                  !.then = "start", !.process = app])
       ELSE /\ det' = [d EXCEPT !.fresh = d.fresh \union {app}]
            /\ Becomes(Detector, [AtRest EXCEPT !.at = "stop", !.locked = TRUE,
                  !.meeting = d.meeting])
            /\ UNCHANGED <<recorder, disk>>
  BY <1>1 DEF HandsOver, Watcher
<1>3. app \in Apps /\ Recording(d)
  BY <1>1, NewcomersAreApps DEF HandsOver
<1>4. CASE ~(detection = "on" /\ CanSplit)
  <2> DEFINE new == [d EXCEPT !.fresh = d.fresh \union {app}]
  <2>1. det' = new /\ new \in Watcher /\ new.state = d.state /\ new.meeting = d.meeting
    BY <1>1, <1>2, <1>3, <1>4 DEF Watcher
  <2>2. /\ Becomes(Detector, [AtRest EXCEPT !.at = "stop", !.locked = TRUE, !.meeting = d.meeting])
        /\ UNCHANGED <<recorder, disk>>
    BY <1>2, <1>4
  <2> HIDE DEF new
  <2> QED BY <1>1, <1>3, <2>1, <2>2, StoppingDoes
<1>5. CASE detection = "on" /\ CanSplit
  <2> DEFINE long == IsLong(recorder.writer)
             th == [AtRest EXCEPT !.at = "finish", !.locked = TRUE,
                  !.meeting = d.meeting, !.long = long, !.then = "start", !.process = app]
  <2>1. split /\ det' = [d EXCEPT !.keepGoing = FALSE] /\ Becomes(Detector, th)
    BY <1>2, <1>5
  <2>2. det' \in Watcher /\ det'.state = d.state /\ det'.meeting = d.meeting
    BY <1>1, <2>1 DEF Watcher
  <2>3. long \in BOOLEAN /\ (long <=> IsLong(recorder.writer))
    BY DEF IsLong
  <2> HIDE DEF long
  <2>4. th \in Thread /\ th.at = "finish" /\ th.locked /\ th.then = "start" /\ th.meeting = d.meeting
        /\ th.long = long
    BY <1>1, <1>3, <2>3 DEF AtRest, Thread, At
  <2> HIDE DEF th
  <2>5. thread' \in [Threads -> Thread] /\ thread'[Detector] = th /\ Only(Detector)
    BY <1>1, <2>1, <2>4, ThreadsDiffer, BecomesDoes
  <2>6. RecorderTypeOK' /\ recorder'.committed = FALSE
    BY <2>1, SplitDoes, BaseRows
  <2>7. RecordingTypeOK'
    BY <2>2, <2>5, <2>6 DEF Base, RecordingTypeOK, Aside, outside, history
  <2>8. Placed'
    <3>1. Place(Detector)'
      BY <2>4, <2>5, ThreadsDiffer DEF Place
    <3> QED BY <2>5, <2>6, <3>1, ThreadsDiffer, PlacedStays DEF Base, Placed
  <2>9. Splitting(d)
    BY <1>1, <1>3, <2>1, <2>2, <2>3, <2>4, <2>5 DEF Splitting, Recording, Follows
  <2> QED BY <2>7, <2>8, <2>9 DEF Base
<1> QED BY <1>4, <1>5

LEMMA DetectorDiscardsDoes ==
    ASSUME Base, DetectorDiscards
    PROVE  /\ Base' /\ Only(Detector) /\ DiscardClear
           /\ thread[Detector].at = "discarding" /\ thread'[Detector] = AtRest
           /\ UNCHANGED <<meeting, job, det, outside, left, history>>
<1>1. thread \in [Threads -> Thread] /\ Becomes(Detector, AtRest)
      /\ UNCHANGED <<meeting, job, det, outside, left, history>>
      /\ DiscardClear /\ thread[Detector].at = "discarding"
  BY DEF Base, RecordingTypeOK, DetectorDiscards
<1>2. thread' \in [Threads -> Thread] /\ thread'[Detector] = AtRest /\ Only(Detector)
  BY <1>1, AtRestIsThread, ThreadsDiffer, BecomesDoes
<1>3. RecorderTypeOK' /\ recorder'.committed = FALSE
  BY <1>1, BaseRows, DiscardClearDoes
<1>4. RecordingTypeOK'
  BY <1>1, <1>2, <1>3 DEF Base, RecordingTypeOK, outside, history
<1>5. Placed'
  <2>1. Place(Detector)'
    BY <1>2, AtRestIsThread, ThreadsDiffer DEF Place
  <2> QED BY <1>2, <1>3, <2>1, ThreadsDiffer, PlacedStays DEF Base, Placed
<1> QED BY <1>1, <1>2, <1>4, <1>5 DEF Base

LEMMA DetectorCommitsDoes ==
    ASSUME Base, DetectorCommits
    PROVE  /\ Base' /\ Only(Detector) /\ commit(thread[Detector].meeting)
           /\ thread[Detector].meeting \in Meetings
           /\ recorder'.committed
           /\ thread[Detector].at = "commit" /\ thread'[Detector] = AtRest
           /\ det'.state = "RECORDING" /\ det'.meeting = thread[Detector].meeting
           /\ unheard' = IF recorder.pump THEN unheard
                         ELSE unheard \union {thread[Detector].meeting}
           /\ UNCHANGED <<meeting, job, outside, left, thrown, stranded, kept>>
<1> DEFINE m == thread[Detector].meeting
           p == thread[Detector].process
<1>1. /\ thread \in [Threads -> Thread] /\ thread[Detector] \in Thread
      /\ det \in Watcher /\ thread[Detector].at = "commit" /\ unheard \subseteq Meetings
  BY ThreadsDiffer DEF Base, RecordingTypeOK, DetectorCommits
<1>2. m \in Meetings /\ p \in Apps \union {None}
  BY <1>1, ThreadsDiffer DEF Base, Placed, Place, Thread
<1>3. /\ commit(m) /\ Becomes(Detector, AtRest)
      /\ det' = [det EXCEPT !.state = "RECORDING", !.meeting = m, !.owner = p,
                            !.fresh = det.fresh \ {p}, !.wake = None]
      /\ unheard' = IF recorder.pump THEN unheard ELSE unheard \union {m}
      /\ UNCHANGED <<meeting, job, outside, left, thrown, stranded, kept>>
  BY <1>1 DEF DetectorCommits, Watcher
<1> HIDE DEF m, p
<1>4. det' \in Watcher /\ det'.state = "RECORDING" /\ det'.meeting = m
  BY <1>1, <1>2, <1>3 DEF Watcher
<1>5. thread' \in [Threads -> Thread] /\ thread'[Detector] = AtRest /\ Only(Detector)
  BY <1>1, <1>3, AtRestIsThread, ThreadsDiffer, BecomesDoes
<1>6. RecorderTypeOK' /\ recorder'.committed /\ recorder'.meeting # None
  <2>1. CASE recorder.committed
    BY <1>2, <1>3, <2>1, BaseRows, CommitAgain DEF Base, Placed
  <2>2. CASE ~recorder.committed
    BY <1>2, <1>3, <2>2, BaseRows, CommitDoes, NoneIsNoMeeting
  <2> QED BY <2>1, <2>2
<1>7. unheard' \subseteq Meetings
  BY <1>1, <1>2, <1>3
<1>8. RecordingTypeOK'
  BY <1>3, <1>4, <1>5, <1>6, <1>7 DEF Base, RecordingTypeOK, outside
<1>9. Placed'
  <2>1. Place(Detector)'
    BY <1>5, AtRestIsThread, ThreadsDiffer DEF Place
  <2> QED BY <1>5, <1>6, <2>1, ThreadsDiffer, PlacedStays
<1> QED BY <1>1, <1>2, <1>3, <1>4, <1>5, <1>6, <1>8, <1>9 DEF Base, m

(***************************************************************************)
(* The rest of the world.                                                  *)
(***************************************************************************)
LEMMA HearsDoes ==
    ASSUME Base, Hears
    PROVE  Base' /\ Hear /\ UNCHANGED <<meeting, job, det, outside, thread, left, history>>
<1>1. Hear /\ UNCHANGED <<meeting, job, det, outside, thread, left, history>>
  BY DEF Hears
<1>2. RecorderTypeOK' /\ recorder'.committed = recorder.committed /\ recorder'.meeting = recorder.meeting
  BY <1>1, BaseRows, HearDoes
<1>3. RecordingTypeOK'
  BY <1>1, <1>2 DEF Base, RecordingTypeOK, outside, history
<1>4. Placed'
  BY <1>1, <1>2, PlacedAside DEF Base, Placed
<1> QED BY <1>1, <1>3, <1>4 DEF Base

\* The settings and the microphone are other programs' and the user's.
LEMMA OutsideDoes ==
    ASSUME Base, MicChanges \/ ModeChanges
    PROVE  /\ Base' /\ Budgeted
           /\ UNCHANGED <<recorder, disk, meeting, job, det, thread, history>>
<1>1. UNCHANGED <<recorder, disk, meeting, job, det, thread, history>>
  BY DEF MicChanges, ModeChanges
<1>2. Budgeted
  BY SpendDoes DEF MicChanges, ModeChanges, Base, Events
<1>3. mic' \subseteq Apps /\ detection' \in {"off", "shadow", "on"}
  BY ModesAssumption DEF MicChanges, ModeChanges, Base, RecordingTypeOK
<1>4. RecordingTypeOK'
  BY <1>1, <1>2, <1>3 DEF Base, RecordingTypeOK, RecorderTypeOK, Budgeted, history
<1>5. Placed'
  BY <1>1, PlacedAside DEF Base, Placed
<1> QED BY <1>1, <1>2, <1>4, <1>5 DEF Base

LEMMA LosesDeviceDoes ==
    ASSUME Base, LosesDevice
    PROVE  /\ Base' /\ Budgeted /\ DeviceGone
           /\ UNCHANGED <<meeting, job, det, outside, thread, history>>
<1>1. UNCHANGED <<meeting, job, det, outside, thread, history>> /\ DeviceGone
  BY DEF LosesDevice
<1>2. Budgeted
  BY SpendDoes DEF LosesDevice, Base, Events
<1>3. RecorderTypeOK' /\ recorder'.committed = recorder.committed /\ recorder'.meeting = recorder.meeting
  BY <1>1, BaseRows, DeviceDoes
<1>4. RecordingTypeOK'
  BY <1>1, <1>2, <1>3 DEF Base, RecordingTypeOK, outside, Budgeted, history
<1>5. Placed'
  BY <1>1, <1>3, PlacedAside DEF Base, Placed
<1> QED BY <1>1, <1>2, <1>4, <1>5 DEF Base

LEMMA WorkerTakesDoes ==
    ASSUME Base, WorkerTakes
    PROVE  /\ Base' /\ Budgeted
           /\ UNCHANGED <<recorder, disk, det, outside, thread, history>>
           /\ \E m \in Meetings :
                 /\ job[m] = "pending" /\ job' = [job EXCEPT ![m] = "running"]
                 /\ meeting'[m] = meeting[m] \/ (meeting[m].state = "RECORDED" /\ meeting'[m].state = "TAKEN")
                 /\ \A p \in Meetings : p # m => meeting'[p] = meeting[p]
<1>1. UNCHANGED <<recorder, disk, det, outside, thread, history>>
  BY DEF WorkerTakes
<1>2. Budgeted /\ meeting \in [Meetings -> Meeting] /\ job \in [Meetings -> Job]
  BY SpendDoes DEF WorkerTakes, Base, Events, RecordingTypeOK
<1>3. PICK m \in Meetings : /\ job[m] = "pending" /\ job' = [job EXCEPT ![m] = "running"]
         /\ meeting' = IF m \in In("RECORDED") THEN InState(m, "TAKEN") ELSE meeting
  BY DEF WorkerTakes
<1>4. job' \in [Meetings -> Job]
  BY <1>2, <1>3 DEF Job
<1>5. /\ meeting'[m] = meeting[m] \/ (meeting[m].state = "RECORDED" /\ meeting'[m].state = "TAKEN")
      /\ \A p \in Meetings : p # m => meeting'[p] = meeting[p]
      /\ meeting' \in [Meetings -> Meeting]
  <2>1. CASE m \in In("RECORDED")
    <3>1. meeting' = [meeting EXCEPT ![m] = [meeting[m] EXCEPT !.state = "TAKEN"]]
          /\ meeting[m].state = "RECORDED"
      BY <1>2, <1>3, <2>1 DEF InState, In
    <3>2. meeting[m] \in Meeting
      BY <1>2
    <3>3. [meeting[m] EXCEPT !.state = "TAKEN"] \in Meeting
          /\ [meeting[m] EXCEPT !.state = "TAKEN"].state = "TAKEN"
      BY <3>2 DEF Meeting, State
    <3> QED BY <1>2, <3>1, <3>3
  <2>2. CASE m \notin In("RECORDED")
    BY <1>2, <1>3, <2>2
  <2> QED BY <2>1, <2>2
<1>6. RecordingTypeOK'
  BY <1>1, <1>2, <1>4, <1>5 DEF Base, RecordingTypeOK, RecorderTypeOK, outside, Budgeted, history
<1>7. Placed'
  BY <1>1, PlacedAside DEF Base, Placed
<1> QED BY <1>1, <1>2, <1>3, <1>5, <1>6, <1>7 DEF Base

LEMMA WorkerDoneDoes ==
    ASSUME Base, WorkerDone
    PROVE  /\ Base'
           /\ UNCHANGED <<recorder, disk, meeting, det, outside, thread, left, history>>
           /\ \E m \in Meetings : job[m] = "running" /\ job' = [job EXCEPT ![m] = "done"]
<1>1. UNCHANGED <<recorder, disk, meeting, det, outside, thread, left, history>>
  BY DEF WorkerDone
<1>2. PICK m \in Meetings : job[m] = "running" /\ job' = [job EXCEPT ![m] = "done"]
  BY DEF WorkerDone
<1>3. job' \in [Meetings -> Job]
  BY <1>2 DEF Base, RecordingTypeOK, Job
<1>4. RecordingTypeOK'
  BY <1>1, <1>3 DEF Base, RecordingTypeOK, RecorderTypeOK, outside, history
<1>5. Placed'
  BY <1>1, PlacedAside DEF Base, Placed
<1> QED BY <1>1, <1>2, <1>4, <1>5 DEF Base

LEMMA CrashDoes ==
    ASSUME Base, Crash
    PROVE  /\ Base' /\ Budgeted
           /\ UNCHANGED <<disk, meeting, outside, history>>
           /\ recorder' = Closed /\ det'.state = "IDLE"
           /\ \A t \in Threads \ {Main} : thread'[t] = AtRest
           /\ thread'[Main].at = "repair" /\ thread'[Main].todo = In("RECORDING")
           /\ ~thread'[Main].locked /\ thread'[Main].then = "rest"
           /\ \A m \in Meetings : job'[m] = IF job[m] = "running" THEN "pending" ELSE job[m]
<1> DEFINE th == [AtRest EXCEPT !.at = "repair", !.todo = In("RECORDING")]
<1>1. /\ UNCHANGED <<disk, meeting, outside, history>> /\ recorder' = Closed /\ det' = Asleep
      /\ thread' = [t \in Threads |-> IF t = Main THEN th ELSE AtRest]
      /\ job' = [m \in Meetings |-> IF job[m] = "running" THEN "pending" ELSE job[m]]
  BY DEF Crash
<1>2. Budgeted
  BY SpendDoes DEF Crash, Base, Events
<1>3. th \in Thread /\ th.at = "repair" /\ th.todo = In("RECORDING") /\ ~th.locked /\ th.then = "rest"
  BY DEF AtRest, Thread, At, In
<1> HIDE DEF th
<1>4. /\ thread' \in [Threads -> Thread] /\ thread'[Main] = th
      /\ \A t \in Threads \ {Main} : thread'[t] = AtRest
  BY <1>1, <1>3, AtRestIsThread, ThreadsDiffer
<1>5. job' \in [Meetings -> Job]
  BY <1>1 DEF Base, RecordingTypeOK, Job
<1>6. Asleep \in Watcher /\ Asleep.state = "IDLE"
  BY DEF Asleep, Watcher
<1>7. RecordingTypeOK'
  BY <1>1, <1>2, <1>4, <1>5, <1>6, ClosedIsRecorder
     DEF Base, RecordingTypeOK, RecorderTypeOK, outside, Budgeted, history
<1>8. Placed'
  <2>1. ~recorder'.committed
    BY <1>1 DEF Closed
  <2>2. \A t \in Threads : Place(t)'
    BY <1>3, <1>4, AtRestIsThread, ThreadsDiffer DEF Place
  <2> QED BY <2>1, <2>2 DEF Placed
<1> QED BY <1>1, <1>2, <1>3, <1>4, <1>6, <1>7, <1>8 DEF Base

(***************************************************************************)
(* The steps, one by one.                                                  *)
(***************************************************************************)
Presses == \E h \in Handlers :
    \/ StartPressed(h) \/ TrayStart(h)
    \/ StopPressed(h) \/ KeepPressed(h) \/ PausePressed(h) \/ DiscardPressed(h)

Looking == \E d \in Seen :
    /\ Look(d) /\ Aside
    /\ \/ Adopts(d) \/ KnowsMore(d) \/ Forgets(d) \/ Wakes(d) \/ HangsUp(d) \/ Rejoins(d)
       \/ GivesUp(d) \/ Commits(d) \/ EndsCall(d) \/ HandsOver(d)

Moving == \E t \in Threads :
    \/ Named(t) \/ Closes(t) \/ Clears(t) \/ Finishes(t) \/ Repairs(t)
    \/ t \in Handlers /\ (StartCommits(t) \/ StartFails(t) \/ Pauses(t) \/ Discards(t))
    \/ t = Detector /\ (DetectorDiscards \/ DetectorCommits)

World == Hears \/ MicChanges \/ ModeChanges \/ LosesDevice \/ WorkerTakes \/ WorkerDone \/ Crash

LEMMA Steps == ASSUME RecordingNext PROVE Presses \/ Looking \/ Moving \/ World
<1>1. ASSUME NEW h \in Handlers, Press(h) PROVE Presses
  BY <1>1 DEF Press, Presses
<1>2. ASSUME NEW h \in Handlers, HandlerStep(h) PROVE Moving
  BY <1>2, ThreadsDiffer DEF HandlerStep, Moving
<1>3. ASSUME NEW t \in Threads, Ends(t) PROVE Moving
  BY <1>3 DEF Ends, Moving
<1>4. CASE DetectorStep
  <2>1. CASE Tick
    BY <2>1 DEF Tick, Case, Looking, Aside, KnowsMore
  <2>2. CASE TickEnds
    BY <2>2 DEF TickEnds, Looking, Aside
  <2>3. CASE DetectorDiscards \/ DetectorCommits
    BY <2>3, ThreadsDiffer DEF Moving
  <2> QED BY <1>4, <2>1, <2>2, <2>3 DEF DetectorStep
<1> QED BY <1>1, <1>2, <1>3, <1>4 DEF RecordingNext, World

LEMMA BaseInit == ASSUME RecordingInit PROVE Base
<1>1. RecorderTypeOK /\ recorder = Closed
  BY ClosedIsRecorder DEF RecordingInit, RecorderInit, RecorderTypeOK
<1>2. meeting \in [Meetings -> Meeting] /\ job \in [Meetings -> Job]
  BY DEF RecordingInit, Meeting, State, Job
<1>3. /\ thread \in [Threads -> Thread] /\ thread = [t \in Threads |-> AtRest]
      /\ det = Asleep /\ Asleep \in Watcher
  BY AtRestIsThread DEF RecordingInit, Asleep, Watcher
<1>4. left \in [Events \union Circumstances -> Nat] /\ detection \in {"off", "shadow", "on"}
  BY BudgetsAssumption, ModesAssumption DEF RecordingInit
<1>5. RecordingTypeOK
  BY <1>1, <1>2, <1>3, <1>4 DEF RecordingInit, RecordingTypeOK
<1>6. Placed
  BY <1>1, <1>3, AtRestIsThread DEF Placed, Place, Closed
<1> QED BY <1>5, <1>6 DEF Base

LEMMA BaseStep == ASSUME Base, RecordingNext PROVE Base' /\ Budgeted
<1>1. CASE Presses
  BY <1>1, StartPressedDoes, StopPressedDoes, KeepPressedDoes, PausePressedDoes, DiscardPressedDoes
     DEF Presses
<1>2. CASE Looking
  <2>1. PICK d \in Seen : /\ Look(d) /\ Aside
          /\ \/ Adopts(d) \/ KnowsMore(d) \/ Forgets(d) \/ Wakes(d) \/ HangsUp(d) \/ Rejoins(d)
             \/ GivesUp(d) \/ Commits(d) \/ EndsCall(d) \/ HandsOver(d)
    BY <1>2 DEF Looking
  <2>2. Base'
    BY <2>1, LookIs, AdoptsDoes, KnowsMoreDoes, ForgetsDoes, WakesDoes, HangsUpDoes, RejoinsDoes,
       GivesUpDoes, CommitsDoes, EndsCallDoes, HandsOverDoes
  <2>3. Budgeted
    BY <2>1, KeepsBudget DEF Aside, Base
  <2> QED BY <2>2, <2>3
<1>3. CASE Moving
  <2>1. ASSUME NEW t \in Threads,
               Named(t) \/ Closes(t) \/ Clears(t) \/ Finishes(t) \/ Repairs(t)
        PROVE  Base' /\ Budgeted
    BY <2>1, NamedDoes, ClosesDoes, ClearsDoes, FinishesDoes, RepairsDoes, KeepsBudget DEF Base
  <2>2. ASSUME NEW h \in Handlers, StartCommits(h) \/ StartFails(h) \/ Pauses(h) \/ Discards(h)
        PROVE  Base' /\ Budgeted
    BY <2>2, StartCommitsDoes, StartFailsDoes, PausesDoes, DiscardsDoes, KeepsBudget DEF Base
  <2>3. ASSUME DetectorDiscards \/ DetectorCommits PROVE Base' /\ Budgeted
    BY <2>3, DetectorDiscardsDoes, DetectorCommitsDoes, KeepsBudget DEF Base
  <2> QED BY <1>3, <2>1, <2>2, <2>3 DEF Moving
<1>4. CASE World
  BY <1>4, HearsDoes, OutsideDoes, LosesDeviceDoes, WorkerTakesDoes, WorkerDoneDoes, CrashDoes,
     KeepsBudget DEF World, Base
<1> QED BY <1>1, <1>2, <1>3, <1>4, Steps

(***************************************************************************)
(* Nothing half-written is transcribed.                                    *)
(***************************************************************************)
LEMMA SettlesUnqueued ==
    ASSUME Unqueued, NEW m \in Meetings, Settles(m)
    PROVE  Unqueued'
BY DEF Unqueued, Settles

LEMMA DiscardUnqueued ==
    ASSUME Unqueued, Base, NEW m \in Meetings, discard(m)
    PROVE  Unqueued'
BY BaseRows, DiscardDoes DEF Unqueued

LEMMA UnqueuedStep == ASSUME Base, Unqueued, RecordingNext PROVE Unqueued'
<1>0. CASE UNCHANGED <<meeting, job>>
  BY <1>0 DEF Unqueued
<1>1. CASE Presses
  <2>1. UNCHANGED <<meeting, job>>
    BY <1>1, StartPressedDoes, StopPressedDoes, KeepPressedDoes, PausePressedDoes, DiscardPressedDoes
       DEF Presses
  <2> QED BY <1>0, <2>1
<1>2. CASE Looking
  BY <1>0, <1>2 DEF Looking, Aside
<1>3. CASE Moving
  <2>1. ASSUME NEW t \in Threads, Named(t) PROVE Unqueued'
    BY <2>1, NamedDoes DEF NamedAs, Unqueued
  <2>2. ASSUME NEW t \in Threads, Closes(t) \/ Clears(t) PROVE Unqueued'
    BY <1>0, <2>2, ClosesDoes, ClearsDoes
  <2>3. ASSUME NEW t \in Threads, Finishes(t) PROVE Unqueued'
    <3>1. FinishesIt(t) /\ thread[t].long \in BOOLEAN
      BY <2>3, FinishesDoes
    <3> QED BY <1>0, <3>1, BaseRows, FinishDoes, SettlesUnqueued DEF FinishesIt
  <2>4. ASSUME NEW t \in Threads, Repairs(t) PROVE Unqueued'
    <3>1. CASE UNCHANGED <<meeting, job, disk, marks>>
      BY <1>0, <3>1
    <3>2. ASSUME NEW m \in Meetings, RepairsOne(t, m) PROVE Unqueued'
      <4>1. IsLong(m) \in BOOLEAN
        BY DEF IsLong
      <4>2. CASE finish(m, IsLong(m))
        BY <4>1, <4>2, BaseRows, FinishDoes, SettlesUnqueued
      <4>3. CASE discard(m)
        BY <4>3, DiscardUnqueued
      <4> QED BY <3>2, <4>2, <4>3 DEF RepairsOne
    <3> QED BY <2>4, <3>1, <3>2, RepairsDoes
  <2>5. ASSUME NEW h \in Handlers, StartFails(h) PROVE Unqueued'
    <3> DEFINE m == thread[h].meeting
    <3>1. /\ m \in Meetings
          /\ finish(m, TRUE) \/ UNCHANGED <<meeting, job, disk, marks>> \/ discard(m)
      BY <2>5, StartFailsDoes
    <3> HIDE DEF m
    <3>2. CASE finish(m, TRUE)
      BY <3>1, <3>2, BaseRows, FinishDoes, SettlesUnqueued
    <3> QED BY <1>0, <3>1, <3>2, DiscardUnqueued
  <2>6. ASSUME NEW h \in Handlers, StartCommits(h) \/ Pauses(h) PROVE Unqueued'
    BY <1>0, <2>6, StartCommitsDoes, PausesDoes
  <2>7. ASSUME NEW h \in Handlers, Discards(h) PROVE Unqueued'
    BY <2>7, DiscardsDoes, DiscardUnqueued
  <2>8. CASE DetectorDiscards \/ DetectorCommits
    BY <1>0, <2>8, DetectorDiscardsDoes, DetectorCommitsDoes
  <2> QED BY <1>3, <2>1, <2>2, <2>3, <2>4, <2>5, <2>6, <2>7, <2>8 DEF Moving
<1>4. CASE World
  <2>1. job \in [Meetings -> Job]
    BY DEF Base, RecordingTypeOK
  <2>2. CASE WorkerTakes
    BY <2>1, <2>2, WorkerTakesDoes DEF Unqueued
  <2>3. CASE WorkerDone
    BY <2>1, <2>3, WorkerDoneDoes DEF Unqueued
  <2>4. CASE Crash
    BY <2>4, CrashDoes DEF Unqueued
  <2>5. CASE Hears \/ MicChanges \/ ModeChanges \/ LosesDevice
    BY <1>0, <2>5, HearsDoes, OutsideDoes, LosesDeviceDoes
  <2> QED BY <1>4, <2>2, <2>3, <2>4, <2>5 DEF World
<1> QED BY <1>1, <1>2, <1>3, <1>4, Steps

(***************************************************************************)
(* The detector's lock, and the microphone.                                *)
(***************************************************************************)
Ending(t) == thread[t].at \in {"stop", "clear", "finish"}

\* One thread moves on: it holds the lock already or nobody else does.
LEMMA LockedMoves ==
    ASSUME Locked, NEW t \in Threads, Only(t),
           thread'[t].locked => thread[t].locked \/ LockFree(t),
           thread'[t].locked /\ Ending(t)' => Follows',
           \A u \in Threads \ {t} : thread[u].locked /\ Ending(u) => Follows',
           t = Detector /\ thread'[t].at # "rest" => thread'[t].locked
    PROVE  Locked'
<1>1. \A u \in Threads \ {t} : thread'[u] = thread[u]
  BY DEF Only
<1>2. \A u, v \in Threads : thread'[u].locked /\ thread'[v].locked => u = v
  <2>1. \A u \in Threads : thread'[t].locked /\ thread'[u].locked => u = t
    BY <1>1 DEF Locked, LockFree
  <2>2. \A u, v \in Threads \ {t} : thread'[u].locked /\ thread'[v].locked => u = v
    BY <1>1 DEF Locked
  <2> QED BY <2>1, <2>2
<1>3. \A u \in Threads : thread'[u].locked /\ thread'[u].at \in {"stop", "clear", "finish"} => Follows'
  BY <1>1 DEF Ending
<1>4. thread'[Detector].at # "rest" => thread'[Detector].locked
  BY <1>1, ThreadsDiffer DEF Locked
<1> QED BY <1>2, <1>3, <1>4 DEF Locked

LEMMA LockedAside ==
    ASSUME Locked, thread' = thread, Follows => Follows' \/ LockFree(Detector),
           thread[Detector] = AtRest \/ (Follows => Follows')
    PROVE  Locked'
<1>1. CASE Follows => Follows'
  BY <1>1 DEF Locked
<1>2. CASE LockFree(Detector) /\ thread[Detector] = AtRest
  <2>1. \A t \in Threads : ~thread[t].locked
    BY <1>2, AtRestIsThread DEF LockFree
  <2> QED BY <2>1 DEF Locked
<1> QED BY <1>1, <1>2

\* What a look leaves: nobody has the lock but, from now on, the detector.
LEMMA LockedLooks ==
    ASSUME Locked, Looks, Only(Detector), thread'[Detector].locked,
           Ending(Detector)' => Follows'
    PROVE  Locked'
<1>1. \A t \in Threads : ~thread[t].locked
  BY AtRestIsThread DEF LockFree, Looks
<1> QED BY <1>1, ThreadsDiffer DEF Locked, Only, Ending

LEMMA LockedPresses == ASSUME Base, Locked, Presses PROVE Locked'
<1>1. PICK h \in Handlers : \/ StartPressed(h) \/ TrayStart(h)
                            \/ StopPressed(h) \/ KeepPressed(h) \/ PausePressed(h) \/ DiscardPressed(h)
  BY DEF Presses
<1>2. h \in Threads /\ h # Detector
  BY ThreadsDiffer
<1>3. Locked => \A u \in Threads \ {h} : thread[u].locked /\ Ending(u) => Follows
  BY DEF Locked, Ending
<1>4. CASE StartPressed(h) \/ TrayStart(h) \/ PausePressed(h)
  <2>1. Only(h) /\ ~thread'[h].locked /\ det' = det
    BY <1>4, StartPressedDoes, PausePressedDoes
  <2> QED BY <1>2, <1>3, <2>1, LockedMoves DEF Follows
<1>5. CASE StopPressed(h)
  <2>1. Only(h) /\ det' = det /\ (thread'[h].locked => LockFree(h) /\ Follows)
    BY <1>5, StopPressedDoes DEF StopsAs, EndsNow
  <2> QED BY <1>2, <1>3, <2>1, LockedMoves DEF Follows
<1>6. CASE DiscardPressed(h)
  <2>1. Only(h) /\ det' = det /\ (thread'[h].locked => LockFree(h) /\ Follows)
    BY <1>6, DiscardPressedDoes DEF DiscardsAs, EndsNow
  <2> QED BY <1>2, <1>3, <2>1, LockedMoves DEF Follows
<1>7. CASE KeepPressed(h)
  <2>1. thread' = thread /\ (Follows => Follows')
    BY <1>7, KeepPressedDoes DEF Follows
  <2> QED BY <2>1 DEF Locked
<1> QED BY <1>1, <1>4, <1>5, <1>6, <1>7

LEMMA LockedLooking == ASSUME Base, Locked, Looking PROVE Locked'
<1>1. PICK d \in Seen : /\ Look(d) /\ Aside
        /\ \/ Adopts(d) \/ KnowsMore(d) \/ Forgets(d) \/ Wakes(d) \/ HangsUp(d) \/ Rejoins(d)
           \/ GivesUp(d) \/ Commits(d) \/ EndsCall(d) \/ HandsOver(d)
  BY DEF Looking
<1>2. Looks
  BY <1>1, LookIs
<1>3. LockFree(Detector) /\ thread[Detector] = AtRest
  BY <1>2 DEF Looks
<1>4. CASE Adopts(d) \/ KnowsMore(d) \/ Forgets(d) \/ Wakes(d) \/ HangsUp(d) \/ Rejoins(d)
  <2>1. thread' = thread
    BY <1>1, <1>4, AdoptsDoes, KnowsMoreDoes, ForgetsDoes, WakesDoes, HangsUpDoes, RejoinsDoes
  <2> QED BY <1>3, <2>1, LockedAside
<1>5. CASE GivesUp(d) \/ Commits(d)
  <2>1. /\ Only(Detector) /\ thread'[Detector].locked
        /\ thread'[Detector].at \in {"discarding", "start"}
    BY <1>1, <1>2, <1>5, GivesUpDoes, CommitsDoes
  <2> QED BY <1>2, <2>1, LockedLooks DEF Ending
<1>6. CASE EndsCall(d) \/ HandsOver(d)
  <2>1. Stopping(d) \/ Splitting(d)
    BY <1>1, <1>6, EndsCallDoes, HandsOverDoes
  <2>2. Only(Detector) /\ thread'[Detector].locked /\ Follows'
    BY <2>1 DEF Stopping, Splitting, Follows
  <2> QED BY <1>2, <2>2, LockedLooks
<1> QED BY <1>1, <1>4, <1>5, <1>6

LEMMA LockedMoving == ASSUME Base, Locked, Moving PROVE Locked'
<1>1. \A t \in Threads : \A u \in Threads \ {t} : thread[u].locked /\ Ending(u) => Follows
  BY DEF Locked, Ending
<1>2. ASSUME NEW t \in Threads, Named(t) PROVE Locked'
  BY <1>1, <1>2, NamedDoes, LockedMoves DEF Locked, Follows, Ending
<1>3. ASSUME NEW t \in Threads, Closes(t) \/ Clears(t) PROVE Locked'
  <2>1. /\ Only(t) /\ thread'[t].locked = thread[t].locked /\ det' = det
        /\ Ending(t) /\ thread[t].at # "rest"
    BY <1>3, ClosesDoes, ClearsDoes DEF Ending
  <2> QED BY <1>1, <2>1, LockedMoves DEF Locked, Follows, Ending
<1>4. ASSUME NEW t \in Threads, Finishes(t) PROVE Locked'
  <2>1. /\ Only(t) /\ thread[t].at = "finish" /\ GoesFrom(t)
        /\ IF thread[t].locked /\ thread[t].then # "start" THEN det'.state = "IDLE" ELSE det' = det
    BY <1>4, FinishesDoes
  <2>2. thread'[t].at \in {"rest", "start", "discarding"}
        /\ (thread'[t].locked => thread[t].locked)
        /\ (t = Detector /\ thread'[t].at # "rest" => thread'[t].locked = thread[t].locked)
    BY <2>1, AtRestIsThread, ThreadsDiffer DEF GoesFrom
  <2>3. \A u \in Threads \ {t} : thread[u].locked /\ Ending(u) => Follows'
    BY <1>1, <2>1 DEF Locked, Follows
  <2> QED BY <2>1, <2>2, <2>3, LockedMoves DEF Locked, Ending
<1>5. ASSUME NEW t \in Threads, Repairs(t) PROVE Locked'
  <2>1. /\ Only(t) /\ t # Detector /\ det' = det
        /\ thread'[t].at \in {"repair", "rest"}
        /\ thread'[t].locked => thread[t].locked
    BY <1>5, RepairsDoes, AtRestIsThread DEF RepairsOne
  <2> QED BY <1>1, <2>1, LockedMoves DEF Follows, Ending
<1>6. ASSUME NEW h \in Handlers, StartCommits(h) \/ StartFails(h) \/ Pauses(h) \/ Discards(h)
      PROVE  Locked'
  <2>1. /\ h \in Threads /\ h # Detector /\ Only(h) /\ det' = det
        /\ thread'[h] = AtRest
    BY <1>6, StartCommitsDoes, StartFailsDoes, PausesDoes, DiscardsDoes, ThreadsDiffer
  <2> QED BY <1>1, <2>1, LockedMoves, AtRestIsThread DEF Follows
<1>7. CASE DetectorDiscards \/ DetectorCommits
  <2>1. Only(Detector) /\ thread'[Detector] = AtRest /\ det'.state \in {det.state, "RECORDING"}
    BY <1>7, DetectorDiscardsDoes, DetectorCommitsDoes
  <2> QED BY <1>1, <2>1, LockedMoves, AtRestIsThread, ThreadsDiffer DEF Follows
<1> QED BY <1>2, <1>3, <1>4, <1>5, <1>6, <1>7 DEF Moving

LEMMA LockedWorld == ASSUME Base, Locked, World PROVE Locked'
<1>1. CASE Hears \/ MicChanges \/ ModeChanges \/ LosesDevice \/ WorkerTakes \/ WorkerDone
  <2>1. thread' = thread /\ det' = det
    BY <1>1, HearsDoes, OutsideDoes, LosesDeviceDoes, WorkerTakesDoes, WorkerDoneDoes
  <2> QED BY <2>1 DEF Locked, Follows
<1>2. CASE Crash
  <2>1. \A t \in Threads : ~thread'[t].locked /\ (t = Detector => thread'[t].at = "rest")
    BY <1>2, CrashDoes, AtRestIsThread, ThreadsDiffer
  <2> QED BY <2>1, ThreadsDiffer DEF Locked
<1> QED BY <1>1, <1>2 DEF World

LEMMA OpenStays ==
    ASSUME Open, Base, Budgeted, thread'[Detector] = thread[Detector],
           det'.state = det.state \/ ~recorder.streams \/ recorder.committed,
           recorder'.streams => recorder.streams \/ Has("half"),
           recorder.committed => recorder'.committed \/ ~recorder'.streams
    PROVE  Open'
<1>1. "half" \in Circumstances
  BY DEF Circumstances
<1>2. Has("half") <=> Has("half")'
  BY <1>1 DEF Has, Budgeted
<1> QED BY <1>2 DEF Open, Uses

LEMMA OpenStep ==
    ASSUME Base, Base', Budgeted, Locked, Open, Presses \/ Looking \/ Moving \/ World
    PROVE  Open'
<1>1. CASE Presses
  <2>1. PICK h \in Handlers : \/ StartPressed(h) \/ TrayStart(h)
                              \/ StopPressed(h) \/ KeepPressed(h) \/ PausePressed(h) \/ DiscardPressed(h)
    BY <1>1 DEF Presses
  <2>2. h \in Threads /\ h # Detector
    BY ThreadsDiffer
  <2>3. CASE ~KeepPressed(h)
    <3>1. recorder' = recorder /\ det' = det /\ Only(h)
      BY <2>1, <2>3, StartPressedDoes, StopPressedDoes, PausePressedDoes, DiscardPressedDoes
    <3> QED BY <2>2, <3>1, OpenStays, ThreadsDiffer DEF Only
  <2>4. CASE KeepPressed(h)
    <3>1. recorder'.committed
      BY <2>4, KeepPressedDoes, ReleaseDoes, BaseRows DEF recorderVars
    <3> QED BY <3>1 DEF Open
  <2> QED BY <2>3, <2>4
<1>2. CASE Looking
  <2>1. PICK d \in Seen : /\ Look(d) /\ Aside
          /\ \/ Adopts(d) \/ KnowsMore(d) \/ Forgets(d) \/ Wakes(d) \/ HangsUp(d) \/ Rejoins(d)
             \/ GivesUp(d) \/ Commits(d) \/ EndsCall(d) \/ HandsOver(d)
    BY <1>2 DEF Looking
  <2>2. Looks /\ thread[Detector] = AtRest
    BY <2>1, LookIs DEF Looks
  <2>3. CASE Adopts(d) \/ KnowsMore(d)
    BY <2>1, <2>3, AdoptsDoes, KnowsMoreDoes, OpenStays
  <2>4. CASE Forgets(d)
    <3>1. recorder' = recorder /\ thread' = thread /\ ~recorder.committed /\ det.state # "AWAKE"
      BY <2>1, <2>4, ForgetsDoes
    <3>2. ~Uses
      BY <2>2, AtRestIsThread DEF Uses
    <3>3. ~recorder.streams \/ Has("half")
      BY <3>1, <3>2 DEF Open
    <3> QED BY <2>1, <3>1, <3>3 DEF Open, Has, Aside
  <2>5. CASE Wakes(d)
    BY <2>1, <2>5, WakesDoes DEF Open
  <2>6. CASE HangsUp(d) \/ Rejoins(d)
    <3>1. recorder'.committed
      BY <2>1, <2>6, HangsUpDoes, RejoinsDoes, HeldDoes, ReleaseDoes, BaseRows
    <3> QED BY <3>1 DEF Open
  <2>7. CASE GivesUp(d) \/ Commits(d)
    BY <2>1, <2>2, <2>7, GivesUpDoes, CommitsDoes DEF Open, Uses
  <2>8. CASE EndsCall(d) \/ HandsOver(d)
    BY <2>1, <2>8, EndsCallDoes, HandsOverDoes DEF Open, Uses, Stopping, Splitting
  <2> QED BY <2>1, <2>3, <2>4, <2>5, <2>6, <2>7, <2>8
<1>3. CASE Moving
  <2>1. ASSUME NEW t \in Threads, Named(t) PROVE Open'
    <3>1. CASE t = Detector
      BY <2>1, <3>1, NamedDoes DEF Open, Uses, Has
    <3>2. CASE t # Detector
      BY <2>1, <3>2, NamedDoes, OpenStays, ThreadsDiffer DEF Only
    <3> QED BY <3>1, <3>2
  <2>2. ASSUME NEW t \in Threads, Closes(t) PROVE Open'
    <3>1. /\ recorder'.streams = recorder.streams /\ recorder'.committed = recorder.committed
          /\ det' = det /\ left' = left /\ thread[t].at = "stop" /\ Only(t)
      BY <2>2, ClosesDoes, StopCloseDoes, BaseRows
    <3> QED BY <3>1, ThreadsDiffer DEF Open, Uses, Has, Only
  <2>3. ASSUME NEW t \in Threads, Clears(t) PROVE Open'
    BY <2>3, ClearsDoes, StopClearDoes, BaseRows DEF Open
  <2>4. ASSUME NEW t \in Threads, Finishes(t) PROVE Open'
    <3>1. /\ recorder' = recorder /\ left' = left /\ Only(t) /\ GoesFrom(t)
          /\ thread[t].at = "finish"
          /\ IF thread[t].locked /\ thread[t].then # "start" THEN det'.state = "IDLE" ELSE det' = det
      BY <2>4, FinishesDoes
    <3>2. CASE thread[t].locked /\ thread[t].then # "start"
      <4>1. det.state # "AWAKE"
        BY <3>1, <3>2 DEF Locked, Follows
      <4>2. ~Uses
        BY <3>1, <3>2, ThreadsDiffer DEF Uses, Locked
      <4>3. ~recorder.streams \/ recorder.committed \/ Has("half")
        BY <4>1, <4>2 DEF Open
      <4> QED BY <3>1, <4>3 DEF Open, Has
    <3>3. CASE ~(thread[t].locked /\ thread[t].then # "start")
      <4>1. CASE t = Detector
        <5>1. thread[t].then = "start"
          BY <3>1, <3>3, <4>1, ThreadsDiffer DEF Locked
        <5> QED BY <3>1, <4>1, <5>1 DEF Open, Uses, GoesFrom
      <4>2. CASE t # Detector
        BY <3>1, <3>3, <4>2, OpenStays, ThreadsDiffer DEF Only
      <4> QED BY <4>1, <4>2
    <3> QED BY <3>2, <3>3
  <2>5. ASSUME NEW t \in Threads, Repairs(t) PROVE Open'
    BY <2>5, RepairsDoes, OpenStays, ThreadsDiffer DEF Only
  <2>6. ASSUME NEW h \in Handlers, StartCommits(h) PROVE Open'
    BY <2>6, StartCommitsDoes DEF Open
  <2>7. ASSUME NEW h \in Handlers, StartFails(h) \/ Pauses(h) \/ Discards(h) PROVE Open'
    <3>1. /\ h \in Threads /\ h # Detector /\ Only(h) /\ det' = det
          /\ recorder'.committed = recorder.committed
          /\ recorder'.streams => recorder.streams \/ Has("half")
      BY <2>7, StartFailsDoes, PausesDoes, DiscardsDoes, PauseDoes, BaseRows, ThreadsDiffer
    <3> QED BY <3>1, OpenStays, ThreadsDiffer DEF Only
  <2>8. CASE DetectorDiscards
    BY <2>8, DetectorDiscardsDoes, DiscardClearDoes, BaseRows DEF Open
  <2>9. CASE DetectorCommits
    BY <2>9, DetectorCommitsDoes DEF Open
  <2> QED BY <1>3, <2>1, <2>2, <2>3, <2>4, <2>5, <2>6, <2>7, <2>8, <2>9 DEF Moving
<1>4. CASE World
  <2>1. CASE Hears
    BY <2>1, HearsDoes, HearDoes, BaseRows, OpenStays
  <2>2. CASE MicChanges \/ ModeChanges \/ WorkerTakes \/ WorkerDone
    BY <2>2, OutsideDoes, WorkerTakesDoes, WorkerDoneDoes, OpenStays
  <2>3. CASE LosesDevice
    BY <2>3, LosesDeviceDoes, DeviceDoes, BaseRows DEF Open
  <2>4. CASE Crash
    BY <2>4, CrashDoes DEF Open, Closed
  <2> QED BY <1>4, <2>1, <2>2, <2>3, <2>4 DEF World
<1> QED BY <1>1, <1>2, <1>3, <1>4

(***************************************************************************)
(* What a file is fed, where threads do not overlap.                       *)
(***************************************************************************)
\* Nothing of the recorder that these speak of changes.
Same ==
    /\ recorder'.streams = recorder.streams /\ recorder'.committed = recorder.committed
    /\ recorder'.armed = recorder.armed /\ recorder'.pump = recorder.pump
    /\ recorder'.meeting = recorder.meeting /\ recorder'.writer = recorder.writer
    /\ recorder'.queue = recorder.queue

LEMMA AloneMoves ==
    ASSUME Alone, NEW t \in Threads, Only(t), thread[t].at # "rest" \/ Quiet
    PROVE  Alone' /\ \A u \in Threads \ {t} : thread'[u].at = "rest" /\ thread[u].at = "rest"
<1>1. \A u \in Threads \ {t} : thread[u].at = "rest"
  BY DEF Alone, Quiet
<1> QED BY <1>1 DEF Alone, Only

LEMMA AloneAside == ASSUME Alone, thread' = thread PROVE Alone'
BY DEF Alone

\* Of one thread that moves on alone, what it knows.
LEMMA HandedMoves ==
    ASSUME NEW t \in Threads,
           \A u \in Threads \ {t} : thread'[u].at = "rest",
           thread'[t].at \in {"stop", "clear"} => recorder'.committed,
           thread'[t].at = "clear" => ~recorder'.pump,
           thread'[t].at \in {"finish", "repair"} => ~recorder'.committed,
           t = Detector /\ thread'[t].at \in {"start", "commit", "discarding"} =>
               ~recorder'.committed
    PROVE  Handed'
BY DEF Handed

LEMMA HandedAside ==
    ASSUME Handed, thread' = thread, recorder'.committed = recorder.committed,
           recorder.pump = FALSE => recorder'.pump = FALSE, recorder.pump \in BOOLEAN,
           recorder'.pump \in BOOLEAN
    PROVE  Handed'
BY DEF Handed

LEMMA FedStays ==
    ASSUME Fed, Same, unheard \subseteq unheard',
           recorder'.ring = recorder.ring \/ recorder.committed,
           Somebody("clear") => Somebody("clear")'
    PROVE  Fed'
BY DEF Fed, Same

LEMMA MarkedStays ==
    ASSUME AfterIsMarked, disk' = disk, kept \subseteq kept', unheard \subseteq unheard'
    PROVE  AfterIsMarked'
BY DEF AfterIsMarked, Marked

\* What the queue still has of that time is of a meeting recorded with no writer thread.
LEMMA QueueIsUnheard ==
    ASSUME Base, Fed, recorder.committed, "after" \in recorder.queue, ~Somebody("clear")
    PROVE  recorder.writer \in Meetings /\ recorder.writer \in unheard
BY DEF Fed, Base, RecordingTypeOK, RecorderTypeOK, Recorder, Placed

LEMMA StoredIsMarked ==
    ASSUME Base, AfterIsMarked, NEW sounds \in SUBSET Sound, disk' = Stored(sounds),
           kept' = kept, unheard' = unheard,
           "after" \in sounds => recorder.writer \in unheard \/ ~Writes
    PROVE  AfterIsMarked'
<1>1. /\ ~Writes => Stored(sounds) = disk
      /\ \A m \in Meetings : m # recorder.writer => Stored(sounds)[m] = disk[m]
      /\ \A m \in Meetings : Stored(sounds)[m] \subseteq disk[m] \union sounds
  BY BaseRows, RingGrows
<1>2. ASSUME NEW m \in Meetings, "after" \in disk'[m] PROVE m \in kept \union unheard
  BY <1>1, <1>2 DEF AfterIsMarked, Marked
<1> QED BY <1>2 DEF AfterIsMarked, Marked

LEMMA InHandPresses ==
    ASSUME Base, InHand, ~Has("overlap"), Presses
    PROVE  InHand'
<1>1. PICK h \in Handlers : \/ StartPressed(h) \/ TrayStart(h)
                            \/ StopPressed(h) \/ KeepPressed(h) \/ PausePressed(h) \/ DiscardPressed(h)
  BY DEF Presses
<1>2. h \in Threads /\ h # Detector
  BY ThreadsDiffer
<1>3. CASE ~KeepPressed(h)
  <2>1. /\ Only(h) /\ Begins(h) /\ UNCHANGED <<recorder, disk, history>>
        /\ \/ thread'[h].at \in {"start", "pause", "discarding"}
           \/ thread'[h].at = "stop" /\ recorder.committed
           \/ thread'[h].at = "repair" /\ ~recorder.committed
    BY <1>1, <1>3, StartPressedDoes, StopPressedDoes, PausePressedDoes, DiscardPressedDoes
       DEF StopsAs, DiscardsAs, EndsNow
  <2>2. Quiet /\ Alone' /\ \A u \in Threads \ {h} : thread'[u].at = "rest"
    BY <1>2, <2>1, AloneMoves DEF Begins, InHand
  <2>3. Handed'
    BY <1>2, <2>1, <2>2, HandedMoves
  <2>4. Fed' /\ AfterIsMarked'
    BY <2>1, <2>2, FedStays, MarkedStays DEF Same, history, InHand, Somebody, Quiet
  <2> QED BY <2>2, <2>3, <2>4 DEF InHand
<1>4. CASE KeepPressed(h)
  <2>1. /\ thread' = thread /\ kept' = kept \union {recorder.meeting} /\ unheard' = unheard
        /\ recorder.committed /\ recorder.meeting \in Meetings
        /\ release_hold(TRUE) \/ UNCHANGED recorderVars
    BY <1>4, KeepPressedDoes
  <2>2. /\ Same
        /\ \/ disk' = disk
           \/ recorder.writer # None /\ disk' = OnDisk(recorder.writer, recorder.ring)
    BY <2>1, ReleaseDoes, BaseRows DEF recorderVars, Same
  <2>3. AfterIsMarked'
    <3>1. recorder.writer = recorder.meeting
      BY <2>1 DEF InHand, Fed
    <3>2. \A m \in Meetings : m # recorder.meeting => disk'[m] = disk[m]
      BY <2>2, <3>1, BaseRows DEF OnDisk, Rows
    <3> QED BY <2>1, <3>2 DEF InHand, AfterIsMarked, Marked
  <2>4. Alone' /\ Handed'
    BY <2>1, <2>2 DEF Same, InHand, Alone, Handed
  <2>5. Fed'
    BY <2>1, <2>2, FedStays DEF InHand, Somebody
  <2> QED BY <2>3, <2>4, <2>5 DEF InHand
<1> QED BY <1>3, <1>4

LEMMA InHandLooking ==
    ASSUME Base, InHand, ~Has("overlap"), Looking
    PROVE  InHand'
<1>1. PICK d \in Seen : /\ Look(d) /\ Aside
        /\ \/ Adopts(d) \/ KnowsMore(d) \/ Forgets(d) \/ Wakes(d) \/ HangsUp(d) \/ Rejoins(d)
           \/ GivesUp(d) \/ Commits(d) \/ EndsCall(d) \/ HandsOver(d)
  BY DEF Looking
<1>2. Looks /\ Quiet /\ kept' = kept /\ unheard' = unheard
  BY <1>1, LookIs DEF Looks, Begins, Aside, history
<1>3. CASE Adopts(d) \/ KnowsMore(d) \/ Forgets(d) \/ Wakes(d) \/ HangsUp(d) \/ Rejoins(d)
  <2>1. thread' = thread /\ disk' = disk
    BY <1>1, <1>3, AdoptsDoes, KnowsMoreDoes, ForgetsDoes, WakesDoes, HangsUpDoes, RejoinsDoes,
       ReleaseDoes, BaseRows
  <2>2. Alone' /\ Handed' /\ AfterIsMarked'
    BY <1>2, <2>1, AloneAside, MarkedStays DEF InHand, Handed, Quiet
  <2>3. Fed'
    <3>1. CASE Adopts(d) \/ KnowsMore(d) \/ Forgets(d) \/ HangsUp(d) \/ Rejoins(d)
      <4>1. Same /\ (recorder'.ring = recorder.ring \/ recorder.committed)
        BY <1>1, <3>1, AdoptsDoes, KnowsMoreDoes, ForgetsDoes, HangsUpDoes, RejoinsDoes,
           HeldDoes, ReleaseDoes, BaseRows DEF Same
      <4> QED BY <1>2, <2>1, <4>1, FedStays DEF InHand, Somebody
    <3>2. CASE Wakes(d)
      <4>1. recorder' = Armed /\ ~recorder.committed
        BY <1>1, <3>2, WakesDoes
      <4> QED BY <4>1, ArmedIs, BaseRows DEF InHand, Fed
    <3> QED BY <1>3, <3>1, <3>2
  <2> QED BY <2>2, <2>3 DEF InHand
<1>4. CASE GivesUp(d) \/ Commits(d)
  <2>1. /\ Only(Detector) /\ ~recorder.committed /\ UNCHANGED <<recorder, disk>>
        /\ thread'[Detector].at \in {"discarding", "start"}
    BY <1>1, <1>2, <1>4, GivesUpDoes, CommitsDoes
  <2>2. Alone' /\ \A u \in Threads \ {Detector} : thread'[u].at = "rest"
    BY <1>2, <2>1, ThreadsDiffer, AloneMoves DEF InHand
  <2>3. Handed'
    BY <2>1, <2>2, ThreadsDiffer, HandedMoves
  <2>4. Fed' /\ AfterIsMarked'
    BY <1>2, <2>1, FedStays, MarkedStays DEF Same, InHand, Somebody, Quiet
  <2> QED BY <2>2, <2>3, <2>4 DEF InHand
<1>5. CASE EndsCall(d) \/ HandsOver(d)
  <2>1. Stopping(d) \/ Splitting(d)
    BY <1>1, <1>5, EndsCallDoes, HandsOverDoes
  <2>2. Alone' /\ \A u \in Threads \ {Detector} : thread'[u].at = "rest"
    BY <1>2, <2>1, ThreadsDiffer, AloneMoves DEF InHand, Stopping, Splitting
  <2>3. CASE Stopping(d)
    <3>1. Handed'
      BY <2>2, <2>3, ThreadsDiffer, HandedMoves DEF Stopping
    <3>2. Fed' /\ AfterIsMarked'
      BY <1>2, <2>3, FedStays, MarkedStays DEF Same, InHand, Somebody, Quiet, Stopping
    <3> QED BY <2>2, <3>1, <3>2 DEF InHand
  <2>4. CASE Splitting(d)
    <3>1. /\ disk' = disk /\ recorder'.committed = FALSE /\ recorder'.writer = None
          /\ "after" \notin recorder'.ring \union recorder'.queue
          /\ thread'[Detector].at = "finish"
      BY <2>4, SplitDoes, BaseRows DEF Splitting
    <3>2. Handed'
      BY <2>2, <3>1, ThreadsDiffer, HandedMoves
    <3>3. Fed' /\ AfterIsMarked'
      BY <1>2, <3>1, MarkedStays DEF InHand, Fed
    <3> QED BY <2>2, <3>2, <3>3 DEF InHand
  <2> QED BY <2>1, <2>3, <2>4
<1> QED BY <1>1, <1>3, <1>4, <1>5

\* A thread that was at something is alone at it.
LEMMA AloneAt ==
    ASSUME InHand, NEW t \in Threads, thread[t].at # "rest"
    PROVE  /\ \A u \in Threads \ {t} : thread[u].at = "rest"
           /\ thread[t].at # "clear" => ~Somebody("clear")
BY DEF InHand, Alone, Somebody

\* It moves on, or is done, where nothing is recorded and the recorder stays as it is.
LEMMA InHandUnrecorded ==
    ASSUME Base, InHand, NEW t \in Threads, thread[t].at # "rest", Only(t), ~recorder.committed,
           ~recorder'.committed, recorder'.writer = recorder.writer,
           recorder'.ring = recorder.ring, recorder'.queue = recorder.queue,
           thread'[t].at \notin {"stop", "clear"}, AfterIsMarked'
    PROVE  InHand'
<1>1. Alone' /\ \A u \in Threads \ {t} : thread'[u].at = "rest"
  BY AloneMoves DEF InHand
<1>2. Handed'
  BY <1>1, HandedMoves
<1>3. Fed'
  BY DEF Fed, InHand
<1> QED BY <1>1, <1>2, <1>3 DEF InHand

LEMMA InHandMoving ==
    ASSUME Base, InHand, ~Has("overlap"), Moving
    PROVE  InHand'
<1>1. ASSUME NEW t \in Threads, Named(t) PROVE InHand'
  <2>1. /\ Only(t) /\ UNCHANGED <<recorder, disk, history>>
        /\ thread[t].at = "start" /\ thread'[t].at = "commit"
    BY <1>1, NamedDoes
  <2>2. Alone' /\ \A u \in Threads \ {t} : thread'[u].at = "rest" /\ thread[u].at = "rest"
    BY <2>1, AloneMoves DEF InHand
  <2>3. Handed'
    BY <2>1, <2>2, HandedMoves DEF InHand, Handed
  <2>4. Fed' /\ AfterIsMarked'
    BY <2>1, <2>2, AloneAt, FedStays, MarkedStays DEF Same, history, InHand
  <2> QED BY <2>2, <2>3, <2>4 DEF InHand
<1>2. ASSUME NEW t \in Threads, Closes(t) PROVE InHand'
  <2>1. /\ Only(t) /\ thread[t].at = "stop" /\ thread'[t].at = "clear" /\ StopClose
        /\ kept' = kept /\ unheard' = unheard
    BY <1>2, ClosesDoes DEF history
  <2>2. Alone' /\ \A u \in Threads \ {t} : thread'[u].at = "rest"
    BY <2>1, AloneMoves DEF InHand
  <2>3. /\ recorder.committed /\ recorder'.committed = recorder.committed /\ recorder'.pump = FALSE
        /\ recorder'.armed = recorder.armed
        /\ recorder'.meeting = recorder.meeting /\ recorder'.writer = recorder.writer
        /\ disk' = Stored(recorder.queue)
    BY <2>1, StopCloseDoes, BaseRows DEF InHand, Handed
  <2>4. Handed'
    BY <2>1, <2>2, <2>3, HandedMoves
  <2>5. Fed'
    BY <2>1, <2>3 DEF Fed, InHand, Somebody
  <2>6. AfterIsMarked'
    <3>1. recorder.queue \in SUBSET Sound
      BY DEF Base, RecordingTypeOK, RecorderTypeOK, Recorder
    <3>2. "after" \in recorder.queue => recorder.writer \in unheard
      BY <2>1, <2>3, AloneAt, QueueIsUnheard DEF InHand
    <3> QED BY <2>1, <2>3, <3>1, <3>2, StoredIsMarked DEF InHand
  <2> QED BY <2>2, <2>4, <2>5, <2>6 DEF InHand
<1>3. ASSUME NEW t \in Threads, Clears(t) PROVE InHand'
  <2>1. /\ Only(t) /\ thread[t].at = "clear" /\ thread'[t].at = "finish"
        /\ kept' = kept /\ unheard' = unheard /\ disk' = disk
        /\ recorder'.committed = FALSE /\ recorder'.writer = None
        /\ recorder'.ring = {} /\ recorder'.queue = {}
    BY <1>3, ClearsDoes, StopClearDoes, BaseRows DEF history
  <2>2. Alone' /\ \A u \in Threads \ {t} : thread'[u].at = "rest"
    BY <2>1, AloneMoves DEF InHand
  <2>3. Handed'
    BY <2>1, <2>2, HandedMoves
  <2>4. Fed' /\ AfterIsMarked'
    BY <2>1, MarkedStays DEF Fed, InHand
  <2> QED BY <2>2, <2>3, <2>4 DEF InHand
<1>4. ASSUME NEW t \in Threads, Finishes(t) PROVE InHand'
  <2>1. /\ Only(t) /\ recorder' = recorder /\ thread[t].at = "finish"
        /\ thread[t].long \in BOOLEAN /\ FinishesIt(t) /\ GoesFrom(t)
    BY <1>4, FinishesDoes
  <2>2. ~recorder.committed
    BY <2>1 DEF InHand, Handed
  <2>3. AfterIsMarked'
    <3>1. CASE UNCHANGED <<meeting, job, disk, marks>>
      BY <3>1, MarkedStays DEF InHand, marks
    <3>2. CASE thread[t].meeting \in Meetings /\ finish(thread[t].meeting, thread[t].long)
      BY <2>1, <3>2, BaseRows, FinishDoes DEF Carried, InHand, AfterIsMarked
    <3> QED BY <2>1, <3>1, <3>2 DEF FinishesIt
  <2>4. thread'[t].at \notin {"stop", "clear"}
    BY <2>1, AtRestIsThread DEF GoesFrom
  <2> QED BY <2>1, <2>2, <2>3, <2>4, InHandUnrecorded
<1>5. ASSUME NEW t \in Threads, Repairs(t) PROVE InHand'
  <2>1. /\ Only(t) /\ recorder' = recorder /\ thread[t].at = "repair"
        /\ \/ \E m \in Meetings : RepairsOne(t, m)
           \/ thread'[t] = AtRest /\ UNCHANGED <<meeting, job, disk, marks>>
    BY <1>5, RepairsDoes
  <2>2. ~recorder.committed
    BY <2>1 DEF InHand, Handed
  <2>3. AfterIsMarked' /\ thread'[t].at \in {"repair", "rest"}
    <3>1. CASE thread'[t] = AtRest /\ UNCHANGED <<meeting, job, disk, marks>>
      BY <3>1, MarkedStays, AtRestIsThread DEF InHand, marks
    <3>2. ASSUME NEW m \in Meetings, RepairsOne(t, m)
          PROVE  AfterIsMarked' /\ thread'[t].at \in {"repair", "rest"}
      <4>1. IsLong(m) \in BOOLEAN
        BY DEF IsLong
      <4>2. Carried
        BY <3>2, <4>1, BaseRows, FinishDoes, DiscardDoes DEF RepairsOne
      <4> QED BY <3>2, <4>2 DEF Carried, InHand, AfterIsMarked, RepairsOne
    <3> QED BY <2>1, <3>1, <3>2
  <2> QED BY <2>1, <2>2, <2>3, InHandUnrecorded
<1>6. ASSUME NEW h \in Handlers, StartCommits(h) PROVE InHand'
  <2> DEFINE m == thread[h].meeting
  <2>1. /\ h \in Threads /\ Only(h) /\ thread[h].at = "commit" /\ thread'[h] = AtRest
        /\ kept' = kept /\ unheard' = unheard /\ m \in Meetings
        /\ IF recorder.committed
              THEN /\ recorder' = [recorder EXCEPT !.pump = TRUE, !.queue = {},
                                              !.ring = Ring(recorder.queue)]
                   /\ disk' = Stored(recorder.queue)
              ELSE /\ recorder' = [Armed EXCEPT !.committed = TRUE, !.meeting = m,
                                   !.writer = m, !.pump = TRUE, !.queue = {},
                                   !.ring = {}]
                   /\ disk' = IF Armed.paused THEN OnDisk(m, Armed.ring)
                              ELSE OnDisk(m, Armed.ring \union Armed.queue)
    BY <1>6, StartCommitsDoes, ThreadsDiffer DEF history
  <2> HIDE DEF m
  <2>2. Alone' /\ \A u \in Threads \ {h} : thread'[u].at = "rest"
    BY <2>1, AloneMoves DEF InHand
  <2>3. Handed'
    BY <2>1, <2>2, HandedMoves, AtRestIsThread
  <2>4. CASE recorder.committed
    <3>1. /\ recorder'.committed /\ recorder'.armed = recorder.armed /\ recorder'.pump
          /\ recorder'.meeting = recorder.meeting /\ recorder'.writer = recorder.writer
          /\ recorder'.queue = {} /\ disk' = Stored(recorder.queue)
      BY <2>1, <2>4, StartThreadDoes, BaseRows
    <3>2. recorder.queue \in SUBSET Sound
      BY DEF Base, RecordingTypeOK, RecorderTypeOK, Recorder
    <3>3. "after" \in recorder.queue => recorder.writer \in unheard
      BY <2>1, <2>4, AloneAt, QueueIsUnheard DEF InHand
    <3>4. AfterIsMarked'
      BY <2>1, <3>1, <3>2, <3>3, StoredIsMarked DEF InHand
    <3>5. Fed'
      BY <2>4, <3>1 DEF InHand, Fed
    <3> QED BY <2>2, <2>3, <3>4, <3>5 DEF InHand
  <2>5. CASE ~recorder.committed
    <3>1. /\ recorder'.committed /\ recorder'.armed /\ recorder'.pump
          /\ recorder'.meeting = m /\ recorder'.writer = m /\ recorder'.queue = {}
          /\ \A p \in Meetings : p # m => disk'[p] = disk[p]
          /\ disk'[m] \subseteq disk[m] \union recorder.ring \union recorder.queue
      BY <2>1, <2>5, StartDoes, BaseRows
    <3>2. Fed'
      BY <3>1 DEF Fed
    <3>3. AfterIsMarked'
      BY <2>1, <2>5, <3>1 DEF InHand, Fed, AfterIsMarked, Marked
    <3> QED BY <2>2, <2>3, <3>2, <3>3 DEF InHand
  <2> QED BY <2>4, <2>5
<1>7. ASSUME NEW h \in Handlers, StartFails(h) PROVE InHand'
  <2> DEFINE m == thread[h].meeting
  <2>1. /\ h \in Threads /\ Only(h) /\ thread[h].at = "commit" /\ thread'[h] = AtRest
        /\ ~recorder.armed /\ m \in Meetings
        /\ recorder'.committed = recorder.committed /\ recorder'.writer = recorder.writer
        /\ recorder'.queue = recorder.queue /\ recorder'.ring = recorder.ring
        /\ finish(m, TRUE) \/ UNCHANGED <<meeting, job, disk, marks>> \/ discard(m)
    BY <1>7, StartFailsDoes, ThreadsDiffer
  <2> HIDE DEF m
  <2>2. ~recorder.committed /\ recorder'.committed = FALSE
    BY <2>1, BaseRows DEF InHand, Fed, RecorderTypeOK, Recorder
  <2>3. AfterIsMarked'
    BY <2>1, BaseRows, FinishDoes, DiscardDoes DEF Carried, InHand, AfterIsMarked, Marked, marks
  <2> QED BY <2>1, <2>2, <2>3, AtRestIsThread, InHandUnrecorded
<1>8. ASSUME NEW h \in Handlers, Pauses(h) \/ Discards(h) PROVE InHand'
  <2>1. /\ h \in Threads /\ Only(h) /\ thread[h].at \in {"pause", "discarding"}
        /\ thread'[h] = AtRest /\ Same /\ recorder'.ring = recorder.ring
    BY <1>8, PausesDoes, DiscardsDoes, PauseDoes, BaseRows, ThreadsDiffer DEF Same
  <2>2. Alone' /\ \A u \in Threads \ {h} : thread'[u].at = "rest" /\ thread[u].at = "rest"
    BY <2>1, AloneMoves DEF InHand
  <2>3. Handed'
    BY <2>1, <2>2, HandedMoves, AtRestIsThread
  <2>4. unheard \subseteq unheard' /\ AfterIsMarked'
    <3>1. CASE Pauses(h)
      BY <3>1, PausesDoes, PauseDoes, BaseRows, MarkedStays DEF InHand, history
    <3>2. CASE Discards(h)
      BY <3>2, DiscardsDoes, DiscardDoes, BaseRows DEF Carried, InHand, AfterIsMarked
    <3> QED BY <1>8, <3>1, <3>2
  <2>5. Fed'
    BY <2>1, <2>4, AloneAt, FedStays DEF InHand
  <2> QED BY <2>2, <2>3, <2>4, <2>5 DEF InHand
<1>9. CASE DetectorDiscards
  <2>1. /\ Only(Detector) /\ thread[Detector].at = "discarding" /\ thread'[Detector] = AtRest
        /\ kept' = kept /\ unheard' = unheard /\ disk' = disk
        /\ recorder'.committed = FALSE /\ recorder'.writer = recorder.writer
        /\ recorder'.ring = {} /\ recorder'.queue = {}
    BY <1>9, DetectorDiscardsDoes, DiscardClearDoes, BaseRows DEF history
  <2>2. Alone' /\ \A u \in Threads \ {Detector} : thread'[u].at = "rest"
    BY <2>1, AloneMoves, ThreadsDiffer DEF InHand
  <2>3. Handed'
    BY <2>1, <2>2, HandedMoves, AtRestIsThread, ThreadsDiffer
  <2>4. ~recorder.committed
    BY <2>1, ThreadsDiffer DEF InHand, Handed
  <2>5. Fed' /\ AfterIsMarked'
    BY <2>1, <2>4, MarkedStays DEF Fed, InHand
  <2> QED BY <2>2, <2>3, <2>5 DEF InHand
<1>10. CASE DetectorCommits
  <2> DEFINE m == thread[Detector].meeting
  <2>1. /\ Only(Detector) /\ thread[Detector].at = "commit" /\ thread'[Detector] = AtRest
        /\ kept' = kept /\ commit(m) /\ m \in Meetings
        /\ unheard' = IF recorder.pump THEN unheard ELSE unheard \union {m}
    BY <1>10, DetectorCommitsDoes
  <2> HIDE DEF m
  <2>2. Alone' /\ \A u \in Threads \ {Detector} : thread'[u].at = "rest"
    BY <2>1, AloneMoves, ThreadsDiffer DEF InHand
  <2>3. Handed'
    BY <2>1, <2>2, HandedMoves, AtRestIsThread, ThreadsDiffer
  <2>4. ~recorder.committed
    BY <2>1, ThreadsDiffer DEF InHand, Handed
  <2>5. /\ recorder'.committed /\ recorder'.armed /\ recorder'.meeting = m /\ recorder'.writer = m
        /\ recorder'.queue \subseteq recorder.queue /\ recorder'.pump = recorder.pump
        /\ disk' = OnDisk(m, Armed.ring)
    BY <2>1, <2>4, CommitDoes, BaseRows
  <2>6. Fed'
    BY <2>1, <2>4, <2>5 DEF Fed, InHand
  <2>7. AfterIsMarked'
    <3>1. "after" \notin Armed.ring
      BY <2>4, ArmedIs, BaseRows DEF InHand, Fed
    <3>2. \A p \in Meetings : "after" \in disk'[p] => "after" \in disk[p]
      BY <2>1, <2>5, <3>1, BaseRows DEF OnDisk, Rows
    <3> QED BY <2>1, <3>2 DEF InHand, AfterIsMarked, Marked
  <2> QED BY <2>2, <2>3, <2>6, <2>7 DEF InHand
<1> QED BY <1>1, <1>2, <1>3, <1>4, <1>5, <1>6, <1>7, <1>8, <1>9, <1>10 DEF Moving

LEMMA InHandWorld == ASSUME Base, InHand, World PROVE InHand'
<1>1. recorder \in Recorder
  BY BaseRows DEF RecorderTypeOK
<1>2. CASE Hears
  <2>1. Hear /\ thread' = thread /\ kept' = kept /\ unheard' = unheard
    BY <1>2, HearsDoes DEF history
  <2>2. /\ recorder'.streams = recorder.streams /\ recorder'.committed = recorder.committed
        /\ recorder'.armed = recorder.armed /\ recorder'.pump = recorder.pump
        /\ recorder'.meeting = recorder.meeting /\ recorder'.writer = recorder.writer
        /\ recorder.streams
        /\ recorder'.queue \subseteq recorder.queue \union {Kept(Heard)}
        /\ recorder'.ring \subseteq recorder.ring \union {Heard}
        /\ recorder.pump => recorder'.queue = recorder.queue /\ disk' = Stored({Heard})
        /\ ~recorder.pump => disk' = disk /\ recorder'.ring = recorder.ring
    BY <2>1, HearDoes, BaseRows
  <2>3. ~recorder.committed => Heard = "call" /\ Kept(Heard) = "scrap"
    BY DEF Heard, Kept
  <2>4. Heard = "after" => ~Writes
    BY DEF Heard, Writes
  <2>5. Alone' /\ Handed'
    BY <2>1, <2>2, AloneAside DEF InHand, Handed
  <2>6. AfterIsMarked'
    <3>1. {Heard} \in SUBSET Sound
      BY HeardIsSound
    <3>2. CASE recorder.pump
      BY <2>1, <2>2, <2>4, <3>1, <3>2, StoredIsMarked DEF InHand
    <3>3. CASE ~recorder.pump
      BY <2>1, <2>2, <3>3, MarkedStays DEF InHand
    <3> QED BY <3>2, <3>3
  <2>7. Fed'
    <3>1. CASE recorder.committed
      BY <2>1, <2>2, <3>1 DEF InHand, Fed, Somebody
    <3>2. CASE ~recorder.committed
      BY <2>2, <2>3, <3>2 DEF InHand, Fed
    <3> QED BY <3>1, <3>2
  <2> QED BY <2>5, <2>6, <2>7 DEF InHand
<1>3. CASE MicChanges \/ ModeChanges \/ WorkerTakes \/ WorkerDone
  <2>1. UNCHANGED <<recorder, disk, thread, history>>
    BY <1>3, OutsideDoes, WorkerTakesDoes, WorkerDoneDoes
  <2> QED BY <2>1 DEF InHand, Alone, Handed, Fed, AfterIsMarked, Marked, Somebody, history
<1>4. CASE LosesDevice
  <2>1. /\ disk' = disk /\ thread' = thread /\ kept' = kept /\ unheard' = unheard
        /\ recorder'.streams = FALSE /\ recorder'.committed = recorder.committed
        /\ recorder'.armed = recorder.armed /\ recorder'.pump = FALSE
        /\ recorder'.meeting = recorder.meeting /\ recorder'.writer = recorder.writer
        /\ recorder'.queue = recorder.queue /\ recorder'.ring = recorder.ring
    BY <1>4, LosesDeviceDoes, DeviceDoes, BaseRows DEF history
  <2> QED BY <2>1 DEF InHand, Alone, Handed, Fed, AfterIsMarked, Marked, Somebody
<1>5. CASE Crash
  <2>1. /\ disk' = disk /\ kept' = kept /\ unheard' = unheard /\ recorder' = Closed
        /\ \A t \in Threads \ {Main} : thread'[t] = AtRest
        /\ thread'[Main].at = "repair"
    BY <1>5, CrashDoes DEF history
  <2>2. Alone' /\ Handed'
    BY <2>1, AtRestIsThread, ThreadsDiffer DEF Alone, Handed, Closed
  <2>3. Fed' /\ AfterIsMarked'
    BY <2>1, MarkedStays DEF Fed, Closed, InHand
  <2> QED BY <2>2, <2>3 DEF InHand
<1> QED BY <1>2, <1>3, <1>4, <1>5 DEF World

(***************************************************************************)
(* Which meeting is recorded, and how long it is, where one thread acts at *)
(* a time.                                                                 *)
(***************************************************************************)
LEMMA KnowsRests == ASSUME NEW t \in Threads, thread[t].at = "rest" PROVE Knows(t)
BY DEF Knows

\* A file grows only while its meeting is recorded.
LEMMA ToldStores ==
    ASSUME Told, Base, meeting' = meeting, thrown' = thrown,
           \A m \in Meetings : disk'[m] # disk[m] => meeting[m].state = "RECORDING"
    PROVE  Told'
BY DEF Told, IsLong, Base, RecordingTypeOK

LEMMA ToldFinishes ==
    ASSUME Told, Base, NEW m \in Meetings, NEW long \in BOOLEAN, finish(m, long),
           meeting[m].state = "RECORDING", ~long => ~IsLong(m), thrown' = thrown
    PROVE  Told' /\ meeting'[m].state \notin {"RECORDING", "NEW"}
           /\ \A p \in Meetings : p # m => meeting'[p] = meeting[p]
<1>1. /\ Settles(m)
      /\ meeting'[m].state = "DISCARDED" /\ meeting[m].state # "DISCARDED" => ~long
      /\ meeting'[m].state = "DISCARDED" => disk' = disk
  BY BaseRows, FinishDoes
<1>2. thrown \subseteq Meetings
  BY DEF Base, RecordingTypeOK
<1>3. m \notin thrown
  BY DEF Told
<1> QED BY <1>1, <1>2, <1>3 DEF Told, Settles, IsLong

LEMMA ToldDiscards ==
    ASSUME Told, Base, NEW m \in Meetings, discard(m),
           \/ ~IsLong(m) /\ meeting[m].state = "RECORDING" /\ thrown' = thrown
           \/ meeting[m].state # "NEW" /\ thrown' = thrown \union {m}
    PROVE  Told' /\ meeting'[m].state \notin {"RECORDING", "NEW"}
           /\ \A p \in Meetings : p # m => meeting'[p] = meeting[p]
<1>1. /\ disk' = disk
      /\ \A p \in Meetings : p # m => meeting'[p] = meeting[p]
      /\ meeting'[m].state = meeting[m].state \/ meeting'[m].state = "DISCARDED"
      /\ meeting'[m].state \in {"NEW", "DISCARDED", "GONE"}
      /\ meeting'[m].state = "NEW" => meeting[m].state = "NEW"
  BY BaseRows, DiscardDoes
<1>2. thrown \subseteq Meetings
  BY DEF Base, RecordingTypeOK
<1> QED BY <1>1, <1>2 DEF Told, IsLong

LEMMA CallsPresses ==
    ASSUME Base, InHand, InHand', InTurn, Calls, Presses
    PROVE  Calls'
<1>1. PICK h \in Handlers : \/ StartPressed(h) \/ TrayStart(h)
                            \/ StopPressed(h) \/ KeepPressed(h) \/ PausePressed(h) \/ DiscardPressed(h)
  BY DEF Presses
<1>2. h \in Threads /\ h # Detector
  BY ThreadsDiffer
<1>3. CASE ~KeepPressed(h)
  <2>1. /\ UNCHANGED <<recorder, disk, meeting, det, thrown>> /\ Only(h) /\ Begins(h)
    BY <1>1, <1>3, StartPressedDoes, StopPressedDoes, PausePressedDoes, DiscardPressedDoes DEF history
  <2>2. InStep' /\ Told'
    BY <2>1 DEF Calls, InStep, Told, In, Follows, IsLong
  <2>3. \A u \in Threads \ {h} : Knows(u)'
    BY <2>1, KnowsRests DEF Only, Begins, InTurn, Quiet, Knows
  <2>4. Knows(h)'
    <3>1. CASE StartPressed(h) \/ TrayStart(h)
      <4>1. Noticed /\ ~recorder.committed /\ thread'[h].at = "start"
        BY <3>1, StartPressedDoes DEF InTurn
      <4>2. ~Follows
        BY <4>1 DEF Noticed, InTurn, Follows
      <4> QED BY <2>1, <4>1, <4>2 DEF Knows, Follows
    <3>2. CASE StopPressed(h)
      BY <2>1, <3>2, StopPressedDoes DEF StopsAs, EndsNow, Knows, In
    <3>3. CASE PausePressed(h)
      BY <3>3, PausePressedDoes DEF Knows
    <3>4. CASE DiscardPressed(h)
      BY <2>1, <3>4, DiscardPressedDoes DEF DiscardsAs, Knows
    <3> QED BY <1>1, <1>3, <3>1, <3>2, <3>3, <3>4
  <2> QED BY <2>2, <2>3, <2>4 DEF Calls
<1>4. CASE KeepPressed(h)
  <2>1. /\ Begins(h) /\ thread' = thread /\ meeting' = meeting /\ thrown' = thrown
        /\ recorder.committed /\ recorder.meeting \in Meetings
        /\ recorder.meeting = det.meeting /\ det'.meeting = det.meeting
        /\ release_hold(TRUE) \/ UNCHANGED recorderVars
    BY <1>4, KeepPressedDoes
  <2>2. /\ recorder'.committed = recorder.committed /\ recorder'.meeting = recorder.meeting
        /\ \/ disk' = disk
           \/ recorder.writer # None /\ disk' = OnDisk(recorder.writer, recorder.ring)
    BY <2>1, ReleaseDoes, BaseRows DEF recorderVars
  <2>3. recorder.writer = recorder.meeting /\ meeting[recorder.meeting].state = "RECORDING"
    BY <2>1 DEF InHand, Fed, Calls, InStep, In
  <2>4. InStep'
    BY <2>1, <2>2 DEF Calls, InStep, In
  <2>5. Told'
    <3>1. \A m \in Meetings : disk'[m] # disk[m] => meeting[m].state = "RECORDING"
      BY <2>2, <2>3, BaseRows DEF OnDisk, Rows
    <3> QED BY <2>1, <3>1, ToldStores DEF Calls
  <2>6. \A t \in Threads : Knows(t)'
    BY <2>1, KnowsRests DEF Begins, Quiet, InTurn, Knows
  <2> QED BY <2>4, <2>5, <2>6 DEF Calls
<1> QED BY <1>3, <1>4

LEMMA CallsLooking ==
    ASSUME Base, InHand, InHand', InTurn, Calls, Looking
    PROVE  Calls'
<1>1. PICK d \in Seen : /\ Look(d) /\ Aside
        /\ \/ Adopts(d) \/ KnowsMore(d) \/ Forgets(d) \/ Wakes(d) \/ HangsUp(d) \/ Rejoins(d)
           \/ GivesUp(d) \/ Commits(d) \/ EndsCall(d) \/ HandsOver(d)
  BY DEF Looking
<1>2. Looks /\ Quiet /\ meeting' = meeting /\ thrown' = thrown
  BY <1>1, LookIs DEF Looks, Begins, Aside, history, InTurn
<1>3. disk' = disk
  BY <1>1, <1>2, AdoptsDoes, KnowsMoreDoes, ForgetsDoes, WakesDoes, HangsUpDoes, RejoinsDoes,
     ReleaseDoes, GivesUpDoes, CommitsDoes, EndsCallDoes, HandsOverDoes, SplitDoes, BaseRows
     DEF Stopping, Splitting
<1>4. Told'
  BY <1>2, <1>3 DEF Calls, Told, IsLong
<1>5. CASE Adopts(d) \/ KnowsMore(d) \/ Forgets(d) \/ Wakes(d) \/ HangsUp(d) \/ Rejoins(d)
  <2>1. thread' = thread
    BY <1>1, <1>5, AdoptsDoes, KnowsMoreDoes, ForgetsDoes, WakesDoes, HangsUpDoes, RejoinsDoes
  <2>2. \A t \in Threads : Knows(t)'
    BY <1>2, <2>1 DEF Quiet, Knows
  <2>3. InStep'
    <3>1. CASE Adopts(d) \/ KnowsMore(d) \/ Forgets(d)
      BY <1>1, <1>2, <3>1, AdoptsDoes, KnowsMoreDoes, ForgetsDoes
         DEF Calls, InStep, In, Follows
    <3>2. CASE Wakes(d)
      <4>1. ~recorder'.committed
        BY <1>1, <3>2, WakesDoes, ArmedIs, BaseRows
      <4> QED BY <4>1 DEF InStep
    <3>3. CASE HangsUp(d) \/ Rejoins(d)
      <4>1. /\ recorder'.committed = recorder.committed /\ recorder'.meeting = recorder.meeting
            /\ Follows /\ det'.meeting = det.meeting
        BY <1>1, <3>3, HangsUpDoes, RejoinsDoes, HeldDoes, ReleaseDoes, BaseRows DEF Follows
      <4> QED BY <1>2, <4>1 DEF Calls, InStep, In
    <3> QED BY <1>5, <3>1, <3>2, <3>3
  <2> QED BY <1>4, <2>2, <2>3 DEF Calls
<1>6. CASE GivesUp(d) \/ Commits(d)
  <2>1. /\ recorder' = recorder /\ ~recorder.committed /\ Only(Detector)
        /\ thread'[Detector].at \in {"discarding", "start"}
    BY <1>1, <1>2, <1>6, GivesUpDoes, CommitsDoes
  <2>2. InStep'
    BY <2>1 DEF InStep
  <2>3. \A t \in Threads : Knows(t)'
    BY <1>2, <2>1, ThreadsDiffer DEF Only, Quiet, Knows
  <2> QED BY <1>4, <2>2, <2>3 DEF Calls
<1>7. CASE EndsCall(d) \/ HandsOver(d)
  <2>1. Stopping(d) \/ Splitting(d)
    BY <1>1, <1>7, EndsCallDoes, HandsOverDoes
  <2>2. \A u \in Threads \ {Detector} : Knows(u)'
    BY <1>2, <2>1 DEF Only, Quiet, Knows, Stopping, Splitting
  <2>3. CASE Stopping(d)
    BY <1>2, <1>4, <2>2, <2>3, ThreadsDiffer DEF Stopping, Calls, InStep, In, Knows, Follows
  <2>4. CASE Splitting(d)
    <3>1. recorder.committed /\ recorder'.committed = FALSE
      BY <2>4, SplitDoes, BaseRows DEF Splitting
    <3>2. det.meeting = recorder.meeting /\ recorder.writer = recorder.meeting
          /\ recorder.meeting \in In("RECORDING")
      BY <2>4, <3>1 DEF Splitting, Calls, InStep, InHand, Fed
    <3>3. Knows(Detector)'
      BY <1>2, <1>3, <2>4, <3>1, <3>2 DEF Splitting, Knows, In, IsLong
    <3> QED BY <1>4, <2>2, <3>1, <3>3, ThreadsDiffer DEF Calls, InStep
  <2> QED BY <2>1, <2>3, <2>4
<1> QED BY <1>1, <1>5, <1>6, <1>7

\* Of a thread alone, the others know nothing.
LEMMA KnowsAlone ==
    ASSUME InHand, InHand', NEW t \in Threads, thread[t].at # "rest", Only(t), Knows(t)'
    PROVE  \A u \in Threads : Knows(u)'
BY AloneAt DEF Only, Knows

LEMMA CallsMoving ==
    ASSUME Base, Base', InHand, InHand', InTurn, Calls, Moving
    PROVE  Calls'
<1>0. \A m \in Meetings : m # None
  BY NoneIsNoMeeting
<1>1. ASSUME NEW t \in Threads, Named(t) PROVE Calls'
  <2>1. /\ Only(t) /\ UNCHANGED <<recorder, disk, det, thrown>>
        /\ thread[t].at = "start" /\ thread'[t].at = "commit"
        /\ t # Detector => thread[t].then \in {"start", "tray"}
    BY <1>1, NamedDoes DEF history, Base, Placed, Place
  <2>2. PICK m \in Meetings : NamedAs(t, m)
    BY <1>1, NamedDoes
  <2>3. ~recorder.committed /\ (t # Detector => ~Follows)
    BY <2>1 DEF Calls, Knows
  <2>4. Told'
    BY <2>1, <2>2 DEF NamedAs, Calls, Told, IsLong, Base, RecordingTypeOK
  <2>5. t # Detector /\ thread'[t].then \notin {"resume", "tray"} => ~IsLong(m)
    BY <2>1, <2>2 DEF NamedAs, Calls, Told
  <2>6. Knows(t)'
    BY <2>1, <2>2, <2>3, <2>5 DEF NamedAs, Knows, In, Follows, IsLong
  <2>7. \A u \in Threads : Knows(u)'
    BY <2>1, <2>6, KnowsAlone
  <2> QED BY <2>1, <2>3, <2>4, <2>7 DEF Calls, InStep
<1>2. ASSUME NEW t \in Threads, Closes(t) PROVE Calls'
  <2>1. /\ Only(t) /\ thread[t].at = "stop" /\ thread'[t].at = "clear" /\ StopClose
        /\ meeting' = meeting /\ det' = det /\ thrown' = thrown
        /\ thread'[t].meeting = thread[t].meeting
        /\ (thread'[t].long <=> recorder.writer # None /\ "call" \in disk'[recorder.writer])
    BY <1>2, ClosesDoes DEF history
  <2>2. /\ recorder'.committed = recorder.committed /\ recorder'.meeting = recorder.meeting
        /\ disk' = Stored(recorder.queue)
    BY <2>1, StopCloseDoes, BaseRows
  <2>3. /\ recorder.committed /\ recorder.writer = recorder.meeting
        /\ recorder.meeting \in In("RECORDING") /\ recorder.meeting \in Meetings
        /\ thread[t].meeting = recorder.meeting
    BY <2>1 DEF InHand, Handed, Fed, Calls, InStep, Knows, In
  <2>4. Told'
    <3>1. recorder.queue \in SUBSET Sound
      BY DEF Base, RecordingTypeOK, RecorderTypeOK, Recorder
    <3>2. \A m \in Meetings : disk'[m] # disk[m] => meeting[m].state = "RECORDING"
      BY <2>2, <2>3, <3>1, RingGrows, BaseRows DEF In
    <3> QED BY <2>1, <3>2, ToldStores DEF Calls
  <2>5. Knows(t)'
    BY <1>0, <2>1, <2>2, <2>3 DEF Knows, IsLong
  <2>6. \A u \in Threads : Knows(u)'
    BY <2>1, <2>5, KnowsAlone
  <2> QED BY <2>1, <2>2, <2>4, <2>6 DEF Calls, InStep, In, Follows
<1>3. ASSUME NEW t \in Threads, Clears(t) PROVE Calls'
  <2>1. /\ Only(t) /\ thread[t].at = "clear" /\ thread'[t].at = "finish"
        /\ meeting' = meeting /\ det' = det /\ thrown' = thrown /\ disk' = disk
        /\ thread'[t].meeting = thread[t].meeting /\ thread'[t].long = thread[t].long
        /\ recorder'.committed = FALSE
    BY <1>3, ClearsDoes, StopClearDoes, BaseRows DEF history
  <2>2. thread[t].meeting \in In("RECORDING")
    BY <2>1 DEF InHand, Handed, Calls, InStep, Knows
  <2>3. Knows(t)'
    BY <2>1, <2>2 DEF Calls, Knows, In, IsLong
  <2>4. \A u \in Threads : Knows(u)'
    BY <2>1, <2>3, KnowsAlone
  <2> QED BY <2>1, <2>4 DEF Calls, InStep, Told, IsLong
<1>4. ASSUME NEW t \in Threads, Finishes(t) PROVE Calls'
  <2> DEFINE m == thread[t].meeting
             long == thread[t].long
  <2>1. /\ Only(t) /\ recorder' = recorder /\ thrown' = thrown /\ thread[t].at = "finish"
        /\ long \in BOOLEAN /\ FinishesIt(t) /\ GoesFrom(t)
    BY <1>4, FinishesDoes
  <2>2. m \in In("RECORDING") /\ m \in Meetings /\ (~long => ~IsLong(m))
    BY <2>1 DEF Calls, Knows, In
  <2>3. finish(m, long) /\ ~recorder.committed
    BY <1>0, <2>1, <2>2 DEF FinishesIt, InHand, Handed
  <2>4. (t # Detector => thread[t].then # "start") /\ (GoesFrom(t) => thread'[t].at \in {"start", "discarding", "rest"})
    BY <2>1, AtRestIsThread DEF Base, Placed, Place, GoesFrom
  <2>5. thread'[t].at = "discarding" => thread'[t].meeting = m
    BY <2>1, AtRestIsThread DEF GoesFrom
  <2>6. thread'[t].at = "start" => t = Detector
    BY <2>1, AtRestIsThread DEF GoesFrom
  <2> HIDE DEF m, long
  <2>7. Told' /\ meeting'[m].state \notin {"RECORDING", "NEW"}
    BY <2>1, <2>2, <2>3, ToldFinishes DEF Calls, In
  <2>8. Knows(t)'
    BY <2>1, <2>3, <2>4, <2>5, <2>6, <2>7 DEF Knows
  <2>9. \A u \in Threads : Knows(u)'
    BY <2>1, <2>8, KnowsAlone
  <2> QED BY <2>1, <2>3, <2>7, <2>9 DEF Calls, InStep
<1>5. ASSUME NEW t \in Threads, Repairs(t) PROVE Calls'
  <2>1. /\ Only(t) /\ recorder' = recorder /\ thrown' = thrown /\ thread[t].at = "repair"
        /\ \/ \E m \in Meetings : RepairsOne(t, m)
           \/ thread'[t] = AtRest /\ UNCHANGED <<meeting, job, disk, marks>>
    BY <1>5, RepairsDoes
  <2>2. ~recorder.committed /\ thread[t].todo \subseteq In("RECORDING")
    BY <2>1 DEF InHand, Handed, Calls, Knows
  <2>3. CASE thread'[t] = AtRest /\ UNCHANGED <<meeting, job, disk, marks>>
    <3>1. \A u \in Threads : Knows(u)'
      BY <2>1, <2>3, KnowsRests, AtRestIsThread, KnowsAlone DEF Knows
    <3> QED BY <2>1, <2>2, <2>3, <3>1 DEF Calls, InStep, Told, IsLong
  <2>4. ASSUME NEW m \in Meetings, RepairsOne(t, m) PROVE Calls'
    <3>1. /\ m \in thread[t].todo /\ thread'[t].at = "repair" /\ thread'[t].todo = thread[t].todo \ {m}
          /\ IF disk[m] # {} THEN finish(m, IsLong(m)) ELSE discard(m)
      BY <2>4 DEF RepairsOne
    <3>2. meeting[m].state = "RECORDING" /\ IsLong(m) \in BOOLEAN
      BY <2>2, <3>1 DEF In, IsLong
    <3>3. Told' /\ \A p \in Meetings : p # m => meeting'[p] = meeting[p]
      <4>1. CASE finish(m, IsLong(m))
        BY <2>1, <3>2, <4>1, ToldFinishes DEF Calls
      <4>2. CASE disk[m] = {} /\ discard(m)
        BY <2>1, <3>2, <4>2, ToldDiscards DEF Calls, IsLong
      <4> QED BY <3>1, <4>1, <4>2
    <3>4. Knows(t)'
      BY <2>2, <3>1, <3>3 DEF Knows, In
    <3>5. \A u \in Threads : Knows(u)'
      BY <2>1, <3>4, KnowsAlone
    <3> QED BY <2>1, <2>2, <3>3, <3>5 DEF Calls, InStep
  <2> QED BY <2>1, <2>3, <2>4
<1>6. ASSUME NEW h \in Handlers, StartCommits(h) PROVE Calls'
  <2> DEFINE m == thread[h].meeting
  <2>1. h \in Threads /\ h # Detector /\ thread[h].at = "commit" /\ thread'[h] = AtRest /\ Only(h)
        /\ UNCHANGED <<meeting, det, thrown>>
    BY <1>6, StartCommitsDoes, ThreadsDiffer DEF history
  <2>2. ~recorder.committed /\ ~Follows /\ m \in In("RECORDING") /\ m \in Meetings
    BY <2>1 DEF Calls, Knows, In
  <2>3. /\ recorder'.committed /\ recorder'.meeting = m
        /\ \A p \in Meetings : p # m => disk'[p] = disk[p]
    BY <1>6, <2>2, StartCommitsDoes, StartDoes, BaseRows
  <2>4. Told'
    BY <2>1, <2>2, <2>3, ToldStores DEF Calls, In
  <2>5. \A u \in Threads : Knows(u)'
    BY <2>1, KnowsAlone, AtRestIsThread DEF Knows
  <2> HIDE DEF m
  <2> QED BY <2>1, <2>2, <2>3, <2>4, <2>5 DEF Calls, InStep, In, Follows
<1>7. ASSUME NEW h \in Handlers, StartFails(h) PROVE Calls'
  <2> DEFINE m == thread[h].meeting
  <2>1. /\ h \in Threads /\ h # Detector /\ thread[h].at = "commit" /\ thread'[h] = AtRest /\ Only(h)
        /\ thrown' = thrown /\ m \in Meetings /\ recorder'.committed = recorder.committed
        /\ \/ thread[h].then = "resume" /\ finish(m, TRUE)
           \/ thread[h].then = "tray" /\ UNCHANGED <<meeting, job, disk, marks>>
           \/ thread[h].then \notin {"resume", "tray"} /\ discard(m)
    BY <1>7, StartFailsDoes, ThreadsDiffer
  <2>2. ~recorder.committed /\ m \in In("RECORDING")
        /\ (thread[h].then \notin {"resume", "tray"} => ~IsLong(m))
    BY <2>1 DEF Calls, Knows
  <2> HIDE DEF m
  <2>3. Told'
    <3>1. CASE finish(m, TRUE)
      BY <2>1, <2>2, <3>1, ToldFinishes DEF Calls, In
    <3>2. CASE UNCHANGED <<meeting, job, disk, marks>>
      BY <2>1, <3>2 DEF Calls, Told, IsLong
    <3>3. CASE thread[h].then \notin {"resume", "tray"} /\ discard(m)
      BY <2>1, <2>2, <3>3, ToldDiscards DEF Calls, In
    <3> QED BY <2>1, <3>1, <3>2, <3>3
  <2>4. \A u \in Threads : Knows(u)'
    BY <2>1, KnowsAlone, AtRestIsThread DEF Knows
  <2> QED BY <2>1, <2>2, <2>3, <2>4 DEF Calls, InStep
<1>8. ASSUME NEW h \in Handlers, Pauses(h) PROVE Calls'
  <2>1. /\ h \in Threads /\ thread[h].at = "pause" /\ thread'[h] = AtRest /\ Only(h)
        /\ UNCHANGED <<meeting, det, thrown, disk>>
        /\ recorder'.committed = recorder.committed /\ recorder'.meeting = recorder.meeting
    BY <1>8, PausesDoes, PauseDoes, BaseRows, ThreadsDiffer DEF history
  <2>2. \A u \in Threads : Knows(u)'
    BY <2>1, KnowsAlone, AtRestIsThread DEF Knows
  <2> QED BY <2>1, <2>2 DEF Calls, InStep, In, Follows, Told, IsLong
<1>9. ASSUME NEW h \in Handlers, Discards(h) PROVE Calls'
  <2> DEFINE m == thread[h].meeting
  <2>1. /\ h \in Threads /\ h # Detector /\ thread[h].at = "discarding" /\ thread'[h] = AtRest /\ Only(h)
        /\ m \in Meetings /\ discard(m) /\ thrown' = thrown \union {m}
        /\ UNCHANGED <<recorder, det>>
    BY <1>9, DiscardsDoes, ThreadsDiffer
  <2>2. meeting[m].state # "NEW" /\ (recorder.committed => recorder.meeting # m)
    BY <2>1 DEF Calls, Knows
  <2> HIDE DEF m
  <2>3. Told' /\ \A p \in Meetings : p # m => meeting'[p] = meeting[p]
    BY <2>1, <2>2, ToldDiscards DEF Calls
  <2>4. \A u \in Threads : Knows(u)'
    BY <2>1, KnowsAlone, AtRestIsThread DEF Knows
  <2>5. InStep'
    BY <2>1, <2>2, <2>3 DEF Calls, InStep, In, Follows
  <2> QED BY <2>3, <2>4, <2>5 DEF Calls
<1>10. CASE DetectorDiscards
  <2>1. /\ thread[Detector].at = "discarding" /\ thread'[Detector] = AtRest /\ Only(Detector)
        /\ UNCHANGED <<meeting, det, thrown, disk>> /\ recorder'.committed = FALSE
    BY <1>10, DetectorDiscardsDoes, DiscardClearDoes, BaseRows DEF history
  <2>2. \A u \in Threads : Knows(u)'
    BY <2>1, KnowsAlone, AtRestIsThread, ThreadsDiffer DEF Knows
  <2> QED BY <2>1, <2>2 DEF Calls, InStep, Told, IsLong
<1>11. CASE DetectorCommits
  <2> DEFINE m == thread[Detector].meeting
  <2>1. /\ thread[Detector].at = "commit" /\ thread'[Detector] = AtRest /\ Only(Detector)
        /\ UNCHANGED <<meeting, thrown>> /\ commit(m) /\ m \in Meetings
        /\ det'.meeting = m
    BY <1>11, DetectorCommitsDoes
  <2>2. ~recorder.committed /\ m \in In("RECORDING")
    BY <2>1, ThreadsDiffer DEF Calls, Knows
  <2> HIDE DEF m
  <2>3. recorder'.meeting = m /\ disk' = OnDisk(m, Armed.ring)
    BY <2>1, <2>2, CommitDoes, BaseRows
  <2>4. Told'
    <3>1. \A p \in Meetings : p # m => disk'[p] = disk[p]
      BY <2>3, BaseRows DEF OnDisk, Rows
    <3> QED BY <2>1, <2>2, <3>1, ToldStores DEF Calls, In
  <2>5. \A u \in Threads : Knows(u)'
    BY <2>1, KnowsAlone, AtRestIsThread, ThreadsDiffer DEF Knows
  <2> QED BY <2>1, <2>2, <2>3, <2>4, <2>5 DEF Calls, InStep, In
<1> QED BY <1>1, <1>2, <1>3, <1>4, <1>5, <1>6, <1>7, <1>8, <1>9, <1>10, <1>11 DEF Moving

LEMMA CallsWorld == ASSUME Base, InHand, Calls, World PROVE Calls'
<1>1. CASE Hears
  <2>1. /\ UNCHANGED <<meeting, det, thread, thrown>>
        /\ recorder'.committed = recorder.committed /\ recorder'.meeting = recorder.meeting
        /\ recorder.pump => disk' = Stored({Heard})
        /\ ~recorder.pump => disk' = disk
    BY <1>1, HearsDoes, HearDoes, BaseRows DEF history
  <2>2. /\ ~recorder.committed => Stored({Heard}) = disk
        /\ \A m \in Meetings : m # recorder.writer => Stored({Heard})[m] = disk[m]
    <3>1. {Heard} \in SUBSET Sound
      BY HeardIsSound
    <3> QED BY <3>1, RingGrows, BaseRows DEF Writes
  <2>3. recorder.committed => recorder.writer = recorder.meeting
                              /\ meeting[recorder.meeting].state = "RECORDING"
    BY DEF InHand, Fed, Calls, InStep, In
  <2>4. \A m \in Meetings : disk'[m] # disk[m] =>
           meeting[m].state = "RECORDING" /\ recorder.committed /\ recorder.pump
    BY <2>1, <2>2, <2>3
  <2>5. Told'
    BY <2>1, <2>4, ToldStores DEF Calls
  <2>6. InStep'
    BY <2>1 DEF Calls, InStep, In, Follows
  <2>7. ASSUME NEW t \in Threads PROVE Knows(t)'
    <3>1. Knows(t) /\ thread'[t] = thread[t]
      BY <2>1 DEF Calls
    <3>2. thread[t].at \in {"commit", "clear", "finish"} => disk' = disk
      BY <2>1, <2>2, <3>1 DEF InHand, Handed, Knows
    <3> QED BY <2>1, <3>1, <3>2 DEF Knows, In, Follows, IsLong
  <2> QED BY <2>5, <2>6, <2>7 DEF Calls
<1>2. CASE MicChanges \/ ModeChanges \/ WorkerDone \/ LosesDevice
  <2>1. /\ UNCHANGED <<disk, meeting, det, thread, thrown>>
        /\ recorder'.committed = recorder.committed /\ recorder'.meeting = recorder.meeting
    BY <1>2, OutsideDoes, WorkerDoneDoes, LosesDeviceDoes, DeviceDoes, BaseRows DEF history
  <2>2. InStep' /\ Told'
    BY <2>1 DEF Calls, InStep, Told, In, Follows, IsLong
  <2>3. \A t \in Threads : Knows(t)'
    BY <2>1 DEF Calls, Knows, In, Follows, IsLong
  <2> QED BY <2>2, <2>3 DEF Calls
<1>3. CASE WorkerTakes
  <2>1. UNCHANGED <<recorder, disk, det, thread, thrown>>
    BY <1>3, WorkerTakesDoes DEF history
  <2>2. PICK m \in Meetings :
           /\ meeting'[m] = meeting[m] \/ (meeting[m].state = "RECORDED" /\ meeting'[m].state = "TAKEN")
           /\ \A p \in Meetings : p # m => meeting'[p] = meeting[p]
    BY <1>3, WorkerTakesDoes
  <2>3. thrown \subseteq Meetings
    BY DEF Base, RecordingTypeOK
  <2>4. In("RECORDING")' = In("RECORDING")
    BY <2>2 DEF In
  <2>5. Told'
    BY <2>1, <2>2, <2>3 DEF Calls, Told, IsLong
  <2>6. InStep'
    BY <2>1, <2>4 DEF Calls, InStep, Follows
  <2>7. ASSUME NEW t \in Threads PROVE Knows(t)'
    <3>1. Knows(t)
      BY DEF Calls
    <3>2. thread[t].at = "discarding" /\ t # Detector => thread[t].meeting \in Meetings
      BY DEF Base, Placed, Place, RecordingTypeOK, Thread
    <3>3. thread[t].at = "discarding" /\ t # Detector => meeting'[thread[t].meeting].state # "NEW"
      BY <2>2, <3>1, <3>2 DEF Knows
    <3> QED BY <2>1, <2>4, <3>1, <3>3 DEF Knows, Follows, IsLong
  <2> QED BY <2>5, <2>6, <2>7 DEF Calls
<1>4. CASE Crash
  <2>1. /\ UNCHANGED <<disk, meeting, thrown>> /\ recorder' = Closed
        /\ \A t \in Threads \ {Main} : thread'[t] = AtRest
        /\ thread'[Main].at = "repair" /\ thread'[Main].todo = In("RECORDING")
    BY <1>4, CrashDoes DEF history
  <2>2. InStep' /\ Told'
    BY <2>1 DEF Calls, InStep, Told, Closed, IsLong
  <2>3. \A t \in Threads : Knows(t)'
    BY <2>1, AtRestIsThread DEF Knows, In
  <2> QED BY <2>2, <2>3 DEF Calls
<1> QED BY <1>1, <1>2, <1>3, <1>4 DEF World

(***************************************************************************)
(* Whose hand a meeting marked "recording" is in.                          *)
(***************************************************************************)
\* What the tray left is not forgotten.
LEMMA StrandedStays == ASSUME Base, RecordingNext PROVE stranded \subseteq stranded'
<1>1. CASE Presses
  BY <1>1, StartPressedDoes, StopPressedDoes, KeepPressedDoes, PausePressedDoes, DiscardPressedDoes
     DEF Presses, history
<1>2. CASE Looking
  BY <1>2 DEF Looking, Aside, history
<1>3. CASE Moving
  <2>1. ASSUME NEW t \in Threads,
               Named(t) \/ Closes(t) \/ Clears(t) \/ Finishes(t) \/ Repairs(t)
        PROVE  stranded' = stranded
    BY <2>1, NamedDoes, ClosesDoes, ClearsDoes, FinishesDoes, RepairsDoes DEF history
  <2>2. ASSUME NEW h \in Handlers, StartCommits(h) \/ StartFails(h) \/ Pauses(h) \/ Discards(h)
        PROVE  stranded \subseteq stranded'
    BY <2>2, StartCommitsDoes, StartFailsDoes, PausesDoes, DiscardsDoes DEF history
  <2>3. ASSUME DetectorDiscards \/ DetectorCommits PROVE stranded' = stranded
    BY <2>3, DetectorDiscardsDoes, DetectorCommitsDoes DEF history
  <2> QED BY <1>3, <2>1, <2>2, <2>3 DEF Moving
<1>4. CASE World
  BY <1>4, HearsDoes, OutsideDoes, LosesDeviceDoes, WorkerTakesDoes, WorkerDoneDoes, CrashDoes
     DEF World, history
<1> QED BY <1>1, <1>2, <1>3, <1>4, Steps

\* Nothing lets go of a meeting while it stays as it is.
LEMMA InHandStays ==
    ASSUME InSomeHand, In("RECORDING")' \subseteq In("RECORDING"), stranded \subseteq stranded',
           recorder.committed => recorder'.committed /\ recorder'.meeting = recorder.meeting,
           NEW t \in Threads, Only(t), thread[t].at \notin {"commit", "finish", "repair"}
    PROVE  InSomeHand'
<1>1. ASSUME NEW m \in In("RECORDING")' \ stranded'
      PROVE  \/ (recorder.committed /\ recorder.meeting = m)'
             \/ \E u \in Threads : thread'[u].at \in {"commit", "finish"} /\ thread'[u].meeting = m
             \/ \E u \in Threads : thread'[u].at = "repair" /\ m \in thread'[u].todo
  <2>1. \/ recorder.committed /\ recorder.meeting = m
        \/ \E u \in Threads : thread[u].at \in {"commit", "finish"} /\ thread[u].meeting = m
        \/ \E u \in Threads : thread[u].at = "repair" /\ m \in thread[u].todo
    BY <1>1 DEF InSomeHand
  <2> QED BY <2>1 DEF Only
<1> QED BY <1>1 DEF InSomeHand

\* What is in the hand of a thread that is alone at it.
LEMMA InHandOf ==
    ASSUME InHand, InSomeHand, NEW t \in Threads, thread[t].at # "rest",
           NEW m \in In("RECORDING") \ stranded
    PROVE  \/ recorder.committed /\ recorder.meeting = m
           \/ thread[t].at \in {"commit", "finish"} /\ thread[t].meeting = m
           \/ thread[t].at = "repair" /\ m \in thread[t].todo
BY AloneAt DEF InSomeHand

LEMMA InSomeHandMoving ==
    ASSUME Base, InHand, InTurn, Calls, InSomeHand, stranded \subseteq stranded', Moving
    PROVE  InSomeHand'
<1>1. ASSUME NEW t \in Threads, Named(t) PROVE InSomeHand'
  <2>1. /\ Only(t) /\ recorder' = recorder
        /\ thread[t].at = "start" /\ thread'[t].at = "commit"
    BY <1>1, NamedDoes
  <2>2. PICK m \in Meetings : NamedAs(t, m)
    BY <1>1, NamedDoes
  <2>3. ASSUME NEW p \in In("RECORDING")' \ stranded'
        PROVE  p = m
    <3>1. CASE p # m
      <4>1. p \in In("RECORDING") \ stranded
        BY <2>2, <2>3, <3>1 DEF In, NamedAs
      <4>2. recorder.committed
        BY <2>1, <4>1, InHandOf
      <4> QED BY <2>1, <4>2 DEF Calls, Knows
    <3> QED BY <3>1
  <2> QED BY <2>1, <2>2, <2>3 DEF InSomeHand, NamedAs
<1>2. ASSUME NEW t \in Threads, Closes(t) PROVE InSomeHand'
  <2>1. /\ Only(t) /\ meeting' = meeting /\ thread[t].at = "stop"
        /\ recorder'.committed = recorder.committed /\ recorder'.meeting = recorder.meeting
    BY <1>2, ClosesDoes, StopCloseDoes, BaseRows
  <2> QED BY <2>1, InHandStays DEF In
<1>3. ASSUME NEW t \in Threads, Clears(t) PROVE InSomeHand'
  <2>1. /\ Only(t) /\ meeting' = meeting /\ thread[t].at = "clear" /\ thread'[t].at = "finish"
        /\ thread'[t].meeting = thread[t].meeting
    BY <1>3, ClearsDoes
  <2>2. thread[t].meeting = recorder.meeting
    BY <2>1 DEF Calls, Knows
  <2>3. ASSUME NEW p \in In("RECORDING")' \ stranded' PROVE thread'[t].at = "finish" /\ thread'[t].meeting = p
    <3>1. p \in In("RECORDING") \ stranded
      BY <2>1, <2>3 DEF In
    <3> QED BY <2>1, <2>2, <3>1, InHandOf
  <2> QED BY <2>3 DEF InSomeHand
<1>4. ASSUME NEW t \in Threads, Finishes(t) PROVE InSomeHand'
  <2> DEFINE m == thread[t].meeting
             long == thread[t].long
  <2>1. /\ thread[t].at = "finish" /\ long \in BOOLEAN /\ FinishesIt(t) /\ thrown' = thrown
    BY <1>4, FinishesDoes
  <2>2. m \in In("RECORDING") /\ m \in Meetings /\ (~long => ~IsLong(m)) /\ ~recorder.committed
    BY <2>1 DEF Calls, Knows, In, InHand, Handed
  <2>3. finish(m, long)
    BY <2>1, <2>2, NoneIsNoMeeting DEF FinishesIt
  <2>4. \A p \in In("RECORDING") \ stranded : p = m
    BY <2>1, <2>2, InHandOf
  <2> HIDE DEF m, long
  <2>5. /\ meeting'[m].state \notin {"RECORDING", "NEW"}
        /\ \A p \in Meetings : p # m => meeting'[p] = meeting[p]
    BY <2>1, <2>2, <2>3, ToldFinishes DEF Calls, In
  <2>6. In("RECORDING")' \ stranded' = {}
    BY <2>4, <2>5 DEF In
  <2> QED BY <2>6 DEF InSomeHand
<1>5. ASSUME NEW t \in Threads, Repairs(t) PROVE InSomeHand'
  <2>1. /\ Only(t) /\ recorder' = recorder /\ thrown' = thrown /\ thread[t].at = "repair"
        /\ \/ \E m \in Meetings : RepairsOne(t, m)
           \/ thread[t].todo = {} /\ UNCHANGED <<meeting, job, disk, marks>>
    BY <1>5, RepairsDoes
  <2>2. ~recorder.committed /\ thread[t].todo \subseteq In("RECORDING")
    BY <2>1 DEF InHand, Handed, Calls, Knows
  <2>3. In("RECORDING") \ stranded \subseteq thread[t].todo
    BY <2>1, <2>2, InHandOf
  <2>4. CASE thread[t].todo = {} /\ UNCHANGED <<meeting, job, disk, marks>>
    BY <2>3, <2>4 DEF InSomeHand, In
  <2>5. ASSUME NEW m \in Meetings, RepairsOne(t, m) PROVE InSomeHand'
    <3>1. /\ m \in thread[t].todo /\ thread'[t].at = "repair" /\ thread'[t].todo = thread[t].todo \ {m}
          /\ IF disk[m] # {} THEN finish(m, IsLong(m)) ELSE discard(m)
      BY <2>5 DEF RepairsOne
    <3>2. meeting[m].state = "RECORDING" /\ IsLong(m) \in BOOLEAN
      BY <2>2, <3>1 DEF In, IsLong
    <3>3. /\ meeting'[m].state # "RECORDING"
          /\ \A p \in Meetings : p # m => meeting'[p] = meeting[p]
      <4>1. CASE finish(m, IsLong(m))
        BY <2>1, <3>2, <4>1, ToldFinishes DEF Calls
      <4>2. CASE discard(m)
        BY <4>2, DiscardDoes, BaseRows
      <4> QED BY <3>1, <4>1, <4>2
    <3>4. In("RECORDING")' \ stranded' \subseteq thread'[t].todo
      BY <2>3, <3>1, <3>3 DEF In
    <3> QED BY <3>1, <3>4 DEF InSomeHand
  <2> QED BY <2>1, <2>4, <2>5
<1>6. ASSUME NEW h \in Handlers, StartCommits(h) PROVE InSomeHand'
  <2> DEFINE m == thread[h].meeting
  <2>1. h \in Threads /\ h # Detector /\ thread[h].at = "commit" /\ meeting' = meeting
    BY <1>6, StartCommitsDoes, ThreadsDiffer
  <2>2. ~recorder.committed /\ m \in Meetings
    BY <2>1 DEF Calls, Knows, In
  <2>3. recorder'.committed /\ recorder'.meeting = m
    BY <1>6, <2>2, StartCommitsDoes, StartDoes, BaseRows
  <2>4. \A p \in In("RECORDING") \ stranded : p = m
    BY <2>1, <2>2, InHandOf
  <2> HIDE DEF m
  <2> QED BY <2>1, <2>3, <2>4 DEF InSomeHand, In
<1>7. ASSUME NEW h \in Handlers, StartFails(h) PROVE InSomeHand'
  <2> DEFINE m == thread[h].meeting
  <2>1. /\ h \in Threads /\ h # Detector /\ thread[h].at = "commit" /\ thrown' = thrown
        /\ m \in Meetings
        /\ \/ thread[h].then = "resume" /\ finish(m, TRUE)
           \/ /\ thread[h].then = "tray" /\ meeting' = meeting
              /\ stranded' = stranded \union {m}
           \/ thread[h].then \notin {"resume", "tray"} /\ discard(m)
    BY <1>7, StartFailsDoes, ThreadsDiffer
  <2>2. ~recorder.committed /\ m \in In("RECORDING")
    BY <2>1 DEF Calls, Knows
  <2>3. \A p \in In("RECORDING") \ stranded : p = m
    BY <2>1, <2>2, InHandOf
  <2> HIDE DEF m
  <2>4. /\ meeting'[m].state # "RECORDING" \/ m \in stranded'
        /\ \A p \in Meetings : p # m => meeting'[p] = meeting[p]
    <3>1. CASE finish(m, TRUE)
      BY <2>1, <2>2, <3>1, ToldFinishes DEF Calls, In
    <3>2. CASE discard(m)
      BY <2>1, <3>2, DiscardDoes, BaseRows
    <3>3. CASE meeting' = meeting /\ stranded' = stranded \union {m}
      BY <3>3
    <3> QED BY <2>1, <3>1, <3>2, <3>3
  <2>5. In("RECORDING")' \ stranded' = {}
    BY <2>3, <2>4 DEF In
  <2> QED BY <2>5 DEF InSomeHand
<1>8. ASSUME NEW h \in Handlers, Pauses(h) PROVE InSomeHand'
  <2>1. /\ h \in Threads /\ thread[h].at = "pause" /\ Only(h) /\ meeting' = meeting
        /\ recorder'.committed = recorder.committed /\ recorder'.meeting = recorder.meeting
    BY <1>8, PausesDoes, PauseDoes, BaseRows, ThreadsDiffer
  <2> QED BY <2>1, InHandStays DEF In
<1>9. ASSUME NEW h \in Handlers, Discards(h) PROVE InSomeHand'
  <2> DEFINE m == thread[h].meeting
  <2>1. /\ h \in Threads /\ thread[h].at = "discarding" /\ Only(h)
        /\ m \in Meetings /\ discard(m) /\ recorder' = recorder
    BY <1>9, DiscardsDoes, ThreadsDiffer
  <2> HIDE DEF m
  <2>2. In("RECORDING")' \subseteq In("RECORDING")
    BY <2>1, DiscardDoes, BaseRows DEF In
  <2> QED BY <2>1, <2>2, InHandStays
<1>10. CASE DetectorDiscards
  <2>1. Only(Detector) /\ thread[Detector].at = "discarding" /\ meeting' = meeting
    BY <1>10, DetectorDiscardsDoes
  <2>2. ~recorder.committed
    BY <2>1, ThreadsDiffer DEF InHand, Handed
  <2> QED BY <2>1, <2>2, ThreadsDiffer, InHandStays DEF In
<1>11. CASE DetectorCommits
  <2> DEFINE m == thread[Detector].meeting
  <2>1. thread[Detector].at = "commit" /\ meeting' = meeting /\ commit(m) /\ m \in Meetings
    BY <1>11, DetectorCommitsDoes
  <2>2. ~recorder.committed
    BY <2>1, ThreadsDiffer DEF Calls, Knows
  <2>3. \A p \in In("RECORDING") \ stranded : p = m
    BY <2>1, <2>2, InHandOf, ThreadsDiffer
  <2> HIDE DEF m
  <2>4. recorder'.meeting = m /\ recorder'.committed
    BY <2>1, <2>2, CommitDoes, BaseRows
  <2> QED BY <2>1, <2>3, <2>4 DEF InSomeHand, In
<1> QED BY <1>1, <1>2, <1>3, <1>4, <1>5, <1>6, <1>7, <1>8, <1>9, <1>10, <1>11 DEF Moving

LEMMA InSomeHandStep ==
    ASSUME Base, InHand, InTurn, Calls, InSomeHand, RecordingNext
    PROVE  InSomeHand'
<1>0. stranded \subseteq stranded'
  BY StrandedStays
<1>1. CASE Presses
  <2>1. PICK h \in Handlers : \/ StartPressed(h) \/ TrayStart(h)
                              \/ StopPressed(h) \/ KeepPressed(h) \/ PausePressed(h) \/ DiscardPressed(h)
    BY <1>1 DEF Presses
  <2>2. CASE ~KeepPressed(h)
    <3>1. UNCHANGED <<recorder, meeting>> /\ Only(h) /\ Begins(h) /\ h \in Threads
      BY <2>1, <2>2, StartPressedDoes, StopPressedDoes, PausePressedDoes, DiscardPressedDoes, ThreadsDiffer
    <3> QED BY <1>0, <3>1, InHandStays DEF In, Begins
  <2>3. CASE KeepPressed(h)
    <3>1. /\ thread' = thread /\ meeting' = meeting
          /\ recorder'.committed = recorder.committed /\ recorder'.meeting = recorder.meeting
      BY <2>3, KeepPressedDoes, ReleaseDoes, BaseRows DEF recorderVars
    <3> QED BY <1>0, <3>1 DEF InSomeHand, In
  <2> QED BY <2>2, <2>3
<1>2. CASE Looking
  <2>1. PICK d \in Seen : /\ Look(d) /\ Aside
          /\ \/ Adopts(d) \/ KnowsMore(d) \/ Forgets(d) \/ Wakes(d) \/ HangsUp(d) \/ Rejoins(d)
             \/ GivesUp(d) \/ Commits(d) \/ EndsCall(d) \/ HandsOver(d)
    BY <1>2 DEF Looking
  <2>2. Looks /\ meeting' = meeting /\ thread[Detector].at = "rest" /\ Quiet
    BY <2>1, LookIs, AtRestIsThread DEF Looks, Aside, Begins, InTurn
  <2>3. CASE ~Splitting(d)
    <3>1. /\ recorder.committed => recorder'.committed /\ recorder'.meeting = recorder.meeting
          /\ Only(Detector)
      BY <2>1, <2>2, <2>3, AdoptsDoes, KnowsMoreDoes, ForgetsDoes, WakesDoes, HangsUpDoes, RejoinsDoes,
         GivesUpDoes, CommitsDoes, EndsCallDoes, HandsOverDoes, HeldDoes, ReleaseDoes, BaseRows
         DEF Stopping, Only
    <3> QED BY <1>0, <2>2, <3>1, ThreadsDiffer, InHandStays DEF In
  <2>4. CASE Splitting(d)
    <3>1. det.meeting = recorder.meeting
      BY <2>4, SplitDoes, BaseRows DEF Splitting, Calls, InStep
    <3>2. \A p \in In("RECORDING") \ stranded : p = recorder.meeting
      BY <2>2 DEF InSomeHand, Quiet
    <3> QED BY <1>0, <2>2, <2>4, <3>1, <3>2, ThreadsDiffer DEF InSomeHand, In, Splitting
  <2> QED BY <2>3, <2>4
<1>3. CASE Moving
  BY <1>0, <1>3, InSomeHandMoving
<1>4. CASE World
  <2>1. CASE Hears \/ MicChanges \/ ModeChanges \/ LosesDevice \/ WorkerTakes \/ WorkerDone
    <3>1. /\ thread' = thread
          /\ recorder'.committed = recorder.committed /\ recorder'.meeting = recorder.meeting
      BY <2>1, HearsDoes, HearDoes, OutsideDoes, LosesDeviceDoes, DeviceDoes, WorkerTakesDoes,
         WorkerDoneDoes, BaseRows
    <3>2. CASE ~WorkerTakes
      <4>1. meeting' = meeting
        BY <2>1, <3>2, HearsDoes, OutsideDoes, LosesDeviceDoes, WorkerDoneDoes
      <4> QED BY <1>0, <3>1, <4>1 DEF InSomeHand, In
    <3>3. CASE WorkerTakes
      <4>1. In("RECORDING")' \subseteq In("RECORDING")
        BY <3>3, WorkerTakesDoes DEF In
      <4> QED BY <1>0, <3>1, <4>1 DEF InSomeHand
    <3> QED BY <3>2, <3>3
  <2>2. CASE Crash
    BY <2>2, CrashDoes, ThreadsDiffer DEF InSomeHand, In
  <2> QED BY <1>4, <2>1, <2>2 DEF World
<1> QED BY <1>1, <1>2, <1>3, <1>4, Steps

(***************************************************************************)
(* All of it.                                                              *)
(***************************************************************************)
\* Whether threads overlap, and whether presses are hasty, is chosen once.
LEMMA ConditionsStay ==
    ASSUME Base, Budgeted
    PROVE  /\ Has("overlap")' <=> Has("overlap")
           /\ InTurn' <=> InTurn
<1>1. "overlap" \in Circumstances /\ "hasty" \in Circumstances
  BY DEF Circumstances
<1> QED BY <1>1 DEF Budgeted, Has, InTurn

LEMMA IInvInit == ASSUME RecordingInit PROVE RecordingIInv
<1>1. /\ Base
      /\ recorder = Closed /\ disk = [m \in Meetings |-> {}]
      /\ det = Asleep /\ thrown = {}
      /\ meeting = [m \in Meetings |-> [state |-> "NEW", source |-> "manual"]]
      /\ job = [m \in Meetings |-> "none"]
  BY BaseInit DEF RecordingInit, RecorderInit
<1>2. \A t \in Threads : thread[t] = AtRest /\ thread[t].at = "rest" /\ ~thread[t].locked
  BY AtRestIsThread DEF RecordingInit
<1>3. \A m \in Meetings : meeting[m].state = "NEW" /\ job[m] = "none" /\ disk[m] = {}
  BY <1>1
<1>4. /\ ~recorder.committed /\ ~recorder.streams /\ recorder.writer = None
      /\ recorder.ring = {} /\ recorder.queue = {}
  BY <1>1 DEF Closed
<1>5. det.state = "IDLE"
  BY <1>1 DEF Asleep
<1>6. Unqueued
  BY <1>3 DEF Unqueued
<1>7. Locked /\ Open
  BY <1>2, <1>4, ThreadsDiffer DEF Locked, Open
<1>8. InHand
  BY <1>2, <1>3, <1>4 DEF InHand, Alone, Handed, Fed, AfterIsMarked
<1>9. Calls
  BY <1>1, <1>2, <1>3, <1>4, KnowsRests DEF Calls, InStep, Told, IsLong
<1>10. InSomeHand
  BY <1>3 DEF InSomeHand, In
<1> QED BY <1>1, <1>6, <1>7, <1>8, <1>9, <1>10 DEF RecordingIInv

LEMMA IInvStep == ASSUME RecordingIInv, RecordingNext PROVE RecordingIInv'
<1>1. Base /\ Base' /\ Budgeted
  BY BaseStep DEF RecordingIInv
<1>2. Unqueued'
  BY UnqueuedStep DEF RecordingIInv
<1>3. Locked'
  BY LockedPresses, LockedLooking, LockedMoving, LockedWorld, Steps DEF RecordingIInv
<1>4. Open'
  BY <1>1, OpenStep, Steps DEF RecordingIInv
<1>5. (Has("overlap")' <=> Has("overlap")) /\ (InTurn' <=> InTurn)
  BY <1>1, ConditionsStay
<1>6. ASSUME ~Has("overlap") PROVE InHand'
  BY <1>6, InHandPresses, InHandLooking, InHandMoving, InHandWorld, Steps DEF RecordingIInv
<1>7. ASSUME InTurn PROVE Calls' /\ InSomeHand'
  <2>1. Calls /\ InSomeHand /\ InHand /\ InHand'
    BY <1>6, <1>7 DEF RecordingIInv, InTurn
  <2>2. Calls'
    BY <1>1, <1>7, <2>1, CallsPresses, CallsLooking, CallsMoving, CallsWorld, Steps
  <2>3. InSomeHand'
    BY <1>1, <1>7, <2>1, InSomeHandStep
  <2> QED BY <2>2, <2>3
<1> QED BY <1>1, <1>2, <1>3, <1>4, <1>5, <1>6, <1>7 DEF RecordingIInv

LEMMA IInvStutters == ASSUME RecordingIInv, UNCHANGED recordingVars PROVE RecordingIInv'
<1>1. /\ UNCHANGED <<recorder, disk, meeting, job, det, detection, mic, thread, left>>
      /\ UNCHANGED <<thrown, stranded, kept, unheard>>
  BY DEF recordingVars
<1>2. Base'
  BY <1>1 DEF RecordingIInv, Base, RecordingTypeOK, RecorderTypeOK, Placed, Place
<1>3. Unqueued' /\ Locked' /\ Open'
  BY <1>1 DEF RecordingIInv, Unqueued, Locked, Follows, Open, Uses, Has
<1>4. ~Has("overlap")' => InHand'
  BY <1>1 DEF RecordingIInv, InHand, Alone, Handed, Fed, Somebody, AfterIsMarked, Marked, Has
<1>5. InTurn' => Calls' /\ InSomeHand'
  BY <1>1 DEF RecordingIInv, InTurn, Has, Calls, InStep, In, Follows, Told, IsLong, Knows, InSomeHand
<1> QED BY <1>2, <1>3, <1>4, <1>5 DEF RecordingIInv

\* The invariant is inductive: it holds of every state the program reaches.
THEOREM RecordingStaysInductive == RecordingSpec => []RecordingIInv
<1>1. RecordingInit => RecordingIInv
  BY IInvInit
<1>2. RecordingIInv /\ [RecordingNext]_recordingVars => RecordingIInv'
  BY IInvStep, IInvStutters
<1> QED BY <1>1, <1>2, PTL DEF RecordingSpec

(***************************************************************************)
(* What follows from it.                                                   *)
(***************************************************************************)
\* Where events come one after the other, a row says "recording" exactly when the
\* recorder writes its file.
LEMMA OneIs == ASSUME RecordingIInv PROVE OneIsRecorded
<1>1. SUFFICES ASSUME InTurn, Quiet, NEW m \in Meetings \ stranded
               PROVE  meeting[m].state = "RECORDING"
                        <=> recorder.committed /\ recorder.meeting = m /\ recorder.writer = m
  BY DEF OneIsRecorded
<1>2. Calls /\ InSomeHand /\ InHand
  BY <1>1 DEF RecordingIInv, InTurn
<1>3. ASSUME meeting[m].state = "RECORDING"
      PROVE  recorder.committed /\ recorder.meeting = m /\ recorder.writer = m
  <2>1. recorder.committed /\ recorder.meeting = m
    BY <1>1, <1>2, <1>3 DEF InSomeHand, In, Quiet
  <2> QED BY <1>2, <2>1 DEF InHand, Fed
<1>4. ASSUME recorder.committed, recorder.meeting = m PROVE meeting[m].state = "RECORDING"
  BY <1>2, <1>4 DEF Calls, InStep, In
<1> QED BY <1>3, <1>4

\* Every state is of the declared types, whatever is pressed, heard or lost, in whatever
\* order of the threads of app/detect/detector.py and app/api/routes.py.
THEOREM RecordingTypes == RecordingSpec => []RecordingTypeOK
<1>1. RecordingIInv => RecordingTypeOK
  BY DEF RecordingIInv, Base
<1> QED BY <1>1, RecordingStaysInductive, PTL

\* What is transcribed is whole, for any threads (to_continue, reopen and withdraw of
\* app/meetings.py); and where events come one after the other the row that says
\* "recording" is the one whose file grows, but for what the tray began with no device.
THEOREM OneIsBeingRecorded == RecordingSpec => []RecordingInv
<1>1. RecordingIInv => RecordingTypeOK /\ WholeIsTranscribed
  BY DEF RecordingIInv, Base, Unqueued, WholeIsTranscribed, In
<1>2. RecordingIInv => OneIsRecorded
  BY OneIs
<1>3. RecordingIInv => RecordingInv
  BY <1>1, <1>2 DEF RecordingInv
<1> QED BY <1>3, RecordingStaysInductive, PTL

\* Where events come one after the other, neither a stop, a hand-over nor the repair after
\* a crash throws away a recording with enough of a call in its file: the length finish
\* (app/meetings.py) goes by is that of the file.
THEOREM NoCallIsLost == RecordingSpec => []CallIsKept
<1>1. RecordingIInv => CallIsKept
  BY DEF RecordingIInv, CallIsKept, Calls, Told
<1> QED BY <1>1, RecordingStaysInductive, PTL

\* Where threads do not overlap, what was said after a hang-up is on disk only of a meeting
\* the user kept going (hold, release_hold and split of app/audio/recorder.py), of one that
\* had no writer thread, or of one that was joined with such a one.
THEOREM FilesEndWithTheirCalls == RecordingSpec => []EndsAtHangUp
<1>1. RecordingIInv => EndsAtHangUp
  BY DEF RecordingIInv, EndsAtHangUp, InHand, AfterIsMarked, Marked
<1> QED BY <1>1, RecordingStaysInductive, PTL

\* Whatever overlaps, the streams are closed once nothing is recorded and no wake is looked
\* into (discard and stop of app/audio/recorder.py), unless one track opened alone.
THEOREM MicrophoneIsReleased == RecordingSpec => []MicrophoneClosed
<1>1. RecordingIInv => MicrophoneClosed
  <2>1. SUFFICES ASSUME RecordingIInv, Quiet, ~Has("half"), recorder.streams, ~recorder.committed
                 PROVE  det.state = "AWAKE"
    BY DEF MicrophoneClosed
  <2>2. thread[Detector].at = "rest"
    BY <2>1, ThreadsDiffer DEF Quiet
  <2> QED BY <2>1, <2>2 DEF RecordingIInv, Open, Uses
<1> QED BY <1>1, RecordingStaysInductive, PTL
=============================================================================
