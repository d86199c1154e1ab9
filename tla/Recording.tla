----------------------------- MODULE Recording -----------------------------
(***************************************************************************)
(* Who starts and ends a recording: the detector's loop (app/detect/       *)
(* detector.py), the handlers of the page and of notifications             *)
(* (app/api/routes.py), the tray (app/tray.py) and the start of the        *)
(* process, over the recorder and the meetings (app/meetings.py).          *)
(*                                                                         *)
(* The detector holds its own lock for a whole look, keep and end_now take *)
(* it; start, stop and pause do not, and the recorder has none for its     *)
(* life cycle.  So a thread is a place between two such calls.  What the   *)
(* evidence, the calendar and the clock say is a free choice: which call   *)
(* is worth recording, which meeting it is, when a grace or a silence is   *)
(* over.  Scores, reminders and offers are not here.                       *)
(***************************************************************************)
EXTENDS Recorder

CONSTANTS
    Apps,      \* apps that take the microphone, all of them known call apps
    Handlers,  \* threads that serve the page, notifications and the tray
    Modes,     \* detection.mode: what the settings are changed to, if at all
    Budgets    \* how often each outside event may happen: one is chosen at the start

Events == {"start", "tray", "stop", "pause", "keep", "discard", "mic", "mode",
           "noDevice", "device", "crash", "worker"}

\* Circumstances a run has or has not: a thread begins while another is at something,
\* a press comes before the detector's next look, only one of the tracks has a device.
Circumstances == {"overlap", "hasty", "half"}

ASSUME BudgetsAssumption ==
    Budgets \subseteq [Events \union Circumstances -> Nat]
ASSUME ThreadsAreApart == {"detector", "main"} \intersect Handlers = {} /\ None \notin Apps
ASSUME ModesAssumption == Modes \subseteq {"off", "shadow", "on"} /\ Modes # {}

VARIABLES
    meeting,   \* the rows of the meetings table
    job,       \* the transcribe job of each meeting
    det,       \* the fields of the Detector
    detection, \* detection.mode
    mic,       \* the apps that hold the microphone
    thread,    \* where each thread is
    left,      \* what is left of the budget
    thrown,    \* meetings the user said are none
    stranded,  \* meetings the tray began with no device to record them
    kept,      \* meetings the user kept going after a hang-up
    unheard    \* meetings that were recorded with no writer thread

recordingVars == <<recorder, disk, meeting, job, det, detection, mic, thread, left,
                   thrown, stranded, kept, unheard>>

\* Everything of a look but the recorder, the meetings and the detector.
outside == <<detection, mic>>
marks == <<kept, unheard>>
history == <<thrown, stranded, kept, unheard>>

Detector == "detector"
Main == "main"
Threads == Handlers \union {Detector, Main}

State == {"NEW", "RECORDING", "RECORDED", "TAKEN", "DISCARDED", "GONE"}
Job == {"none", "pending", "running", "done", "cancelled"}
Meeting == [state : State, source : {"manual", "detected"}]

At == {"rest", "start", "commit", "stop", "clear", "finish", "repair",
       "discarding", "pause"}

Thread == [at : At,
           meeting : Meetings \union {None},
           long : BOOLEAN,      \* the duration the recorder returned is a meeting's
           locked : BOOLEAN,    \* holds the detector's lock
           then : {"rest", "discard", "start", "resume", "tray"},
           process : Apps \union {None},
           todo : SUBSET Meetings]

AtRest == [at |-> "rest", meeting |-> None, long |-> FALSE, locked |-> FALSE,
           then |-> "rest", process |-> None, todo |-> {}]

Watcher == [state : {"IDLE", "AWAKE", "RECORDING", "GRACE"},
            meeting : Meetings \union {None},
            owner : Apps \union {None},       \* recording_process
            wake : Apps \union {None},
            keepGoing : BOOLEAN,
            fresh : SUBSET Apps,
            looked : BOOLEAN,
            seen : SUBSET Apps,               \* holding, at the last look
            atRelease : SUBSET Apps]          \* held_at_release

Asleep == [state |-> "IDLE", meeting |-> None, owner |-> None, wake |-> None,
           keepGoing |-> FALSE, fresh |-> {}, looked |-> FALSE, seen |-> {},
           atRelease |-> {}]

RecordingTypeOK ==
    /\ RecorderTypeOK
    /\ meeting \in [Meetings -> Meeting]
    /\ job \in [Meetings -> Job]
    /\ det \in Watcher
    /\ detection \in {"off", "shadow", "on"}
    /\ mic \subseteq Apps
    /\ thread \in [Threads -> Thread]
    /\ left \in [Events \union Circumstances -> Nat]
    /\ thrown \subseteq Meetings /\ stranded \subseteq Meetings
    /\ kept \subseteq Meetings /\ unheard \subseteq Meetings

RecordingInit ==
    /\ RecorderInit
    /\ meeting = [m \in Meetings |-> [state |-> "NEW", source |-> "manual"]]
    /\ job = [m \in Meetings |-> "none"]
    /\ det = Asleep
    /\ detection \in Modes
    /\ mic = {}
    /\ thread = [t \in Threads |-> AtRest]
    /\ left \in Budgets
    /\ thrown = {} /\ stranded = {} /\ kept = {} /\ unheard = {}

In(s) == {m \in Meetings : meeting[m].state = s}

Quiet == \A t \in Threads : thread[t].at = "rest"

Has(circumstance) == left[circumstance] > 0

Begins(t) ==
    /\ thread[t].at = "rest"
    /\ Has("overlap") \/ Quiet

LockFree(t) == \A u \in Threads \ {t} : ~thread[u].locked

\* The detector has noticed the end of the last recording, unless presses are hasty.
Noticed == Has("hasty") \/ recorder.committed \/ det.state \in {"IDLE", "AWAKE"}

Spend(e) == left[e] > 0 /\ left' = [left EXCEPT ![e] = @ - 1]

Becomes(t, th) == thread' = [thread EXCEPT ![t] = th]

Goes(t, at) == Becomes(t, [thread[t] EXCEPT !.at = at])

(***************************************************************************)
(* The meetings.                                                           *)
(***************************************************************************)
InState(m, s) == [meeting EXCEPT ![m].state = s]

\* The next new meeting, or one just ended that this recording carries on.
Create(t, m, source) ==
    /\ m \in In("NEW")
    /\ meeting' = [meeting EXCEPT ![m] = [state |-> "RECORDING", source |-> source]]
    /\ Becomes(t, [thread[t] EXCEPT !.at = "commit", !.meeting = m])
    /\ UNCHANGED job

\* to_continue, reopen and withdraw.
Reopen(t, m) ==
    /\ m \in In("RECORDED")
    /\ job[m] # "running"
    /\ meeting' = InState(m, "RECORDING")
    /\ job' = [job EXCEPT ![m] = IF @ = "pending" THEN "cancelled" ELSE @]
    /\ Becomes(t, [thread[t] EXCEPT !.at = "commit", !.meeting = m,
                       !.then = IF @ = "start" THEN "resume" ELSE @])

\* Refused for a meeting that is gone or discarded already.
discard(m) ==
    /\ meeting' = IF meeting[m].state \in {"RECORDING", "RECORDED", "TAKEN"}
                  THEN InState(m, "DISCARDED") ELSE meeting
    /\ UNCHANGED <<job, disk, marks>>

Save(m) ==
    /\ meeting' = InState(m, "RECORDED")
    /\ job' = [job EXCEPT ![m] = "pending"]
    /\ UNCHANGED <<disk, marks>>

\* Another recording of the same calendar meeting, not transcribed yet, and this
\* one become one, with what history says of either.
Join(m, other) ==
    /\ m # other
    /\ meeting[other].state = "RECORDED"
    /\ job[other] # "running" /\ job[m] # "running"
    /\ disk[m] # {} /\ disk[other] # {}
    /\ meeting' = InState(m, "GONE")
    /\ job' = [job EXCEPT ![other] = "pending", ![m] = "none"]
    /\ disk' = [disk EXCEPT ![other] = @ \union disk[m], ![m] = {}]
    /\ kept' = IF m \in kept THEN kept \union {other} ELSE kept
    /\ unheard' = IF m \in unheard THEN unheard \union {other} ELSE unheard

\* finish: what is short and the detector's was an accident.
finish(m, long) ==
    IF meeting[m].state = "GONE"
    THEN UNCHANGED <<meeting, job, disk, marks>>
    ELSE IF ~long /\ meeting[m].source = "detected"
    THEN discard(m)
    ELSE \/ Save(m)
         \/ \E other \in Meetings : Join(m, other)

IsLong(m) == "call" \in disk[m]

(***************************************************************************)
(* Start: the page or a notification (recording_start), and the tray.      *)
(***************************************************************************)
StartPressed(h) ==
    /\ Begins(h) /\ Noticed
    /\ ~recorder.committed
    /\ Spend("start")
    /\ Becomes(h, [thread[h] EXCEPT !.at = "start", !.then = "start"])
    /\ UNCHANGED <<recorder, disk, meeting, job, det, outside, history>>

\* The tray's menu offers Start by what it saw last; dispatch does not look again.
TrayStart(h) ==
    /\ Begins(h) /\ Noticed
    /\ Has("hasty") \/ ~recorder.committed
    /\ Spend("tray")
    /\ Becomes(h, [thread[h] EXCEPT !.at = "start", !.then = "tray"])
    /\ UNCHANGED <<recorder, disk, meeting, job, det, outside, history>>

\* The meeting the recording is for: made, or one just ended that goes on.
\* (then is "start" with no meeting yet, and the detector's comes with a process.)
Named(t) ==
    /\ thread[t].at = "start"
    /\ \E m \in Meetings :
          \/ Create(t, m, IF t = Detector THEN "detected" ELSE "manual")
          \/ thread[t].then # "tray" /\ Reopen(t, m)
    /\ UNCHANGED <<recorder, disk, det, outside, left, history>>

\* recorder.start and start_thread: committed or, if it is already, ignored.
StartCommits(h) ==
    /\ h # Detector /\ thread[h].at = "commit"
    /\ LET m == thread[h].meeting IN
       /\ IF recorder.committed
          THEN /\ recorder' = [recorder EXCEPT !.pump = TRUE, !.queue = {},
                                              !.ring = Ring(recorder.queue)]
               /\ disk' = Stored(recorder.queue)
          ELSE /\ recorder' = [Armed EXCEPT !.committed = TRUE, !.meeting = m,
                                   !.writer = m, !.pump = TRUE, !.queue = {},
                                   !.ring = {}]
               /\ disk' = IF Armed.paused THEN OnDisk(m, Armed.ring)
                          ELSE OnDisk(m, Armed.ring \union Armed.queue)
    /\ Becomes(h, AtRest)
    /\ UNCHANGED <<meeting, job, det, outside, left, history>>

\* No device for a track.  The page's handler takes the meeting back, the tray's
\* leaves it; a track opened before stays open.
StartFails(h) ==
    /\ h # Detector /\ thread[h].at = "commit"
    /\ ~recorder.armed
    /\ Spend("noDevice")
    /\ IF Has("half") THEN ArmsHalf ELSE UNCHANGED recorder
    /\ LET m == thread[h].meeting IN
       CASE thread[h].then = "resume" -> finish(m, TRUE)
         [] thread[h].then = "tray" -> UNCHANGED <<meeting, job, disk, marks>>
         [] OTHER -> discard(m)
    /\ stranded' = IF thread[h].then = "tray" THEN stranded \union {thread[h].meeting}
                   ELSE stranded
    /\ Becomes(h, AtRest)
    /\ UNCHANGED <<det, outside, thrown>>

(***************************************************************************)
(* Stop, keep, pause, discard.                                             *)
(***************************************************************************)
Follows == det.state \in {"RECORDING", "GRACE"}

\* end_now has a recording to end: the one the recorder holds.
EndsNow ==
    /\ recorder.committed /\ recorder.holding
    /\ Follows /\ det.meeting # None /\ det.meeting = recorder.meeting

\* In a grace the detector ends it, under its lock; else the handler does.  With
\* nothing recording, what is still marked so is repaired.
StopPressed(h) ==
    /\ Begins(h)
    /\ Spend("stop")
    /\ \/ /\ EndsNow /\ LockFree(h)
          /\ Becomes(h, [thread[h] EXCEPT !.at = "stop", !.meeting = det.meeting,
                                          !.locked = TRUE])
       \/ /\ recorder.committed /\ ~EndsNow
          /\ Becomes(h, [thread[h] EXCEPT !.at = "stop", !.meeting = recorder.meeting])
       \/ /\ ~recorder.committed /\ In("RECORDING") # {}
          /\ Becomes(h, [thread[h] EXCEPT !.at = "repair", !.todo = In("RECORDING")])
    /\ UNCHANGED <<recorder, disk, meeting, job, det, outside, history>>

\* Mutant: the length is read once the writer has gone.
ClosesUnread(t) ==
    /\ thread[t].at = "stop"
    /\ StopClose
    /\ Becomes(t, [thread[t] EXCEPT !.at = "clear", !.long = FALSE])
    /\ UNCHANGED <<meeting, job, det, outside, left, history>>

\* Recorder.stop: the thread is joined, the queue drained, the file closed.
Closes(t) ==
    /\ thread[t].at = "stop"
    /\ StopClose
    /\ Becomes(t, [thread[t] EXCEPT !.at = "clear",
           !.long = recorder.writer # None /\ "call" \in disk'[recorder.writer]])
    /\ UNCHANGED <<meeting, job, det, outside, left, history>>

Clears(t) ==
    /\ thread[t].at = "clear"
    /\ StopClear
    /\ Goes(t, "finish")
    /\ UNCHANGED <<meeting, job, det, outside, left, history>>

Forgotten(d) == [Asleep EXCEPT !.fresh = d.fresh, !.looked = d.looked, !.seen = d.seen,
                               !.wake = d.wake]

\* end: the app that may still hold the microphone counts as news.
Ended(d) == [Forgotten(d) EXCEPT
                !.fresh = IF d.owner = None THEN @ ELSE @ \union {d.owner}]

\* finish, and what the thread does after it: a hand-over goes on to the next
\* call, end forgets the recording, "Not a meeting" discards it.
Finishes(t) ==
    /\ thread[t].at = "finish"
    /\ IF thread[t].meeting = None
       THEN UNCHANGED <<meeting, job, disk, marks>>
       ELSE finish(thread[t].meeting, thread[t].long)
    /\ Becomes(t, CASE thread[t].then = "start" ->
                          [thread[t] EXCEPT !.at = "start", !.then = "rest"]
                     [] thread[t].then = "discard" ->
                          [thread[t] EXCEPT !.at = "discarding", !.locked = FALSE]
                     [] OTHER -> AtRest)
    /\ det' = IF thread[t].locked /\ thread[t].then # "start" THEN Ended(det) ELSE det
    /\ UNCHANGED <<recorder, outside, left, thrown, stranded>>

\* Mutant: only recordings with audio are repaired.
RepairsAudio(t) ==
    /\ thread[t].at = "repair"
    /\ \/ \E m \in thread[t].todo :
             /\ disk[m] # {} /\ finish(m, IsLong(m))
             /\ Becomes(t, [thread[t] EXCEPT !.todo = @ \ {m}])
       \/ /\ \A m \in thread[t].todo : disk[m] = {}
          /\ Becomes(t, AtRest)
          /\ UNCHANGED <<meeting, job, disk, marks>>
    /\ UNCHANGED <<recorder, det, outside, left, thrown, stranded>>

\* recover_orphans, one meeting after the other.
Repairs(t) ==
    /\ thread[t].at = "repair"
    /\ \/ \E m \in thread[t].todo :
             /\ IF disk[m] # {} THEN finish(m, IsLong(m)) ELSE discard(m)
             /\ Becomes(t, [thread[t] EXCEPT !.todo = @ \ {m}])
       \/ /\ thread[t].todo = {}
          /\ Becomes(t, AtRest)
          /\ UNCHANGED <<meeting, job, disk, marks>>
    /\ UNCHANGED <<recorder, det, outside, left, thrown, stranded>>

\* "Keep recording".
KeepPressed(h) ==
    /\ Begins(h) /\ LockFree(h)
    /\ recorder.committed /\ recorder.meeting = det.meeting
    /\ Spend("keep")
    /\ IF det.state = "GRACE" THEN release_hold(TRUE) ELSE UNCHANGED recorderVars
    /\ det' = [det EXCEPT !.state = IF @ = "GRACE" THEN "RECORDING" ELSE @,
                          !.keepGoing = TRUE, !.owner = None]
    /\ kept' = kept \union {recorder.meeting}
    /\ UNCHANGED <<meeting, job, outside, thread, thrown, stranded, unheard>>

\* Pause and resume look at the recorder, then change it.
PausePressed(h) ==
    /\ Begins(h)
    /\ recorder.committed
    /\ Spend("pause")
    /\ Goes(h, "pause")
    /\ UNCHANGED <<recorder, disk, meeting, job, det, outside, history>>

Pauses(h) ==
    /\ thread[h].at = "pause"
    /\ SetPaused(~recorder.paused)
    /\ Becomes(h, AtRest)
    /\ UNCHANGED <<meeting, job, det, outside, left, history>>

\* "Not a meeting" of a notification stops what it is about first.
DiscardPressed(h) ==
    /\ Begins(h)
    /\ Spend("discard")
    /\ \E m \in In("RECORDING") \union In("RECORDED") \union In("TAKEN") :
          /\ IF ~(recorder.committed /\ recorder.meeting = m)
             THEN Becomes(h, [thread[h] EXCEPT !.at = "discarding", !.meeting = m])
             ELSE IF EndsNow
             THEN /\ LockFree(h)
                  /\ Becomes(h, [thread[h] EXCEPT !.at = "stop", !.meeting = m,
                                     !.then = "discard", !.locked = TRUE])
             ELSE Becomes(h, [thread[h] EXCEPT !.at = "stop", !.meeting = m,
                                     !.then = "discard"])
    /\ UNCHANGED <<recorder, disk, meeting, job, det, outside, history>>

Discards(h) ==
    /\ h # Detector /\ thread[h].at = "discarding"
    /\ discard(thread[h].meeting)
    /\ thrown' = thrown \union {thread[h].meeting}
    /\ Becomes(h, AtRest)
    /\ UNCHANGED <<recorder, det, outside, left, stranded>>

HandlerStep(h) ==
    \/ StartCommits(h)
    \/ StartFails(h)
    \/ Pauses(h)
    \/ Discards(h)

Press(h) ==
    \/ StartPressed(h)
    \/ TrayStart(h)
    \/ StopPressed(h)
    \/ KeepPressed(h)
    \/ PausePressed(h)
    \/ DiscardPressed(h)

\* What a handler and the detector have in common.
Ends(t) ==
    \/ Named(t)
    \/ Closes(t)
    \/ Clears(t)
    \/ Finishes(t)
    \/ Repairs(t)

(***************************************************************************)
(* The detector's look.                                                    *)
(***************************************************************************)
\* _note_acquisitions.  The first look takes whoever holds it recently.
Acquired(f) ==
    IF det.looked
    THEN f = (det.fresh \union (mic \ det.seen)) \intersect mic
    ELSE f \subseteq mic

\* What the detector may know once it has looked at who holds the microphone.
Seen == {[det EXCEPT !.fresh = f, !.looked = TRUE, !.seen = mic] : f \in SUBSET mic}

Look(d) ==
    /\ Begins(Detector) /\ LockFree(Detector)
    /\ thread[Main].at = "rest"
    /\ detection # "off"
    /\ Acquired(d.fresh)

\* A recording this detector did not start is taken on; a wake is dropped.
Adopts(d) ==
    /\ d.state \in {"IDLE", "AWAKE"} /\ recorder.committed
    /\ \E app \in IF mic = {} THEN {None} ELSE mic :
          det' = [d EXCEPT !.state = "RECORDING", !.wake = None, !.fresh = @ \ mic,
                           !.meeting = recorder.meeting, !.owner = app]
    /\ UNCHANGED <<recorder, disk, thread>>

\* Stopped from elsewhere.
Forgets(d) ==
    /\ d.state \in {"RECORDING", "GRACE"} /\ ~recorder.committed
    /\ det' = Forgotten(d)
    /\ UNCHANGED <<recorder, disk, thread>>

\* Nobody new, or detection is muted.
StaysIdle(d) ==
    /\ d.state = "IDLE" /\ ~recorder.committed
    /\ det' = d
    /\ UNCHANGED <<recorder, disk, thread>>

Wakes(d) ==
    /\ d.state = "IDLE" /\ ~recorder.committed
    /\ \E app \in d.fresh : det' = [d EXCEPT !.state = "AWAKE", !.wake = app]
    /\ arm
    /\ UNCHANGED thread

\* The evidence is not in yet.
StaysAwake(d) ==
    /\ d.state = "AWAKE" /\ ~recorder.committed /\ d.wake \in mic
    /\ det' = d
    /\ UNCHANGED <<recorder, disk, thread>>

\* The app let go, the time is up, or (shadow mode) it was a call: all of them end
\* the wake.  Recorder.discard looks at committed, then closes.
Discarded(d) == [d EXCEPT !.state = "IDLE", !.wake = None, !.fresh = @ \ {d.wake}]

\* Mutant: the wake ends and the streams stay.
GivesUpListening(d) ==
    /\ d.state = "AWAKE" /\ ~recorder.committed
    /\ det' = Discarded(d)
    /\ UNCHANGED <<recorder, disk, thread>>

GivesUp(d) ==
    /\ d.state = "AWAKE" /\ ~recorder.committed
    /\ det' = Discarded(d)
    /\ Becomes(Detector, [AtRest EXCEPT !.at = "discarding", !.locked = TRUE])
    /\ UNCHANGED <<recorder, disk>>

\* The evidence held: a meeting is begun, and committed.
Commits(d) ==
    /\ d.state = "AWAKE" /\ ~recorder.committed
    /\ detection = "on" /\ d.wake \in mic
    /\ det' = d
    /\ Becomes(Detector, [AtRest EXCEPT !.at = "start", !.locked = TRUE,
                                        !.process = d.wake])
    /\ UNCHANGED <<recorder, disk>>

Recording(d) == d.state \in {"RECORDING", "GRACE"} /\ recorder.committed

\* With no call app yet, the first that takes the microphone is the call's.
Joined(d) ==
    IF d.owner = None /\ ~d.keepGoing /\ d.fresh # {}
    THEN {[d EXCEPT !.owner = app, !.fresh = @ \ {app}] : app \in d.fresh}
    ELSE {d}

InCall(d) == d.owner = None \/ d.owner \in mic

\* The apps that may have taken the call over, or begun the next one.
Newcomers(d) ==
    IF d.state # "GRACE" THEN {}
    ELSE IF d.owner # None /\ d.owner \in mic THEN {d.owner}
    ELSE d.fresh \ d.atRelease

\* The call goes on.
GoesOn(d) ==
    /\ Recording(d)
    /\ \E e \in Joined(d) :
          /\ e.state = "RECORDING" /\ InCall(e)
          /\ det' = e
    /\ UNCHANGED <<recorder, disk, thread>>

\* The call's app let go: stop writing and wait.
HangsUp(d) ==
    /\ Recording(d)
    /\ \E e \in Joined(d) :
          /\ e.state = "RECORDING" /\ ~InCall(e)
          /\ det' = [e EXCEPT !.state = "GRACE", !.atRelease = det.seen \ {e.owner}]
    /\ recorder' = Held(recorder)
    /\ UNCHANGED <<disk, thread>>

\* Nobody is back, or nothing says that who is belongs to this meeting.
Waits(d) ==
    /\ Recording(d)
    /\ d.state = "GRACE" /\ ~(d.owner \in mic)
    /\ det' = d
    /\ UNCHANGED <<recorder, disk, thread>>

\* The same meeting: its app is back, or another took it over.
Rejoins(d) ==
    /\ Recording(d)
    /\ \E app \in Newcomers(d) :
          det' = [d EXCEPT !.state = "RECORDING", !.owner = app, !.fresh = @ \ {app}]
    /\ release_hold(FALSE)
    /\ UNCHANGED thread

\* The next meeting.  Its recording begins with what was heard since, unless
\* detection only tells.
HandsOver(d) ==
    /\ Recording(d)
    /\ \E app \in Newcomers(d) :
       IF detection = "on" /\ CanSplit
       THEN /\ split
            /\ det' = [d EXCEPT !.keepGoing = FALSE]
            /\ Becomes(Detector, [AtRest EXCEPT !.at = "finish", !.locked = TRUE,
                  !.meeting = d.meeting, !.long = IsLong(recorder.writer),
                  !.then = "start", !.process = app])
       ELSE /\ det' = [d EXCEPT !.fresh = @ \union {app}]
            /\ Becomes(Detector, [AtRest EXCEPT !.at = "stop", !.locked = TRUE,
                  !.meeting = d.meeting])
            /\ UNCHANGED <<recorder, disk>>

\* The grace is over, both sides were silent, or the recording is as long as one may be.
EndsCall(d) ==
    /\ Recording(d)
    /\ det' = d
    /\ Becomes(Detector, [AtRest EXCEPT !.at = "stop", !.locked = TRUE,
                                        !.meeting = d.meeting])
    /\ UNCHANGED <<recorder, disk>>

Case(d) ==
    \/ Adopts(d) \/ Forgets(d)
    \/ StaysIdle(d) \/ Wakes(d)
    \/ StaysAwake(d) \/ GivesUp(d) \/ Commits(d)
    \/ GoesOn(d) \/ HangsUp(d) \/ Waits(d) \/ Rejoins(d) \/ HandsOver(d)

Tick ==
    /\ \E d \in Seen : Look(d) /\ Case(d)
    /\ UNCHANGED <<meeting, job, outside, left, history>>

TickEnds ==
    /\ \E d \in Seen : Look(d) /\ EndsCall(d)
    /\ UNCHANGED <<meeting, job, outside, left, history>>

\* The rest of Recorder.discard.
DetectorDiscards ==
    /\ thread[Detector].at = "discarding"
    /\ DiscardClear
    /\ Becomes(Detector, AtRest)
    /\ UNCHANGED <<meeting, job, det, outside, left, history>>

\* recorder.commit, which starts no thread.
DetectorCommits ==
    /\ thread[Detector].at = "commit"
    /\ LET th == thread[Detector] IN
       /\ commit(th.meeting)
       /\ det' = [det EXCEPT !.state = "RECORDING", !.meeting = th.meeting,
                             !.owner = th.process, !.fresh = @ \ {th.process},
                             !.wake = None]
       /\ unheard' = IF recorder.pump THEN unheard ELSE unheard \union {th.meeting}
    /\ Becomes(Detector, AtRest)
    /\ UNCHANGED <<meeting, job, outside, left, thrown, stranded, kept>>

DetectorStep ==
    \/ Tick
    \/ TickEnds
    \/ DetectorDiscards
    \/ DetectorCommits

(***************************************************************************)
(* The rest of the world.                                                  *)
(***************************************************************************)
Hears == Hear /\ UNCHANGED <<meeting, job, det, outside, thread, left, history>>

\* An app takes the microphone or lets go of it.
MicChanges ==
    /\ Spend("mic")
    /\ \E app \in Apps : mic' = IF app \in mic THEN mic \ {app} ELSE mic \union {app}
    /\ UNCHANGED <<recorder, disk, meeting, job, det, detection, thread, history>>

ModeChanges ==
    /\ Spend("mode")
    /\ \E new \in Modes \ {detection} : detection' = new
    /\ UNCHANGED <<recorder, disk, meeting, job, det, mic, thread, history>>

LosesDevice ==
    /\ Spend("device") /\ DeviceGone
    /\ UNCHANGED <<meeting, job, det, outside, thread, history>>

\* The worker takes a waiting transcription, whatever the meeting's state; a state
\* it may not leave stays.
WorkerTakes ==
    /\ Spend("worker")
    /\ \E m \in Meetings :
          /\ job[m] = "pending"
          /\ job' = [job EXCEPT ![m] = "running"]
          /\ meeting' = IF m \in In("RECORDED") THEN InState(m, "TAKEN") ELSE meeting
    /\ UNCHANGED <<recorder, disk, det, outside, thread, history>>

WorkerDone ==
    /\ \E m \in Meetings : job[m] = "running" /\ job' = [job EXCEPT ![m] = "done"]
    /\ UNCHANGED <<recorder, disk, meeting, det, outside, thread, left, history>>

\* The process dies and starts again: meetings left "recording" are repaired first.
Crash ==
    /\ Spend("crash")
    /\ recorder' = Closed
    /\ det' = Asleep
    /\ thread' = [t \in Threads |-> IF t = Main
           THEN [AtRest EXCEPT !.at = "repair", !.todo = In("RECORDING")] ELSE AtRest]
    /\ job' = [m \in Meetings |-> IF job[m] = "running" THEN "pending" ELSE job[m]]
    /\ UNCHANGED <<disk, meeting, outside, history>>

RecordingNext ==
    \/ \E h \in Handlers : Press(h) \/ HandlerStep(h)
    \/ \E t \in Threads : Ends(t)
    \/ DetectorStep
    \/ Hears
    \/ MicChanges
    \/ ModeChanges
    \/ LosesDevice
    \/ WorkerTakes
    \/ WorkerDone
    \/ Crash

RecordingSpec == RecordingInit /\ [][RecordingNext]_recordingVars

(***************************************************************************)
(* Properties.                                                             *)
(***************************************************************************)
\* Nothing comes in between the steps of another thread or of one look.
InTurn == ~Has("overlap") /\ ~Has("hasty")

\* Between two calls the meeting marked "recording" is the one the recorder writes.
OneIsRecorded ==
    InTurn /\ Quiet => \A m \in Meetings \ stranded :
        meeting[m].state = "RECORDING"
            <=> recorder.committed /\ recorder.meeting = m /\ recorder.writer = m

\* A meeting that is recorded is not being transcribed half-written.
WholeIsTranscribed ==
    \A m \in In("RECORDING") : job[m] # "running"

\* Those, in a state of the declared types.
RecordingInv == RecordingTypeOK /\ OneIsRecorded /\ WholeIsTranscribed

\* A recording with enough of a call in its file is not thrown away, unless the user
\* said it is no meeting.
CallIsKept ==
    InTurn => \A m \in Meetings \ thrown : meeting[m].state = "DISCARDED" => ~IsLong(m)

\* A file ends where its call did: what was heard after the hang-up is in it only
\* when the user kept it going, or it was joined with one kept going.
EndsAtHangUp ==
    ~Has("overlap") => \A m \in Meetings \ (kept \union unheard) : "after" \notin disk[m]

\* The microphone is open only for a recording or while a wake is looked into.
MicrophoneClosed ==
    Quiet /\ ~Has("half") /\ recorder.streams => recorder.committed \/ det.state = "AWAKE"

\* Pausing stops writing to disk.
PauseIsPrivate == \A m \in Meetings : "private" \notin disk[m]

\* While a meeting is recorded, what is heard goes to disk.
AudioGoesToDisk ==
    recorder.committed /\ ~recorder.holding /\ recorder.streams => recorder.queue = {}

\* A meeting the user said is none is not transcribed.
ThrownIsNotTranscribed == \A m \in thrown : job[m] # "running"

\* What the detector ends is the recording it follows.
EndsWhatItFollows ==
    \A t \in Threads : thread[t].at = "stop" /\ recorder.committed
        => thread[t].meeting = recorder.meeting
=============================================================================
