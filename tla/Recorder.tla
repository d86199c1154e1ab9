------------------------------ MODULE Recorder ------------------------------
(***************************************************************************)
(* The recorder of app/audio/recorder.py: two streams, a ring of what was  *)
(* heard last, a writer thread that takes what the streams have queued,    *)
(* and the file of the meeting being recorded.  Each method is an action   *)
(* over the recorder and the disk; the module that calls it says when.     *)
(*                                                                         *)
(* Sound is told apart by when it was heard: in the call, after the call's *)
(* app let go of the microphone, or while the user had paused.  A file is  *)
(* long enough to be a meeting when it holds some of the call.  What the   *)
(* streams queue while no thread takes it is a scrap of it: the queue holds *)
(* ten seconds and drops what comes after, and a meeting is longer.  The   *)
(* two tracks open, pause and end together and are one.                    *)
(***************************************************************************)
EXTENDS Naturals, FiniteSets

CONSTANTS
    Meetings,  \* the ids of the meetings
    None       \* no meeting, no app, no look yet

ASSUME NoneIsNoMeeting == None \notin Meetings

VARIABLES
    recorder,  \* the fields of the Recorder object
    disk       \* what the audio of each meeting's folder holds

recorderVars == <<recorder, disk>>

Sound == {"call", "scrap", "after", "private"}

Recorder == [armed : BOOLEAN,      \* the streams were opened
             streams : BOOLEAN,    \* a stream is open
             pump : BOOLEAN,       \* the writer thread runs
             committed : BOOLEAN,
             paused : BOOLEAN,
             holding : BOOLEAN,    \* listening, not writing
             meeting : Meetings \union {None},
             writer : Meetings \union {None},  \* whose file is open
             queue : SUBSET Sound,  \* frames the streams delivered
             ring : SUBSET Sound]   \* the pre-roll, or what a hold heard

Closed == [armed |-> FALSE, streams |-> FALSE, pump |-> FALSE,
           committed |-> FALSE, paused |-> FALSE, holding |-> FALSE,
           meeting |-> None, writer |-> None, queue |-> {}, ring |-> {}]

RecorderTypeOK ==
    /\ recorder \in Recorder
    /\ disk \in [Meetings -> SUBSET Sound]

RecorderInit ==
    /\ recorder = Closed
    /\ disk = [m \in Meetings |-> {}]

(***************************************************************************)
(* Where a sound goes.                                                     *)
(***************************************************************************)
\* What the streams hear now is.
Heard == IF ~recorder.committed THEN "call"
         ELSE IF recorder.paused THEN "private"
         ELSE IF recorder.holding THEN "after" ELSE "call"

Writes == recorder.committed /\ recorder.writer # None /\ ~recorder.holding

Ring(sounds) == IF Writes THEN recorder.ring ELSE recorder.ring \union sounds

OnDisk(m, sounds) == [disk EXCEPT ![m] = @ \union sounds]

Stored(sounds) ==
    IF Writes /\ ~recorder.paused THEN OnDisk(recorder.writer, sounds) ELSE disk

Kept(sound) == IF sound = "call" THEN "scrap" ELSE sound

\* The audio callback queues a block; the writer thread, when it runs, takes it.
Hear ==
    /\ recorder.streams
    /\ IF recorder.pump
       THEN /\ recorder' = [recorder EXCEPT !.ring = Ring({Heard})]
            /\ disk' = Stored({Heard})
       ELSE /\ recorder' = [recorder EXCEPT !.queue = @ \union {Kept(Heard)}]
            /\ UNCHANGED disk

(***************************************************************************)
(* The methods.                                                            *)
(***************************************************************************)
Armed == IF recorder.armed THEN recorder
         ELSE [recorder EXCEPT !.armed = TRUE, !.streams = TRUE,
                               !.queue = {}, !.ring = {}]

arm == recorder' = Armed /\ UNCHANGED disk

\* The first track opened, the second has no device.
ArmsHalf == recorder' = [recorder EXCEPT !.streams = TRUE]

\* Nothing happens when a recording is being written already.
commit(m) ==
    IF recorder.committed
    THEN arm
    ELSE /\ recorder' = [Armed EXCEPT !.committed = TRUE, !.meeting = m,
                                      !.writer = m, !.ring = {}]
         /\ disk' = OnDisk(m, Armed.ring)

\* It takes what the streams had queued.
start_thread ==
    /\ recorder' = [recorder EXCEPT !.pump = TRUE, !.queue = {},
                                    !.ring = Ring(recorder.queue)]
    /\ disk' = Stored(recorder.queue)

\* The rest of discard, once it has looked at committed.
DiscardClear ==
    /\ recorder' = [recorder EXCEPT !.armed = FALSE, !.streams = FALSE,
                        !.committed = FALSE, !.queue = {}, !.ring = {}]
    /\ UNCHANGED disk

\* stop up to writer.close(): the thread is joined, what is queued is taken.
StopClose ==
    /\ recorder' = [recorder EXCEPT !.pump = FALSE, !.queue = {},
                                    !.ring = Ring(recorder.queue)]
    /\ disk' = Stored(recorder.queue)

\* The rest of stop.  The meeting's id stays.
StopClear ==
    /\ recorder' = [Closed EXCEPT !.meeting = recorder.meeting, !.pump = recorder.pump]
    /\ UNCHANGED disk

CanSplit == recorder.committed /\ recorder.holding /\ recorder.writer # None

\* What was heard since the hang-up is the start of the next call.
NextCall(sounds) == {IF s = "after" THEN "call" ELSE s : s \in sounds}

split ==
    /\ CanSplit
    /\ recorder' = [recorder EXCEPT !.writer = None, !.committed = FALSE,
                        !.holding = FALSE, !.meeting = None, !.ring = NextCall(@),
                        !.queue = NextCall(@)]
    /\ UNCHANGED disk

Held(r) == IF r.committed /\ ~r.holding THEN [r EXCEPT !.holding = TRUE, !.ring = {}]
           ELSE r

\* Mutant: a rejoin writes what was heard meanwhile, as "Keep recording" does.
ReleaseWrites(keep) ==
    /\ recorder' = [recorder EXCEPT !.holding = FALSE, !.ring = {}]
    /\ disk' = IF recorder.holding /\ recorder.writer # None
               THEN OnDisk(recorder.writer, recorder.ring) ELSE disk

release_hold(keep) ==
    IF ~recorder.holding
    THEN UNCHANGED recorderVars
    ELSE /\ recorder' = [recorder EXCEPT !.holding = FALSE,
                             !.ring = IF recorder.writer = None THEN @ ELSE {}]
         /\ disk' = IF keep /\ recorder.writer # None
                    THEN OnDisk(recorder.writer, recorder.ring) ELSE disk

\* pause and resume.
SetPaused(wanted) ==
    recorder' = [recorder EXCEPT !.paused = wanted] /\ UNCHANGED disk

\* A stream failed and no device is left: _reopen raises, which ends the thread.
DeviceGone ==
    /\ recorder.streams /\ recorder.pump
    /\ recorder' = [recorder EXCEPT !.pump = FALSE, !.streams = FALSE]
    /\ UNCHANGED disk
=============================================================================
