------------------------------ MODULE Pipeline ------------------------------
(***************************************************************************)
(* A meeting's processing: the worker thread of app/pipeline/worker.py     *)
(* takes jobs from the queue and runs their stages, while the HTTP         *)
(* handlers of app/api/routes.py, on threads of their own, retry a stage,  *)
(* stop a transcription or delete a meeting, a recording may claim the     *)
(* machine, and the process may die and start again.                       *)
(*                                                                         *)
(* The worker's steps are separated wherever another thread can come in    *)
(* between two things it reads or writes: pc says what it does next.       *)
(***************************************************************************)
EXTENDS JobQueue

CONSTANTS
    HasProvider,  \* llm.provider is not "none" (or the meeting is sensitive)
    PurgeFails,   \* removing a folder can fail: Windows holds an open file
    ServerLast,   \* started as "python -m app.main": the worker before the server
    Budget        \* how often each kind of outside event happens at most

Events == {"retry", "stop", "delete", "keep", "recording", "defer", "crash"}

ASSUME PipelineAssumption ==
    /\ Meetings # {}
    /\ HasProvider \in BOOLEAN
    /\ PurgeFails \in BOOLEAN
    /\ ServerLast \in BOOLEAN
    /\ Budget \in [Events -> Nat]

VARIABLES
    state,    \* the state of each meeting's row, "GONE" when there is none
    output,   \* the stages whose files are in the meeting's folder
    marker,   \* meetings whose folder holds the DELETING_MARKER
    deletes,  \* how far each meeting's delete request has got
    pc,       \* what the worker does next
    job,      \* the job the worker claimed
    force,    \* StageContext.force of the current run
    before,   \* the meeting's state as the run began
    outcome,  \* how the stage ended
    yield,    \* should_yield(): a recording is active and the policy gives way
    left,     \* how much of Budget is left
    resets,   \* the server's lifespan, with its reset_running, is still to begin
    removed   \* history: meetings a removal took files of, and left without a transcript

workerVars == <<pc, job, force, before, outcome>>
meetingVars == <<state, output, marker, removed>>
vars == <<queueVars, meetingVars, deletes, workerVars, yield, left, resets>>

PC == {"starting", "sweeping", "swept", "idle", "peeked", "claimed", "marking", "stage",
       "handle", "failing", "finally", "removing", "emptied", "success", "settle", "next"}

Outcome == {"none", "ok", "held", "cancelled", "preempted", "deferred",
            "permanent", "error"}

\* A handle no row has: the worker between two jobs.
NoJob == [meeting |-> CHOOSE m \in Meetings : TRUE, stage |-> "transcribe",
          id |-> 0, attempts |-> 0]

TypeOK ==
    /\ QueueTypeOK
    /\ state \in [Meetings -> MeetingState \union {"GONE"}]
    /\ output \in [Meetings -> SUBSET JobStage]
    /\ marker \subseteq Meetings
    /\ deletes \in [Meetings -> {"none", "requested", "purging", "emptied"}]
    /\ pc \in PC
    /\ job \in Job
    /\ force \in BOOLEAN
    /\ before \in MeetingState
    /\ outcome \in Outcome
    /\ yield \in BOOLEAN
    /\ left \in [Events -> Nat]
    /\ resets \in BOOLEAN
    /\ removed \subseteq Meetings

Init ==
    /\ QueueInit
    /\ state = [m \in Meetings |-> "RECORDING"]
    /\ output = [m \in Meetings |-> {}]
    /\ marker = {}
    /\ deletes = [m \in Meetings |-> "none"]
    /\ pc = "idle"
    /\ job = NoJob
    /\ force = FALSE
    /\ before = "RECORDING"
    /\ outcome = "none"
    /\ yield = FALSE
    /\ left = Budget
    /\ resets = ServerLast
    /\ removed = {}

Spend(e) == left[e] > 0 /\ left' = [left EXCEPT ![e] = @ - 1]

Present(m) == state[m] # "GONE"

SetState(m, st) == state' = [state EXCEPT ![m] = st]

\* "if current != target and is_legal(current, target): set_state"
SetIfLegal(m, st) ==
    SetState(m, IF is_legal(state[m], st) THEN st ELSE state[m])

(***************************************************************************)
(* Deleting.  MeetingService.purge removes the folder, then the row with   *)
(* its jobs.  The process may die and other threads may look at any moment *)
(* of it; when a file of the folder is held, the rest of them may be gone, *)
(* the marker among them, and the row stays.                               *)
(***************************************************************************)
\* remove_tree, part of the way or up to a file it may not unlink.
FilesGo(m) ==
    /\ \E kept \in SUBSET output[m] : output' = [output EXCEPT ![m] = kept]
    /\ marker' \in {marker, marker \ {m}}
    /\ removed' = removed \union {m}

\* ... and raises there, where the folder stays with the row.
FolderStays(m) == PurgeFails /\ FilesGo(m)

FolderGoes(m) ==
    /\ output' = [output EXCEPT ![m] = {}]
    /\ marker' = marker \ {m}
    /\ removed' = removed \union {m}

\* delete_meeting: the jobs cascade.
RowGoes(m) ==
    /\ SetState(m, "GONE")
    /\ jobs' = [jobs EXCEPT ![m] = [s \in JobStage |-> Absent]]

(***************************************************************************)
(* The worker: run_once and _execute.                                      *)
(***************************************************************************)
Goto(next) ==
    /\ pc' = next
    /\ UNCHANGED <<job, force, before, outcome>>

WorkerAt(place) ==
    /\ pc' = place
    /\ job' = NoJob
    /\ force' = FALSE
    /\ before' = "RECORDING"
    /\ outcome' = "none"

ToIdle == WorkerAt("idle")

\* The meeting of the job in hand.
cur == job.meeting

Peek ==
    /\ pc = "idle"
    /\ ~yield
    /\ \E m \in Meetings, s \in JobStage :
          /\ IsHead(m, s)
          /\ job' = JobOf(m, s)
    /\ pc' = "peeked"
    /\ UNCHANGED <<queueVars, meetingVars, deletes, force, before, outcome, yield, left, resets>>

\* The row is read again by the claim; another thread may have taken it away.
Claim ==
    /\ pc = "peeked"
    /\ \/ /\ Found(job)
          /\ claim(job.meeting, job.stage)
          /\ job' = JobOf(job.meeting, job.stage)
          /\ pc' = "claimed"
          /\ UNCHANGED <<force, before, outcome>>
       \/ /\ ~(Found(job) /\ RowOf(job).state = "pending")
          /\ ToIdle
          /\ UNCHANGED jobs
    /\ UNCHANGED <<nextId, rerun, deleting, stopping, meetingVars, deletes, yield, left, resets>>

\* get_meeting and take_rerun.  A meeting gone meanwhile took its row along, so
\* queue.fail finds nothing to fail.
Begin ==
    /\ pc = "claimed"
    /\ \/ /\ Present(cur)
          /\ before' = state[cur]
          /\ force' = (<<cur, job.stage>> \in rerun)
          /\ rerun' = rerun \ {<<cur, job.stage>>}
          /\ pc' = "marking"
          /\ UNCHANGED <<job, outcome>>
       \/ /\ ~Present(cur)
          /\ ToIdle
          /\ UNCHANGED rerun
    /\ UNCHANGED <<jobs, nextId, deleting, stopping, meetingVars, deletes, yield, left, resets>>

\* _mark_running: it raises when the meeting has gone, and the run ends there.
MarkRunning ==
    /\ pc = "marking"
    /\ \/ /\ Present(cur)
          /\ SetIfLegal(cur, STAGE_RUNNING_STATE[job.stage])
          /\ Goto("stage")
       \/ /\ ~Present(cur)
          /\ ToIdle
          /\ UNCHANGED state
    /\ UNCHANGED <<queueVars, output, marker, removed, deletes, yield, left, resets>>

\* What a stage reads is on disk, or what it writes is and need not be redone.
InputReady ==
    \/ job.stage = "transcribe"
    \/ \E s \in output[cur] : Index(s) + 1 = Index(job.stage)
    \/ job.stage \in output[cur] /\ ~force /\ job.stage # "deliver"

\* Only these stages call ctx.checkpoint() or ctx.stop_if_asked().
Checkpointed == {"transcribe", "summarize"}

EndStage(how) ==
    /\ pc' = IF how \in {"ok", "held"} THEN "finally" ELSE "handle"
    /\ outcome' = how
    /\ UNCHANGED <<job, force, before>>

\* The stage returns, having written its files; deleting is looked at once more.
StageReturns ==
    /\ pc = "stage"
    /\ Present(cur)
    /\ InputReady
    /\ output' = [output EXCEPT ![cur] = @ \union {job.stage}]
    /\ removed' = IF job.stage = "assemble" THEN removed \ {cur} ELSE removed
    /\ \E how \in {"ok"} \union (IF job.stage = "deliver" THEN {"held"} ELSE {}) :
          EndStage(IF cur \in deleting THEN "cancelled" ELSE how)
    /\ UNCHANGED <<queueVars, state, marker, deletes, yield, left, resets>>

\* stop_if_asked, between two units of work.
StageCancelled ==
    /\ pc = "stage"
    /\ job.stage \in Checkpointed
    /\ cur \in deleting \union stopping
    /\ EndStage("cancelled")
    /\ UNCHANGED <<queueVars, meetingVars, deletes, yield, left, resets>>

\* checkpoint asks for a stop first, and for the recorder only then.
StagePreempted ==
    /\ pc = "stage"
    /\ job.stage \in Checkpointed
    /\ cur \notin deleting \union stopping
    /\ yield
    /\ EndStage("preempted")
    /\ UNCHANGED <<queueVars, meetingVars, deletes, yield, left, resets>>

\* Only the summary waits for a provider.
StageDefers ==
    /\ pc = "stage"
    /\ job.stage = "summarize"
    /\ Spend("defer")
    /\ EndStage("deferred")
    /\ UNCHANGED <<queueVars, meetingVars, deletes, yield, resets>>

StageRaises ==
    /\ pc = "stage"
    /\ \E how \in {"permanent", "error"} : EndStage(how)
    /\ UNCHANGED <<queueVars, meetingVars, deletes, yield, left, resets>>

\* Mutant: the transcript is taken to be there.
AssumesTranscript(m, was) ==
    IF was \in {"TRANSCRIBING", "FAILED", "INTERRUPTED"} THEN "TRANSCRIBED" ELSE was

\* Where a stopped transcription takes its meeting back to.
SettleTarget(m, was) ==
    IF was \in {"TRANSCRIBING", "FAILED", "INTERRUPTED"}
    THEN IF "assemble" \in output[m] THEN "TRANSCRIBED" ELSE "RECORDED"
    ELSE was

settle_stopped(m, was) == SetIfLegal(m, SettleTarget(m, was))

\* except Cancelled: for a deletion the row is left to finish_delete.  A row that
\* has gone raises KeyError, which ends the run through the same finally.
HandleCancelled ==
    /\ pc = "handle"
    /\ outcome = "cancelled"
    /\ IF cur \notin deleting /\ cur \in stopping
       THEN IF Found(job)
            THEN stopped(job) /\ settle_stopped(cur, before)
            ELSE /\ clear_stop(cur)
                 /\ rerun' = WithoutReruns(cur)
                 /\ UNCHANGED <<jobs, state>>
       ELSE UNCHANGED <<jobs, rerun, stopping, state>>
    /\ Goto("finally")
    /\ UNCHANGED <<nextId, deleting, output, marker, removed, deletes, yield, left, resets>>

\* except Preempted, except Deferred.
HandlePutBack ==
    /\ pc = "handle"
    /\ outcome \in {"preempted", "deferred"}
    /\ IF ~Found(job) THEN UNCHANGED jobs
       ELSE IF outcome = "preempted" THEN release(job) ELSE defer(job)
    /\ Goto("finally")
    /\ UNCHANGED <<nextId, rerun, deleting, stopping, meetingVars, deletes, yield, left, resets>>

\* _on_failure, up to the early return of a job that is tried again.
HandleFailure ==
    /\ pc = "handle"
    /\ outcome \in {"permanent", "error"}
    /\ IF Found(job) THEN fail(job, outcome = "permanent") ELSE UNCHANGED jobs
    /\ Goto(IF /\ Found(job)
               /\ FailsForGood(job, outcome = "permanent")
               /\ job.stage # "deliver"
            THEN "failing" ELSE "finally")
    /\ UNCHANGED <<nextId, rerun, deleting, stopping, meetingVars, deletes, yield, left, resets>>

\* The rest of _on_failure: a failed delivery never comes here.
FailMeeting ==
    /\ pc = "failing"
    /\ IF Present(cur) THEN SetIfLegal(cur, "FAILED") ELSE UNCHANGED state
    /\ Goto("finally")
    /\ UNCHANGED <<queueVars, output, marker, removed, deletes, yield, left, resets>>

\* Only a stage that returned goes on.
RunEnds == IF outcome \in {"ok", "held"} THEN Goto("success") ELSE ToIdle

\* finally: clear_stop, then finish_delete, which has nothing to do unless the meeting
\* is being deleted.
Finally ==
    /\ pc = "finally"
    /\ clear_stop(cur)
    /\ IF cur \in deleting /\ Present(cur)
       THEN Goto("removing") /\ UNCHANGED deleting
       ELSE RunEnds /\ deleting' = deleting \ {cur}
    /\ UNCHANGED <<jobs, nextId, rerun, meetingVars, deletes, yield, left, resets>>

\* finish_delete's purge, part of the way.
RemoveFiles ==
    /\ pc = "removing"
    /\ FilesGo(cur)
    /\ UNCHANGED <<queueVars, state, deletes, workerVars, yield, left, resets>>

\* ... to its end, or except OSError: the row stays.
RemoveFolder ==
    /\ pc = "removing"
    /\ \/ FolderGoes(cur) /\ Goto("emptied") /\ UNCHANGED deleting
       \/ FolderStays(cur) /\ RunEnds /\ deleting' = deleting \ {cur}
    /\ UNCHANGED <<jobs, nextId, rerun, stopping, state, deletes, yield, left, resets>>

RemoveRow ==
    /\ pc = "emptied"
    /\ RowGoes(cur)
    /\ deleting' = deleting \ {cur}
    /\ RunEnds
    /\ UNCHANGED <<nextId, rerun, stopping, output, marker, removed, deletes, yield, left,
                   resets>>

\* _on_success.  A meeting or a row that has gone ends it, by return or KeyError.
Complete ==
    /\ pc = "success"
    /\ \/ /\ Present(cur) /\ Found(job)
          /\ complete(job)
          /\ Goto("settle")
       \/ /\ ~(Present(cur) /\ Found(job))
          /\ ToIdle
          /\ UNCHANGED jobs
    /\ UNCHANGED <<nextId, rerun, deleting, stopping, meetingVars, deletes, yield, left, resets>>

SetDone ==
    /\ pc = "settle"
    /\ \/ /\ Present(cur)
          /\ IF outcome = "held" THEN UNCHANGED state
             ELSE SetIfLegal(cur, STAGE_DONE_STATE[job.stage])
          /\ Goto("next")
       \/ /\ ~Present(cur)
          /\ ToIdle
          /\ UNCHANGED state
    /\ UNCHANGED <<queueVars, output, marker, removed, deletes, yield, left, resets>>

\* _transcripts_only: with no provider a meeting ends at its transcript.
\* Mutant: the setting alone is asked, for every stage.
NextNeedsProvider == job.stage # "deliver" /\ job.stage # "summarize" /\ HasProvider

HasNext == job.stage # "deliver" /\ (job.stage # "assemble" \/ HasProvider)

EnqueueNext ==
    /\ pc = "next"
    /\ IF HasNext /\ Present(cur) THEN enqueue_next_stage(job)
                                 ELSE UNCHANGED <<jobs, nextId>>
    /\ ToIdle
    /\ UNCHANGED <<rerun, deleting, stopping, meetingVars, deletes, yield, left, resets>>

WorkerStep ==
    \/ Peek \/ Claim \/ Begin \/ MarkRunning
    \/ StageReturns \/ StageCancelled \/ StagePreempted \/ StageDefers \/ StageRaises
    \/ HandleCancelled \/ HandlePutBack \/ HandleFailure \/ FailMeeting
    \/ Finally \/ RemoveFiles \/ RemoveFolder \/ RemoveRow
    \/ Complete \/ SetDone \/ EnqueueNext

(***************************************************************************)
(* The other threads.                                                      *)
(***************************************************************************)
\* MeetingService.finish and discard: a recording has ended, or was found as the
\* process started.
Finish(m) ==
    /\ state[m] = "RECORDING"
    /\ \/ SetState(m, "RECORDED") /\ enqueue(m, "transcribe")
       \/ SetState(m, "DISCARDED") /\ UNCHANGED <<jobs, nextId>>
    /\ UNCHANGED <<rerun, deleting, stopping, output, marker, removed, deletes, workerVars,
                   yield, left, resets>>

Keep(m) ==
    /\ state[m] = "DISCARDED"
    /\ Spend("keep")
    /\ SetState(m, "RECORDED")
    /\ enqueue(m, "transcribe")
    /\ UNCHANGED <<rerun, deleting, stopping, output, marker, removed, deletes, workerVars,
                   yield, resets>>

RetryStage(m, s) ==
    /\ Present(m)
    /\ Spend("retry")
    /\ \/ request_rerun_from(m, s)   \* force, or "Transcribe again as..."
       \/ UNCHANGED rerun
    /\ retry(m, s)
    /\ UNCHANGED <<deleting, stopping, meetingVars, deletes, workerVars, yield, resets>>

StopTranscription(m) ==
    /\ Present(m)
    /\ Spend("stop")
    /\ \/ request_stop_running(m) /\ UNCHANGED <<jobs, rerun, state>>
       \/ /\ request_stop_waiting(m)
          /\ settle_stopped(m, state[m])
          /\ UNCHANGED stopping
    /\ UNCHANGED <<nextId, deleting, output, marker, removed, deletes, workerVars,
                   yield, resets>>

\* delete_meeting: refused while it records; then the look for a running stage ...
DeleteRequest(m) ==
    /\ state[m] \notin {"GONE", "RECORDING"}
    /\ deletes[m] = "none"
    /\ Spend("delete")
    /\ request_delete(m)
    /\ deletes' = [deletes EXCEPT ![m] = "requested"]
    /\ UNCHANGED <<nextId, rerun, stopping, meetingVars, workerVars, yield, resets>>

\* ... decides who removes the files: the worker, or this thread.
DeleteCheck(m) ==
    /\ deletes[m] = "requested"
    /\ IF running_for(m)
       THEN /\ marker' = marker \union {m}
            /\ deletes' = [deletes EXCEPT ![m] = "none"]
       ELSE /\ deletes' = [deletes EXCEPT ![m] = "purging"]
            /\ UNCHANGED marker
    /\ UNCHANGED <<queueVars, state, output, removed, workerVars, yield, left, resets>>

DeleteFiles(m) ==
    /\ deletes[m] = "purging"
    /\ FilesGo(m)
    /\ UNCHANGED <<queueVars, state, deletes, workerVars, yield, left, resets>>

\* 409: "saying so beats deleting the row against a folder that survived".
DeleteFolder(m) ==
    /\ deletes[m] = "purging"
    /\ \/ /\ FolderGoes(m)
          /\ deletes' = [deletes EXCEPT ![m] = "emptied"]
          /\ UNCHANGED deleting
       \/ /\ FolderStays(m)
          /\ deletes' = [deletes EXCEPT ![m] = "none"]
          /\ deleting' = deleting \ {m}
    /\ UNCHANGED <<jobs, nextId, rerun, stopping, state, workerVars, yield, left, resets>>

DeleteRow(m) ==
    /\ deletes[m] = "emptied"
    /\ RowGoes(m)
    /\ deleting' = deleting \ {m}
    /\ deletes' = [deletes EXCEPT ![m] = "none"]
    /\ UNCHANGED <<nextId, rerun, stopping, output, marker, removed, workerVars, yield,
                   left, resets>>

\* No handler runs before the server does; a recording ends with or without it.
ApiStep(m) ==
    \/ Finish(m)
    \/ /\ ~resets
       /\ \/ Keep(m)
          \/ \E s \in JobStage : RetryStage(m, s)
          \/ StopTranscription(m)
          \/ DeleteRequest(m) \/ DeleteCheck(m)
          \/ DeleteFiles(m) \/ DeleteFolder(m) \/ DeleteRow(m)

RecordingStarts ==
    /\ ~yield
    /\ Spend("recording")
    /\ yield' = TRUE
    /\ UNCHANGED <<queueVars, meetingVars, deletes, workerVars, resets>>

RecordingEnds ==
    /\ yield
    /\ yield' = FALSE
    /\ UNCHANGED <<queueVars, meetingVars, deletes, workerVars, left, resets>>

TimePasses(m, s) ==
    /\ BecomeDue(m, s)
    /\ UNCHANGED <<nextId, rerun, deleting, stopping, meetingVars, deletes, workerVars,
                   yield, left, resets>>

\* The process dies and starts again: what it had in memory is gone and running jobs
\* are reset.  start_background comes next; the tray's server already answers.
Restart ==
    /\ Spend("crash")
    /\ jobs' = reset_running
    /\ rerun' = {} /\ deleting' = {} /\ stopping' = {}
    /\ deletes' = [m \in Meetings |-> "none"]
    /\ WorkerAt("starting")
    /\ yield' = FALSE
    /\ resets' = ServerLast
    /\ UNCHANGED <<nextId, meetingVars>>

\* start_background: once every recording the dead process left has been finished
\* (recover_orphans, by Finish), the deletions a marker recorded are ...
Sweep(m) ==
    /\ pc = "starting"
    /\ \A n \in Meetings : state[n] # "RECORDING"
    /\ m \in marker
    /\ pc' = "sweeping"
    /\ job' = [NoJob EXCEPT !.meeting = m]
    /\ UNCHANGED <<queueVars, meetingVars, deletes, force, before, outcome, yield, left,
                   resets>>

SweepFiles ==
    /\ pc = "sweeping"
    /\ FilesGo(cur)
    /\ UNCHANGED <<queueVars, state, deletes, workerVars, yield, left, resets>>

SweepFolder ==
    /\ pc = "sweeping"
    /\ \/ FolderGoes(cur) /\ Goto("swept")
       \/ FolderStays(cur) /\ WorkerAt("starting")
    /\ UNCHANGED <<queueVars, state, deletes, yield, left, resets>>

SweepRow ==
    /\ pc = "swept"
    /\ RowGoes(cur)
    /\ WorkerAt("starting")
    /\ UNCHANGED <<nextId, rerun, deleting, stopping, output, marker, removed, deletes,
                   yield, left, resets>>

\* ... and the worker starts, whatever could not be removed.
StartBackground ==
    /\ pc = "starting"
    /\ \A m \in Meetings : state[m] # "RECORDING"
    /\ PurgeFails \/ marker = {}
    /\ ToIdle
    /\ UNCHANGED <<queueVars, meetingVars, deletes, yield, left, resets>>

Starting ==
    \/ \E m \in Meetings : Sweep(m)
    \/ SweepFiles \/ SweepFolder \/ SweepRow
    \/ StartBackground

\* The server of app.main begins to serve, beside the worker: reset_running again.
Lifespan ==
    /\ resets /\ pc \notin {"starting", "sweeping", "swept"}
    /\ resets' = FALSE
    /\ jobs' = reset_running
    /\ UNCHANGED <<nextId, rerun, deleting, stopping, meetingVars, deletes, workerVars,
                   yield, left>>

Environment ==
    \/ RecordingStarts \/ RecordingEnds \/ Restart \/ Starting \/ Lifespan
    \/ \E m \in Meetings, s \in JobStage : TimePasses(m, s)

Next == WorkerStep \/ (\E m \in Meetings : ApiStep(m)) \/ Environment

Spec == Init /\ [][Next]_vars

\* The worker thread runs, handlers finish, recordings end and time passes; presses
\* and crashes need not happen.
FairSpec ==
    /\ Spec
    /\ WF_vars(WorkerStep)
    /\ WF_vars(RecordingEnds)
    /\ WF_vars(Starting)
    /\ WF_vars(Lifespan)
    /\ \A m \in Meetings :
          /\ WF_vars(Finish(m))
          /\ WF_vars(DeleteCheck(m))
          /\ WF_vars(DeleteFolder(m))
          /\ WF_vars(DeleteRow(m))
          /\ \A s \in JobStage : WF_vars(TimePasses(m, s))

(***************************************************************************)
(* Properties.                                                             *)
(***************************************************************************)
\* The worker has a job of this meeting in hand.
Held(m) == pc \notin {"starting", "sweeping", "swept", "idle", "peeked"} /\ cur = m

HeldRow(m, s) == Held(m) /\ job.stage = s /\ job.id = jobs[m][s].id

Waits(m, s) == jobs[m][s].state = "pending"

\* A row says "running" only while the worker has that very job in hand: nothing
\* else ever ends it, and withdraw, busy and delete_meeting go by it.  Across
\* exceptions, preemption, deletion and a restart.
RunningIsHeld ==
    \A m \in Meetings, s \in JobStage :
        jobs[m][s].state = "running" => HeldRow(m, s)

\* delete_meeting promises that a meeting's files go as soon as the running stage has
\* let go of them: never while a stage works on them.
FilesHeldByStage == pc = "stage" => Present(cur)

\* retry makes a stage "pending again": a job that waits is run before it is done.
WaitingIsRun ==
    [][\A m \in Meetings, s \in JobStage :
        Waits(m, s) => jobs'[m][s].state # "done"]_vars

\* clear_stop: "the press applied to that run only, and must not stop the next one".
\* When a transcription is claimed no earlier press is still in force.
StopEndsWithItsRun ==
    [][pc = "peeked" /\ pc' = "claimed" /\ job'.stage = "transcribe"
        => job'.meeting \notin stopping]_vars

\* The step that settles a transcription the user stopped.
StopSettles ==
    /\ pc = "handle" /\ pc' = "finally"
    /\ outcome = "cancelled" /\ job.stage = "transcribe"
    /\ cur \in stopping \ deleting
    /\ Found(job)

\* settle_stopped: "a meeting whose transcription the user stopped goes back to where
\* it was", from whatever state but that of a recording still going on.
StopReturnsMeeting ==
    [][StopSettles /\ before # "RECORDING"
        => state'[cur] = SettleTarget(cur, before)]_vars

\* The part of it that holds: from every state but SUMMARIZING, which
\* LEGAL_TRANSITIONS has no way back to.
StopReturnsSettled ==
    [][StopSettles /\ before \notin {"RECORDING", "SUMMARIZING"}
        => state'[cur] = SettleTarget(cur, before)]_vars

\* forget_reruns: a stopped transcription leaves no request to redo a later stage
\* behind for some unrelated run, once nothing of the meeting is queued or failed.
NoRerunAfterStop ==
    \A m \in Meetings :
        /\ jobs[m]["transcribe"].state = "cancelled"
        /\ \A s \in JobStage :
              jobs[m][s].state \notin {"pending", "running", "failed"}
        /\ ~Held(m)
        => WithoutReruns(m) = rerun

\* A meeting part-way through its processing has a job that says so: one waiting,
\* running, or failed or stopped for the user to see.  Otherwise nothing would ever
\* move it on, silently.
NotStranded ==
    \A m \in Meetings :
        /\ state[m] \in {"RECORDED", "TRANSCRIBING", "SUMMARIZING", "SUMMARIZED"}
                          \union (IF HasProvider THEN {"TRANSCRIBED"} ELSE {})
        /\ ~Held(m)
        /\ deletes[m] = "none" /\ m \notin marker
        => \E s \in JobStage :
              jobs[m][s].state \in {"pending", "running", "failed", "cancelled"}

\* states.py: TRANSCRIBED means "transcript.md exists", whichever way a meeting came
\* to that state, by assemble or by a stop after a restart; unless a removal has taken
\* files of it, was refused or cut off by the process's end, and no transcript was
\* written since.
TranscribedHasTranscript ==
    \A m \in Meetings \ removed : state[m] = "TRANSCRIBED" => "assemble" \in output[m]

\* The same without the exception, as the comment has it.
TranscriptExists ==
    \A m \in Meetings : state[m] = "TRANSCRIBED" => "assemble" \in output[m]

\* finish_delete: "A file still held (Windows): the marker stays, and the next start
\* finishes it".
MarkerStays ==
    [][pc = "removing" /\ pc' \in {"idle", "success"} /\ cur \in marker
        => cur \in marker']_vars

\* Nothing is queued for the meeting, and it is where processing ends: at its notes,
\* at a failure, at its transcript when there is no provider, or where the user
\* stopped it.
AtRest(m) ==
    /\ \A s \in JobStage : jobs[m][s].state \notin {"pending", "running"}
    /\ \/ state[m] \in {"RENDERED", "DELIVERED", "FAILED", "DISCARDED"}
       \/ state[m] = "TRANSCRIBED" /\ ~HasProvider
       \/ jobs[m]["transcribe"].last_error = "stopped"

\* Every recording is processed to its end, through preemption, deferrals, failures
\* and a stop.
ProcessingEnds == \A m \in Meetings : <>[]AtRest(m)

\* Every waiting job is taken, whichever meeting it belongs to.
WaitingIsServed ==
    \A m \in Meetings, s \in JobStage : Waits(m, s) ~> ~Waits(m, s)
=============================================================================
