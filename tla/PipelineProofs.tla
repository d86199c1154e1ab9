--------------------------- MODULE PipelineProofs ---------------------------
(***************************************************************************)
(* Theorems about Pipeline, for any meetings, budgets and number of        *)
(* attempts.                                                               *)
(***************************************************************************)
EXTENDS Pipeline, JobQueueProofs

(***************************************************************************)
(* The operations on the meetings keep the types of theirs.                *)
(***************************************************************************)
\* A meeting's state is set to a state.
LEMMA SetStateType ==
    ASSUME TypeOK, NEW m \in Meetings, NEW st \in MeetingState,
           SetState(m, st) \/ SetIfLegal(m, st)
    PROVE  state' \in [Meetings -> MeetingState \union {"GONE"}]
BY DEF TypeOK, SetState, SetIfLegal

\* The states the tables of states.py name are states.
LEMMA StageStatesType ==
    ASSUME NEW s \in JobStage
    PROVE  STAGE_RUNNING_STATE[s] \in MeetingState /\ STAGE_DONE_STATE[s] \in MeetingState
BY DEF JobStage, STAGE_RUNNING_STATE, STAGE_DONE_STATE, MeetingState

LEMMA SettleTargetType ==
    ASSUME NEW m \in Meetings, NEW was \in MeetingState
    PROVE  SettleTarget(m, was) \in MeetingState
BY DEF SettleTarget, MeetingState

LEMMA FilesGoType ==
    ASSUME TypeOK, NEW m \in Meetings, FilesGo(m) \/ FolderGoes(m)
    PROVE  /\ output' \in [Meetings -> SUBSET JobStage]
           /\ marker' \subseteq Meetings
           /\ removed' \subseteq Meetings
BY DEF TypeOK, FilesGo, FolderGoes

LEMMA RowGoesType ==
    ASSUME TypeOK, NEW m \in Meetings, RowGoes(m)
    PROVE  /\ state' \in [Meetings -> MeetingState \union {"GONE"}]
           /\ jobs' \in [Meetings -> [JobStage -> Row]]
<1>1. [s \in JobStage |-> Absent] \in [JobStage -> Row]
  BY AbsentType
<1> QED BY <1>1 DEF TypeOK, QueueTypeOK, RowGoes, SetState

\* The row goes with its jobs, and no other does.
LEMMA RowGoesEffect ==
    ASSUME TypeOK, NEW m \in Meetings, RowGoes(m)
    PROVE  /\ state'[m] = "GONE" /\ \A s \in JobStage : jobs'[m][s] = Absent
           /\ \A n \in Meetings : n # m => jobs'[n] = jobs[n] /\ state'[n] = state[n]
BY DEF TypeOK, QueueTypeOK, RowGoes, SetState

\* What a removal takes is of one meeting.
LEMMA FilesGoEffect ==
    ASSUME TypeOK, NEW m \in Meetings, FilesGo(m) \/ FolderGoes(m)
    PROVE  /\ \A n \in Meetings : n # m => output'[n] = output[n]
           /\ \A n \in Meetings : n # m /\ n \in marker => n \in marker'
           /\ removed' = removed \union {m}
BY DEF TypeOK, FilesGo, FolderGoes

\* The budget stays a budget when an event is paid for.
LEMMA SpendType ==
    ASSUME TypeOK, NEW e \in Events, Spend(e)
    PROVE  left' \in [Events -> Nat]
<1>1. left \in [Events -> Nat] /\ left[e] \in Nat /\ left[e] > 0
  BY DEF TypeOK, Spend
<1>2. left[e] - 1 \in Nat
  BY <1>1
<1> QED BY <1>1, <1>2 DEF Spend

(***************************************************************************)
(* Type correctness.                                                       *)
(***************************************************************************)
\* The worker with nothing in hand, at a start and between two jobs.
LEMMA WorkerAtType ==
    ASSUME PipelineAssumption, NEW place \in {"starting", "idle"}, WorkerAt(place)
    PROVE  /\ pc' \in PC /\ job' \in Job /\ force' \in BOOLEAN
           /\ before' \in MeetingState /\ outcome' \in Outcome
<1>1. NoJob \in Job
  BY DEF NoJob, Job, PipelineAssumption, JobStage
<1> QED BY <1>1 DEF WorkerAt, PC, MeetingState, Outcome

\* Every step of the worker keeps the types.
LEMMA WorkerStepType ==
    ASSUME TypeOK, PipelineAssumption, WorkerStep
    PROVE  TypeOK'
<1> USE DEF TypeOK, QueueTypeOK, queueVars, meetingVars, workerVars
<1>1. job \in Job /\ cur \in Meetings /\ job.stage \in JobStage /\ RowOf(job) \in Row
  BY RowType DEF Job, cur, RowOf
<1>3. ASSUME ToIdle
      PROVE  /\ pc' \in PC /\ job' \in Job /\ force' \in BOOLEAN
             /\ before' \in MeetingState /\ outcome' \in Outcome
  BY <1>3, WorkerAtType DEF ToIdle
<1>4. ASSUME NEW next \in PC, Goto(next)
      PROVE  /\ pc' \in PC /\ job' \in Job /\ force' \in BOOLEAN
             /\ before' \in MeetingState /\ outcome' \in Outcome
  BY <1>4 DEF Goto
<1>5. ASSUME NEW how \in Outcome, EndStage(how)
      PROVE  /\ pc' \in PC /\ job' \in Job /\ force' \in BOOLEAN
             /\ before' \in MeetingState /\ outcome' \in Outcome
  BY <1>5 DEF EndStage, PC
<1>6. CASE Peek
  BY <1>6, RowType DEF Peek, PC
<1>7. CASE Claim
  <2>1. CASE Found(job) /\ claim(job.meeting, job.stage)
             /\ job' = JobOf(job.meeting, job.stage) /\ pc' = "claimed"
             /\ UNCHANGED <<force, before, outcome>>
    <3>1. [jobs[job.meeting][job.stage] EXCEPT !.state = "running"] \in Row
      BY <1>1, WrittenType DEF RowOf, JobState
    <3>2. jobs' \in [Meetings -> [JobStage -> Row]]
      BY <1>1, <2>1, <3>1, SetRowType DEF claim, cur
    <3>3. job' \in Job
      BY <1>1, <2>1, RowType DEF cur
    <3> QED BY <1>7, <2>1, <3>2, <3>3 DEF Claim, PC
  <2>2. CASE ToIdle /\ UNCHANGED jobs
    BY <1>3, <1>7, <2>2 DEF Claim
  <2> QED BY <1>7, <2>1, <2>2 DEF Claim
<1>8. CASE Begin
  <2>1. CASE Present(cur)
    <3>1. /\ before' = state[cur]
          /\ force' = (<<cur, job.stage>> \in rerun)
          /\ rerun' = rerun \ {<<cur, job.stage>>}
          /\ pc' = "marking"
          /\ UNCHANGED <<job, outcome>>
      BY <1>8, <2>1 DEF Begin
    <3>2. before' \in MeetingState
      BY <1>1, <2>1, <3>1 DEF Present
    <3>3. force' \in BOOLEAN
      BY <3>1
    <3>4. rerun' \subseteq Meetings \X JobStage
      BY <3>1
    <3> QED BY <1>8, <3>1, <3>2, <3>3, <3>4 DEF Begin, PC
  <2>2. CASE ~Present(cur)
    BY <1>3, <1>8, <2>2 DEF Begin
  <2> QED BY <2>1, <2>2
<1>9. CASE MarkRunning
  <2>1. CASE Present(cur)
    <3>1. "stage" \in PC
      BY DEF PC
    <3>2. state' \in [Meetings -> MeetingState \union {"GONE"}]
      BY <1>1, <1>9, <2>1, StageStatesType, SetStateType DEF MarkRunning
    <3> QED BY <1>4, <1>9, <2>1, <3>1, <3>2 DEF MarkRunning
  <2>2. CASE ~Present(cur)
    BY <1>3, <1>9, <2>2 DEF MarkRunning
  <2> QED BY <2>1, <2>2
<1>10. CASE StageReturns
  <2>1. output' \in [Meetings -> SUBSET JobStage]
    BY <1>1, <1>10 DEF StageReturns
  <2>2. PICK how \in Outcome : EndStage(how)
    BY <1>10 DEF StageReturns, Outcome
  <2> QED BY <1>5, <1>10, <2>1, <2>2 DEF StageReturns
<1>11. CASE StageCancelled
  BY <1>5, <1>11 DEF StageCancelled, Outcome
<1>12. CASE StagePreempted
  BY <1>5, <1>12 DEF StagePreempted, Outcome
<1>13. CASE StageDefers
  <2>1. left' \in [Events -> Nat]
    BY <1>13, SpendType DEF StageDefers, Events
  <2> QED BY <1>5, <1>13, <2>1 DEF StageDefers, Outcome
<1>14. CASE StageRaises
  <2>1. PICK how \in Outcome : EndStage(how)
    BY <1>14 DEF StageRaises, Outcome
  <2> QED BY <1>5, <1>14, <2>1 DEF StageRaises
<1>15. "finally" \in PC /\ "failing" \in PC /\ "settle" \in PC /\ "next" \in PC
       /\ "success" \in PC
  BY DEF PC
<1>16. CASE HandleCancelled
  <2>1. CASE cur \notin deleting /\ cur \in stopping /\ Found(job)
    <3>1. Update(job, StoppedRow(RowOf(job)))
          /\ stopping' = stopping \ {cur}
          /\ rerun' = WithoutReruns(cur)
          /\ settle_stopped(cur, before)
      BY <1>16, <2>1 DEF HandleCancelled, stopped, cur
    <3>2. jobs' \in [Meetings -> [JobStage -> Row]]
      BY <3>1, EndsType
    <3>3. state' \in [Meetings -> MeetingState \union {"GONE"}]
      BY <1>1, <3>1, SettleTargetType, SetStateType DEF settle_stopped
    <3> QED BY <1>4, <1>15, <1>16, <3>1, <3>2, <3>3 DEF HandleCancelled, WithoutReruns
  <2>2. CASE cur \notin deleting /\ cur \in stopping /\ ~Found(job)
    BY <1>4, <1>15, <1>16, <2>2 DEF HandleCancelled, clear_stop, WithoutReruns
  <2>3. CASE ~(cur \notin deleting /\ cur \in stopping)
    BY <1>4, <1>15, <1>16, <2>3 DEF HandleCancelled
  <2> QED BY <2>1, <2>2, <2>3
<1>17. CASE HandlePutBack
  <2>1. jobs' \in [Meetings -> [JobStage -> Row]]
    BY <1>17, EndsType DEF HandlePutBack
  <2> QED BY <1>4, <1>15, <1>17, <2>1 DEF HandlePutBack
<1>18. CASE HandleFailure
  <2>1. jobs' \in [Meetings -> [JobStage -> Row]]
    BY <1>18, EndsType DEF HandleFailure
  <2> QED BY <1>4, <1>15, <1>18, <2>1 DEF HandleFailure
<1>19. CASE FailMeeting
  <2>1. state' \in [Meetings -> MeetingState \union {"GONE"}]
    BY <1>1, <1>19, SetStateType DEF FailMeeting, MeetingState
  <2> QED BY <1>4, <1>15, <1>19, <2>1 DEF FailMeeting
<1>24. "removing" \in PC /\ "emptied" \in PC
  BY DEF PC
<1>25. ASSUME RunEnds
       PROVE  /\ pc' \in PC /\ job' \in Job /\ force' \in BOOLEAN
              /\ before' \in MeetingState /\ outcome' \in Outcome
  BY <1>3, <1>4, <1>15, <1>25 DEF RunEnds
<1>20. CASE Finally
  <2>1. /\ pc' \in PC /\ job' \in Job /\ force' \in BOOLEAN
        /\ before' \in MeetingState /\ outcome' \in Outcome
    BY <1>4, <1>20, <1>24, <1>25 DEF Finally
  <2> QED BY <1>20, <2>1 DEF Finally, clear_stop
<1>26. CASE RemoveFiles
  BY <1>1, <1>26, FilesGoType DEF RemoveFiles
<1>27. CASE RemoveFolder
  <2>1. /\ pc' \in PC /\ job' \in Job /\ force' \in BOOLEAN
        /\ before' \in MeetingState /\ outcome' \in Outcome
    BY <1>4, <1>24, <1>25, <1>27 DEF RemoveFolder
  <2> QED BY <1>1, <1>27, <2>1, FilesGoType DEF RemoveFolder, FolderStays
<1>29. CASE RemoveRow
  <2>1. /\ pc' \in PC /\ job' \in Job /\ force' \in BOOLEAN
        /\ before' \in MeetingState /\ outcome' \in Outcome
    BY <1>25, <1>29 DEF RemoveRow
  <2> QED BY <1>1, <1>29, <2>1, RowGoesType DEF RemoveRow
<1>21. CASE Complete
  <2>1. jobs' \in [Meetings -> [JobStage -> Row]]
    BY <1>21, EndsType DEF Complete
  <2>2. /\ pc' \in PC /\ job' \in Job /\ force' \in BOOLEAN
        /\ before' \in MeetingState /\ outcome' \in Outcome
    BY <1>3, <1>4, <1>15, <1>21 DEF Complete
  <2> QED BY <1>21, <2>1, <2>2 DEF Complete
<1>22. CASE SetDone
  <2>1. state' \in [Meetings -> MeetingState \union {"GONE"}]
    BY <1>1, <1>22, StageStatesType, SetStateType DEF SetDone
  <2>2. /\ pc' \in PC /\ job' \in Job /\ force' \in BOOLEAN
        /\ before' \in MeetingState /\ outcome' \in Outcome
    BY <1>3, <1>4, <1>15, <1>22 DEF SetDone
  <2> QED BY <1>22, <2>1, <2>2 DEF SetDone
<1>23. CASE EnqueueNext
  <2>1. jobs' \in [Meetings -> [JobStage -> Row]] /\ nextId' \in Nat \ {0}
    <3>1. CASE HasNext /\ Present(cur)
      BY <1>1, <1>23, <3>1, NextStageType, EnqueueType
         DEF EnqueueNext, HasNext, enqueue_next_stage, cur
    <3>2. CASE ~(HasNext /\ Present(cur))
      BY <1>23, <3>2 DEF EnqueueNext
    <3> QED BY <3>1, <3>2
  <2> QED BY <1>3, <1>23, <2>1 DEF EnqueueNext
<1> QED
  BY <1>6, <1>7, <1>8, <1>9, <1>10, <1>11, <1>12, <1>13, <1>14, <1>16, <1>17,
     <1>18, <1>19, <1>20, <1>21, <1>22, <1>23, <1>26, <1>27, <1>29 DEF WorkerStep

\* Every step of another thread keeps the types.
LEMMA ApiStepType ==
    ASSUME TypeOK, NEW m \in Meetings, ApiStep(m)
    PROVE  TypeOK'
<1> USE DEF TypeOK, QueueTypeOK, queueVars, meetingVars, workerVars
<1>1. "transcribe" \in JobStage /\ "RECORDED" \in MeetingState
      /\ "DISCARDED" \in MeetingState
  BY DEF JobStage, MeetingState
<1>2. CASE Finish(m)
  <2>1. jobs' \in [Meetings -> [JobStage -> Row]] /\ nextId' \in Nat \ {0}
    BY <1>1, <1>2, EnqueueType DEF Finish
  <2>2. state' \in [Meetings -> MeetingState \union {"GONE"}]
    BY <1>1, <1>2, SetStateType DEF Finish
  <2> QED BY <1>2, <2>1, <2>2 DEF Finish
<1>3. CASE Keep(m)
  <2>1. jobs' \in [Meetings -> [JobStage -> Row]] /\ nextId' \in Nat \ {0}
    BY <1>1, <1>3, EnqueueType DEF Keep
  <2>2. state' \in [Meetings -> MeetingState \union {"GONE"}]
    BY <1>1, <1>3, SetStateType DEF Keep
  <2>3. left' \in [Events -> Nat]
    BY <1>3, SpendType DEF Keep, Events
  <2> QED BY <1>3, <2>1, <2>2, <2>3 DEF Keep
<1>4. ASSUME NEW s \in JobStage, RetryStage(m, s)
      PROVE  TypeOK'
  <2>1. jobs' \in [Meetings -> [JobStage -> Row]] /\ nextId' \in Nat \ {0}
    BY <1>4, RetryType DEF RetryStage
  <2>2. left' \in [Events -> Nat]
    BY <1>4, SpendType DEF RetryStage, Events
  <2>3. rerun' \subseteq Meetings \X JobStage
    BY <1>4 DEF RetryStage, request_rerun_from, StagesFrom
  <2> QED BY <1>4, <2>1, <2>2, <2>3 DEF RetryStage
<1>5. CASE StopTranscription(m)
  <2>1. left' \in [Events -> Nat]
    BY <1>5, SpendType DEF StopTranscription, Events
  <2>2. CASE request_stop_running(m) /\ UNCHANGED <<jobs, rerun, state>>
    BY <1>5, <2>1, <2>2 DEF StopTranscription, request_stop_running
  <2>3. CASE request_stop_waiting(m) /\ settle_stopped(m, state[m])
             /\ UNCHANGED stopping
    <3>1. StoppedRow(jobs[m]["transcribe"]) \in Row
      BY <1>1, RowType, WrittenType DEF StoppedRow, JobState, LastError
    <3>2. jobs' \in [Meetings -> [JobStage -> Row]]
      BY <1>1, <2>3, <3>1, SetRowType DEF request_stop_waiting
    <3>3. state[m] \in MeetingState
      BY <1>5 DEF StopTranscription, Present
    <3>4. state' \in [Meetings -> MeetingState \union {"GONE"}]
      BY <2>3, <3>3, SettleTargetType, SetStateType DEF settle_stopped
    <3> QED
      BY <1>5, <2>1, <2>3, <3>2, <3>4
         DEF StopTranscription, request_stop_waiting, WithoutReruns
  <2> QED BY <1>5, <2>2, <2>3 DEF StopTranscription
<1>6. CASE DeleteRequest(m)
  <2>1. left' \in [Events -> Nat]
    BY <1>6, SpendType DEF DeleteRequest, Events
  <2>2. jobs' \in [Meetings -> [JobStage -> Row]] /\ deleting' \subseteq Meetings
    <3>1. \A s \in JobStage :
             (IF jobs[m][s].state = "running" THEN jobs[m][s] ELSE Absent) \in Row
      BY AbsentType, RowType
    <3> QED BY <1>6, <3>1 DEF DeleteRequest, request_delete
  <2> QED BY <1>6, <2>1, <2>2 DEF DeleteRequest
<1>7. CASE DeleteCheck(m)
  BY <1>7 DEF DeleteCheck
<1>8. CASE DeleteFiles(m)
  BY <1>8, FilesGoType DEF DeleteFiles
<1>9. CASE DeleteFolder(m)
  BY <1>9, FilesGoType DEF DeleteFolder, FolderStays
<1>11. CASE DeleteRow(m)
  BY <1>11, RowGoesType DEF DeleteRow
<1> QED
  BY <1>2, <1>3, <1>4, <1>5, <1>6, <1>7, <1>8, <1>9, <1>11 DEF ApiStep

\* Every step of the environment keeps the types.
LEMMA EnvironmentType ==
    ASSUME TypeOK, PipelineAssumption, Environment
    PROVE  TypeOK'
<1> USE DEF TypeOK, QueueTypeOK, queueVars, meetingVars, workerVars
<1>1. CASE RecordingStarts
  <2>1. left' \in [Events -> Nat]
    BY <1>1, SpendType DEF RecordingStarts, Events
  <2> QED BY <1>1, <2>1 DEF RecordingStarts
<1>2. CASE RecordingEnds
  BY <1>2 DEF RecordingEnds
<1>3. ASSUME NEW m \in Meetings, NEW s \in JobStage, TimePasses(m, s)
      PROVE  TypeOK'
  <2>1. [jobs[m][s] EXCEPT !.due = TRUE] \in Row
    BY RowType, WrittenType
  <2>2. jobs' \in [Meetings -> [JobStage -> Row]]
    BY <1>3, <2>1, SetRowType DEF TimePasses, BecomeDue
  <2> QED BY <1>3, <2>2 DEF TimePasses
<1>4. CASE Restart
  <2>1. left' \in [Events -> Nat]
    BY <1>4, SpendType DEF Restart, Events
  <2>2. jobs' \in [Meetings -> [JobStage -> Row]]
    BY <1>4, ResetType DEF Restart
  <2>3. /\ pc' \in PC /\ job' \in Job /\ force' \in BOOLEAN
        /\ before' \in MeetingState /\ outcome' \in Outcome
    BY <1>4, WorkerAtType DEF Restart
  <2> QED BY <1>4, <2>1, <2>2, <2>3 DEF Restart, PipelineAssumption
<1>6. CASE StartBackground
  <2>1. /\ pc' \in PC /\ job' \in Job /\ force' \in BOOLEAN
        /\ before' \in MeetingState /\ outcome' \in Outcome
    BY <1>6, WorkerAtType DEF StartBackground, ToIdle
  <2> QED BY <1>6, <2>1 DEF StartBackground
<1>7. cur \in Meetings
  BY DEF Job, cur
<1>8. ASSUME NEW m \in Meetings, Sweep(m)
      PROVE  TypeOK'
  <2>1. NoJob \in Job
    BY DEF NoJob, Job, PipelineAssumption, JobStage
  <2>2. [NoJob EXCEPT !.meeting = m] \in Job /\ "sweeping" \in PC
    BY <2>1 DEF Job, PC
  <2> QED BY <1>8, <2>2 DEF Sweep
<1>9. CASE SweepFiles
  BY <1>7, <1>9, FilesGoType DEF SweepFiles
<1>10. CASE SweepFolder
  <2>1. /\ pc' \in PC /\ job' \in Job /\ force' \in BOOLEAN
        /\ before' \in MeetingState /\ outcome' \in Outcome
    BY <1>10, WorkerAtType DEF SweepFolder, Goto, PC
  <2> QED BY <1>7, <1>10, <2>1, FilesGoType DEF SweepFolder, FolderStays
<1>12. CASE SweepRow
  <2>1. /\ pc' \in PC /\ job' \in Job /\ force' \in BOOLEAN
        /\ before' \in MeetingState /\ outcome' \in Outcome
    BY <1>12, WorkerAtType DEF SweepRow
  <2> QED BY <1>7, <1>12, <2>1, RowGoesType DEF SweepRow
<1>5. CASE Lifespan
  <2>1. jobs' \in [Meetings -> [JobStage -> Row]]
    BY <1>5, ResetType DEF Lifespan
  <2> QED BY <1>5, <2>1 DEF Lifespan
<1> QED
  BY <1>1, <1>2, <1>3, <1>4, <1>5, <1>6, <1>8, <1>9, <1>10, <1>12
     DEF Environment, Starting

LEMMA InitType == PipelineAssumption /\ Init => TypeOK
<1> SUFFICES ASSUME PipelineAssumption, Init
             PROVE  TypeOK
  OBVIOUS
<1>1. QueueTypeOK
  BY AbsentType DEF Init, QueueInit, QueueTypeOK
<1>2. job \in Job
  BY DEF Init, NoJob, Job, PipelineAssumption, JobStage
<1> QED
  BY <1>1, <1>2
     DEF Init, TypeOK, PipelineAssumption, PC, MeetingState, Outcome

LEMMA StepType == PipelineAssumption /\ TypeOK /\ [Next]_vars => TypeOK'
<1>1. PipelineAssumption /\ TypeOK /\ Next => TypeOK'
  BY WorkerStepType, ApiStepType, EnvironmentType DEF Next
<1>2. TypeOK /\ UNCHANGED vars => TypeOK'
  BY DEF TypeOK, QueueTypeOK, vars, queueVars, meetingVars, workerVars
<1> QED BY <1>1, <1>2

\* Every variable of the queue, of the meetings and of the worker keeps to its values
\* in every run, whatever the threads do and wherever the process dies.
THEOREM TypeCorrect == Spec => []TypeOK
<1>1. Init => TypeOK
  BY InitType, PipelineAssumption
<1>2. TypeOK /\ [Next]_vars => TypeOK'
  BY StepType, PipelineAssumption
<1> QED BY <1>1, <1>2, PTL DEF Spec

(***************************************************************************)
(* A row that says "running" is the job in hand (RunningIsHeld), when      *)
(* folders can always be removed.                                          *)
(*                                                                         *)
(* RunningIsHeld alone is not inductive: the worker lets go of a job at    *)
(* the end of a run without looking at its row, so the invariant has to    *)
(* say why that row no longer runs.  It was written by the handler of the  *)
(* exception, or it goes with its meeting, because a deletion asked for    *)
(* the cancellation and has not been finished by anyone yet.               *)
(***************************************************************************)
NoneRunning == \A m \in Meetings, s \in JobStage : jobs[m][s].state # "running"

\* The row goes with the meeting: ON DELETE CASCADE.
GoneHasNoJobs ==
    \A m \in Meetings, s \in JobStage : ~Present(m) => jobs[m][s] = Absent

HeldInv ==
    /\ TypeOK
    /\ RunningIsHeld
    /\ GoneHasNoJobs
    /\ pc \in {"failing", "settle", "next"} => NoneRunning
    /\ pc = "handle" /\ outcome = "cancelled" =>
           NoneRunning \/ cur \in deleting \union stopping
    /\ pc = "finally" /\ outcome \notin {"ok", "held"} =>
           NoneRunning \/ cur \in deleting

\* No row comes to say "running": one that does said so before, and is the same row.
NothingStarts ==
    \A m \in Meetings, s \in JobStage :
        jobs'[m][s].state = "running" =>
            jobs[m][s].state = "running" /\ jobs'[m][s].id = jobs[m][s].id

\* No meeting that has gone gets a row, and those that go lose theirs.
NoneForGone ==
    \A m \in Meetings, s \in JobStage : state'[m] = "GONE" => jobs'[m][s] = Absent

\* A row may be written for a meeting that is there, if not with "running".
LEMMA QuietWrite ==
    ASSUME TypeOK, GoneHasNoJobs, NEW m \in Meetings, NEW s \in JobStage, NEW row,
           SetRow(m, s, row), row.state # "running",
           \A n \in Meetings : state'[n] = "GONE" => state[n] = "GONE" /\ n # m
    PROVE  NothingStarts /\ NoneForGone
BY SetRowEffect DEF TypeOK, GoneHasNoJobs, Present, NothingStarts, NoneForGone

LEMMA EnqueueQuiet ==
    ASSUME TypeOK, GoneHasNoJobs, NEW m \in Meetings, NEW s \in JobStage,
           enqueue(m, s) \/ retry(m, s),
           \A n \in Meetings : state'[n] = "GONE" => state[n] = "GONE" /\ n # m
    PROVE  NothingStarts /\ NoneForGone
<1>1. PICK row : SetRow(m, s, row) /\ row.state = "pending"
  <2>1. jobs[m][s] \in Row /\ Absent \in Row
    BY RowType, AbsentType DEF TypeOK
  <2> DEFINE again == [jobs[m][s] EXCEPT !.state = "pending", !.due = TRUE]
             fresh == [Absent EXCEPT !.id = nextId, !.state = "pending"]
             redo == [jobs[m][s] EXCEPT !.state = "pending", !.attempts = 0,
                                        !.due = TRUE, !.last_error = "none"]
  <2>2. again.state = "pending" /\ fresh.state = "pending" /\ redo.state = "pending"
    BY <2>1 DEF Row
  <2>3. SetRow(m, s, again) \/ SetRow(m, s, fresh) \/ SetRow(m, s, redo)
    BY DEF enqueue, retry
  <2> HIDE DEF again, fresh, redo
  <2> QED BY <2>2, <2>3
<1> QED BY <1>1, QuietWrite

\* The transitions are between states: none leaves a meeting that has gone.
LEMMA LegalTransitionsType == LEGAL_TRANSITIONS \subseteq MeetingState \X MeetingState
<1>1. PIPELINE[1] = "RECORDING" /\ PIPELINE[2] = "RECORDED"
      /\ PIPELINE[3] = "TRANSCRIBING" /\ PIPELINE[4] = "TRANSCRIBED"
      /\ PIPELINE[5] = "SUMMARIZING" /\ PIPELINE[6] = "SUMMARIZED"
      /\ PIPELINE[7] = "RENDERED" /\ PIPELINE[8] = "DELIVERED"
  BY DEF PIPELINE
<1>2. \A i \in 1 .. 8 : PIPELINE[i] \in MeetingState
  BY <1>1 DEF MeetingState
<1>3. {<<PIPELINE[i], PIPELINE[i + 1]>> : i \in 1 .. 7}
         \subseteq MeetingState \X MeetingState
  BY <1>2
<1>4. ACTIVE \subseteq MeetingState
  BY <1>2 DEF ACTIVE
<1>5. RETRYABLE_ENTRY \subseteq MeetingState
  BY DEF RETRYABLE_ENTRY, MeetingState
<1>6. {"ARMED", "FAILED", "INTERRUPTED", "DISCARDED", "TRANSCRIBING", "SUMMARIZED",
       "RENDERED", "DELIVERED", "RECORDED", "SUMMARIZING", "TRANSCRIBED",
       "RECORDING"} \subseteq MeetingState
  BY DEF MeetingState
<1> QED BY <1>3, <1>4, <1>5, <1>6 DEF LEGAL_TRANSITIONS

\* A meeting whose state is set was there before and is there after.
LEMMA StateStays ==
    ASSUME TypeOK, NEW m \in Meetings, NEW st \in MeetingState,
           SetIfLegal(m, st)
    PROVE  \A n \in Meetings : state'[n] = "GONE" <=> state[n] = "GONE"
<1>1. \A st2 \in MeetingState : ~is_legal("GONE", st2)
  BY LegalTransitionsType DEF is_legal, MeetingState
<1>2. "GONE" \notin MeetingState
  BY DEF MeetingState
<1> QED BY <1>1, <1>2 DEF SetIfLegal, SetState, TypeOK

\* Removing a meeting with its rows starts nothing.
LEMMA RowGoesQuiet ==
    ASSUME TypeOK, GoneHasNoJobs, NEW m \in Meetings, RowGoes(m)
    PROVE  NothingStarts /\ NoneForGone
<1>1. ASSUME NEW n \in Meetings, NEW s \in JobStage
      PROVE  /\ jobs'[n][s].state = "running" =>
                    jobs[n][s].state = "running" /\ jobs'[n][s].id = jobs[n][s].id
             /\ state'[n] = "GONE" => jobs'[n][s] = Absent
  <2>1. CASE n = m
    BY <2>1, RowGoesEffect DEF Absent
  <2>2. CASE n # m
    BY <2>2, RowGoesEffect DEF GoneHasNoJobs, Present
  <2> QED BY <2>1, <2>2
<1> QED BY <1>1 DEF NothingStarts, NoneForGone

\* Between two jobs nothing runs; in a run the row that does, if any, is the job's.
LEMMA RunningIsJobs ==
    ASSUME HeldInv
    PROVE  /\ pc \in {"starting", "sweeping", "swept", "idle", "peeked"} => NoneRunning
           /\ \A m \in Meetings, s \in JobStage :
                 jobs[m][s].state = "running" => m = cur /\ s = job.stage /\ Found(job)
           /\ ~Found(job) => NoneRunning
           /\ ~Present(cur) => NoneRunning
<1>1. \A m \in Meetings, s \in JobStage :
         jobs[m][s].state = "running" => HeldRow(m, s)
  BY DEF HeldInv, RunningIsHeld
<1>2. pc \in {"starting", "sweeping", "swept", "idle", "peeked"} => NoneRunning
  BY <1>1 DEF HeldRow, Held, NoneRunning
<1>3. \A m \in Meetings, s \in JobStage :
         jobs[m][s].state = "running" => m = cur /\ s = job.stage /\ Found(job)
  BY <1>1 DEF HeldRow, Held, Found, Exists, cur
<1>4. cur \in Meetings
  BY DEF HeldInv, TypeOK, Job, cur
<1>5. ~Present(cur) => \A s \in JobStage : jobs[cur][s].state # "running"
  BY <1>4 DEF HeldInv, GoneHasNoJobs, Absent
<1> QED BY <1>2, <1>3, <1>5 DEF NoneRunning

\* Writing another state to the row of the job in hand ends what ran.
LEMMA WriteEnds ==
    ASSUME HeldInv, NEW row, Update(job, row), row.state # "running"
    PROVE  NoneRunning'
<1>1. job.meeting \in Meetings /\ job.stage \in JobStage
  BY DEF HeldInv, TypeOK, Job
<1>2. \A n \in Meetings, t \in JobStage :
         jobs'[n][t] = IF n = job.meeting /\ t = job.stage THEN row ELSE jobs[n][t]
  BY <1>1, SetRowEffect DEF Update, HeldInv, TypeOK
<1> QED BY <1>2, RunningIsJobs DEF NoneRunning, cur

\* The rows the handlers of a run's end write do not run.
LEMMA EndsEnd ==
    ASSUME HeldInv, NEW permanent \in BOOLEAN,
           \/ complete(job) \/ release(job) \/ fail(job, permanent)
           \/ defer(job) \/ Update(job, StoppedRow(RowOf(job)))
    PROVE  NoneRunning'
<1>1. RowOf(job) \in Row
  BY RowType DEF RowOf, HeldInv, TypeOK, Job
<1>2. CASE complete(job)
  BY <1>1, <1>2, WriteEnds DEF complete, Row
<1>3. CASE release(job)
  BY <1>1, <1>3, WriteEnds DEF release, Row
<1>4. CASE fail(job, permanent)
  <2>1. Failed(job, permanent).state # "running"
    BY <1>1 DEF Failed, Row
  <2> QED BY <1>4, <2>1, WriteEnds DEF fail
<1>5. CASE defer(job)
  BY <1>1, <1>5, WriteEnds DEF defer, Row
<1>6. CASE Update(job, StoppedRow(RowOf(job)))
  <2>1. StoppedRow(RowOf(job)).state # "running"
    BY <1>1 DEF StoppedRow, Row
  <2> QED BY <1>6, <2>1, WriteEnds
<1> QED BY <1>2, <1>3, <1>4, <1>5, <1>6

\* A step that leaves no row running keeps the invariant, whatever the worker does.
LEMMA NoneRunningKeeps ==
    ASSUME TypeOK', GoneHasNoJobs', NoneRunning'
    PROVE  HeldInv'
BY DEF HeldInv, RunningIsHeld, NoneRunning

\* A step of another thread that starts nothing keeps it, if it takes a request to
\* delete back only together with the rows.
LEMMA QuietStep ==
    ASSUME HeldInv, TypeOK', NothingStarts, NoneForGone, UNCHANGED workerVars,
           stopping \subseteq stopping',
           cur \in deleting => cur \in deleting' \/ NoneRunning'
    PROVE  HeldInv'
<1>1. GoneHasNoJobs'
  BY DEF NoneForGone, GoneHasNoJobs, Present
<1>2. NoneRunning => NoneRunning'
  BY DEF NothingStarts, NoneRunning
<1>3. RunningIsHeld'
  <2> SUFFICES ASSUME NEW m \in Meetings, NEW s \in JobStage,
                      jobs'[m][s].state = "running"
               PROVE  HeldRow(m, s)'
    BY DEF RunningIsHeld
  <2>1. HeldRow(m, s) /\ jobs'[m][s].id = jobs[m][s].id
    BY DEF NothingStarts, HeldInv, RunningIsHeld
  <2> QED BY <2>1 DEF HeldRow, Held, cur, workerVars
<1>4. cur' = cur /\ pc' = pc /\ outcome' = outcome
  BY DEF cur, workerVars
<1>5. pc' \in {"failing", "settle", "next"} => NoneRunning'
  BY <1>2, <1>4 DEF HeldInv
<1>6. pc' = "handle" /\ outcome' = "cancelled" =>
         NoneRunning' \/ cur' \in deleting' \union stopping'
  BY <1>2, <1>4 DEF HeldInv
<1>7. pc' = "finally" /\ outcome' \notin {"ok", "held"} =>
         NoneRunning' \/ cur' \in deleting'
  BY <1>2, <1>4 DEF HeldInv
<1> QED BY <1>1, <1>3, <1>5, <1>6, <1>7 DEF HeldInv

LEMMA ApiStepHeld ==
    ASSUME HeldInv, TypeOK', ~PurgeFails, NEW m \in Meetings, ApiStep(m)
    PROVE  HeldInv'
<1> USE DEF queueVars, meetingVars
<1>1. TypeOK /\ GoneHasNoJobs /\ QueueTypeOK
  BY DEF HeldInv, TypeOK
<1>2. "transcribe" \in JobStage
  BY DEF JobStage
<1>3. ASSUME NEW n \in Meetings, NEW st \in MeetingState, SetState(n, st)
      PROVE  \A k \in Meetings : state'[k] = "GONE" => state[k] = "GONE" /\ k # n
  <2>1. st # "GONE"
    BY DEF MeetingState
  <2> QED BY <1>1, <1>3, <2>1 DEF SetState, TypeOK
<1>4. ASSUME UNCHANGED jobs, \A n \in Meetings : state'[n] = "GONE" <=> state[n] = "GONE"
      PROVE  NothingStarts /\ NoneForGone
  BY <1>1, <1>4 DEF NothingStarts, NoneForGone, GoneHasNoJobs, Present
<1>5. CASE Finish(m)
  <2>1. CASE SetState(m, "RECORDED") /\ enqueue(m, "transcribe")
    <3>1. NothingStarts /\ NoneForGone
      BY <1>1, <1>2, <1>3, <2>1, EnqueueQuiet DEF MeetingState
    <3> QED BY <1>5, <3>1, QuietStep DEF Finish
  <2>2. CASE SetState(m, "DISCARDED") /\ UNCHANGED <<jobs, nextId>>
    <3>1. \A k \in Meetings : state'[k] = "GONE" <=> state[k] = "GONE"
      BY <1>1, <1>5, <2>2 DEF Finish, SetState, TypeOK
    <3> QED BY <1>4, <1>5, <2>2, <3>1, QuietStep DEF Finish
  <2> QED BY <1>5, <2>1, <2>2 DEF Finish
<1>6. CASE Keep(m)
  <2>1. NothingStarts /\ NoneForGone
    BY <1>1, <1>2, <1>3, <1>6, EnqueueQuiet DEF Keep, MeetingState
  <2> QED BY <1>6, <2>1, QuietStep DEF Keep
<1>7. ASSUME NEW s \in JobStage, RetryStage(m, s)
      PROVE  HeldInv'
  <2>1. NothingStarts /\ NoneForGone
    BY <1>1, <1>7, EnqueueQuiet DEF RetryStage, Present
  <2> QED BY <1>7, <2>1, QuietStep DEF RetryStage
<1>8. CASE StopTranscription(m)
  <2>1. CASE request_stop_running(m) /\ UNCHANGED <<jobs, rerun, state>>
    BY <1>4, <1>8, <2>1, QuietStep DEF StopTranscription, request_stop_running
  <2>2. CASE request_stop_waiting(m) /\ settle_stopped(m, state[m]) /\ UNCHANGED stopping
    <3>1. \A n \in Meetings : state'[n] = "GONE" <=> state[n] = "GONE"
      <4>1. SettleTarget(m, state[m]) \in MeetingState
        BY <1>1, <1>8, SettleTargetType DEF StopTranscription, Present, TypeOK
      <4> QED BY <1>1, <2>2, <4>1, StateStays DEF settle_stopped
    <3>2. StoppedRow(jobs[m]["transcribe"]).state # "running"
      BY <1>1, <1>2, RowType DEF StoppedRow, Row
    <3>3. NothingStarts /\ NoneForGone
      BY <1>1, <1>2, <1>8, <2>2, <3>1, <3>2, QuietWrite
         DEF request_stop_waiting, StopTranscription, Present
    <3> QED BY <1>8, <2>2, <3>3, QuietStep DEF StopTranscription
  <2> QED BY <1>8, <2>1, <2>2 DEF StopTranscription
<1>9. CASE DeleteRequest(m)
  <2>1. NothingStarts /\ NoneForGone
    BY <1>1, <1>9
       DEF DeleteRequest, request_delete, NothingStarts, NoneForGone, GoneHasNoJobs,
           Present, Absent, QueueTypeOK
  <2> QED BY <1>9, <2>1, QuietStep DEF DeleteRequest, request_delete
<1>10. CASE DeleteCheck(m)
  BY <1>4, <1>10, QuietStep DEF DeleteCheck
<1>11. CASE DeleteFiles(m) \/ DeleteFolder(m)
  BY <1>4, <1>11, QuietStep DEF DeleteFiles, DeleteFolder, FolderStays
<1>12. CASE DeleteRow(m)
  <2>1. RowGoes(m) /\ deleting' = deleting \ {m}
    BY <1>12 DEF DeleteRow
  <2>2. cur = m => NoneRunning'
    BY <1>1, <2>1, RowGoesEffect, RunningIsJobs DEF NoneRunning, Absent
  <2> QED BY <1>1, <1>12, <2>1, <2>2, RowGoesQuiet, QuietStep DEF DeleteRow
<1> QED
  BY <1>5, <1>6, <1>7, <1>8, <1>9, <1>10, <1>11, <1>12 DEF ApiStep

LEMMA EnvironmentHeld ==
    ASSUME HeldInv, TypeOK', ~PurgeFails, Environment
    PROVE  HeldInv'
<1> USE DEF queueVars, meetingVars
<1>1. TypeOK /\ GoneHasNoJobs /\ QueueTypeOK
  BY DEF HeldInv, TypeOK
<1>2. CASE UNCHANGED <<jobs, state, deleting, stopping, workerVars>>
  <2>1. NothingStarts /\ NoneForGone
    BY <1>1, <1>2 DEF NothingStarts, NoneForGone, GoneHasNoJobs, Present
  <2> QED BY <1>2, <2>1, QuietStep
<1>3. CASE RecordingStarts \/ RecordingEnds
  BY <1>2, <1>3 DEF RecordingStarts, RecordingEnds
<1>4. ASSUME NEW m \in Meetings, NEW s \in JobStage, TimePasses(m, s)
      PROVE  HeldInv'
  <2> DEFINE row == [jobs[m][s] EXCEPT !.due = TRUE]
  <2>1. SetRow(m, s, row) /\ row.state = "pending" /\ state' = state
    BY <1>1, <1>4, RowType DEF TimePasses, BecomeDue, Row
  <2>2. state[m] # "GONE"
    BY <1>1, <1>4 DEF TimePasses, BecomeDue, GoneHasNoJobs, Present, Absent
  <2> HIDE DEF row
  <2>3. NothingStarts /\ NoneForGone
    BY <1>1, <2>1, <2>2, QuietWrite
  <2> QED BY <1>4, <2>3, QuietStep DEF TimePasses
<1>5. \A m \in Meetings, s \in JobStage :
         /\ reset_running[m][s].state # "running"
         /\ jobs[m][s] = Absent => reset_running[m][s] = Absent
  BY <1>1, RowType DEF reset_running, Row, Absent
<1>6. CASE Restart \/ Lifespan
  <2>1. jobs' = reset_running /\ state' = state
    BY <1>6 DEF Restart, Lifespan
  <2>2. NoneRunning'
    BY <1>5, <2>1 DEF NoneRunning
  <2>3. GoneHasNoJobs'
    BY <1>1, <1>5, <2>1 DEF GoneHasNoJobs, Present
  <2> QED BY <2>2, <2>3, NoneRunningKeeps
<1>7. CASE Starting
  <2>1. NoneRunning
    BY <1>7, RunningIsJobs
       DEF Starting, Sweep, SweepFiles, SweepFolder, FolderStays, SweepRow, StartBackground
  <2>2. CASE SweepRow
    <3>1. cur \in Meetings /\ RowGoes(cur)
      BY <1>1, <2>2 DEF SweepRow, TypeOK, Job, cur
    <3>2. NothingStarts /\ NoneForGone
      BY <1>1, <3>1, RowGoesQuiet
    <3> QED
      BY <2>1, <3>2, NoneRunningKeeps
         DEF NothingStarts, NoneForGone, NoneRunning, GoneHasNoJobs, Present
  <2>3. CASE UNCHANGED <<jobs, state>>
    BY <1>1, <2>1, <2>3, NoneRunningKeeps DEF NoneRunning, GoneHasNoJobs, Present
  <2> QED
    BY <1>7, <2>2, <2>3
       DEF Starting, Sweep, SweepFiles, SweepFolder, FolderStays, StartBackground
<1> QED BY <1>3, <1>4, <1>6, <1>7 DEF Environment

LEMMA WorkerStepHeld ==
    ASSUME HeldInv, TypeOK', PipelineAssumption, ~PurgeFails, WorkerStep
    PROVE  HeldInv'
<1> USE DEF queueVars, meetingVars
<1>1. /\ TypeOK /\ GoneHasNoJobs /\ QueueTypeOK /\ QueueTypeOK'
      /\ job \in Job /\ cur \in Meetings /\ job.stage \in JobStage /\ cur = job.meeting
  BY DEF HeldInv, TypeOK, Job, cur
<1>2. ASSUME UNCHANGED jobs, \A n \in Meetings : state'[n] = "GONE" <=> state[n] = "GONE"
      PROVE  GoneHasNoJobs'
  BY <1>1, <1>2 DEF GoneHasNoJobs, Present
<1>3. ASSUME UNCHANGED jobs, NoneRunning
      PROVE  NoneRunning'
  BY <1>3 DEF NoneRunning
<1>4. ASSUME UNCHANGED state
      PROVE  \A n \in Meetings : state'[n] = "GONE" <=> state[n] = "GONE"
  BY <1>4
\* The job stays in hand and its row as it is.
<1>5. ASSUME UNCHANGED <<jobs, job>>, pc \notin {"starting", "sweeping", "swept", "idle", "peeked"},
             pc' \notin {"starting", "sweeping", "swept", "idle", "peeked", "failing", "settle", "next"},
             GoneHasNoJobs',
             pc' = "handle" /\ outcome' = "cancelled" =>
                 NoneRunning \/ cur \in deleting' \union stopping',
             pc' = "finally" /\ outcome' \notin {"ok", "held"} =>
                 NoneRunning \/ cur \in deleting'
      PROVE  HeldInv'
  <2>1. RunningIsHeld'
    BY <1>5 DEF HeldInv, RunningIsHeld, HeldRow, Held, cur
  <2>2. cur' = cur /\ (NoneRunning => NoneRunning')
    BY <1>3, <1>5 DEF cur
  <2> QED BY <1>1, <1>5, <2>1, <2>2 DEF HeldInv
\* A row is written for the job, which thereby no longer runs.
<1>6. ASSUME NEW permanent \in BOOLEAN,
             \/ complete(job) \/ release(job) \/ fail(job, permanent)
             \/ defer(job) \/ Update(job, StoppedRow(RowOf(job))),
             Found(job),
             \A n \in Meetings : state'[n] = "GONE" <=> state[n] = "GONE"
      PROVE  HeldInv'
  <2>1. PICK row : Update(job, row)
    BY <1>6 DEF complete, release, fail, defer
  <2>2. \A n \in Meetings, t \in JobStage :
           jobs'[n][t] = IF n = cur /\ t = job.stage THEN row ELSE jobs[n][t]
    BY <1>1, <2>1, SetRowEffect DEF Update
  <2>3. state[cur] # "GONE"
    BY <1>1, <1>6 DEF GoneHasNoJobs, Present, Found, Exists, Absent
  <2>4. GoneHasNoJobs'
    BY <1>1, <1>6, <2>2, <2>3 DEF GoneHasNoJobs, Present
  <2> QED BY <1>6, <2>4, EndsEnd, NoneRunningKeeps
<1>7. CASE Peek
  <2>1. NoneRunning
    BY <1>7, RunningIsJobs DEF Peek
  <2> QED BY <1>2, <1>3, <1>4, <1>7, <2>1, NoneRunningKeeps DEF Peek
<1>8. CASE Claim
  <2>1. NoneRunning
    BY <1>8, RunningIsJobs DEF Claim
  <2>2. CASE Found(job) /\ claim(job.meeting, job.stage)
             /\ job' = JobOf(job.meeting, job.stage) /\ pc' = "claimed"
             /\ UNCHANGED <<force, before, outcome>>
    <3> DEFINE row == [jobs[cur][job.stage] EXCEPT !.state = "running"]
    <3>1. row.id = jobs[cur][job.stage].id
      BY <1>1, RowType DEF Row
    <3>2. SetRow(cur, job.stage, row) /\ jobs[cur][job.stage].state = "pending"
      BY <1>1, <2>2 DEF claim
    <3> HIDE DEF row
    <3>3. \A n \in Meetings, t \in JobStage :
             jobs'[n][t] = IF n = cur /\ t = job.stage THEN row ELSE jobs[n][t]
      BY <1>1, <3>2, SetRowEffect
    <3>4. cur' = cur /\ job'.stage = job.stage /\ job'.id = row.id
      BY <1>1, <2>2, <3>1, RowType DEF cur
    <3>5. RunningIsHeld'
      BY <1>1, <2>1, <2>2, <3>3, <3>4 DEF RunningIsHeld, HeldRow, Held, NoneRunning
    <3>6. state[cur] # "GONE"
      BY <1>1, <3>2 DEF GoneHasNoJobs, Present, Absent
    <3>7. GoneHasNoJobs'
      BY <1>1, <1>8, <3>3, <3>6 DEF Claim, GoneHasNoJobs, Present
    <3> QED BY <2>2, <3>5, <3>7 DEF HeldInv
  <2>3. CASE ToIdle /\ UNCHANGED jobs
    BY <1>2, <1>3, <1>4, <1>8, <2>1, <2>3, NoneRunningKeeps DEF Claim
  <2> QED BY <1>8, <2>2, <2>3 DEF Claim
<1>9. CASE Begin
  <2>1. GoneHasNoJobs' /\ UNCHANGED jobs
    BY <1>2, <1>4, <1>9 DEF Begin
  <2>2. CASE Present(cur)
    BY <1>5, <1>9, <2>1, <2>2 DEF Begin
  <2>3. CASE ~Present(cur)
    BY <1>3, <2>1, <2>3, RunningIsJobs, NoneRunningKeeps
  <2> QED BY <2>2, <2>3
<1>10. CASE MarkRunning
  <2>1. CASE Present(cur)
    <3>1. \A n \in Meetings : state'[n] = "GONE" <=> state[n] = "GONE"
      BY <1>1, <1>10, <2>1, StageStatesType, StateStays DEF MarkRunning
    <3>2. GoneHasNoJobs' /\ UNCHANGED jobs
      BY <1>2, <1>10, <3>1 DEF MarkRunning
    <3> QED BY <1>5, <1>10, <2>1, <3>2 DEF MarkRunning, Goto
  <2>2. CASE ~Present(cur)
    <3>1. GoneHasNoJobs' /\ UNCHANGED jobs
      BY <1>2, <1>4, <1>10, <2>2 DEF MarkRunning
    <3> QED BY <1>3, <2>2, <3>1, RunningIsJobs, NoneRunningKeeps
  <2> QED BY <2>1, <2>2
<1>11. CASE StageReturns
  <2>1. GoneHasNoJobs'
    BY <1>2, <1>4, <1>11 DEF StageReturns
  <2>2. PICK how \in {"ok", "held", "cancelled"} :
           EndStage(how) /\ (how = "cancelled" => cur \in deleting)
    BY <1>11 DEF StageReturns
  <2> QED BY <1>5, <1>11, <2>1, <2>2 DEF StageReturns, EndStage
<1>12. CASE StageCancelled
  <2>1. GoneHasNoJobs'
    BY <1>2, <1>4, <1>12 DEF StageCancelled
  <2> QED BY <1>5, <1>12, <2>1 DEF StageCancelled, EndStage
<1>13. CASE StagePreempted \/ StageDefers \/ StageRaises
  <2>1. GoneHasNoJobs'
    BY <1>2, <1>4, <1>13 DEF StagePreempted, StageDefers, StageRaises
  <2>2. PICK how \in {"preempted", "deferred", "permanent", "error"} : EndStage(how)
    BY <1>13 DEF StagePreempted, StageDefers, StageRaises
  <2> QED
    BY <1>5, <1>13, <2>1, <2>2 DEF StagePreempted, StageDefers, StageRaises, EndStage
<1>14. CASE HandleCancelled
  <2>1. CASE cur \notin deleting /\ cur \in stopping /\ Found(job)
    <3>1. Update(job, StoppedRow(RowOf(job))) /\ settle_stopped(cur, before)
      BY <1>14, <2>1 DEF HandleCancelled, stopped
    <3>2. SettleTarget(cur, before) \in MeetingState
      BY <1>1, SettleTargetType DEF TypeOK
    <3>3. \A n \in Meetings : state'[n] = "GONE" <=> state[n] = "GONE"
      BY <1>1, <3>1, <3>2, StateStays DEF settle_stopped
    <3> QED BY <1>6, <2>1, <3>1, <3>3
  <2>2. CASE ~(cur \notin deleting /\ cur \in stopping /\ Found(job))
    <3>1. UNCHANGED <<jobs, state, job, outcome, deleting>> /\ pc' = "finally"
      BY <1>14, <2>2 DEF HandleCancelled, Goto
    <3>2. NoneRunning \/ cur \in deleting
      BY <1>14, <2>2, RunningIsJobs DEF HandleCancelled, HeldInv
    <3> QED BY <1>2, <1>4, <1>5, <1>14, <3>1, <3>2 DEF HandleCancelled
  <2> QED BY <2>1, <2>2
<1>15. CASE HandlePutBack
  <2>1. CASE Found(job)
    BY <1>4, <1>6, <1>15, <2>1 DEF HandlePutBack
  <2>2. CASE ~Found(job)
    BY <1>2, <1>3, <1>4, <1>15, <2>2, RunningIsJobs, NoneRunningKeeps DEF HandlePutBack
  <2> QED BY <2>1, <2>2
<1>16. CASE HandleFailure
  <2>1. CASE Found(job)
    BY <1>4, <1>6, <1>16, <2>1 DEF HandleFailure
  <2>2. CASE ~Found(job)
    BY <1>2, <1>3, <1>4, <1>16, <2>2, RunningIsJobs, NoneRunningKeeps DEF HandleFailure
  <2> QED BY <2>1, <2>2
<1>17. CASE FailMeeting
  <2>1. \A n \in Meetings : state'[n] = "GONE" <=> state[n] = "GONE"
    BY <1>1, <1>4, <1>17, StateStays DEF FailMeeting, MeetingState
  <2>2. NoneRunning
    BY <1>17 DEF FailMeeting, HeldInv
  <2> QED BY <1>2, <1>3, <1>17, <2>1, <2>2, NoneRunningKeeps DEF FailMeeting
\* Once nothing runs, or the run was successful and its row is still in hand.
<1>22. ASSUME RunEnds, GoneHasNoJobs',
              NoneRunning' \/ (outcome \in {"ok", "held"} /\ UNCHANGED jobs),
              pc \notin {"starting", "sweeping", "swept", "idle", "peeked"}
       PROVE  HeldInv'
  <2>1. CASE NoneRunning'
    BY <1>22, <2>1, NoneRunningKeeps
  <2>2. CASE outcome \in {"ok", "held"} /\ UNCHANGED jobs
    <3>1. pc' = "success" /\ UNCHANGED job
      BY <1>22, <2>2 DEF RunEnds, Goto
    <3>2. RunningIsHeld'
      BY <1>22, <2>2, <3>1 DEF HeldInv, RunningIsHeld, HeldRow, Held, cur
    <3> QED BY <1>22, <3>1, <3>2 DEF HeldInv
  <2> QED BY <1>22, <2>1, <2>2
<1>18. CASE Finally
  <2>1. GoneHasNoJobs'
    BY <1>2, <1>4, <1>18 DEF Finally
  <2>2. CASE cur \in deleting /\ Present(cur)
    BY <1>5, <1>18, <2>1, <2>2 DEF Finally, Goto
  <2>3. CASE ~(cur \in deleting /\ Present(cur))
    <3>1. RunEnds /\ UNCHANGED jobs
      BY <1>18, <2>3 DEF Finally
    <3>2. NoneRunning \/ outcome \in {"ok", "held"}
      BY <1>18, <2>3, RunningIsJobs DEF Finally, HeldInv
    <3> QED BY <1>3, <1>18, <1>22, <2>1, <3>1, <3>2 DEF Finally
  <2> QED BY <2>2, <2>3
<1>23. CASE RemoveFiles
  <2>1. GoneHasNoJobs'
    BY <1>2, <1>4, <1>23 DEF RemoveFiles
  <2> QED BY <1>5, <1>23, <2>1 DEF RemoveFiles, workerVars
<1>24. CASE RemoveFolder
  <2>1. GoneHasNoJobs'
    BY <1>2, <1>4, <1>24 DEF RemoveFolder, FolderStays
  <2> QED BY <1>5, <1>24, <2>1 DEF RemoveFolder, FolderStays, Goto
<1>25. CASE RemoveRow
  <2>1. RowGoes(cur) /\ RunEnds /\ pc = "emptied"
    BY <1>25 DEF RemoveRow
  <2>2. NoneRunning'
    BY <1>1, <2>1, RowGoesEffect, RunningIsJobs DEF NoneRunning, Absent
  <2>3. GoneHasNoJobs'
    BY <1>1, <2>1, RowGoesQuiet DEF NoneForGone, GoneHasNoJobs, Present
  <2> QED BY <1>22, <2>1, <2>2, <2>3
<1>19. CASE Complete
  <2>1. CASE Present(cur) /\ Found(job)
    BY <1>4, <1>6, <1>19, <2>1 DEF Complete
  <2>2. CASE ~(Present(cur) /\ Found(job))
    BY <1>2, <1>3, <1>4, <1>19, <2>2, RunningIsJobs, NoneRunningKeeps DEF Complete
  <2> QED BY <2>1, <2>2
<1>20. CASE SetDone
  <2>1. \A n \in Meetings : state'[n] = "GONE" <=> state[n] = "GONE"
    BY <1>1, <1>4, <1>20, StageStatesType, StateStays DEF SetDone
  <2>2. NoneRunning
    BY <1>20 DEF SetDone, HeldInv
  <2> QED BY <1>2, <1>3, <1>20, <2>1, <2>2, NoneRunningKeeps DEF SetDone
<1>21. CASE EnqueueNext
  <2>1. NoneRunning
    BY <1>21 DEF EnqueueNext, HeldInv
  <2>2. CASE HasNext /\ Present(cur)
    <3>1. enqueue(cur, next_stage(job.stage)) /\ next_stage(job.stage) \in JobStage
      BY <1>1, <1>21, <2>2, NextStageType DEF EnqueueNext, HasNext, enqueue_next_stage
    <3>2. NothingStarts /\ NoneForGone
      BY <1>1, <1>21, <2>2, <3>1, EnqueueQuiet DEF EnqueueNext, Present
    <3>3. NoneRunning' /\ GoneHasNoJobs'
      BY <2>1, <3>2
         DEF NothingStarts, NoneForGone, NoneRunning, GoneHasNoJobs, Present
    <3> QED BY <3>3, NoneRunningKeeps
  <2>3. CASE ~(HasNext /\ Present(cur))
    BY <1>2, <1>3, <1>4, <1>21, <2>1, <2>3, NoneRunningKeeps DEF EnqueueNext
  <2> QED BY <2>2, <2>3
<1> QED
  BY <1>7, <1>8, <1>9, <1>10, <1>11, <1>12, <1>13, <1>14, <1>15, <1>16, <1>17,
     <1>18, <1>19, <1>20, <1>21, <1>23, <1>24, <1>25 DEF WorkerStep

LEMMA InitHeld ==
    ASSUME Init
    PROVE  HeldInv
<1>1. TypeOK
  BY InitType, PipelineAssumption
<1>2. \A m \in Meetings, s \in JobStage : jobs[m][s] = Absent
  BY DEF Init, QueueInit
<1> QED
  BY <1>1, <1>2
     DEF HeldInv, Init, RunningIsHeld, GoneHasNoJobs, NoneRunning, Absent

LEMMA StepHeld ==
    ASSUME ~PurgeFails, HeldInv, [Next]_vars
    PROVE  HeldInv'
<1>1. TypeOK'
  BY StepType, PipelineAssumption DEF HeldInv
<1>2. CASE WorkerStep
  BY <1>1, <1>2, WorkerStepHeld, PipelineAssumption
<1>3. ASSUME NEW m \in Meetings, ApiStep(m)
      PROVE  HeldInv'
  BY <1>1, <1>3, ApiStepHeld
<1>4. CASE Environment
  BY <1>1, <1>4, EnvironmentHeld
<1>5. CASE UNCHANGED vars
  <2>1. NothingStarts /\ NoneForGone
    BY <1>5
       DEF vars, queueVars, meetingVars, NothingStarts, NoneForGone, HeldInv,
           GoneHasNoJobs, Present
  <2> QED BY <1>1, <1>5, <2>1, QuietStep DEF vars, queueVars
<1> QED BY <1>2, <1>3, <1>4, <1>5 DEF Next

\* When folders can be removed, a row that says "running" is the job the worker has in
\* hand, however runs end and whatever is pressed, deleted or killed meanwhile: no row
\* is left "running" that nothing will ever end.
THEOREM RunningHeld ==
    ASSUME ~PurgeFails
    PROVE  Spec => []RunningIsHeld
<1>1. HeldInv => RunningIsHeld
  BY DEF HeldInv
<1> QED BY <1>1, InitHeld, StepHeld, PTL DEF Spec

(***************************************************************************)
(* TRANSCRIBED means that the transcript exists.  The state is set by the  *)
(* end of an assemble run and by a stop that takes a meeting back to where *)
(* its run began, so both the result of a run and the state remembered at  *)
(* its beginning have to vouch for the file while the meeting is there and *)
(* no removal has taken files of it.                                       *)
(***************************************************************************)
TranscriptInv ==
    /\ TypeOK
    /\ TranscribedHasTranscript
    /\ pc \notin {"starting", "sweeping", "swept", "idle", "peeked", "claimed"}
       /\ Present(cur) /\ cur \notin removed /\ before = "TRANSCRIBED"
           => "assemble" \in output[cur]
    /\ pc \in {"finally", "removing", "emptied", "success", "settle"}
       /\ outcome \in {"ok", "held"} /\ Present(cur) /\ cur \notin removed
           => job.stage \in output[cur]
    /\ pc \in {"success", "settle"} => outcome \in {"ok", "held"}
    /\ pc = "failing" => outcome \in {"permanent", "error"}

\* A meeting taken back to where it was is TRANSCRIBED only if its transcript is there.
LEMMA SettleKeepsTranscript ==
    ASSUME TypeOK, TranscribedHasTranscript, NEW m \in Meetings, NEW was \in MeetingState,
           settle_stopped(m, was),
           was = "TRANSCRIBED" /\ m \notin removed => "assemble" \in output[m]
    PROVE  \A n \in Meetings \ removed :
              state'[n] = "TRANSCRIBED" => "assemble" \in output[n]
<1>1. SettleTarget(m, was) = "TRANSCRIBED" /\ m \notin removed => "assemble" \in output[m]
  BY DEF SettleTarget
<1> QED
  BY <1>1 DEF settle_stopped, SetIfLegal, SetState, TypeOK, TranscribedHasTranscript

\* What a step of another thread may do: take files only in a removal, bring no meeting
\* back, and set the state only when the files are there.
LEMMA TranscriptStays ==
    ASSUME TranscriptInv, TypeOK', TranscribedHasTranscript', UNCHANGED workerVars,
           \A m \in Meetings :
              state'[m] # "GONE" /\ m \notin removed'
                 => state[m] # "GONE" /\ m \notin removed /\ output[m] \subseteq output'[m]
    PROVE  TranscriptInv'
<1>1. cur' = cur /\ cur \in Meetings
  BY DEF cur, workerVars, TranscriptInv, TypeOK, Job
<1> QED BY <1>1 DEF TranscriptInv, Present, workerVars

\* A step of a removal takes files of meetings it has put aside alone.
LEMMA RemovalTranscript ==
    ASSUME TranscriptInv, NEW m \in Meetings,
           \/ (FilesGo(m) \/ FolderGoes(m)) /\ UNCHANGED state
           \/ RowGoes(m) /\ UNCHANGED <<output, removed>>
    PROVE  /\ TranscribedHasTranscript'
           /\ \A n \in Meetings :
                 state'[n] # "GONE" /\ n \notin removed'
                    => /\ state[n] # "GONE" /\ n \notin removed
                       /\ output[n] = output'[n]
<1>1. TypeOK /\ TranscribedHasTranscript
  BY DEF TranscriptInv
<1>2. CASE FilesGo(m) /\ UNCHANGED state
  <2>1. PICK kept \in SUBSET output[m] : output' = [output EXCEPT ![m] = kept]
    BY <1>2 DEF FilesGo
  <2> QED BY <1>1, <1>2, <2>1 DEF FilesGo, TypeOK, TranscribedHasTranscript
<1>3. CASE FolderGoes(m) /\ UNCHANGED state
  BY <1>1, <1>3 DEF FolderGoes, TypeOK, TranscribedHasTranscript
<1>4. CASE RowGoes(m) /\ UNCHANGED <<output, removed>>
  BY <1>1, <1>4 DEF RowGoes, SetState, TypeOK, TranscribedHasTranscript
<1> QED BY <1>2, <1>3, <1>4

LEMMA ApiStepTranscript ==
    ASSUME TranscriptInv, TypeOK', NEW m \in Meetings, ApiStep(m)
    PROVE  TranscriptInv'
<1> USE DEF meetingVars
<1>1. TypeOK /\ TranscribedHasTranscript
  BY DEF TranscriptInv
<1>2. ASSUME NEW st \in {"RECORDED", "DISCARDED"}, SetState(m, st), state[m] # "GONE",
             UNCHANGED <<output, removed, workerVars>>
      PROVE  TranscriptInv'
  <2>1. TranscribedHasTranscript'
    BY <1>1, <1>2 DEF SetState, TypeOK, TranscribedHasTranscript
  <2>2. \A n \in Meetings : state'[n] # "GONE" => state[n] # "GONE"
    BY <1>1, <1>2 DEF SetState, TypeOK
  <2> QED BY <1>2, <2>1, <2>2, TranscriptStays
<1>3. CASE UNCHANGED <<state, output, removed, workerVars>>
  BY <1>1, <1>3, TranscriptStays DEF TranscribedHasTranscript
<1>4. CASE Finish(m) \/ Keep(m)
  BY <1>2, <1>4 DEF Finish, Keep
<1>5. CASE \E s \in JobStage : RetryStage(m, s)
  BY <1>3, <1>5 DEF RetryStage
<1>6. CASE StopTranscription(m)
  <2>1. CASE request_stop_running(m) /\ UNCHANGED <<jobs, rerun, state>>
    BY <1>3, <1>6, <2>1 DEF StopTranscription
  <2>2. CASE settle_stopped(m, state[m])
    <3>1. state[m] \in MeetingState
      BY <1>1, <1>6 DEF StopTranscription, Present, TypeOK
    <3>2. TranscribedHasTranscript'
      BY <1>1, <1>6, <2>2, <3>1, SettleKeepsTranscript
         DEF StopTranscription, TranscribedHasTranscript
    <3>3. \A n \in Meetings : state'[n] = "GONE" <=> state[n] = "GONE"
      BY <1>1, <2>2, <3>1, SettleTargetType, StateStays DEF settle_stopped
    <3> QED BY <1>6, <3>2, <3>3, TranscriptStays DEF StopTranscription
  <2> QED BY <1>6, <2>1, <2>2 DEF StopTranscription
<1>7. CASE DeleteRequest(m) \/ DeleteCheck(m)
  BY <1>3, <1>7 DEF DeleteRequest, DeleteCheck
<1>8. CASE DeleteFiles(m) \/ DeleteFolder(m) \/ DeleteRow(m)
  <2>1. /\ \/ (FilesGo(m) \/ FolderGoes(m)) /\ UNCHANGED state
           \/ RowGoes(m) /\ UNCHANGED <<output, removed>>
        /\ UNCHANGED workerVars
    BY <1>8 DEF DeleteFiles, DeleteFolder, FolderStays, DeleteRow
  <2> QED BY <2>1, RemovalTranscript, TranscriptStays
<1> QED BY <1>4, <1>5, <1>6, <1>7, <1>8 DEF ApiStep

LEMMA EnvironmentTranscript ==
    ASSUME TranscriptInv, TypeOK', Environment
    PROVE  TranscriptInv'
<1> USE DEF meetingVars
<1>1. CASE UNCHANGED <<state, output, removed, workerVars>>
  BY <1>1, TranscriptStays DEF TranscribedHasTranscript, TranscriptInv
<1>2. CASE Restart
  BY <1>2, TranscriptStays
     DEF Restart, WorkerAt, TranscribedHasTranscript, TranscriptInv
<1>3. CASE Starting
  <2>1. pc' \in {"starting", "sweeping", "swept", "idle"}
    BY <1>3 DEF Starting, Sweep, SweepFiles, SweepFolder, FolderStays, SweepRow,
                StartBackground, ToIdle, WorkerAt, Goto, workerVars
  <2>2. TranscribedHasTranscript'
    <3>1. CASE UNCHANGED <<state, output, removed>>
      BY <3>1 DEF TranscriptInv, TranscribedHasTranscript
    <3>2. CASE SweepFiles \/ SweepFolder \/ SweepRow
      <4>1. cur \in Meetings
        BY DEF TranscriptInv, TypeOK, Job, cur
      <4>2. \/ (FilesGo(cur) \/ FolderGoes(cur)) /\ UNCHANGED state
            \/ RowGoes(cur) /\ UNCHANGED <<output, removed>>
        BY <3>2 DEF SweepFiles, SweepFolder, FolderStays, SweepRow
      <4> QED BY <4>1, <4>2, RemovalTranscript
    <3> QED BY <1>3, <3>1, <3>2 DEF Starting, Sweep, StartBackground
  <2> QED BY <2>1, <2>2 DEF TranscriptInv
<1> QED
  BY <1>1, <1>2, <1>3 DEF Environment, RecordingStarts, RecordingEnds, TimePasses, Lifespan

LEMMA WorkerStepTranscript ==
    ASSUME TranscriptInv, TypeOK', WorkerStep
    PROVE  TranscriptInv'
<1> USE DEF meetingVars
<1>1. /\ TypeOK /\ TranscribedHasTranscript /\ cur \in Meetings
      /\ job.stage \in JobStage /\ before \in MeetingState
  BY DEF TranscriptInv, TypeOK, Job, cur
\* The worker goes back to between two jobs.
<1>2. ASSUME UNCHANGED <<state, output, removed>>,
             pc' \in {"starting", "sweeping", "swept", "idle", "peeked", "claimed"}
      PROVE  TranscriptInv'
  BY <1>2 DEF TranscriptInv, TranscribedHasTranscript
\* Nothing of the meeting is touched and no run goes on to its success.
<1>3. ASSUME UNCHANGED <<state, output, removed>>,
             pc' \notin {"success", "settle", "removing", "emptied"},
             pc' = "finally" => outcome' \notin {"ok", "held"},
             pc' = "failing" => outcome' \in {"permanent", "error"},
             UNCHANGED <<job, before>>,
             pc \notin {"starting", "sweeping", "swept", "idle", "peeked", "claimed"}
      PROVE  TranscriptInv'
  BY <1>3 DEF TranscriptInv, TranscribedHasTranscript, Present, cur
<1>4. ASSUME NEW st \in MeetingState, SetIfLegal(cur, st), UNCHANGED <<output, removed>>,
             UNCHANGED <<job, before, outcome>>,
             pc \notin {"starting", "sweeping", "swept", "idle", "peeked", "claimed"},
             st = "TRANSCRIBED" /\ cur \notin removed => "assemble" \in output[cur],
             pc' \notin {"success", "settle", "failing", "removing", "emptied"},
             pc' = "finally" => outcome \notin {"ok", "held"}
      PROVE  TranscriptInv'
  <2>1. TranscribedHasTranscript'
    BY <1>1, <1>4 DEF SetIfLegal, SetState, TypeOK, TranscribedHasTranscript
  <2>2. cur' = cur /\ (Present(cur)' => Present(cur))
    BY <1>1, <1>4, StateStays DEF Present, cur
  <2> QED BY <1>4, <2>1, <2>2 DEF TranscriptInv
<1>5. CASE Peek
  BY <1>2, <1>5 DEF Peek
<1>6. CASE Claim
  BY <1>2, <1>6 DEF Claim, ToIdle, WorkerAt
<1>7. CASE Begin
  <2>1. CASE Present(cur)
    <3>1. before' = state[cur] /\ pc' = "marking" /\ UNCHANGED <<job, state, output, removed>>
      BY <1>7, <2>1 DEF Begin
    <3> QED BY <1>1, <3>1 DEF TranscriptInv, TranscribedHasTranscript, Present, cur
  <2>2. CASE ~Present(cur)
    BY <1>2, <1>7, <2>2 DEF Begin, ToIdle, WorkerAt
  <2> QED BY <2>1, <2>2
<1>8. CASE MarkRunning
  <2>1. CASE Present(cur)
    <3>1. STAGE_RUNNING_STATE[job.stage] # "TRANSCRIBED"
      BY <1>1 DEF JobStage, STAGE_RUNNING_STATE
    <3> QED BY <1>1, <1>4, <1>8, <2>1, <3>1, StageStatesType DEF MarkRunning, Goto
  <2>2. CASE ~Present(cur)
    BY <1>2, <1>8, <2>2 DEF MarkRunning, ToIdle, WorkerAt
  <2> QED BY <2>1, <2>2
<1>9. CASE StageReturns
  <2>1. output' = [output EXCEPT ![cur] = @ \union {job.stage}] /\ state' = state
        /\ UNCHANGED <<job, before>> /\ pc = "stage"
    BY <1>9 DEF StageReturns, EndStage
  <2>2. pc' \in {"finally", "handle"}
    BY <1>9 DEF StageReturns, EndStage
  <2>3. /\ \A m \in Meetings : output[m] \subseteq output'[m]
        /\ job.stage \in output'[cur]
    BY <1>1, <2>1 DEF TypeOK
  <2>5. /\ removed' \in {removed, removed \ {cur}}
        /\ removed' # removed => "assemble" \in output'[cur]
    BY <1>9, <2>3 DEF StageReturns
  <2>4. TranscribedHasTranscript'
    BY <1>1, <2>1, <2>3, <2>5 DEF TranscribedHasTranscript
  <2>6. Present(cur)' /\ cur' \notin removed' /\ before' = "TRANSCRIBED"
           => "assemble" \in output'[cur]
    BY <1>1, <2>1, <2>3, <2>5 DEF TranscriptInv, Present, cur
  <2> QED BY <1>1, <2>1, <2>2, <2>3, <2>4, <2>6 DEF TranscriptInv, Present, cur
<1>10. CASE StageCancelled \/ StagePreempted \/ StageDefers \/ StageRaises
  <2>1. /\ UNCHANGED <<state, output, removed, job, before>>
        /\ pc = "stage" /\ pc' = "handle"
    BY <1>10 DEF StageCancelled, StagePreempted, StageDefers, StageRaises, EndStage
  <2> QED BY <1>3, <2>1
<1>11. CASE HandleCancelled
  <2>1. CASE cur \notin deleting /\ cur \in stopping /\ Found(job)
    <3>1. settle_stopped(cur, before) /\ UNCHANGED <<output, removed, job, before, outcome>>
          /\ pc = "handle" /\ pc' = "finally" /\ outcome = "cancelled"
      BY <1>11, <2>1 DEF HandleCancelled, Goto
    <3>2. CASE Present(cur)
      <4>1. before = "TRANSCRIBED" /\ cur \notin removed => "assemble" \in output[cur]
        BY <3>1, <3>2 DEF TranscriptInv
      <4>2. SettleTarget(cur, before) \in MeetingState
        BY <1>1, SettleTargetType
      <4>3. SettleTarget(cur, before) = "TRANSCRIBED" /\ cur \notin removed
               => "assemble" \in output[cur]
        BY <4>1 DEF SettleTarget
      <4> QED BY <1>4, <3>1, <4>2, <4>3 DEF settle_stopped
    <3>3. CASE ~Present(cur)
      <4>1. SettleTarget(cur, before) \in MeetingState
        BY <1>1, SettleTargetType
      <4>2. state' = state
        BY <1>1, <3>1, <3>3, <4>1, LegalTransitionsType
           DEF settle_stopped, SetIfLegal, SetState, Present, is_legal, MeetingState,
               TypeOK
      <4> QED BY <1>3, <3>1, <4>2
    <3> QED BY <3>2, <3>3
  <2>2. CASE ~(cur \notin deleting /\ cur \in stopping /\ Found(job))
    BY <1>3, <1>11, <2>2 DEF HandleCancelled, Goto
  <2> QED BY <2>1, <2>2
<1>12. CASE HandlePutBack \/ HandleFailure
  <2>1. /\ UNCHANGED <<state, output, removed, job, before, outcome>> /\ pc = "handle"
        /\ pc' \in {"finally", "failing"}
        /\ pc' = "failing" => outcome \in {"permanent", "error"}
        /\ outcome \notin {"ok", "held"}
    BY <1>12 DEF HandlePutBack, HandleFailure, Goto
  <2> QED BY <1>3, <2>1
<1>13. CASE FailMeeting
  <2>1. /\ UNCHANGED <<output, removed, job, before, outcome>>
        /\ pc = "failing" /\ pc' = "finally"
    BY <1>13 DEF FailMeeting, Goto
  <2>2. outcome \notin {"ok", "held"}
    BY <2>1 DEF TranscriptInv
  <2>3. CASE Present(cur)
    BY <1>4, <1>13, <2>1, <2>2, <2>3 DEF FailMeeting, MeetingState
  <2>4. CASE ~Present(cur)
    BY <1>3, <1>13, <2>1, <2>2, <2>4 DEF FailMeeting
  <2> QED BY <2>3, <2>4
<1>14. ASSUME pc \in {"finally", "removing", "emptied"}, RunEnds, TranscribedHasTranscript',
              \A n \in Meetings :
                 state'[n] # "GONE" /\ n \notin removed'
                    => /\ state[n] # "GONE" /\ n \notin removed
                       /\ output[n] = output'[n]
       PROVE  TranscriptInv'
  <2>1. CASE outcome \in {"ok", "held"}
    <3>1. pc' = "success" /\ UNCHANGED <<job, before, outcome>>
      BY <1>14, <2>1 DEF RunEnds, Goto
    <3> QED BY <1>1, <1>14, <2>1, <3>1 DEF TranscriptInv, Present, cur
  <2>2. CASE outcome \notin {"ok", "held"}
    BY <1>14, <2>2 DEF RunEnds, ToIdle, WorkerAt, TranscriptInv
  <2> QED BY <2>1, <2>2
<1>18. CASE Finally
  <2>1. CASE RunEnds
    BY <1>1, <1>14, <1>18, <2>1 DEF Finally, TranscribedHasTranscript
  <2>2. CASE Goto("removing")
    BY <1>1, <1>18, <2>2
       DEF Finally, Goto, TranscriptInv, TranscribedHasTranscript, Present, cur
  <2> QED BY <1>18, <2>1, <2>2 DEF Finally
<1>19. CASE RemoveFiles \/ RemoveFolder \/ RemoveRow
  <2>1. \/ (FilesGo(cur) \/ FolderGoes(cur)) /\ UNCHANGED state
        \/ RowGoes(cur) /\ UNCHANGED <<output, removed>>
    BY <1>19 DEF RemoveFiles, RemoveFolder, FolderStays, RemoveRow
  <2>2. /\ TranscribedHasTranscript'
        /\ \A n \in Meetings :
              state'[n] # "GONE" /\ n \notin removed'
                 => /\ state[n] # "GONE" /\ n \notin removed
                    /\ output[n] = output'[n]
    BY <1>1, <2>1, RemovalTranscript
  <2>3. pc \in {"removing", "emptied"}
    BY <1>19 DEF RemoveFiles, RemoveFolder, RemoveRow
  <2>4. CASE RunEnds
    BY <1>14, <2>2, <2>4, <2>3
  <2>5. CASE /\ pc = "removing" /\ pc' \in {"removing", "emptied"}
             /\ UNCHANGED <<job, before, outcome>>
    BY <1>1, <2>2, <2>5 DEF TranscriptInv, Present, cur
  <2> QED
    BY <1>19, <2>4, <2>5 DEF RemoveFiles, RemoveFolder, RemoveRow, Goto, workerVars
<1>15. CASE Complete
  <2>1. CASE pc' = "settle" /\ UNCHANGED <<job, before, outcome>>
    BY <1>15, <2>1
       DEF Complete, TranscriptInv, TranscribedHasTranscript, Present, cur
  <2>2. CASE ToIdle
    BY <1>2, <1>15, <2>2 DEF Complete, ToIdle, WorkerAt
  <2> QED BY <1>15, <2>1, <2>2 DEF Complete, Goto
<1>16. CASE SetDone
  <2>1. CASE Present(cur) /\ outcome # "held"
    <3>1. job.stage = "assemble" <=> STAGE_DONE_STATE[job.stage] = "TRANSCRIBED"
      BY <1>1 DEF JobStage, STAGE_DONE_STATE
    <3>2. SetIfLegal(cur, STAGE_DONE_STATE[job.stage]) /\ UNCHANGED <<output, removed>>
          /\ pc = "settle" /\ pc' = "next" /\ UNCHANGED <<job, before, outcome>>
      BY <1>16, <2>1 DEF SetDone, Goto
    <3>3. cur \notin removed => job.stage \in output[cur]
      BY <2>1, <3>2 DEF TranscriptInv
    <3> QED BY <1>1, <1>4, <3>1, <3>2, <3>3, StageStatesType
  <2>2. CASE Present(cur) /\ outcome = "held"
    <3>1. UNCHANGED <<state, output, removed, job, before>> /\ pc = "settle" /\ pc' = "next"
      BY <1>16, <2>2 DEF SetDone, Goto
    <3> QED BY <1>3, <3>1
  <2>3. CASE ~Present(cur)
    BY <1>2, <1>16, <2>3 DEF SetDone, ToIdle, WorkerAt
  <2> QED BY <2>1, <2>2, <2>3
<1>17. CASE EnqueueNext
  BY <1>2, <1>17 DEF EnqueueNext, ToIdle, WorkerAt
<1> QED
  BY <1>5, <1>6, <1>7, <1>8, <1>9, <1>10, <1>11, <1>12, <1>13, <1>14, <1>15, <1>16,
     <1>17, <1>18, <1>19 DEF WorkerStep

\* A meeting is TRANSCRIBED only when its transcript exists, through stops, failures and
\* restarts, unless a removal took files of it and was refused or cut off: whatever else
\* happens to the meeting afterwards.
THEOREM TranscribedMeansTranscript == Spec => []TranscribedHasTranscript
<1>1. Init => TranscriptInv
  BY InitType, PipelineAssumption DEF Init, TranscriptInv, TranscribedHasTranscript
<1>2. TranscriptInv /\ [Next]_vars => TranscriptInv'
  <2> SUFFICES ASSUME TranscriptInv, [Next]_vars
               PROVE  TranscriptInv'
    OBVIOUS
  <2>1. TypeOK'
    BY StepType, PipelineAssumption DEF TranscriptInv
  <2>2. CASE UNCHANGED vars
    BY <2>1, <2>2, TranscriptStays
       DEF vars, meetingVars, TranscriptInv, TranscribedHasTranscript
  <2> QED
    BY <2>1, <2>2, WorkerStepTranscript, ApiStepTranscript, EnvironmentTranscript
       DEF Next
<1>3. TranscriptInv => TranscribedHasTranscript
  BY DEF TranscriptInv
<1> QED BY <1>1, <1>2, <1>3, PTL DEF Spec

(***************************************************************************)
(* Nobody is stranded: a meeting part-way through its processing has a job *)
(* that says so (NotStranded).  For a process that does not die and whose  *)
(* folders can be removed: a death between queue.complete and              *)
(* enqueue_next_stage, or a deletion that fails, leaves such a meeting.    *)
(*                                                                         *)
(* NotStranded alone is not inductive.  That some row exists does not say  *)
(* that its stage will move the meeting on: after a render that ran while  *)
(* the meeting was still RECORDED, nothing would.  So the invariant has to *)
(* say which rows each state leans on (Explained), and, while a run is on  *)
(* its way to completing its own row, that the meeting leans on another,   *)
(* or will on the next stage's (LeadsOn).                                  *)
(***************************************************************************)
LiveState == {"pending", "running", "failed", "cancelled"}

Live(m, s) == jobs[m][s].state \in LiveState

EarlyStages == {"transcribe", "assemble", "summarize"}

Early == {"RECORDED", "TRANSCRIBING", "SUMMARIZING"}
             \union (IF HasProvider THEN {"TRANSCRIBED"} ELSE {})

Unfinished == Early \union {"SUMMARIZED"}

\* The meeting is gone, or going.
Exempt(m) ==
    \/ deletes[m] # "none" \/ m \in marker \/ ~Present(m)
    \/ pc \in {"removing", "emptied"} /\ cur = m

\* The meeting's transcription is to come, or a later stage has no transcript to take.
Redoes(m) == Live(m, "transcribe") \/ "assemble" \notin output[m]

Explained(m) ==
    /\ state[m] \in Early => \E s \in EarlyStages : Live(m, s)
    /\ state[m] = "RECORDED" => Redoes(m)
    /\ state[m] = "SUMMARIZED" => \E s \in JobStage : Live(m, s)

\* The meeting's run may come to complete its row.
Completing(m) ==
    /\ Held(m)
    /\ \/ pc \in {"stage", "success", "settle", "next"}
       \/ pc = "finally" /\ outcome \in {"ok", "held"}

LeadsOn(m) ==
    /\ job.stage = "transcribe" /\ pc = "next" /\ state[m] \in Unfinished
           => state[m] = "TRANSCRIBING" \/ Live(m, "transcribe")
    /\ job.stage = "assemble" /\ state[m] \in Unfinished
           => \/ state[m] = "TRANSCRIBING" /\ pc # "next"
              \/ state[m] = "TRANSCRIBED" /\ pc = "next"
              \/ Live(m, "transcribe")
    /\ job.stage = "summarize"
           => /\ pc # "stage" => "assemble" \in output[m]
              /\ state[m] = "RECORDED" => Redoes(m)
              /\ state[m] = "TRANSCRIBED" => Live(m, "transcribe")
              /\ pc = "next" /\ state[m] \in {"TRANSCRIBING", "SUMMARIZING"}
                     => Live(m, "transcribe")
    /\ job.stage \in {"render", "deliver"}
           => /\ state[m] \in Early => \E s \in EarlyStages : Live(m, s)
              /\ state[m] = "RECORDED" => Redoes(m)
              /\ state[m] = "SUMMARIZED" => job.stage = "render"

\* What the run itself stands on.
RunStands(m) ==
    /\ Found(job)
    /\ pc \notin {"settle", "next"} => Live(m, job.stage)
    /\ pc # "claimed" /\ job.stage = "summarize" /\ before = "RECORDED" => Redoes(m)
    /\ pc = "handle" /\ outcome = "cancelled" => job.stage \in Checkpointed
    /\ pc = "failing" => outcome \notin {"ok", "held"}
    /\ pc \in {"finally", "success", "settle"} /\ outcome = "held"
           => job.stage = "deliver"

GoesOn(m) ==
    /\ "summarize" \in output[m] => "assemble" \in output[m]
    /\ ~Completing(m) => Explained(m)
    /\ Completing(m) => LeadsOn(m)
    /\ Held(m) => RunStands(m)

StrandInv ==
    /\ TypeOK
    /\ \A m \in Meetings : Exempt(m) \/ GoesOn(m)
    /\ \A m \in deleting : Exempt(m)
    /\ pc \notin {"starting", "sweeping", "swept"}
    /\ left["crash"] = 0

\* A step leaves every row of the meeting a row, and every live one live.
KeepsRows(m) ==
    \A s \in JobStage :
        /\ Exists(m, s) => Exists(m, s)' /\ jobs'[m][s].id = jobs[m][s].id
        /\ Live(m, s) => Live(m, s)'

LEMMA SetRowKeeps ==
    ASSUME TypeOK, NEW m \in Meetings, NEW s \in JobStage, NEW row, SetRow(m, s, row),
           row.state \in LiveState, Exists(m, s) => row.id = jobs[m][s].id
    PROVE  Live(m, s)' /\ \A n \in Meetings : KeepsRows(n)
<1>1. \A n \in Meetings, t \in JobStage :
         jobs'[n][t] = IF n = m /\ t = s THEN row ELSE jobs[n][t]
  BY SetRowEffect DEF TypeOK
<1> QED BY <1>1 DEF KeepsRows, Live, LiveState, Exists

LEMMA EnqueueKeeps ==
    ASSUME TypeOK, NEW m \in Meetings, NEW s \in JobStage, enqueue(m, s) \/ retry(m, s)
    PROVE  Live(m, s)' /\ \A n \in Meetings : KeepsRows(n)
<1>1. jobs[m][s] \in Row /\ Absent \in Row
  BY RowType, AbsentType DEF TypeOK
<1> DEFINE again == [jobs[m][s] EXCEPT !.state = "pending", !.due = TRUE]
           fresh == [Absent EXCEPT !.id = nextId, !.state = "pending"]
           redo == [jobs[m][s] EXCEPT !.state = "pending", !.attempts = 0,
                                      !.due = TRUE, !.last_error = "none"]
<1>2. /\ again.state = "pending" /\ again.id = jobs[m][s].id
      /\ redo.state = "pending" /\ redo.id = jobs[m][s].id
      /\ fresh.state = "pending"
  BY <1>1 DEF Row
<1>3. \/ Exists(m, s) /\ (SetRow(m, s, again) \/ SetRow(m, s, redo))
      \/ ~Exists(m, s) /\ SetRow(m, s, fresh)
  BY DEF enqueue, retry
<1> HIDE DEF again, fresh, redo
<1> QED BY <1>2, <1>3, SetRowKeeps DEF LiveState

\* The row of the job in hand, written at the end of a run that did not complete it.
LEMMA UpdateKeeps ==
    ASSUME TypeOK, NEW row, Update(job, row), row.state \in LiveState,
           row.id = RowOf(job).id, UNCHANGED job
    PROVE  Live(cur, job.stage)' /\ \A n \in Meetings : KeepsRows(n)
<1>1. cur \in Meetings /\ job.stage \in JobStage
  BY DEF TypeOK, Job, cur
<1>2. \A n \in Meetings, t \in JobStage :
         jobs'[n][t] = IF n = cur /\ t = job.stage THEN row ELSE jobs[n][t]
  BY <1>1, SetRowEffect DEF TypeOK, Update, cur
<1>3. row.id = jobs[cur][job.stage].id
  BY DEF RowOf, cur
<1>4. /\ jobs'[cur][job.stage] = row
      /\ \A n \in Meetings, t \in JobStage : n # cur \/ t # job.stage
            => jobs'[n][t] = jobs[n][t]
  BY <1>1, <1>2
<1>5. Live(cur, job.stage)'
  BY <1>4 DEF Live, cur
<1>6. ASSUME NEW n \in Meetings, NEW t \in JobStage
      PROVE  /\ Exists(n, t) => Exists(n, t)' /\ jobs'[n][t].id = jobs[n][t].id
             /\ Live(n, t) => Live(n, t)'
  <2>1. CASE n = cur /\ t = job.stage
    BY <1>3, <1>4, <2>1 DEF Exists, Live, LiveState
  <2>2. CASE n # cur \/ t # job.stage
    BY <1>4, <2>2 DEF Exists, Live
  <2> QED BY <2>1, <2>2
<1> QED BY <1>5, <1>6 DEF KeepsRows

\* The moves the stages make from where a meeting leans on a row.
LEMMA LegalMoves ==
    /\ \A st \in {"RECORDED", "TRANSCRIBING", "TRANSCRIBED", "SUMMARIZING", "SUMMARIZED"} :
          is_legal(st, "TRANSCRIBING")
    /\ is_legal("TRANSCRIBING", "TRANSCRIBED") /\ is_legal("TRANSCRIBED", "SUMMARIZING")
    /\ is_legal("TRANSCRIBING", "SUMMARIZED") /\ is_legal("SUMMARIZING", "SUMMARIZED")
    /\ is_legal("SUMMARIZED", "RENDERED")
<1>1. PIPELINE[3] = "TRANSCRIBING" /\ PIPELINE[4] = "TRANSCRIBED"
      /\ PIPELINE[5] = "SUMMARIZING" /\ PIPELINE[6] = "SUMMARIZED"
      /\ PIPELINE[7] = "RENDERED"
  BY DEF PIPELINE
<1>2. \A i \in 3 .. 6 : <<PIPELINE[i], PIPELINE[i + 1]>> \in LEGAL_TRANSITIONS
  BY DEF LEGAL_TRANSITIONS
<1>3. /\ <<PIPELINE[3], PIPELINE[4]>> \in LEGAL_TRANSITIONS
      /\ <<PIPELINE[4], PIPELINE[5]>> \in LEGAL_TRANSITIONS
      /\ <<PIPELINE[5], PIPELINE[6]>> \in LEGAL_TRANSITIONS
      /\ <<PIPELINE[6], PIPELINE[7]>> \in LEGAL_TRANSITIONS
  BY <1>2
<1>4. <<"TRANSCRIBING", "SUMMARIZED">> \in LEGAL_TRANSITIONS
  BY DEF LEGAL_TRANSITIONS
<1>5. ASSUME NEW st \in RETRYABLE_ENTRY
      PROVE  <<st, "TRANSCRIBING">> \in LEGAL_TRANSITIONS
  BY DEF LEGAL_TRANSITIONS
<1> QED BY <1>1, <1>3, <1>4, <1>5 DEF is_legal, RETRYABLE_ENTRY

LEMMA SetIfLegalEffect ==
    ASSUME TypeOK, NEW m \in Meetings, NEW st \in MeetingState, SetIfLegal(m, st)
    PROVE  /\ state'[m] = IF is_legal(state[m], st) THEN st ELSE state[m]
           /\ \A n \in Meetings : n # m => state'[n] = state[n]
BY DEF TypeOK, SetIfLegal, SetState

\* A meeting that stays out of the worker's hands.
LEMMA Bystander ==
    ASSUME NEW n \in Meetings, GoesOn(n), ~Held(n), ~Held(n)', state'[n] = state[n],
           output'[n] = output[n], \A s \in JobStage : Live(n, s) => Live(n, s)'
    PROVE  GoesOn(n)'
<1>1. Explained(n)
  BY DEF GoesOn, Completing
<1>2. Explained(n)'
  BY <1>1 DEF Explained, Redoes, Early, EarlyStages, JobStage
<1> QED BY <1>2 DEF GoesOn, Completing

\* Other threads take a meeting to DISCARDED, or to another state than SUMMARIZED with a
\* live transcription.
MovesOn(m) ==
    \/ state'[m] \in {state[m], "DISCARDED"}
    \/ Live(m, "transcribe")' /\ state'[m] # "SUMMARIZED"

\* What they do to a meeting besides is to add live rows.
LEMMA Undisturbed ==
    ASSUME TypeOK, NEW m \in Meetings, GoesOn(m), UNCHANGED workerVars, KeepsRows(m),
           output'[m] = output[m],
           MovesOn(m)
    PROVE  GoesOn(m)'
<1>1. /\ Held(m)' <=> Held(m)
      /\ Completing(m)' <=> Completing(m)
      /\ UNCHANGED <<pc, job, before, outcome>>
  BY DEF Held, Completing, cur, workerVars
<1>2. Redoes(m) => Redoes(m)'
  BY DEF Redoes, KeepsRows, JobStage
<1>3. \A s \in JobStage : Live(m, s) => Live(m, s)'
  BY DEF KeepsRows
<1>4. "transcribe" \in EarlyStages /\ EarlyStages \subseteq JobStage
  BY DEF EarlyStages, JobStage
<1>5. Early' = Early /\ Unfinished' = Unfinished
  BY DEF Early, Unfinished
<1>6. Explained(m) => Explained(m)'
  BY <1>2, <1>3, <1>4, <1>5 DEF Explained, Redoes, MovesOn, Early
<1>7. LeadsOn(m) /\ Held(m) => LeadsOn(m)'
  <2> SUFFICES ASSUME LeadsOn(m), Held(m)
               PROVE  LeadsOn(m)'
    OBVIOUS
  <2>1. CASE state'[m] = state[m]
    BY <1>1, <1>2, <1>3, <1>4, <1>5, <2>1 DEF LeadsOn
  <2>2. CASE Live(m, "transcribe")' /\ state'[m] # "SUMMARIZED"
    BY <1>1, <1>4, <2>2 DEF LeadsOn, Redoes
  <2>3. CASE state'[m] = "DISCARDED"
    BY <1>1, <1>2, <1>3, <1>5, <2>3 DEF LeadsOn, Unfinished, Early
  <2> QED BY <2>1, <2>2, <2>3 DEF MovesOn
<1>8. Held(m) /\ RunStands(m) => RunStands(m)'
  <2> SUFFICES ASSUME Held(m), RunStands(m)
               PROVE  RunStands(m)'
    OBVIOUS
  <2>1. job.meeting = m /\ job.stage \in JobStage
    BY DEF Held, cur, TypeOK, Job
  <2>2. Found(job)'
    BY <1>1, <2>1 DEF RunStands, Found, KeepsRows, Exists
  <2> QED BY <1>1, <1>2, <1>3, <2>1, <2>2 DEF RunStands
<1>9. Completing(m) => Held(m)
  BY DEF Completing
<1> QED BY <1>1, <1>6, <1>7, <1>8, <1>9 DEF GoesOn

\* A step of another thread: to a meeting that is neither gone nor going it is undisturbing.
LEMMA OthersStrand ==
    ASSUME StrandInv, TypeOK', UNCHANGED workerVars, left'["crash"] = left["crash"],
           \A m \in Meetings : Exempt(m) => Exempt(m)',
           \A m \in deleting' : m \in deleting \/ Exempt(m)',
           \A m \in Meetings :
              Exempt(m)' \/ (KeepsRows(m) /\ output'[m] = output[m] /\ MovesOn(m))
    PROVE  StrandInv'
<1>1. \A m \in Meetings : Exempt(m)' \/ GoesOn(m)'
  <2> SUFFICES ASSUME NEW m \in Meetings, ~Exempt(m)'
               PROVE  GoesOn(m)'
    OBVIOUS
  <2>1. TypeOK /\ GoesOn(m) /\ KeepsRows(m) /\ output'[m] = output[m] /\ MovesOn(m)
    BY DEF StrandInv
  <2> QED BY <2>1, Undisturbed
<1>2. deleting' \subseteq Meetings /\ deleting \subseteq Meetings
  BY DEF StrandInv, TypeOK, QueueTypeOK
<1>3. (\A m \in deleting' : Exempt(m)') /\ pc' \notin {"starting", "sweeping", "swept"}
  BY <1>2 DEF StrandInv, workerVars
<1> QED BY <1>1, <1>3 DEF StrandInv

LEMMA ApiStepStrand ==
    ASSUME StrandInv, TypeOK', ~PurgeFails, NEW m \in Meetings, ApiStep(m)
    PROVE  StrandInv'
<1> USE DEF meetingVars, queueVars
<1>1. TypeOK /\ "transcribe" \in JobStage /\ left \in [Events -> Nat] /\ "crash" \in Events
      /\ "RECORDED" \in MeetingState /\ "DISCARDED" \in MeetingState
  BY DEF StrandInv, TypeOK, JobStage, Events, MeetingState
<1>2. ASSUME NEW e \in Events, e # "crash", Spend(e)
      PROVE  left'["crash"] = left["crash"]
  BY <1>1, <1>2 DEF Spend
<1>3. {"keep", "retry", "stop", "delete"} \subseteq Events \ {"crash"}
  BY DEF Events
<1>4. ASSUME \A n \in Meetings : jobs'[n] = jobs[n]
      PROVE  \A n \in Meetings : KeepsRows(n)
  BY <1>4 DEF KeepsRows, Live, Exists
\* A recording has ended, or is kept after all.
<1>5. CASE Finish(m) \/ Keep(m)
  <2>1. PICK st \in {"RECORDED", "DISCARDED"} : SetState(m, st)
    BY <1>5 DEF Finish, Keep
  <2>2. /\ UNCHANGED <<deletes, marker, output, deleting, workerVars>>
        /\ state[m] # "GONE" /\ state'[m] = st
        /\ \A n \in Meetings : n # m => state'[n] = state[n]
    BY <1>1, <1>5, <2>1 DEF Finish, Keep, SetState, TypeOK
  <2>3. left'["crash"] = left["crash"]
    BY <1>2, <1>3, <1>5 DEF Finish, Keep
  <2>4. (\A n \in Meetings : KeepsRows(n)) /\ (st = "RECORDED" => Live(m, "transcribe")')
    <3>1. CASE enqueue(m, "transcribe")
      BY <1>1, <3>1, EnqueueKeeps
    <3>2. CASE UNCHANGED jobs /\ SetState(m, "DISCARDED")
      <4>1. st = "DISCARDED"
        BY <1>1, <2>2, <3>2 DEF SetState, TypeOK
      <4> QED BY <1>4, <3>2, <4>1
    <3> QED BY <1>5, <3>1, <3>2 DEF Finish, Keep
  <2> QED
    BY <2>2, <2>3, <2>4, OthersStrand DEF Exempt, Present, MovesOn, workerVars, cur
\* A retry adds a live row.
<1>6. ASSUME NEW s \in JobStage, RetryStage(m, s)
      PROVE  StrandInv'
  <2>1. \A n \in Meetings : KeepsRows(n)
    BY <1>1, <1>6, EnqueueKeeps DEF RetryStage
  <2>2. left'["crash"] = left["crash"]
    BY <1>2, <1>3, <1>6 DEF RetryStage
  <2>3. UNCHANGED <<state, output, marker, deletes, deleting, workerVars>>
    BY <1>6 DEF RetryStage
  <2> QED BY <2>1, <2>2, <2>3, OthersStrand DEF Exempt, Present, MovesOn, workerVars, cur
\* A stop leaves its row behind, and the state as it was or explained by that row.
<1>7. CASE StopTranscription(m)
  <2>1. UNCHANGED <<output, marker, deletes, deleting, workerVars>>
    BY <1>7 DEF StopTranscription
  <2>2. left'["crash"] = left["crash"]
    BY <1>2, <1>3, <1>7 DEF StopTranscription
  <2>3. CASE UNCHANGED <<jobs, state>>
    BY <1>4, <2>1, <2>2, <2>3, OthersStrand DEF Exempt, Present, MovesOn, workerVars, cur
  <2>4. CASE request_stop_waiting(m) /\ settle_stopped(m, state[m])
    <3>1. jobs[m]["transcribe"] \in Row
      BY <1>1, RowType DEF TypeOK
    <3>2. LET row == StoppedRow(jobs[m]["transcribe"])
          IN  row.state = "cancelled" /\ row.id = jobs[m]["transcribe"].id
      BY <3>1 DEF StoppedRow, Row
    <3>3. Live(m, "transcribe")' /\ \A n \in Meetings : KeepsRows(n)
      BY <1>1, <2>4, <3>2, SetRowKeeps DEF request_stop_waiting, LiveState
    <3>4. state[m] \in MeetingState
      BY <1>7, <1>1 DEF StopTranscription, Present, TypeOK
    <3>5. SettleTarget(m, state[m]) \in {state[m], "TRANSCRIBED", "RECORDED"}
      BY DEF SettleTarget
    <3>6. /\ state'[m] \in {state[m], "TRANSCRIBED", "RECORDED"}
          /\ \A n \in Meetings : n # m => state'[n] = state[n]
          /\ state[m] # "GONE"
      BY <1>1, <2>4, <3>4, <3>5, SettleTargetType, SetIfLegalEffect
         DEF settle_stopped, MeetingState
    <3> QED BY <2>1, <2>2, <3>3, <3>6, OthersStrand DEF Exempt, Present, MovesOn, workerVars, cur
  <2> QED BY <1>7, <2>3, <2>4 DEF StopTranscription
\* A deletion leaves the meeting going, until it is gone.
<1>8. CASE DeleteRequest(m)
  <2>1. /\ UNCHANGED <<state, output, marker, workerVars>> /\ deletes'[m] = "requested"
        /\ \A n \in Meetings : n # m => deletes'[n] = deletes[n] /\ jobs'[n] = jobs[n]
        /\ deleting' = deleting \union {m}
    BY <1>1, <1>8 DEF DeleteRequest, request_delete, TypeOK, QueueTypeOK
  <2>2. left'["crash"] = left["crash"]
    BY <1>2, <1>3, <1>8 DEF DeleteRequest
  <2>3. Exempt(m)' /\ \A n \in Meetings : Exempt(n) => Exempt(n)'
    BY <2>1 DEF Exempt, Present, workerVars, cur
  <2>4. \A n \in Meetings : n # m => KeepsRows(n)
    BY <2>1 DEF KeepsRows, Live, Exists
  <2> QED BY <2>1, <2>2, <2>3, <2>4, OthersStrand DEF MovesOn
<1>9. CASE DeleteCheck(m)
  <2>1. /\ UNCHANGED <<jobs, deleting, state, output, workerVars, left>>
        /\ marker \subseteq marker' /\ (deletes'[m] # "none" \/ m \in marker')
        /\ \A n \in Meetings : n # m => deletes'[n] = deletes[n]
    BY <1>1, <1>9 DEF DeleteCheck, TypeOK
  <2>2. Exempt(m)' /\ \A n \in Meetings : Exempt(n) => Exempt(n)'
    BY <2>1 DEF Exempt, Present, workerVars, cur
  <2> QED BY <1>4, <2>1, <2>2, OthersStrand DEF MovesOn
<1>10. CASE DeleteFiles(m) \/ DeleteFolder(m) \/ DeleteRow(m)
  <2>1. /\ deleting' \subseteq deleting
        /\ UNCHANGED <<workerVars, left>>
        /\ \A n \in Meetings : n # m => deletes'[n] = deletes[n]
    BY <1>1, <1>10 DEF DeleteFiles, DeleteFolder, FolderStays, DeleteRow, TypeOK
  <2>2. /\ deletes'[m] # "none" \/ state'[m] = "GONE"
        /\ \A n \in Meetings : n # m => /\ state'[n] = state[n] /\ output'[n] = output[n]
                                        /\ jobs'[n] = jobs[n]
                                        /\ n \in marker => n \in marker'
    <3>1. CASE DeleteFiles(m) \/ DeleteFolder(m)
      BY <1>1, <3>1, FilesGoEffect
         DEF DeleteFiles, DeleteFolder, FolderGoes, FolderStays, TypeOK
    <3>2. CASE DeleteRow(m)
      BY <1>1, <3>2, RowGoesEffect DEF DeleteRow
    <3> QED BY <1>10, <3>1, <3>2
  <2>3. Exempt(m)' /\ \A n \in Meetings : Exempt(n) => Exempt(n)'
    BY <2>1, <2>2 DEF Exempt, Present, workerVars, cur
  <2>4. \A n \in Meetings : n # m => KeepsRows(n)
    BY <2>2 DEF KeepsRows, Live, Exists
  <2> QED BY <2>1, <2>2, <2>3, <2>4, OthersStrand DEF MovesOn
<1> QED BY <1>5, <1>6, <1>7, <1>8, <1>9, <1>10 DEF ApiStep

\* A recording, the clock and the server's start change no more than what waits for what;
\* the process does not die.
LEMMA EnvironmentStrand ==
    ASSUME StrandInv, TypeOK', Environment
    PROVE  StrandInv'
<1> USE DEF meetingVars, queueVars
<1>1. /\ TypeOK /\ left \in [Events -> Nat] /\ left["crash"] = 0
      /\ pc \notin {"starting", "sweeping", "swept"}
  BY DEF StrandInv, TypeOK
<1>2. ~Restart /\ ~Starting
  BY <1>1 DEF Restart, Spend, Starting, Sweep, SweepFiles, SweepFolder, FolderStays,
              SweepRow, StartBackground
<1>3. ASSUME UNCHANGED <<deleting, state, output, marker, deletes, workerVars>>,
             left'["crash"] = left["crash"], \A n \in Meetings : KeepsRows(n)
      PROVE  StrandInv'
  BY <1>3, OthersStrand DEF Exempt, Present, MovesOn, workerVars, cur
<1>4. jobs' = jobs => \A n \in Meetings : KeepsRows(n)
  BY DEF KeepsRows, Live, Exists
<1>5. CASE RecordingStarts \/ RecordingEnds
  <2>1. left'["crash"] = left["crash"]
    BY <1>1, <1>5 DEF RecordingStarts, RecordingEnds, Spend, Events
  <2> QED BY <1>3, <1>4, <1>5, <2>1 DEF RecordingStarts, RecordingEnds
<1>6. ASSUME NEW m \in Meetings, NEW s \in JobStage, TimePasses(m, s)
      PROVE  StrandInv'
  <2>1. jobs[m][s] \in Row
    BY <1>1, RowType DEF TypeOK
  <2> DEFINE row == [jobs[m][s] EXCEPT !.due = TRUE]
  <2>2. row.state = "pending" /\ row.id = jobs[m][s].id
    BY <1>6, <2>1 DEF TimePasses, BecomeDue, Row
  <2>3. SetRow(m, s, row)
    BY <1>6 DEF TimePasses, BecomeDue
  <2> HIDE DEF row
  <2>4. \A n \in Meetings : KeepsRows(n)
    BY <1>1, <2>2, <2>3, SetRowKeeps DEF LiveState
  <2> QED BY <1>3, <1>6, <2>4 DEF TimePasses
<1>7. CASE Lifespan
  <2>1. jobs' = reset_running
    BY <1>7 DEF Lifespan
  <2>2. ASSUME NEW n \in Meetings, NEW t \in JobStage
        PROVE  /\ Exists(n, t) => Exists(n, t)' /\ jobs'[n][t].id = jobs[n][t].id
               /\ Live(n, t) => Live(n, t)'
    <3>1. jobs'[n][t] = IF jobs[n][t].state = "running"
                        THEN [jobs[n][t] EXCEPT !.state = "pending"] ELSE jobs[n][t]
      BY <2>1 DEF reset_running
    <3>2. jobs[n][t] \in Row
      BY <1>1, RowType DEF TypeOK
    <3> QED BY <3>1, <3>2 DEF Exists, Live, LiveState, Row
  <2> QED BY <1>3, <1>7, <2>2 DEF Lifespan, KeepsRows
<1> QED BY <1>2, <1>5, <1>6, <1>7 DEF Environment

\* A step of the worker touches the meeting of the job in hand and no other.
LEMMA WorkerStrand ==
    ASSUME StrandInv, TypeOK', NEW m \in Meetings,
           pc' \notin {"starting", "sweeping", "swept"},
           UNCHANGED deletes, left'["crash"] = left["crash"], deleting' \subseteq deleting,
           \A n \in Meetings : Exempt(n) => Exempt(n)',
           \A n \in Meetings : n # m =>
              /\ ~Held(n) /\ ~Held(n)'
              /\ state'[n] = state[n] /\ output'[n] = output[n] /\ jobs'[n] = jobs[n],
           ~Exempt(m)' /\ GoesOn(m) => GoesOn(m)'
    PROVE  StrandInv'
<1>1. ASSUME NEW n \in Meetings, ~Exempt(n)'
      PROVE  GoesOn(n)'
  <2>1. GoesOn(n)
    BY <1>1 DEF StrandInv
  <2>2. CASE n = m
    BY <1>1, <2>1, <2>2
  <2>3. CASE n # m
    BY <2>1, <2>3, Bystander DEF Live
  <2> QED BY <2>2, <2>3
<1>2. deleting \subseteq Meetings
  BY DEF StrandInv, TypeOK, QueueTypeOK
<1> QED BY <1>1, <1>2 DEF StrandInv

\* With the row of the job in hand live, a run that ends leaves its meeting explained.
LEMMA EndsExplained ==
    ASSUME NEW m \in Meetings, GoesOn(m), Held(m), pc = "stage",
           job.stage \in JobStage
    PROVE  Explained(m)
<1>1. LeadsOn(m) /\ Live(m, job.stage)
  BY DEF GoesOn, Completing, RunStands
<1> QED
  BY <1>1 DEF LeadsOn, Explained, Redoes, Early, Unfinished, EarlyStages, JobStage

\* The stages, by what they do to their meeting as a run begins ...
LEMMA MarkLeadsOn ==
    ASSUME TypeOK, NEW m \in Meetings, Explained(m), job.stage \in JobStage,
           SetIfLegal(m, STAGE_RUNNING_STATE[job.stage]),
           UNCHANGED <<jobs, output, job>>, pc' = "stage"
    PROVE  LeadsOn(m)'
<1>1. /\ state'[m] = IF is_legal(state[m], STAGE_RUNNING_STATE[job.stage])
                     THEN STAGE_RUNNING_STATE[job.stage] ELSE state[m]
      /\ STAGE_RUNNING_STATE["assemble"] = "TRANSCRIBING"
      /\ STAGE_RUNNING_STATE["summarize"] = "SUMMARIZING"
      /\ STAGE_RUNNING_STATE["render"] = "SUMMARIZED"
      /\ STAGE_RUNNING_STATE["deliver"] = "RENDERED"
  BY SetIfLegalEffect, StageStatesType DEF STAGE_RUNNING_STATE
<1>2. Early' = Early /\ Unfinished' = Unfinished
  BY DEF Early, Unfinished
<1>3. \A s : Live(m, s)' <=> Live(m, s)
  BY DEF Live
<1>4. Redoes(m)' <=> Redoes(m)
  BY DEF Redoes, Live
<1>5. CASE job.stage = "transcribe"
  BY <1>5 DEF LeadsOn
<1>6. CASE job.stage = "assemble"
  <2>1. state'[m] \in Unfinished => state'[m] = "TRANSCRIBING"
    BY <1>1, <1>6, LegalMoves DEF Unfinished, Early
  <2> QED BY <1>2, <1>6, <2>1 DEF LeadsOn
<1>7. CASE job.stage = "summarize"
  <2>1. state'[m] # "TRANSCRIBED" /\ (state'[m] = "RECORDED" => state[m] = "RECORDED")
    BY <1>1, <1>7, LegalMoves
  <2> QED BY <1>4, <1>7, <2>1 DEF LeadsOn, Explained
<1>8. CASE job.stage \in {"render", "deliver"}
  <2>1. /\ state'[m] \in Early => state'[m] = state[m]
        /\ state'[m] = "SUMMARIZED" => job.stage = "render"
    BY <1>1, <1>8, LegalMoves DEF Early
  <2>2. state'[m] = "RECORDED" => state'[m] \in Early
    BY DEF Early
  <2> QED BY <1>2, <1>3, <1>4, <1>8, <2>1, <2>2 DEF LeadsOn, Explained
<1> QED BY <1>5, <1>6, <1>7, <1>8 DEF JobStage

\* ... as it is done ...
LEMMA DoneLeadsOn ==
    ASSUME TypeOK, NEW m \in Meetings, LeadsOn(m), job.stage \in JobStage, pc = "settle",
           \/ SetIfLegal(m, STAGE_DONE_STATE[job.stage])
           \/ job.stage = "deliver" /\ UNCHANGED state,
           UNCHANGED <<jobs, output, job>>, pc' = "next"
    PROVE  LeadsOn(m)'
<1>1. /\ \/ state'[m] = IF is_legal(state[m], STAGE_DONE_STATE[job.stage])
                        THEN STAGE_DONE_STATE[job.stage] ELSE state[m]
         \/ job.stage = "deliver" /\ state'[m] = state[m]
      /\ STAGE_DONE_STATE["transcribe"] = "TRANSCRIBING"
      /\ STAGE_DONE_STATE["assemble"] = "TRANSCRIBED"
      /\ STAGE_DONE_STATE["summarize"] = "SUMMARIZED"
      /\ STAGE_DONE_STATE["render"] = "RENDERED"
      /\ STAGE_DONE_STATE["deliver"] = "DELIVERED"
  BY SetIfLegalEffect, StageStatesType DEF STAGE_DONE_STATE
<1>2. Early' = Early /\ Unfinished' = Unfinished
  BY DEF Early, Unfinished
<1>3. \A s : Live(m, s)' <=> Live(m, s)
  BY DEF Live
<1>4. Redoes(m)' <=> Redoes(m)
  BY DEF Redoes, Live
<1>5. CASE job.stage = "transcribe"
  <2>1. state'[m] \in Unfinished => state'[m] = "TRANSCRIBING"
    BY <1>1, <1>5, LegalMoves DEF Unfinished, Early
  <2> QED BY <1>2, <1>5, <2>1 DEF LeadsOn
<1>6. CASE job.stage = "assemble"
  <2>1. state'[m] \in Unfinished =>
           \/ state'[m] = "TRANSCRIBED"
           \/ state[m] \in Unfinished /\ state[m] # "TRANSCRIBING"
    BY <1>1, <1>6, LegalMoves
  <2>2. state[m] \in Unfinished /\ state[m] # "TRANSCRIBING" => Live(m, "transcribe")
    BY <1>6 DEF LeadsOn
  <2> QED BY <1>2, <1>3, <1>6, <2>1, <2>2 DEF LeadsOn
<1>7. CASE job.stage = "summarize"
  <2>1. /\ state'[m] \notin {"TRANSCRIBING", "SUMMARIZING"}
        /\ state'[m] \in {"RECORDED", "TRANSCRIBED"} => state'[m] = state[m]
    BY <1>1, <1>7, LegalMoves
  <2>2. "assemble" \in output'[m]
    BY <1>7 DEF LeadsOn
  <2> QED BY <1>3, <1>4, <1>7, <2>1, <2>2 DEF LeadsOn
<1>8. CASE job.stage \in {"render", "deliver"}
  <2>1. state'[m] \in Early \union {"SUMMARIZED"} => state'[m] = state[m]
    BY <1>1, <1>8 DEF Early
  <2>2. state'[m] = "RECORDED" => state'[m] \in Early
    BY DEF Early
  <2> QED BY <1>2, <1>3, <1>4, <1>8, <2>1, <2>2 DEF LeadsOn
<1> QED BY <1>5, <1>6, <1>7, <1>8 DEF JobStage

\* The place of each stage in the order.
LEMMA StageIndices ==
    /\ Index("transcribe") = 1 /\ Index("assemble") = 2 /\ Index("summarize") = 3
    /\ Index("render") = 4 /\ Index("deliver") = 5
<1>1. STAGE_ORDER[1] = "transcribe" /\ STAGE_ORDER[2] = "assemble"
      /\ STAGE_ORDER[3] = "summarize" /\ STAGE_ORDER[4] = "render"
      /\ STAGE_ORDER[5] = "deliver"
  BY DEF STAGE_ORDER
<1>2. \A i \in 1 .. 5 : i = 1 \/ i = 2 \/ i = 3 \/ i = 4 \/ i = 5
  OBVIOUS
<1>3. ASSUME NEW k \in 1 .. 5
      PROVE  Index(STAGE_ORDER[k]) = k
  <2>1. \E i \in 1 .. 5 : STAGE_ORDER[i] = STAGE_ORDER[k]
    OBVIOUS
  <2>2. /\ Index(STAGE_ORDER[k]) \in 1 .. 5
        /\ STAGE_ORDER[Index(STAGE_ORDER[k])] = STAGE_ORDER[k]
    BY <2>1 DEF Index
  <2>3. \A i \in 1 .. 5 : STAGE_ORDER[i] = STAGE_ORDER[k] => i = k
    BY <1>1, <1>2
  <2> QED BY <2>2, <2>3
<1> QED BY <1>1, <1>3

LEMMA NextStages ==
    /\ next_stage("transcribe") = "assemble" /\ next_stage("assemble") = "summarize"
    /\ next_stage("summarize") = "render" /\ next_stage("render") = "deliver"
    /\ \A s \in JobStage : Index(s) + 1 = Index("summarize") => s = "assemble"
<1>1. STAGE_ORDER[1] = "transcribe" /\ STAGE_ORDER[2] = "assemble"
      /\ STAGE_ORDER[3] = "summarize" /\ STAGE_ORDER[4] = "render"
      /\ STAGE_ORDER[5] = "deliver"
  BY DEF STAGE_ORDER
<1> QED BY <1>1, StageIndices DEF next_stage, JobStage

\* ... and as the next one is queued.
LEMMA QueuedExplained ==
    ASSUME TypeOK, NEW m \in Meetings, LeadsOn(m), job.stage \in JobStage, pc = "next",
           UNCHANGED <<state, output>>,
           \A s \in JobStage : Live(m, s) => Live(m, s)',
           HasNext => \E s \in JobStage : s = next_stage(job.stage) /\ Live(m, s)'
    PROVE  Explained(m)'
<1>1. Early' = Early /\ Redoes(m) => Redoes(m)'
  BY DEF Early, Redoes, JobStage
<1>2. Explained(m)' <=>
         /\ state[m] \in Early => \E s \in EarlyStages : Live(m, s)'
         /\ state[m] = "RECORDED" => Redoes(m)'
         /\ state[m] = "SUMMARIZED" => \E s \in JobStage : Live(m, s)'
  BY DEF Explained, Early
<1>3. Live(m, "transcribe") => Explained(m)'
  BY <1>2 DEF Redoes, EarlyStages, JobStage
<1>4. CASE job.stage = "transcribe"
  <2>1. Live(m, "assemble")'
    BY <1>4, NextStages DEF HasNext
  <2>2. state[m] \in Unfinished => state[m] = "TRANSCRIBING" \/ Live(m, "transcribe")
    BY <1>4 DEF LeadsOn
  <2> QED BY <1>2, <1>3, <2>1, <2>2 DEF EarlyStages, JobStage, Unfinished, Early
<1>5. CASE job.stage = "assemble"
  <2>1. HasProvider => Live(m, "summarize")'
    BY <1>5, NextStages DEF HasNext
  <2>2. state[m] \in Unfinished => state[m] = "TRANSCRIBED" \/ Live(m, "transcribe")
    BY <1>5 DEF LeadsOn
  <2>3. state[m] = "TRANSCRIBED" /\ state[m] \in Early => HasProvider
    BY DEF Early
  <2> QED BY <1>2, <1>3, <2>1, <2>2, <2>3 DEF EarlyStages, JobStage, Unfinished, Early
<1>6. CASE job.stage = "summarize"
  <2>1. Live(m, "render")'
    BY <1>6, NextStages DEF HasNext
  <2>2. state[m] \in Early => Live(m, "transcribe")
    BY <1>6 DEF LeadsOn, Redoes, Early
  <2>3. state[m] = "RECORDED" => state[m] \in Early
    BY DEF Early
  <2> QED BY <1>2, <1>3, <2>1, <2>2, <2>3 DEF JobStage
<1>7. CASE job.stage \in {"render", "deliver"}
  <2>1. job.stage = "render" => Live(m, "deliver")'
    BY <1>7, NextStages DEF HasNext
  <2>2. /\ state[m] \in Early => \E s \in EarlyStages : Live(m, s)
        /\ state[m] = "RECORDED" => Redoes(m)
        /\ state[m] = "SUMMARIZED" => job.stage = "render"
    BY <1>7 DEF LeadsOn
  <2> QED BY <1>1, <1>2, <2>1, <2>2 DEF EarlyStages, JobStage
<1> QED BY <1>4, <1>5, <1>6, <1>7 DEF JobStage

LEMMA WorkerStepStrand ==
    ASSUME StrandInv, TypeOK', PipelineAssumption, ~PurgeFails, WorkerStep
    PROVE  StrandInv'
<1> USE DEF meetingVars, queueVars
<1>1. PICK m \in Meetings : m = cur
  BY DEF StrandInv, TypeOK, Job, cur
<1>2. /\ TypeOK /\ job.stage \in JobStage /\ before \in MeetingState
      /\ job.meeting = m
      /\ RowOf(job) \in Row /\ RowOf(job) = jobs[m][job.stage]
      /\ left \in [Events -> Nat] /\ left["crash"] = 0
  BY <1>1, RowType DEF StrandInv, TypeOK, Job, cur, RowOf
<1>3. \A n \in Meetings : n # m => ~Held(n)
  BY <1>1 DEF Held
<1>4. Exempt(m) \/ GoesOn(m)
  BY DEF StrandInv
\* A step that removes nobody.
<1>5. ASSUME UNCHANGED <<deletes, marker, deleting>>,
             pc' \notin {"starting", "sweeping", "swept"},
             {pc, pc'} \cap {"removing", "emptied"} = {},
             left'["crash"] = left["crash"],
             \A n \in Meetings : state'[n] = "GONE" <=> state[n] = "GONE",
             \A n \in Meetings : n # m =>
                state'[n] = state[n] /\ output'[n] = output[n] /\ jobs'[n] = jobs[n],
             cur' = m \/ pc' \in {"idle", "peeked"},
             ~Exempt(m) /\ GoesOn(m) => GoesOn(m)'
      PROVE  StrandInv'
  <2>1. \A n \in Meetings : Exempt(n)' <=> Exempt(n)
    BY <1>5 DEF Exempt, Present
  <2>2. \A n \in Meetings : n # m => ~Held(n)'
    BY <1>5 DEF Held
  <2> QED BY <1>2, <1>3, <1>5, <2>1, <2>2, WorkerStrand
\* The worker lets go of a meeting that leans on its rows.
<1>6. ASSUME UNCHANGED <<state, output, deletes, marker, deleting, left>>,
             pc' \in {"idle", "peeked"}, pc \notin {"removing", "emptied"},
             \A n \in Meetings : n # m => jobs'[n] = jobs[n],
             ~Exempt(m) /\ GoesOn(m) => Explained(m)'
      PROVE  StrandInv'
  <2>1. ~Held(m)' /\ ~Completing(m)'
    BY <1>6 DEF Held, Completing
  <2>2. ~Exempt(m) /\ GoesOn(m) => GoesOn(m)'
    BY <1>6, <2>1 DEF GoesOn
  <2> QED BY <1>5, <1>6, <2>2
<1>7. ASSUME UNCHANGED <<jobs, state, output>>, Explained(m)
      PROVE  Explained(m)'
  BY <1>7 DEF Explained, Redoes, Live, Early
\* It goes on with a run that is not, or not yet, on its way to complete its row.
<1>8. ASSUME UNCHANGED <<output, deletes, marker, deleting, job, before>>,
             left'["crash"] = left["crash"],
             \A n \in Meetings : state'[n] = "GONE" <=> state[n] = "GONE",
             \A n \in Meetings : n # m =>
                state'[n] = state[n] /\ jobs'[n] = jobs[n],
             pc' \in {"handle", "failing", "finally"},
             pc \notin {"claimed", "removing", "emptied", "settle", "next"},
             Held(m), KeepsRows(m),
             pc' = "handle" /\ outcome' = "cancelled" => job.stage \in Checkpointed,
             ~Exempt(m) /\ GoesOn(m) =>
                /\ Explained(m)'
                /\ pc' \in {"failing", "finally"} => outcome' \notin {"ok", "held"}
      PROVE  StrandInv'
  <2>1. cur' = m
    BY <1>1, <1>8 DEF cur
  <2>2. ~Exempt(m) /\ GoesOn(m) => GoesOn(m)'
    <3> SUFFICES ASSUME ~Exempt(m), GoesOn(m)
                 PROVE  GoesOn(m)'
      OBVIOUS
    <3>1. RunStands(m)
      BY <1>8 DEF GoesOn
    <3>2. Found(job)' /\ Live(m, job.stage)'
      BY <1>2, <1>8, <3>1 DEF RunStands, Found, KeepsRows, Exists
    <3>3. Redoes(m) => Redoes(m)'
      BY <1>8 DEF Redoes, KeepsRows, JobStage
    <3>4. RunStands(m)'
      BY <1>8, <3>1, <3>2, <3>3 DEF RunStands
    <3>5. ~Completing(m)'
      BY <1>8 DEF Completing
    <3> QED BY <1>8, <3>4, <3>5 DEF GoesOn
  <2> QED BY <1>5, <1>8, <2>1, <2>2
\* Or it goes on with one that is.
<1>9. ASSUME UNCHANGED <<deletes, marker, deleting, job, before, left>>,
             \A n \in Meetings : state'[n] = "GONE" <=> state[n] = "GONE",
             \A n \in Meetings : n # m =>
                state'[n] = state[n] /\ output'[n] = output[n] /\ jobs'[n] = jobs[n],
             pc' \in {"stage", "finally", "success", "settle", "next"},
             pc \notin {"claimed", "removing", "emptied"}, Held(m),
             pc' = "finally" => outcome' \in {"ok", "held"},
             ~Exempt(m) /\ GoesOn(m) =>
                /\ "summarize" \in output'[m] => "assemble" \in output'[m]
                /\ LeadsOn(m)'
                /\ jobs'[m][job.stage].state # "absent"
                /\ jobs'[m][job.stage].id = jobs[m][job.stage].id
                /\ pc' \notin {"settle", "next"} => Live(m, job.stage)'
                /\ job.stage = "summarize" /\ Redoes(m) => Redoes(m)'
                /\ pc' \notin {"stage", "next"} /\ outcome' = "held"
                       => job.stage = "deliver"
      PROVE  StrandInv'
  <2>1. Completing(m)' /\ cur' = m
    BY <1>1, <1>9 DEF Completing, cur, Held
  <2>2. ~Exempt(m) /\ GoesOn(m) => GoesOn(m)'
    <3> SUFFICES ASSUME ~Exempt(m), GoesOn(m)
                 PROVE  GoesOn(m)'
      OBVIOUS
    <3>1. RunStands(m)
      BY <1>9 DEF GoesOn
    <3>2. Found(job)'
      BY <1>2, <1>9, <3>1 DEF RunStands, Found, Exists
    <3>3. RunStands(m)'
      BY <1>9, <3>1, <3>2 DEF RunStands
    <3> QED BY <1>9, <2>1, <3>3 DEF GoesOn
  <2> QED BY <1>5, <1>9, <2>1, <2>2
<1>10. \A n \in Meetings : ~Exempt(n) => Present(n) /\ n \notin deleting
  BY DEF StrandInv, Exempt
<1>11. CASE Peek
  <2>1. /\ pc = "idle" /\ pc' = "peeked"
        /\ UNCHANGED <<jobs, state, output, deletes, marker, deleting, left>>
    BY <1>11 DEF Peek
  <2>2. ~Completing(m)
    BY <2>1 DEF Completing
  <2> QED BY <1>6, <1>7, <2>1, <2>2 DEF GoesOn
<1>12. CASE Claim
  <2>1. pc = "peeked" /\ UNCHANGED <<state, output, deletes, marker, deleting, left>>
    BY <1>12 DEF Claim
  <2>2. ~Completing(m)
    BY <2>1 DEF Completing
  <2>3. CASE UNCHANGED jobs /\ pc' = "idle"
    BY <1>6, <1>7, <2>1, <2>2, <2>3 DEF GoesOn
  <2>4. CASE /\ Found(job) /\ claim(job.meeting, job.stage)
             /\ job' = JobOf(job.meeting, job.stage) /\ pc' = "claimed"
    <3> DEFINE row == [RowOf(job) EXCEPT !.state = "running"]
    <3>1. row.state = "running" /\ row.id = RowOf(job).id
      BY <1>2 DEF Row
    <3>2. SetRow(m, job.stage, row)
      BY <1>2, <2>4 DEF claim
    <3> HIDE DEF row
    <3>3. /\ \A n \in Meetings, t \in JobStage :
                jobs'[n][t] = IF n = m /\ t = job.stage THEN row ELSE jobs[n][t]
          /\ \A n \in Meetings : n # m => jobs'[n] = jobs[n]
      BY <1>2, <3>2, SetRowEffect DEF TypeOK, QueueTypeOK, SetRow
    <3>4. KeepsRows(m)
      BY <1>2, <3>1, <3>2, SetRowKeeps DEF LiveState, Exists
    <3>5. job'.meeting = m /\ job'.stage = job.stage /\ job'.id = jobs[m][job.stage].id
      BY <1>2, <2>4 DEF JobOf
    <3>6. Found(job)' /\ Live(m, job.stage)'
      BY <1>2, <2>4, <3>1, <3>3, <3>5 DEF Found, Exists, Live, LiveState
    <3>7. cur' = m /\ ~Completing(m)' /\ pc' = "claimed"
      BY <2>4, <3>5 DEF cur, Completing
    <3>8. ~Exempt(m) /\ GoesOn(m) => GoesOn(m)'
      <4> SUFFICES ASSUME GoesOn(m)
                   PROVE  GoesOn(m)'
        OBVIOUS
      <4>1. Explained(m)
        BY <2>2 DEF GoesOn
      <4>2. (\A s \in JobStage : Live(m, s) => Live(m, s)') /\ (Redoes(m) => Redoes(m)')
        BY <2>1, <3>4 DEF KeepsRows, Redoes, JobStage
      <4>3. Explained(m)'
        BY <2>1, <4>1, <4>2 DEF Explained, Early, EarlyStages, JobStage
      <4>4. RunStands(m)'
        BY <3>6, <3>7 DEF RunStands
      <4> QED BY <2>1, <3>7, <4>3, <4>4 DEF GoesOn
    <3> QED BY <1>5, <2>1, <3>3, <3>7, <3>8
  <2> QED BY <1>12, <2>3, <2>4 DEF Claim, ToIdle, WorkerAt
<1>13. CASE Begin
  <2>1. CASE Present(m)
    <3>1. /\ pc = "claimed" /\ pc' = "marking" /\ before' = state[m]
          /\ UNCHANGED <<jobs, state, output, deletes, marker, deleting, job, left>>
      BY <1>1, <1>13, <2>1 DEF Begin
    <3>2. ~Completing(m) /\ ~Completing(m)' /\ Held(m) /\ Held(m)' /\ cur' = m
      BY <1>1, <3>1 DEF Completing, Held, cur
    <3>3. ~Exempt(m) /\ GoesOn(m) => GoesOn(m)'
      <4> SUFFICES ASSUME ~Exempt(m), GoesOn(m)
                   PROVE  GoesOn(m)'
        OBVIOUS
      <4>1. Explained(m) /\ RunStands(m)
        BY <3>2 DEF GoesOn
      <4>2. Explained(m)'
        BY <1>7, <3>1, <4>1
      <4>3. RunStands(m)'
        BY <3>1, <4>1 DEF RunStands, Explained, Found, Exists, Live, Redoes
      <4> QED BY <3>1, <3>2, <4>1, <4>2, <4>3 DEF GoesOn
    <3> QED BY <1>5, <3>1, <3>2, <3>3
  <2>2. CASE ~Present(m)
    <3>1. /\ pc = "claimed" /\ pc' = "idle"
          /\ UNCHANGED <<jobs, state, output, deletes, marker, deleting, left>>
      BY <1>1, <1>13, <2>2 DEF Begin, ToIdle, WorkerAt
    <3> QED BY <1>6, <1>10, <2>2, <3>1
  <2> QED BY <2>1, <2>2
<1>14. CASE MarkRunning
  <2>1. CASE Present(m)
    <3>1. /\ pc = "marking" /\ pc' = "stage"
          /\ SetIfLegal(m, STAGE_RUNNING_STATE[job.stage])
          /\ UNCHANGED <<jobs, output, deletes, marker, deleting, job, before, outcome,
                         left>>
      BY <1>1, <1>14, <2>1 DEF MarkRunning, Goto
    <3>2. /\ \A n \in Meetings : state'[n] = "GONE" <=> state[n] = "GONE"
          /\ \A n \in Meetings : n # m => state'[n] = state[n]
      BY <1>2, <3>1, StageStatesType, StateStays, SetIfLegalEffect
    <3>3. ~Completing(m) /\ Held(m)
      BY <1>1, <3>1 DEF Completing, Held
    <3>4. ASSUME ~Exempt(m), GoesOn(m)
          PROVE  LeadsOn(m)' /\ Live(m, job.stage)' /\ Exists(m, job.stage)
      <4>1. Explained(m) /\ RunStands(m)
        BY <3>3, <3>4 DEF GoesOn
      <4>2. LeadsOn(m)'
        BY <1>2, <3>1, <4>1, MarkLeadsOn
      <4> QED BY <1>2, <3>1, <4>1, <4>2 DEF RunStands, Found, Live
    <3> QED
      BY <1>2, <1>9, <3>1, <3>2, <3>3, <3>4 DEF GoesOn, Redoes, Live, Exists
  <2>2. CASE ~Present(m)
    <3>1. /\ pc = "marking" /\ pc' = "idle"
          /\ UNCHANGED <<jobs, state, output, deletes, marker, deleting, left>>
      BY <1>1, <1>14, <2>2 DEF MarkRunning, ToIdle, WorkerAt
    <3> QED BY <1>6, <1>10, <2>2, <3>1
  <2> QED BY <2>1, <2>2
\* What holds in a stage.
<1>15. ASSUME pc = "stage"
       PROVE  /\ Held(m) /\ Completing(m)
              /\ GoesOn(m) => LeadsOn(m) /\ RunStands(m) /\ Explained(m)
                              /\ Live(m, job.stage) /\ Exists(m, job.stage)
  <2>1. Held(m) /\ Completing(m)
    BY <1>1, <1>15 DEF Held, Completing
  <2>2. GoesOn(m) => LeadsOn(m) /\ RunStands(m) /\ Explained(m) /\ Live(m, job.stage)
    BY <1>2, <1>15, <2>1, EndsExplained DEF GoesOn, RunStands
  <2> QED BY <2>1, <2>2 DEF Live, LiveState, Exists
<1>16. CASE StageReturns
  <2>1. /\ pc = "stage" /\ Present(m) /\ InputReady
        /\ output' = [output EXCEPT ![m] = @ \union {job.stage}]
        /\ UNCHANGED <<jobs, state, deletes, marker, deleting, job, before, left>>
        /\ outcome' = "cancelled" <=> m \in deleting
        /\ outcome' = "held" => job.stage = "deliver"
        /\ pc' = IF outcome' = "cancelled" THEN "handle" ELSE "finally"
        /\ pc' = "finally" => outcome' \in {"ok", "held"}
    BY <1>1, <1>16 DEF StageReturns, EndStage
  <2>2. /\ output'[m] = output[m] \union {job.stage}
        /\ \A n \in Meetings : n # m => output'[n] = output[n]
    BY <1>2, <2>1 DEF TypeOK
  <2>3. CASE m \in deleting
    <3>1. cur' = m
      BY <1>1, <2>1 DEF cur
    <3> QED BY <1>5, <1>10, <2>1, <2>2, <2>3, <3>1
  <2>4. CASE m \notin deleting
    <3>1. GoesOn(m) /\ job.stage = "summarize" => "assemble" \in output[m]
      <4>1. cur = m
        BY <1>1
      <4> QED BY <2>1, <4>1, NextStages DEF InputReady, GoesOn, TypeOK
    <3>2. ASSUME ~Exempt(m), GoesOn(m)
          PROVE  /\ "summarize" \in output'[m] => "assemble" \in output'[m]
                 /\ LeadsOn(m)'
                 /\ job.stage = "summarize" /\ Redoes(m) => Redoes(m)'
      <4>1. LeadsOn(m)
        BY <1>15, <2>1, <3>2
      <4>2. "summarize" \in output'[m] => "assemble" \in output'[m]
        BY <2>2, <3>1, <3>2 DEF GoesOn
      <4>3. job.stage # "assemble" /\ Redoes(m) => Redoes(m)'
        BY <2>1, <2>2 DEF Redoes, Live
      <4>4. LeadsOn(m)'
        BY <2>1, <2>2, <2>4, <3>1, <3>2, <4>1, <4>3
           DEF LeadsOn, Live, Early, Unfinished
      <4> QED BY <4>2, <4>3, <4>4
    <3>3. Live(m, job.stage)' <=> Live(m, job.stage)
      BY <2>1 DEF Live
    <3> QED BY <1>9, <1>15, <2>1, <2>2, <2>4, <3>2, <3>3 DEF Exists
  <2> QED BY <2>3, <2>4
<1>17. CASE StageCancelled \/ StagePreempted \/ StageDefers \/ StageRaises
  <2>1. /\ pc = "stage" /\ pc' = "handle"
        /\ UNCHANGED <<jobs, state, output, deletes, marker, deleting, job, before>>
        /\ outcome' = "cancelled" => job.stage \in Checkpointed
        /\ outcome' # "held"
    BY <1>17 DEF StageCancelled, StagePreempted, StageDefers, StageRaises, EndStage
  <2>2. left'["crash"] = left["crash"]
    BY <1>2, <1>17
       DEF StageCancelled, StagePreempted, StageDefers, StageRaises, Spend, Events
  <2>3. KeepsRows(m)
    BY <2>1 DEF KeepsRows, Exists, Live
  <2> QED BY <1>7, <1>8, <1>15, <2>1, <2>2, <2>3
\* What holds as a run that did not complete its row is brought to its end.
<1>18. ASSUME pc \in {"handle", "failing"}
       PROVE  /\ Held(m) /\ ~Completing(m)
              /\ GoesOn(m) =>
                    RunStands(m) /\ Explained(m) /\ Live(m, job.stage) /\ Found(job)
  BY <1>1, <1>2, <1>18 DEF Held, Completing, GoesOn, RunStands
\* A row that is live, and rows that are kept, explain the state they did before.
<1>19. ASSUME Explained(m), KeepsRows(m), UNCHANGED <<state, output>>
       PROVE  Explained(m)'
  <2>1. (\A s \in JobStage : Live(m, s) => Live(m, s)') /\ (Redoes(m) => Redoes(m)')
    BY <1>19 DEF KeepsRows, Redoes, JobStage
  <2> QED BY <1>19, <2>1 DEF Explained, Early, EarlyStages, JobStage
<1>20. (UNCHANGED jobs) => KeepsRows(m)
  BY DEF KeepsRows, Exists, Live
<1>21. ASSUME NEW row, Update(job, row), row.state \in LiveState, row.id = RowOf(job).id,
              UNCHANGED job
       PROVE  /\ KeepsRows(m) /\ Live(m, job.stage)'
              /\ \A n \in Meetings : n # m => jobs'[n] = jobs[n]
  <2>1. KeepsRows(m) /\ Live(m, job.stage)'
    <3>1. cur' = m
      BY <1>1, <1>21 DEF cur
    <3> QED BY <1>1, <1>2, <1>21, <3>1, UpdateKeeps DEF Live
  <2>2. \A n \in Meetings : n # m => jobs'[n] = jobs[n]
    BY <1>2, <1>21 DEF Update, SetRow, TypeOK, QueueTypeOK
  <2> QED BY <2>1, <2>2
<1>22. CASE HandleCancelled
  <2>1. /\ pc = "handle" /\ outcome = "cancelled" /\ pc' = "finally"
        /\ UNCHANGED <<output, deletes, marker, deleting, job, before, outcome, left>>
    BY <1>22 DEF HandleCancelled, Goto
  <2>2. CASE UNCHANGED <<jobs, state>>
    BY <1>7, <1>8, <1>18, <1>20, <2>1, <2>2
  <2>3. CASE Update(job, StoppedRow(RowOf(job))) /\ settle_stopped(m, before)
    <3>1. /\ StoppedRow(RowOf(job)).state = "cancelled"
          /\ StoppedRow(RowOf(job)).id = RowOf(job).id
      BY <1>2 DEF StoppedRow, Row
    <3>2. /\ KeepsRows(m) /\ Live(m, job.stage)'
          /\ \A n \in Meetings : n # m => jobs'[n] = jobs[n]
      BY <1>21, <2>1, <2>3, <3>1 DEF LiveState
    <3>3. /\ \A n \in Meetings : state'[n] = "GONE" <=> state[n] = "GONE"
          /\ \A n \in Meetings : n # m => state'[n] = state[n]
          /\ state'[m] \in {state[m], SettleTarget(m, before)}
      BY <1>2, <2>3, SettleTargetType, StateStays, SetIfLegalEffect DEF settle_stopped
    <3>4. ASSUME GoesOn(m)
          PROVE  Explained(m)'
      <4>1. /\ Explained(m) /\ job.stage \in Checkpointed
            /\ job.stage = "summarize" /\ before = "RECORDED" => Redoes(m)
        BY <1>18, <2>1, <3>4 DEF RunStands
      <4>2. (\A s \in JobStage : Live(m, s) => Live(m, s)') /\ (Redoes(m) => Redoes(m)')
        BY <2>1, <3>2 DEF KeepsRows, Redoes, JobStage
      <4>3. \E s \in EarlyStages : s \in JobStage /\ Live(m, s)'
        BY <2>1, <3>2, <4>1 DEF Checkpointed, EarlyStages, JobStage
      <4>4. state'[m] = "RECORDED" => Redoes(m)'
        <5>1. CASE job.stage = "transcribe"
          BY <2>1, <3>2, <5>1 DEF Redoes
        <5>2. CASE state'[m] = state[m]
          BY <4>1, <4>2, <5>2 DEF Explained
        <5>3. CASE job.stage = "summarize" /\ state'[m] = SettleTarget(m, before)
          <6>1. SettleTarget(m, before) = "RECORDED"
                => before = "RECORDED" \/ "assemble" \notin output[m]
            BY DEF SettleTarget
          <6> QED BY <2>1, <4>1, <4>2, <5>3, <6>1 DEF Redoes
        <5> QED BY <3>3, <4>1, <5>1, <5>2, <5>3 DEF Checkpointed
      <4> QED BY <4>3, <4>4 DEF Explained
    <3> QED BY <1>8, <1>18, <2>1, <3>2, <3>3, <3>4
  <2>4. CASE GoesOn(m) /\ ~Exempt(m)
    BY <1>1, <1>10, <1>18, <1>22, <2>1, <2>2, <2>3, <2>4 DEF HandleCancelled, stopped
  <2>5. CASE Exempt(m)
    <3>1. /\ \A n \in Meetings : state'[n] = "GONE" <=> state[n] = "GONE"
          /\ \A n \in Meetings : n # m => state'[n] = state[n] /\ jobs'[n] = jobs[n]
          /\ cur' = m
      <4>1. CASE UNCHANGED <<jobs, state>>
        BY <1>1, <2>1, <4>1 DEF cur
      <4>2. CASE Update(job, StoppedRow(RowOf(job))) /\ settle_stopped(m, before)
        BY <1>1, <1>2, <2>1, <4>2, SettleTargetType, StateStays, SetIfLegalEffect
           DEF settle_stopped, cur, Update, SetRow, TypeOK, QueueTypeOK
      <4> QED BY <1>1, <1>22, <4>1, <4>2 DEF HandleCancelled, stopped
    <3> QED BY <1>5, <2>1, <2>5, <3>1
  <2> QED BY <1>4, <2>4, <2>5
<1>23. CASE HandlePutBack \/ HandleFailure
  <2>1. /\ pc = "handle" /\ pc' \in {"finally", "failing"}
        /\ outcome \notin {"ok", "held", "cancelled"}
        /\ UNCHANGED <<state, output, deletes, marker, deleting, job, before, outcome,
                       left>>
    BY <1>23 DEF HandlePutBack, HandleFailure, Goto
  <2>2. CASE UNCHANGED jobs
    BY <1>7, <1>8, <1>18, <1>20, <2>1, <2>2
  <2>3. CASE release(job) \/ defer(job) \/ fail(job, outcome = "permanent")
    <3>1. PICK row : Update(job, row) /\ row.state \in LiveState /\ row.id = RowOf(job).id
      <4> DEFINE released == [RowOf(job) EXCEPT !.state = "pending"]
                 deferred == [RowOf(job) EXCEPT !.state = "pending", !.due = FALSE,
                                                !.last_error = "error"]
      <4>1. /\ released.state = "pending" /\ released.id = RowOf(job).id
            /\ deferred.state = "pending" /\ deferred.id = RowOf(job).id
        BY <1>2 DEF Row
      <4>2. LET failed == Failed(job, outcome = "permanent")
            IN  failed.state \in {"failed", "pending"} /\ failed.id = RowOf(job).id
        BY <1>2 DEF Failed, Row
      <4>3. \/ Update(job, released) \/ Update(job, deferred)
            \/ Update(job, Failed(job, outcome = "permanent"))
        BY <2>3 DEF release, defer, fail
      <4> HIDE DEF released, deferred
      <4> QED BY <4>1, <4>2, <4>3 DEF LiveState
    <3>2. KeepsRows(m) /\ \A n \in Meetings : n # m => jobs'[n] = jobs[n]
      BY <1>21, <2>1, <3>1
    <3> QED BY <1>8, <1>18, <1>19, <2>1, <3>2
  <2> QED BY <1>23, <2>2, <2>3 DEF HandlePutBack, HandleFailure
<1>24. CASE FailMeeting
  <2>1. /\ pc = "failing" /\ pc' = "finally"
        /\ UNCHANGED <<jobs, output, deletes, marker, deleting, job, before, outcome, left>>
    BY <1>24 DEF FailMeeting, Goto
  <2>2. /\ \A n \in Meetings : state'[n] = "GONE" <=> state[n] = "GONE"
        /\ \A n \in Meetings : n # m => state'[n] = state[n]
        /\ state'[m] \in {state[m], "FAILED"}
    <3>1. CASE Present(m)
      <4>1. SetIfLegal(m, "FAILED") /\ "FAILED" \in MeetingState
        BY <1>1, <1>24, <3>1 DEF FailMeeting, MeetingState
      <4> QED BY <1>2, <4>1, StateStays, SetIfLegalEffect
    <3>2. CASE ~Present(m)
      BY <1>1, <1>24, <3>2 DEF FailMeeting
    <3> QED BY <3>1, <3>2
  <2>3. ASSUME GoesOn(m)
        PROVE  Explained(m)' /\ outcome \notin {"ok", "held"}
    <3>1. Explained(m) /\ RunStands(m)
      BY <1>18, <2>1, <2>3
    <3> QED BY <2>1, <2>2, <3>1 DEF RunStands, Explained, Redoes, Live, Early
  <2> QED BY <1>8, <1>18, <1>20, <2>1, <2>2, <2>3
\* The run's end: a meeting that is there is not being deleted.
<1>25. CASE Finally
  <2>1. /\ pc = "finally" /\ UNCHANGED <<jobs, state, output, marker, deletes, left>>
        /\ \/ /\ m \in deleting /\ Present(m) /\ pc' = "removing"
              /\ UNCHANGED <<job, before, outcome, deleting>>
           \/ /\ ~(m \in deleting /\ Present(m)) /\ deleting' = deleting \ {m}
              /\ \/ /\ outcome \in {"ok", "held"} /\ pc' = "success"
                    /\ UNCHANGED <<job, before, outcome>>
                 \/ outcome \notin {"ok", "held"} /\ pc' = "idle"
    BY <1>1, <1>25 DEF Finally, RunEnds, Goto, ToIdle, WorkerAt
  <2>2. Held(m)
    BY <1>1, <2>1 DEF Held
  <2>3. CASE (m \in deleting /\ Present(m)) \/ ~Present(m)
    <3>1. Exempt(m)' /\ \A n \in Meetings : Exempt(n) => Exempt(n)'
      BY <1>1, <2>1, <2>3 DEF Exempt, Present, cur
    <3>2. deleting' \subseteq deleting
      BY <2>1
    <3>3. \A n \in Meetings : n # m => ~Held(n)'
      BY <1>1, <2>1 DEF Held, cur
    <3> QED BY <1>3, <2>1, <3>1, <3>2, <3>3, WorkerStrand
  <2>4. CASE m \notin deleting
    <3>1. UNCHANGED <<jobs, state, output, marker, deleting>>
      BY <2>1, <2>4
    <3>2. CASE outcome \notin {"ok", "held"}
      <4>1. ~Completing(m)
        BY <2>1, <3>2 DEF Completing
      <4> QED BY <1>6, <1>7, <2>1, <2>4, <3>1, <3>2, <4>1 DEF GoesOn
    <3>3. CASE outcome \in {"ok", "held"}
      <4>1. ASSUME GoesOn(m)
            PROVE  /\ LeadsOn(m)' /\ RunStands(m) /\ Live(m, job.stage)'
                   /\ jobs[m][job.stage].state # "absent"
        <5>1. LeadsOn(m) /\ RunStands(m)
          BY <2>1, <2>2, <3>3, <4>1 DEF GoesOn, Completing
        <5>2. LeadsOn(m)'
          BY <2>1, <3>1, <3>3, <5>1 DEF LeadsOn, Redoes, Live, Early, Unfinished
        <5> QED BY <1>2, <2>1, <3>1, <3>3, <5>1, <5>2 DEF RunStands, Live, LiveState
      <4> QED
        BY <1>9, <2>1, <2>2, <2>4, <3>1, <3>3, <4>1 DEF GoesOn, RunStands, Redoes, Live
    <3> QED BY <3>2, <3>3
  <2> QED BY <2>3, <2>4
\* The removal of a meeting that is being deleted.
<1>29. CASE RemoveFiles \/ RemoveFolder \/ RemoveRow
  <2>1. /\ pc \in {"removing", "emptied"} /\ UNCHANGED <<deletes, left>>
        /\ deleting' \subseteq deleting
        /\ \/ pc' \in {"removing", "emptied", "success"} /\ cur' = m
           \/ pc' = "idle"
    BY <1>1, <1>29
       DEF RemoveFiles, RemoveFolder, RemoveRow, RunEnds, Goto, ToIdle, WorkerAt,
           workerVars, cur
  <2>2. /\ (pc' \in {"removing", "emptied"} /\ cur' = m) \/ state'[m] = "GONE"
        /\ \A n \in Meetings : n # m =>
              /\ state'[n] = state[n] /\ output'[n] = output[n] /\ jobs'[n] = jobs[n]
              /\ n \in marker => n \in marker'
    <3>1. CASE RemoveFiles \/ RemoveFolder
      BY <1>1, <1>2, <3>1, FilesGoEffect
         DEF RemoveFiles, RemoveFolder, FolderGoes, FolderStays, TypeOK, Goto, workerVars, cur
    <3>2. CASE RemoveRow
      BY <1>1, <1>2, <3>2, RowGoesEffect DEF RemoveRow
    <3> QED BY <1>29, <3>1, <3>2
  <2>3. Exempt(m)' /\ \A n \in Meetings : Exempt(n) => Exempt(n)'
    BY <1>1, <2>1, <2>2 DEF Exempt, Present
  <2>4. \A n \in Meetings : n # m => ~Held(n)'
    BY <2>1 DEF Held
  <2> QED BY <1>3, <2>1, <2>2, <2>3, <2>4, WorkerStrand
<1>26. CASE Complete
  <2>1. /\ pc = "success" /\ UNCHANGED <<state, output, deletes, marker, deleting, left>>
        /\ \/ Present(m) /\ Found(job) /\ complete(job) /\ pc' = "settle"
              /\ UNCHANGED <<job, before, outcome>>
           \/ ~(Present(m) /\ Found(job)) /\ UNCHANGED jobs /\ pc' = "idle"
    BY <1>1, <1>26 DEF Complete, Goto, ToIdle, WorkerAt
  <2>2. Held(m) /\ Completing(m)
    BY <1>1, <2>1 DEF Held, Completing
  <2>3. GoesOn(m) => LeadsOn(m) /\ RunStands(m) /\ Found(job)
    BY <2>2 DEF GoesOn, RunStands
  <2>4. CASE Present(m) /\ Found(job) /\ complete(job) /\ pc' = "settle"
             /\ UNCHANGED <<job, before, outcome>>
    <3> DEFINE row == [RowOf(job) EXCEPT !.state = "done", !.last_error = "none"]
    <3>1. row.state = "done" /\ row.id = jobs[m][job.stage].id
      BY <1>2 DEF Row
    <3>2. SetRow(m, job.stage, row)
      BY <1>2, <2>4 DEF complete, Update
    <3> HIDE DEF row
    <3>3. /\ jobs'[m][job.stage] = row
          /\ \A s \in JobStage : s # job.stage => jobs'[m][s] = jobs[m][s]
          /\ \A n \in Meetings : n # m => jobs'[n] = jobs[n]
      BY <1>2, <3>2 DEF SetRow, TypeOK, QueueTypeOK
    <3>4. job.stage # "transcribe" => (Live(m, "transcribe")' <=> Live(m, "transcribe"))
      BY <3>3 DEF Live, JobStage
    <3>5. job.stage # "transcribe" => (Redoes(m)' <=> Redoes(m))
      BY <2>1, <3>4 DEF Redoes
    <3>6. job.stage \notin EarlyStages => \A s \in EarlyStages : Live(m, s)' <=> Live(m, s)
      BY <3>3 DEF Live, EarlyStages, JobStage
    <3>7. GoesOn(m) => LeadsOn(m)'
      <4> SUFFICES ASSUME LeadsOn(m)
                   PROVE  LeadsOn(m)'
        BY <2>3
      <4>1. Early' = Early /\ Unfinished' = Unfinished
        BY DEF Early, Unfinished
      <4>2. CASE job.stage = "transcribe"
        BY <2>4, <4>2 DEF LeadsOn
      <4>3. CASE job.stage = "assemble"
        BY <2>1, <2>4, <3>4, <4>1, <4>3 DEF LeadsOn
      <4>4. CASE job.stage = "summarize"
        BY <2>1, <2>4, <3>4, <3>5, <4>4 DEF LeadsOn
      <4>5. CASE job.stage \in {"render", "deliver"}
        <5>1. job.stage \notin EarlyStages
          BY <4>5 DEF EarlyStages
        <5> QED BY <2>1, <2>4, <3>5, <3>6, <4>1, <4>5, <5>1 DEF LeadsOn
      <4> QED BY <1>2, <4>2, <4>3, <4>4, <4>5 DEF JobStage
    <3> QED
      BY <1>9, <2>1, <2>2, <2>3, <2>4, <3>1, <3>3, <3>5, <3>7 DEF GoesOn, RunStands
  <2>5. CASE ~(Present(m) /\ Found(job)) /\ UNCHANGED jobs /\ pc' = "idle"
    BY <1>6, <1>10, <2>1, <2>3, <2>5
  <2> QED BY <2>1, <2>4, <2>5
<1>27. CASE SetDone
  <2>1. CASE ~Present(m)
    <3>1. /\ pc = "settle" /\ pc' = "idle"
          /\ UNCHANGED <<jobs, state, output, deletes, marker, deleting, left>>
      BY <1>1, <1>27, <2>1 DEF SetDone, ToIdle, WorkerAt
    <3> QED BY <1>6, <1>10, <2>1, <3>1
  <2>2. CASE Present(m)
    <3>1. /\ pc = "settle" /\ pc' = "next"
          /\ UNCHANGED <<jobs, output, deletes, marker, deleting, job, before, outcome,
                         left>>
          /\ \/ outcome = "held" /\ state' = state
             \/ outcome # "held" /\ SetIfLegal(m, STAGE_DONE_STATE[job.stage])
      BY <1>1, <1>27, <2>2 DEF SetDone, Goto
    <3>2. /\ \A n \in Meetings : state'[n] = "GONE" <=> state[n] = "GONE"
          /\ \A n \in Meetings : n # m => state'[n] = state[n]
      BY <1>2, <3>1, StageStatesType, StateStays, SetIfLegalEffect
    <3>3. Held(m) /\ Completing(m)
      BY <1>1, <3>1 DEF Completing, Held
    <3>4. ASSUME GoesOn(m)
          PROVE  LeadsOn(m)' /\ jobs[m][job.stage].state # "absent"
      <4>1. LeadsOn(m) /\ RunStands(m)
        BY <3>3, <3>4 DEF GoesOn
      <4>2. outcome = "held" => job.stage = "deliver"
        BY <3>1, <4>1 DEF RunStands
      <4>3. LeadsOn(m)'
        BY <1>2, <3>1, <4>1, <4>2, DoneLeadsOn
      <4> QED BY <1>2, <4>1, <4>3 DEF RunStands, Found, Exists
    <3>5. Redoes(m) => Redoes(m)'
      BY <3>1 DEF Redoes, Live
    <3> QED BY <1>9, <3>1, <3>2, <3>3, <3>4, <3>5 DEF GoesOn
  <2> QED BY <2>1, <2>2
<1>28. CASE EnqueueNext
  <2>1. /\ pc = "next" /\ pc' = "idle"
        /\ UNCHANGED <<state, output, deletes, marker, deleting, left>>
        /\ IF HasNext /\ Present(m) THEN enqueue(m, next_stage(job.stage))
                                    ELSE UNCHANGED jobs
    BY <1>1, <1>2, <1>28 DEF EnqueueNext, enqueue_next_stage, ToIdle, WorkerAt
  <2>2. Held(m) /\ Completing(m)
    BY <1>1, <2>1 DEF Held, Completing
  <2>3. HasNext => next_stage(job.stage) \in JobStage
    BY <1>2, NextStageType DEF HasNext
  <2>4. HasNext /\ Present(m) =>
           /\ \E s \in JobStage : s = next_stage(job.stage) /\ Live(m, s)'
           /\ KeepsRows(m)
    <3> SUFFICES ASSUME HasNext, Present(m)
                 PROVE  /\ \E s \in JobStage : s = next_stage(job.stage) /\ Live(m, s)'
                        /\ KeepsRows(m)
      OBVIOUS
    <3>1. PICK s \in JobStage : s = next_stage(job.stage)
      BY <2>3
    <3>2. enqueue(m, s)
      BY <2>1, <3>1
    <3> QED BY <1>2, <3>1, <3>2, EnqueueKeeps
  <2>5. \A n \in Meetings : n # m => jobs'[n] = jobs[n]
    BY <1>2, <2>1, <2>3 DEF enqueue, SetRow, TypeOK, QueueTypeOK
  <2>6. KeepsRows(m)
    BY <1>20, <2>1, <2>4
  <2>7. ~Exempt(m) /\ GoesOn(m) => Explained(m)'
    <3> SUFFICES ASSUME ~Exempt(m), GoesOn(m)
                 PROVE  Explained(m)'
      OBVIOUS
    <3>1. LeadsOn(m) /\ Present(m)
      BY <1>10, <2>2 DEF GoesOn
    <3>2. \A s \in JobStage : Live(m, s) => Live(m, s)'
      BY <2>6 DEF KeepsRows
    <3> QED BY <1>2, <2>1, <2>4, <3>1, <3>2, QueuedExplained
  <2> QED BY <1>6, <2>1, <2>5, <2>7
<1> QED
  BY <1>11, <1>12, <1>13, <1>14, <1>16, <1>17, <1>22, <1>23, <1>24, <1>25, <1>26, <1>27,
     <1>28, <1>29 DEF WorkerStep

\* A meeting part-way through its processing has a job that says so, wherever the user
\* retries, stops and deletes, recordings preempt and the provider is away, under either
\* launcher.
THEOREM NobodyIsStranded ==
    ASSUME ~PurgeFails, Budget["crash"] = 0
    PROVE  Spec => []NotStranded
<1>1. Init => StrandInv
  <2> SUFFICES ASSUME Init
               PROVE  StrandInv
    OBVIOUS
  <2>1. TypeOK
    BY InitType, PipelineAssumption
  <2>2. /\ pc = "idle" /\ deleting = {} /\ left["crash"] = 0
        /\ \A m \in Meetings : state[m] = "RECORDING" /\ output[m] = {}
    BY DEF Init, QueueInit
  <2>3. \A m \in Meetings : GoesOn(m)
    BY <2>2 DEF GoesOn, Explained, Completing, Held, Early
  <2> QED BY <2>1, <2>2, <2>3 DEF StrandInv
<1>2. StrandInv /\ [Next]_vars => StrandInv'
  <2> SUFFICES ASSUME StrandInv, [Next]_vars
               PROVE  StrandInv'
    OBVIOUS
  <2>1. TypeOK'
    BY StepType, PipelineAssumption DEF StrandInv
  <2>2. CASE UNCHANGED vars
    <3>1. UNCHANGED <<jobs, deleting, state, output, marker, deletes, workerVars, left>>
      BY <2>2 DEF vars, queueVars, meetingVars
    <3> QED
      BY <2>1, <3>1, OthersStrand
         DEF Exempt, Present, KeepsRows, Live, Exists, MovesOn, workerVars, cur
  <2> QED
    BY <2>1, <2>2, WorkerStepStrand, ApiStepStrand, EnvironmentStrand, PipelineAssumption
       DEF Next
<1>3. StrandInv => NotStranded
  <2> SUFFICES ASSUME StrandInv, NEW m \in Meetings,
                      state[m] \in Early \union {"SUMMARIZED"}, ~Held(m),
                      deletes[m] = "none", m \notin marker
               PROVE  \E s \in JobStage : Live(m, s)
    BY DEF NotStranded, Early, Live, LiveState
  <2>1. ~Exempt(m)
    BY DEF Exempt, Present, Early, Held
  <2>2. Explained(m)
    BY <2>1 DEF StrandInv, GoesOn, Completing
  <2> QED BY <2>2 DEF Explained, EarlyStages, JobStage
<1> QED BY <1>1, <1>2, <1>3, PTL DEF Spec


(***************************************************************************)
(* A stop takes its meeting back (StopReturnsSettled), for a single press  *)
(* while a process lives.  With one press to come, or in force, nothing    *)
(* but the run itself has moved its meeting since the run began, so the    *)
(* state is one the way back is legal from.  A second press, on a row that *)
(* waits again, moves the meeting under the run.                           *)
(***************************************************************************)
\* The press is to come, or it asks the job in hand to stop.
Pressable == left["stop"] > 0 \/ cur \in stopping

\* Where a transcription that began in the state was has its meeting: one that was
\* discarded may have been kept after all meanwhile.
RunState(was) ==
    IF is_legal(was, "TRANSCRIBING") THEN {"TRANSCRIBING"}
    ELSE IF was = "DISCARDED" THEN {"DISCARDED", "RECORDED", "TRANSCRIBING"} ELSE {was}

Unmoved ==
    Present(cur) /\ Pressable /\ before # "RECORDING" =>
        /\ pc = "marking" =>
              \/ state[cur] = before
              \/ before = "DISCARDED" /\ state[cur] = "RECORDED"
        /\ pc \in {"stage", "handle"} /\ job.stage = "transcribe"
              => state[cur] \in RunState(before)

SettledInv ==
    /\ HeldInv
    /\ left["stop"] <= 1
    /\ stopping # {} => left["stop"] = 0
    /\ Unmoved

\* The ways back from where a transcription has its meeting.
LEMMA LegalWaysBack ==
    /\ \A st \in {"RECORDED", "TRANSCRIBED", "SUMMARIZED", "RENDERED", "DELIVERED",
                   "DISCARDED"} :
          is_legal("TRANSCRIBING", st)
    /\ is_legal("RECORDED", "DISCARDED")
    /\ \A st \in {"RENDERED", "DELIVERED", "FAILED", "INTERRUPTED"} :
          is_legal(st, "TRANSCRIBING")
    /\ \A st \in MeetingState : is_legal(st, "TRANSCRIBING") => st # "ARMED"
<1>1. PIPELINE[1] = "RECORDING" /\ PIPELINE[2] = "RECORDED"
      /\ PIPELINE[3] = "TRANSCRIBING" /\ PIPELINE[4] = "TRANSCRIBED"
      /\ PIPELINE[5] = "SUMMARIZING" /\ PIPELINE[6] = "SUMMARIZED"
      /\ PIPELINE[7] = "RENDERED" /\ PIPELINE[8] = "DELIVERED"
  BY DEF PIPELINE
<1>2. "RECORDED" \in ACTIVE /\ "TRANSCRIBING" \in ACTIVE /\ "ARMED" \notin ACTIVE
  BY <1>1 DEF ACTIVE
<1>3. <<"TRANSCRIBING", "DISCARDED">> \in LEGAL_TRANSITIONS
      /\ <<"RECORDED", "DISCARDED">> \in LEGAL_TRANSITIONS
  BY <1>2 DEF LEGAL_TRANSITIONS
<1>4. \A st \in {"SUMMARIZED", "RENDERED", "DELIVERED"} :
         <<"TRANSCRIBING", st>> \in LEGAL_TRANSITIONS
  BY DEF LEGAL_TRANSITIONS
<1>5. <<"TRANSCRIBING", "RECORDED">> \in LEGAL_TRANSITIONS
  BY DEF LEGAL_TRANSITIONS, RETRYABLE_ENTRY
<1>6. is_legal("TRANSCRIBING", "TRANSCRIBED")
  BY LegalMoves
<1>7. <<"ARMED", "TRANSCRIBING">> \notin {<<PIPELINE[i], PIPELINE[i + 1]>> : i \in 1 .. 7}
  <2>1. \A i \in 1 .. 7 : PIPELINE[i] # "ARMED"
    BY <1>1
  <2> QED BY <2>1
<1>8. <<"ARMED", "TRANSCRIBING">> \notin LEGAL_TRANSITIONS
  BY <1>2, <1>7 DEF LEGAL_TRANSITIONS, RETRYABLE_ENTRY
<1>9. \A st \in {"RENDERED", "DELIVERED", "FAILED", "INTERRUPTED"} :
         <<st, "TRANSCRIBING">> \in LEGAL_TRANSITIONS
  BY DEF LEGAL_TRANSITIONS, RETRYABLE_ENTRY
<1> QED BY <1>3, <1>4, <1>5, <1>6, <1>8, <1>9 DEF is_legal

\* Another thread moves no meeting that is there but one it finishes, discards or keeps, and
\* by the press itself.
LEMMA UnmovedByOthers ==
    ASSUME SettledInv, UNCHANGED workerVars,
           Pressable' /\ state'[cur] # "GONE" =>
              /\ Pressable
              /\ \/ state'[cur] = state[cur]
                 \/ state[cur] = "DISCARDED" /\ state'[cur] = "RECORDED"
                 \/ state[cur] = "RECORDING"
    PROVE  Unmoved'
<1>1. cur' = cur /\ UNCHANGED <<pc, job, before>>
  BY DEF workerVars, cur
<1>2. RunState(before)' = RunState(before)
  BY <1>1 DEF RunState
<1> SUFFICES ASSUME Present(cur)', Pressable', before # "RECORDING"
             PROVE  /\ pc = "marking" =>
                          \/ state'[cur] = before
                          \/ before = "DISCARDED" /\ state'[cur] = "RECORDED"
                    /\ pc \in {"stage", "handle"} /\ job.stage = "transcribe"
                          => state'[cur] \in RunState(before)
  BY <1>1, <1>2 DEF Unmoved
<1>3. /\ Pressable
      /\ \/ state'[cur] = state[cur]
         \/ state[cur] = "DISCARDED" /\ state'[cur] = "RECORDED"
         \/ state[cur] = "RECORDING"
  BY <1>1 DEF Present
<1>4. Present(cur)
  BY <1>1, <1>3 DEF Present
<1>5. /\ pc = "marking" =>
            \/ state[cur] = before
            \/ before = "DISCARDED" /\ state[cur] = "RECORDED"
      /\ pc \in {"stage", "handle"} /\ job.stage = "transcribe"
            => state[cur] \in RunState(before)
  BY <1>3, <1>4 DEF SettledInv, Unmoved
<1> QED BY <1>3, <1>5 DEF RunState

LEMMA WorkerStepSettled ==
    ASSUME SettledInv, HeldInv', WorkerStep
    PROVE  SettledInv'
<1> USE DEF meetingVars, queueVars
<1>1. /\ TypeOK /\ cur \in Meetings /\ job.stage \in JobStage
      /\ left \in [Events -> Nat] /\ left["stop"] <= 1
      /\ stopping # {} => left["stop"] = 0
  BY DEF SettledInv, HeldInv, TypeOK, Job, cur
<1>2. left'["stop"] = left["stop"] /\ stopping' \subseteq stopping
  <2>1. left'["stop"] = left["stop"]
    BY <1>1
       DEF WorkerStep, Peek, Claim, Begin, MarkRunning, StageReturns, StageCancelled,
           StagePreempted, StageDefers, StageRaises, HandleCancelled, HandlePutBack,
           HandleFailure, FailMeeting, Finally, RemoveFiles, RemoveFolder,
           FolderStays, RemoveRow, RunEnds, Complete, SetDone, EnqueueNext, Spend,
           Events
  <2>2. stopping' \subseteq stopping
    BY DEF WorkerStep, Peek, Claim, Begin, MarkRunning, StageReturns, StageCancelled,
           StagePreempted, StageDefers, StageRaises, HandleCancelled, HandlePutBack,
           HandleFailure, FailMeeting, Finally, RemoveFiles, RemoveFolder,
           FolderStays, RemoveRow, RunEnds, Complete, SetDone, EnqueueNext, stopped,
           clear_stop
  <2> QED BY <2>1, <2>2
<1>3. Unmoved' => SettledInv'
  BY <1>1, <1>2 DEF SettledInv
<1>4. ASSUME pc' \notin {"marking", "stage", "handle"}
      PROVE  SettledInv'
  BY <1>3, <1>4 DEF Unmoved
<1>5. CASE Begin
  <2>1. CASE before' = state[cur] /\ pc' = "marking" /\ UNCHANGED <<job, state>>
    BY <1>3, <2>1 DEF Unmoved, cur
  <2>2. CASE pc' = "idle"
    BY <1>4, <2>2
  <2> QED BY <1>5, <2>1, <2>2 DEF Begin, ToIdle, WorkerAt
<1>6. CASE MarkRunning
  <2>1. CASE Present(cur)
    <3>1. /\ pc = "marking" /\ pc' = "stage"
          /\ SetIfLegal(cur, STAGE_RUNNING_STATE[job.stage])
          /\ UNCHANGED <<job, before, stopping>>
      BY <1>6, <2>1 DEF MarkRunning, Goto
    <3>2. cur' = cur /\ (Pressable' => Pressable) /\ RunState(before)' = RunState(before)
      BY <1>2, <3>1 DEF cur, Pressable, RunState
    <3>3. ASSUME job.stage = "transcribe", Pressable, before # "RECORDING"
          PROVE  state'[cur] \in RunState(before)
      <4>1. state'[cur] = IF is_legal(state[cur], "TRANSCRIBING")
                          THEN "TRANSCRIBING" ELSE state[cur]
        BY <1>1, <3>1, <3>3, SetIfLegalEffect, StageStatesType DEF STAGE_RUNNING_STATE
      <4>2. state[cur] = before \/ (before = "DISCARDED" /\ state[cur] = "RECORDED")
        BY <2>1, <3>1, <3>3 DEF SettledInv, Unmoved
      <4> QED BY <4>1, <4>2, LegalMoves DEF RunState
    <3> QED BY <1>3, <3>1, <3>2, <3>3 DEF Unmoved
  <2>2. CASE ~Present(cur)
    BY <1>4, <1>6, <2>2 DEF MarkRunning, ToIdle, WorkerAt
  <2> QED BY <2>1, <2>2
<1>7. CASE StageReturns \/ StageCancelled \/ StagePreempted \/ StageDefers \/ StageRaises
  <2>1. /\ pc = "stage" /\ pc' \in {"handle", "finally"}
        /\ UNCHANGED <<state, stopping, job, before>>
    BY <1>7
       DEF StageReturns, StageCancelled, StagePreempted, StageDefers, StageRaises, EndStage
  <2>2. cur' = cur /\ (Pressable' => Pressable) /\ RunState(before)' = RunState(before)
    BY <1>2, <2>1 DEF cur, Pressable, RunState
  <2> QED BY <1>3, <2>1, <2>2 DEF SettledInv, Unmoved, Present
<1>8. CASE HandleCancelled \/ HandlePutBack \/ HandleFailure \/ FailMeeting
  BY <1>4, <1>8 DEF HandleCancelled, HandlePutBack, HandleFailure, FailMeeting, Goto
<1>10. CASE Finally \/ RemoveFiles \/ RemoveFolder \/ RemoveRow
  BY <1>4, <1>10
     DEF Finally, RemoveFiles, RemoveFolder, FolderStays, RemoveRow, RunEnds, Goto,
         ToIdle, WorkerAt, workerVars
<1>9. CASE Peek \/ Claim \/ Complete \/ SetDone \/ EnqueueNext
  BY <1>4, <1>9 DEF Peek, Claim, Complete, SetDone, EnqueueNext, Goto, ToIdle, WorkerAt
<1> QED BY <1>5, <1>6, <1>7, <1>8, <1>9, <1>10 DEF WorkerStep

LEMMA ApiStepSettled ==
    ASSUME SettledInv, HeldInv', NEW m \in Meetings, ApiStep(m)
    PROVE  SettledInv'
<1> USE DEF meetingVars, queueVars
<1>1. /\ TypeOK /\ left \in [Events -> Nat] /\ "stop" \in Events /\ left["stop"] <= 1
      /\ stopping # {} => left["stop"] = 0
      /\ cur \in Meetings
  BY DEF SettledInv, HeldInv, TypeOK, Events, Job, cur
<1>2. ASSUME UNCHANGED <<stopping, workerVars>>, left'["stop"] = left["stop"],
             \/ state'[cur] \in {state[cur], "GONE"}
             \/ state[cur] = "DISCARDED" /\ state'[cur] = "RECORDED"
             \/ state[cur] = "RECORDING"
      PROVE  SettledInv'
  <2>1. Pressable' => Pressable
    BY <1>2 DEF Pressable, cur, workerVars
  <2>2. Unmoved'
    BY <1>2, <2>1, UnmovedByOthers
  <2> QED BY <1>1, <1>2, <2>2 DEF SettledInv
<1>3. ASSUME NEW e \in {"retry", "delete", "keep"}, Spend(e)
      PROVE  left'["stop"] = left["stop"]
  BY <1>1, <1>3 DEF Spend
<1>4. CASE Finish(m)
  <2>1. \/ state'[cur] = state[cur]
        \/ state[cur] = "RECORDING"
    BY <1>1, <1>4 DEF Finish, SetState, TypeOK
  <2> QED BY <1>2, <1>4, <2>1 DEF Finish
<1>5. CASE Keep(m)
  <2>1. \/ state'[cur] = state[cur]
        \/ state[cur] = "DISCARDED" /\ state'[cur] = "RECORDED"
    BY <1>1, <1>5 DEF Keep, SetState, TypeOK
  <2> QED BY <1>2, <1>3, <1>5, <2>1 DEF Keep
<1>6. CASE \E s \in JobStage : RetryStage(m, s)
  BY <1>2, <1>3, <1>6 DEF RetryStage
<1>7. CASE StopTranscription(m)
  <2>1. /\ left["stop"] = 1 /\ left'["stop"] = 0 /\ stopping = {} /\ UNCHANGED workerVars
    BY <1>1, <1>7 DEF StopTranscription, Spend
  <2>2. CASE UNCHANGED state
    <3>1. Pressable
      BY <2>1 DEF Pressable
    <3> QED BY <2>1, <2>2, <3>1, UnmovedByOthers DEF SettledInv
  <2>3. CASE UNCHANGED stopping
    <3>1. ~Pressable'
      BY <2>1, <2>3 DEF Pressable
    <3> QED BY <2>1, <2>3, <3>1, UnmovedByOthers DEF SettledInv
  <2> QED BY <1>7, <2>2, <2>3 DEF StopTranscription
<1>8. CASE DeleteRequest(m) \/ DeleteCheck(m)
  BY <1>2, <1>3, <1>8 DEF DeleteRequest, DeleteCheck
<1>9. CASE DeleteFiles(m) \/ DeleteFolder(m) \/ DeleteRow(m)
  <2>1. state'[cur] \in {state[cur], "GONE"}
    BY <1>1, <1>9, RowGoesEffect DEF DeleteFiles, DeleteFolder, FolderStays, DeleteRow
  <2> QED
    BY <1>2, <1>9, <2>1 DEF DeleteFiles, DeleteFolder, FolderStays, DeleteRow
<1> QED BY <1>4, <1>5, <1>6, <1>7, <1>8, <1>9 DEF ApiStep

LEMMA EnvironmentSettled ==
    ASSUME SettledInv, HeldInv', Environment
    PROVE  SettledInv'
<1> USE DEF meetingVars, queueVars
<1>1. /\ TypeOK /\ left \in [Events -> Nat] /\ left["stop"] <= 1
      /\ stopping # {} => left["stop"] = 0
  BY DEF SettledInv, HeldInv, TypeOK
<1>2. left'["stop"] = left["stop"] /\ stopping' \subseteq stopping
  BY <1>1
     DEF Environment, RecordingStarts, RecordingEnds, Restart, Starting, Sweep,
         SweepFiles, SweepFolder, FolderStays, SweepRow, StartBackground, Lifespan,
         TimePasses, Spend, Events
<1>3. CASE UNCHANGED <<state, stopping, workerVars>>
  <2>1. Pressable' => Pressable
    BY <1>2, <1>3 DEF Pressable, cur, workerVars
  <2> QED BY <1>1, <1>2, <1>3, <2>1, UnmovedByOthers DEF SettledInv
<1>4. CASE pc' \in {"starting", "sweeping", "swept", "idle"}
  BY <1>1, <1>2, <1>4 DEF SettledInv, Unmoved
<1>5. CASE Starting
  BY <1>4, <1>5
     DEF Starting, Sweep, SweepFiles, SweepFolder, FolderStays, SweepRow, StartBackground,
         ToIdle, WorkerAt, Goto, workerVars
<1> QED
  BY <1>3, <1>4, <1>5
     DEF Environment, RecordingStarts, RecordingEnds, Restart, Lifespan, TimePasses, WorkerAt

\* The step that settles a stopped transcription takes the meeting to its target.
LEMMA SettlesThere ==
    ASSUME SettledInv, Next, StopSettles, before \notin {"RECORDING", "SUMMARIZING"}
    PROVE  state'[cur] = SettleTarget(cur, before)
<1>1. /\ TypeOK /\ cur \in Meetings /\ before \in MeetingState /\ "ARMED" \in MeetingState
      /\ pc = "handle" /\ pc' = "finally" /\ outcome = "cancelled"
      /\ job.stage = "transcribe" /\ cur \in stopping /\ cur \notin deleting /\ Found(job)
  BY DEF SettledInv, HeldInv, TypeOK, Job, cur, StopSettles, MeetingState
<1>2. HandleCancelled
  <2>1. CASE WorkerStep
    BY <1>1, <2>1
       DEF WorkerStep, Peek, Claim, Begin, MarkRunning, StageReturns, StageCancelled,
           StagePreempted, StageDefers, StageRaises, HandlePutBack, HandleFailure,
           FailMeeting, Finally, RemoveFiles, RemoveFolder,
           FolderStays, RemoveRow, RunEnds, Complete, SetDone, EnqueueNext
  <2>2. CASE \E m \in Meetings : ApiStep(m)
    BY <1>1, <2>2
       DEF ApiStep, Finish, Keep, RetryStage, StopTranscription, DeleteRequest, DeleteCheck,
           DeleteFiles, DeleteFolder, FolderStays, DeleteRow, workerVars
  <2>3. CASE Environment
    BY <1>1, <2>3
       DEF Environment, RecordingStarts, RecordingEnds, Restart, Starting, Sweep,
         SweepFiles, SweepFolder, FolderStays, SweepRow, StartBackground, Lifespan,
           TimePasses, workerVars, WorkerAt, ToIdle
  <2> QED BY <2>1, <2>2, <2>3 DEF Next
<1>3. settle_stopped(cur, before)
  BY <1>1, <1>2 DEF HandleCancelled
<1>4. state'[cur] = IF is_legal(state[cur], SettleTarget(cur, before))
                    THEN SettleTarget(cur, before) ELSE state[cur]
  BY <1>1, <1>3, SettleTargetType, SetIfLegalEffect DEF settle_stopped
<1>5. Present(cur)
  BY <1>1 DEF SettledInv, HeldInv, GoneHasNoJobs, Found, Exists, Absent, cur, TypeOK, Job
<1>6. state[cur] \in RunState(before)
  BY <1>1, <1>5 DEF SettledInv, Unmoved, Pressable
<1>7. CASE before \in {"TRANSCRIBING", "FAILED", "INTERRUPTED"}
  <2>1. state[cur] = "TRANSCRIBING"
    BY <1>6, <1>7, LegalMoves, LegalWaysBack DEF RunState
  <2>2. SettleTarget(cur, before) \in {"TRANSCRIBED", "RECORDED"}
    BY <1>7 DEF SettleTarget
  <2> QED BY <1>4, <2>1, <2>2, LegalWaysBack
<1>8. CASE before \in {"RECORDED", "TRANSCRIBED", "SUMMARIZED", "RENDERED", "DELIVERED"}
  <2>1. state[cur] = "TRANSCRIBING"
    BY <1>6, <1>8, LegalMoves, LegalWaysBack DEF RunState
  <2>2. SettleTarget(cur, before) = before
    BY <1>8 DEF SettleTarget
  <2> QED BY <1>4, <1>8, <2>1, <2>2, LegalWaysBack
<1>9. CASE before \in {"ARMED", "DISCARDED"}
  <2>1. SettleTarget(cur, before) = before
    BY <1>9 DEF SettleTarget
  <2>2. CASE before = "ARMED"
    <3>1. state[cur] = before
      BY <1>1, <1>6, <2>2, LegalWaysBack DEF RunState
    <3> QED BY <1>4, <2>1, <3>1
  <2>3. CASE before = "DISCARDED"
    <3>1. state[cur] \in {"DISCARDED", "RECORDED", "TRANSCRIBING"}
      BY <1>6, <2>3 DEF RunState
    <3> QED BY <1>4, <2>1, <2>3, <3>1, LegalWaysBack
  <2> QED BY <1>9, <2>2, <2>3
<1> QED BY <1>1, <1>7, <1>8, <1>9 DEF MeetingState

\* A transcription the user stopped takes its meeting back to where it was, from every
\* state but SUMMARIZING, if one press is all there is.
THEOREM StopTakesBack ==
    ASSUME ~PurgeFails, Budget["stop"] \in {0, 1}
    PROVE  Spec => StopReturnsSettled
<1>1. Init => SettledInv
  <2> SUFFICES ASSUME Init
               PROVE  SettledInv
    OBVIOUS
  <2>1. left["stop"] \in {0, 1} /\ stopping = {} /\ pc = "idle"
    BY DEF Init, QueueInit
  <2>2. left["stop"] <= 1
    BY <2>1
  <2> QED BY <2>1, <2>2, InitHeld DEF SettledInv, Unmoved
<1>2. SettledInv /\ [Next]_vars => SettledInv'
  <2> SUFFICES ASSUME SettledInv, [Next]_vars
               PROVE  SettledInv'
    OBVIOUS
  <2>1. HeldInv'
    BY StepHeld DEF SettledInv
  <2>2. CASE UNCHANGED vars
    <3>1. UNCHANGED <<state, stopping, left, workerVars>>
      BY <2>2 DEF vars, queueVars, meetingVars
    <3>2. Pressable' => Pressable
      BY <3>1 DEF Pressable, cur, workerVars
    <3> QED BY <2>1, <3>1, <3>2, UnmovedByOthers DEF SettledInv
  <2> QED BY <2>1, <2>2, WorkerStepSettled, ApiStepSettled, EnvironmentSettled DEF Next
<1>3. SettledInv /\ [Next]_vars =>
         [StopSettles /\ before \notin {"RECORDING", "SUMMARIZING"}
             => state'[cur] = SettleTarget(cur, before)]_vars
  BY SettlesThere
<1> QED BY <1>1, <1>2, <1>3, PTL DEF Spec, StopReturnsSettled

(***************************************************************************)
(* A stop ends with its run (StopEndsWithItsRun), while nobody retries.    *)
(* A press between clear_stop and complete is still in force when the run  *)
(* is over; what keeps it from the next transcription is that without a    *)
(* retry there is none: the row is done, and only a meeting that was never *)
(* begun has one queued.                                                   *)
(***************************************************************************)
Begun(m) == Held(m) \/ m \in stopping \/ \E s \in JobStage : Exists(m, s)

\* The press is that of the run in hand, or its transcription will not be claimed.
Spent(m) ==
    \/ ~Present(m)
    \/ ~Waits(m, "transcribe")
    \/ Held(m) /\ job.stage = "transcribe" /\ Found(job) /\ pc \notin {"settle", "next"}

StopInv ==
    /\ HeldInv
    /\ left["retry"] = 0
    /\ \A m \in Meetings : Begun(m) => state[m] \notin {"RECORDING", "DISCARDED"}
    /\ pc \notin {"starting", "sweeping", "swept", "idle", "peeked", "claimed"}
           => before \notin {"RECORDING", "DISCARDED"}
    /\ \A m \in stopping : Spent(m)

\* No handler but a retry queues a transcription that was begun.
LEMMA ApiStepStop ==
    ASSUME StopInv, HeldInv', NEW m \in Meetings, ApiStep(m)
    PROVE  StopInv'
<1> USE DEF meetingVars, queueVars
<1>1. /\ TypeOK /\ left \in [Events -> Nat] /\ left["retry"] = 0
      /\ "transcribe" \in JobStage /\ stopping \subseteq Meetings
  BY DEF StopInv, HeldInv, TypeOK, QueueTypeOK, JobStage
\* What goes for a step that queues nothing that was begun.
<1>2. ASSUME UNCHANGED workerVars, left'["retry"] = left["retry"],
             \A n \in Meetings : Begun(n)' => state'[n] \notin {"RECORDING", "DISCARDED"},
             \A n \in stopping' : Spent(n)'
      PROVE  StopInv'
  BY <1>1, <1>2 DEF StopInv, workerVars
<1>3. ASSUME NEW e \in {"stop", "delete", "keep"}, Spend(e)
      PROVE  left'["retry"] = left["retry"]
  BY <1>1, <1>3 DEF Spend
<1>4. ~\E s \in JobStage : RetryStage(m, s)
  BY <1>1 DEF RetryStage, Spend
\* Rows that come are of meetings that were not begun; rows that go are waited for no more.
<1>5. ASSUME UNCHANGED workerVars, NEW n \in Meetings,
             Spent(n),
             ~Waits(n, "transcribe")' \/ jobs'[n]["transcribe"] = jobs[n]["transcribe"],
             state[n] = "GONE" => state'[n] = "GONE"
      PROVE  Spent(n)'
  BY <1>1, <1>5 DEF Spent, Waits, Present, Held, cur, workerVars, Found, Exists
<1>6. ASSUME UNCHANGED <<workerVars, stopping>>, NEW n \in Meetings, jobs'[n] = jobs[n],
             state'[n] = state[n]
      PROVE  /\ Begun(n)' => state'[n] \notin {"RECORDING", "DISCARDED"}
             /\ n \in stopping => Spent(n)'
  <2>1. Begun(n)' => Begun(n)
    BY <1>6 DEF Begun, Held, cur, workerVars, Exists
  <2>2. Waits(n, "transcribe")' => jobs'[n]["transcribe"] = jobs[n]["transcribe"]
    BY <1>6
  <2> QED BY <1>5, <1>6, <2>1, <2>2 DEF StopInv
<1>7. CASE Finish(m) \/ Keep(m)
  <2>1. /\ state[m] \in {"RECORDING", "DISCARDED"} /\ UNCHANGED <<workerVars, stopping>>
        /\ \/ SetState(m, "RECORDED") /\ enqueue(m, "transcribe")
           \/ SetState(m, "DISCARDED") /\ UNCHANGED jobs
    BY <1>7 DEF Finish, Keep
  <2>2. left'["retry"] = left["retry"]
    BY <1>3, <1>7 DEF Finish, Keep
  <2>3. ~Begun(m)
    BY <2>1 DEF StopInv
  <2>4. \A n \in Meetings : n # m => jobs'[n] = jobs[n] /\ state'[n] = state[n]
    BY <1>1, <2>1 DEF enqueue, SetRow, SetState, TypeOK, QueueTypeOK
  <2>5. m \notin stopping /\ (jobs' = jobs => ~Begun(m)')
    BY <2>1, <2>3 DEF Begun, Held, cur, workerVars, Exists
  <2>6. state'[m] = "RECORDED" \/ jobs' = jobs
    BY <1>1, <2>1 DEF SetState, TypeOK
  <2>7. \A n \in Meetings : Begun(n)' => state'[n] \notin {"RECORDING", "DISCARDED"}
    BY <1>6, <2>1, <2>4, <2>5, <2>6
  <2>8. \A n \in stopping' : Spent(n)'
    BY <1>1, <1>6, <2>1, <2>4, <2>5
  <2> QED BY <1>2, <2>1, <2>2, <2>7, <2>8
<1>8. CASE StopTranscription(m)
  <2>1. UNCHANGED workerVars /\ left'["retry"] = left["retry"]
    BY <1>3, <1>8 DEF StopTranscription
  <2>2. CASE request_stop_running(m) /\ UNCHANGED <<jobs, rerun, state>>
    <3>1. stopping' = stopping \union {m} /\ Exists(m, "transcribe")
          /\ ~Waits(m, "transcribe")'
      BY <2>2 DEF request_stop_running, Exists, Waits
    <3>2. \A n \in Meetings : Begun(n)' => Begun(n)
      BY <1>1, <2>1, <2>2, <3>1 DEF Begun, Held, cur, workerVars, Exists
    <3>3. \A n \in stopping' : Spent(n)'
      <4>1. Spent(m)'
        BY <3>1 DEF Spent
      <4> QED BY <1>1, <1>5, <2>1, <2>2, <3>1, <4>1 DEF StopInv
    <3> QED BY <1>2, <2>1, <2>2, <3>2, <3>3 DEF StopInv
  <2>3. CASE request_stop_waiting(m) /\ settle_stopped(m, state[m]) /\ UNCHANGED stopping
    <3>1. StoppedRow(jobs[m]["transcribe"]).state = "cancelled"
      BY <1>1, RowType DEF StoppedRow, TypeOK, Row
    <3>2. /\ \A n \in Meetings, t \in JobStage :
                jobs'[n][t] = IF n = m /\ t = "transcribe"
                              THEN StoppedRow(jobs[m]["transcribe"]) ELSE jobs[n][t]
          /\ Exists(m, "transcribe")
      BY <1>1, <2>3, SetRowEffect DEF request_stop_waiting, TypeOK, Exists
    <3>3. state[m] \in MeetingState
      BY <1>1, <1>8 DEF StopTranscription, Present, TypeOK
    <3>4. SettleTarget(m, state[m]) \in {state[m], "TRANSCRIBED", "RECORDED"}
      BY DEF SettleTarget
    <3>5. /\ state'[m] \in {state[m], "TRANSCRIBED", "RECORDED"}
          /\ \A n \in Meetings : n # m => state'[n] = state[n]
      BY <1>1, <2>3, <3>3, <3>4, SettleTargetType, SetIfLegalEffect DEF settle_stopped
    <3>6. \A n \in Meetings : Begun(n)' => Begun(n)
      BY <1>1, <2>1, <2>3, <3>2 DEF Begun, Held, cur, workerVars, Exists
    <3>7. \A n \in Meetings : Begun(n)' => state'[n] \notin {"RECORDING", "DISCARDED"}
      BY <3>5, <3>6 DEF StopInv
    <3>8. \A n \in stopping' : Spent(n)'
      <4> SUFFICES ASSUME NEW n \in stopping
                   PROVE  Spent(n)'
        BY <2>3
      <4>1. n \in Meetings /\ Spent(n)
        BY <1>1 DEF StopInv
      <4>2. ~Waits(n, "transcribe")' \/ jobs'[n]["transcribe"] = jobs[n]["transcribe"]
        BY <1>1, <3>1, <3>2, <4>1 DEF Waits
      <4>3. state[n] = "GONE" => state'[n] = "GONE"
        BY <3>3, <3>5, <4>1 DEF MeetingState
      <4> QED BY <1>5, <2>1, <4>1, <4>2, <4>3
    <3> QED BY <1>2, <2>1, <3>7, <3>8
  <2> QED BY <1>8, <2>2, <2>3 DEF StopTranscription
\* Deletions take rows away.
<1>9. ASSUME UNCHANGED <<workerVars, stopping>>, left'["retry"] = left["retry"],
             \A n \in Meetings, t \in JobStage : jobs'[n][t] \in {jobs[n][t], Absent},
             \A n \in Meetings : state'[n] \in {state[n], "GONE"}
      PROVE  StopInv'
  <2>1. \A n \in Meetings : Begun(n)' => Begun(n)
    BY <1>9 DEF Begun, Held, cur, workerVars, Exists, Absent
  <2>2. \A n \in Meetings : Begun(n)' => state'[n] \notin {"RECORDING", "DISCARDED"}
    BY <1>9, <2>1 DEF StopInv
  <2>3. \A n \in stopping' : Spent(n)'
    <3> SUFFICES ASSUME NEW n \in stopping
                 PROVE  Spent(n)'
      BY <1>9
    <3>1. n \in Meetings /\ Spent(n)
      BY <1>1 DEF StopInv
    <3>2. ~Waits(n, "transcribe")' \/ jobs'[n]["transcribe"] = jobs[n]["transcribe"]
      BY <1>1, <1>9, <3>1 DEF Waits, Absent
    <3>3. state[n] = "GONE" => state'[n] = "GONE"
      BY <1>9, <3>1
    <3> QED BY <1>5, <1>9, <3>1, <3>2, <3>3
  <2> QED BY <1>2, <1>9, <2>2, <2>3
<1>10. CASE DeleteRequest(m)
  <2>1. \A n \in Meetings, t \in JobStage : jobs'[n][t] \in {jobs[n][t], Absent}
    BY <1>1, <1>10 DEF DeleteRequest, request_delete, TypeOK, QueueTypeOK
  <2> QED BY <1>3, <1>9, <1>10, <2>1 DEF DeleteRequest
<1>11. CASE DeleteCheck(m)
  BY <1>9, <1>11 DEF DeleteCheck
<1>12. CASE DeleteFiles(m) \/ DeleteFolder(m) \/ DeleteRow(m)
  <2>1. CASE UNCHANGED <<jobs, state>>
    BY <1>9, <1>12, <2>1 DEF DeleteFiles, DeleteFolder, FolderStays, DeleteRow
  <2>2. CASE DeleteRow(m)
    <3>1. /\ \A n \in Meetings, t \in JobStage : jobs'[n][t] \in {jobs[n][t], Absent}
          /\ \A n \in Meetings : state'[n] \in {state[n], "GONE"}
      BY <1>1, <2>2, RowGoesEffect DEF DeleteRow
    <3> QED BY <1>9, <2>2, <3>1 DEF DeleteRow
  <2> QED BY <1>12, <2>1, <2>2 DEF DeleteFiles, DeleteFolder, FolderStays
<1> QED BY <1>4, <1>7, <1>8, <1>10, <1>11, <1>12 DEF ApiStep

\* The server's start puts the running row back, which is that of the job in hand.
LEMMA EnvironmentStop ==
    ASSUME StopInv, HeldInv', Environment
    PROVE  StopInv'
<1> USE DEF meetingVars, queueVars
<1>1. /\ TypeOK /\ left \in [Events -> Nat] /\ left["retry"] = 0
      /\ "transcribe" \in JobStage /\ stopping \subseteq Meetings
  BY DEF StopInv, HeldInv, TypeOK, QueueTypeOK, JobStage
<1>2. left'["retry"] = left["retry"]
  BY <1>1
     DEF Environment, RecordingStarts, RecordingEnds, Restart, Starting, Sweep,
         SweepFiles, SweepFolder, FolderStays, SweepRow, StartBackground, Lifespan,
         TimePasses, Spend, Events
\* Rows keep their identity, and what comes to wait is the job in hand.
<1>3. ASSUME UNCHANGED <<state, stopping, workerVars>>,
             \A n \in Meetings, t \in JobStage :
                /\ Exists(n, t)' <=> Exists(n, t)
                /\ jobs'[n][t].id = jobs[n][t].id
                /\ Waits(n, t)' => Waits(n, t) \/ jobs[n][t].state = "running"
      PROVE  StopInv'
  <2>1. \A n \in Meetings : Begun(n)' => Begun(n)
    BY <1>3 DEF Begun, Held, cur, workerVars
  <2>2. ASSUME NEW n \in stopping
        PROVE  Spent(n)'
    <3>1. n \in Meetings /\ Spent(n)
      BY <1>1 DEF StopInv
    <3>2. Held(n) /\ job.stage = "transcribe" => (Found(job)' <=> Found(job))
      BY <1>1, <1>3, <3>1 DEF Found, Held, cur, workerVars, Exists
    <3>3. jobs[n]["transcribe"].state = "running" =>
             /\ Held(n) /\ job.stage = "transcribe" /\ Found(job)
             /\ pc \notin {"settle", "next"}
      BY <1>1, <3>1, RunningIsJobs
         DEF StopInv, HeldInv, NoneRunning, Held
    <3> QED BY <1>1, <1>3, <3>1, <3>2, <3>3 DEF Spent, Present, Held, cur, workerVars
  <2> QED BY <1>1, <1>2, <1>3, <2>1, <2>2 DEF StopInv, workerVars
<1>4. CASE RecordingStarts \/ RecordingEnds
  <2>1. UNCHANGED <<jobs, state, stopping, workerVars>>
    BY <1>4 DEF RecordingStarts, RecordingEnds
  <2> QED BY <1>3, <2>1 DEF Exists, Waits
<1>5. ASSUME NEW m \in Meetings, NEW s \in JobStage, TimePasses(m, s)
      PROVE  StopInv'
  <2>1. \A n \in Meetings, t \in JobStage :
           jobs'[n][t] = IF n = m /\ t = s THEN [jobs[m][s] EXCEPT !.due = TRUE]
                                           ELSE jobs[n][t]
    BY <1>1, <1>5, SetRowEffect DEF TimePasses, BecomeDue, TypeOK
  <2>2. jobs[m][s] \in Row
    BY <1>1, RowType DEF TypeOK
  <2> QED BY <1>3, <1>5, <2>1, <2>2 DEF TimePasses, Exists, Waits, Row
<1>6. CASE Lifespan
  <2>1. \A n \in Meetings, t \in JobStage :
           jobs'[n][t] = IF jobs[n][t].state = "running"
                         THEN [jobs[n][t] EXCEPT !.state = "pending"] ELSE jobs[n][t]
    BY <1>6 DEF Lifespan, reset_running
  <2>2. ASSUME NEW n \in Meetings, NEW t \in JobStage
        PROVE  /\ Exists(n, t)' <=> Exists(n, t)
               /\ jobs'[n][t].id = jobs[n][t].id
               /\ Waits(n, t)' => Waits(n, t) \/ jobs[n][t].state = "running"
    <3>1. jobs[n][t] \in Row
      BY <1>1, RowType DEF TypeOK
    <3>2. jobs'[n][t] = IF jobs[n][t].state = "running"
                        THEN [jobs[n][t] EXCEPT !.state = "pending"] ELSE jobs[n][t]
      BY <2>1
    <3> QED BY <3>1, <3>2 DEF Exists, Waits, Row
  <2>3. UNCHANGED <<state, stopping, workerVars>>
    BY <1>6 DEF Lifespan
  <2> QED BY <1>3, <2>2, <2>3
<1>7. CASE Restart
  <2>1. pc' = "starting" /\ stopping' = {} /\ state' = state
        /\ jobs' = reset_running
    BY <1>7 DEF Restart, WorkerAt
  <2>2. \A n \in Meetings, t \in JobStage : Exists(n, t)' => Exists(n, t)
    BY <2>1 DEF reset_running, Exists
  <2>3. \A n \in Meetings : Begun(n)' => Begun(n)
    BY <2>1, <2>2 DEF Begun, Held
  <2> QED BY <1>1, <1>2, <2>1, <2>3 DEF StopInv
<1>8. CASE Starting
  <2>1. /\ pc \in {"starting", "sweeping", "swept"} /\ stopping' = stopping
        /\ pc' \in {"starting", "sweeping", "swept", "idle"}
    BY <1>8 DEF Starting, Sweep, SweepFiles, SweepFolder, FolderStays, SweepRow,
                StartBackground, ToIdle, WorkerAt, Goto, workerVars
  <2>2. /\ \A n \in Meetings, t \in JobStage : jobs'[n][t] \in {jobs[n][t], Absent}
        /\ \A n \in Meetings : state'[n] \in {state[n], "GONE"}
    <3>1. CASE UNCHANGED <<jobs, state>>
      BY <3>1
    <3>2. CASE SweepRow
      <4>1. cur \in Meetings
        BY <1>1 DEF TypeOK, Job, cur
      <4> QED BY <1>1, <3>2, <4>1, RowGoesEffect DEF SweepRow
    <3> QED
      BY <1>8, <3>1, <3>2
         DEF Starting, Sweep, SweepFiles, SweepFolder, FolderStays, StartBackground
  <2>3. \A n \in Meetings : Begun(n)' => Begun(n)
    BY <2>1, <2>2 DEF Begun, Held, Exists, Absent
  <2>4. ASSUME NEW n \in stopping
        PROVE  Spent(n)'
    BY <1>1, <2>1, <2>2 DEF StopInv, Spent, Held, Present, Waits, Absent
  <2>5. \A n \in Meetings : Begun(n)' => state'[n] \notin {"RECORDING", "DISCARDED"}
    BY <2>2, <2>3 DEF StopInv
  <2> QED BY <1>1, <1>2, <2>1, <2>4, <2>5 DEF StopInv
<1> QED BY <1>4, <1>5, <1>6, <1>7, <1>8 DEF Environment

LEMMA WorkerStepStop ==
    ASSUME StopInv, HeldInv', ~PurgeFails, WorkerStep
    PROVE  StopInv'
<1> USE DEF meetingVars, queueVars
<1>1. PICK m \in Meetings : m = cur
  BY DEF StopInv, HeldInv, TypeOK, Job, cur
<1>2. /\ TypeOK /\ job.stage \in JobStage /\ job.meeting = m /\ before \in MeetingState
      /\ RowOf(job) \in Row /\ RowOf(job) = jobs[m][job.stage]
      /\ left \in [Events -> Nat] /\ left["retry"] = 0 /\ stopping \subseteq Meetings
      /\ "transcribe" \in JobStage
  BY <1>1, RowType DEF StopInv, HeldInv, TypeOK, QueueTypeOK, Job, cur, RowOf, JobStage
<1>3. left'["retry"] = 0
  BY <1>2
     DEF WorkerStep, Peek, Claim, Begin, MarkRunning, StageReturns, StageCancelled,
         StagePreempted, StageDefers, StageRaises, HandleCancelled, HandlePutBack,
         HandleFailure, FailMeeting, Finally, RemoveFiles, RemoveFolder,
           FolderStays, RemoveRow, RunEnds, Complete, SetDone, EnqueueNext, Spend,
         Events
<1>4. ASSUME pc \notin {"starting", "sweeping", "swept", "idle", "peeked"}
      PROVE  /\ Held(m) /\ Begun(m) /\ state[m] \notin {"RECORDING", "DISCARDED"}
             /\ \A n \in Meetings : n # m => ~Held(n)
  BY <1>1, <1>4 DEF Held, Begun, StopInv
\* A step that leaves the rows as they are, or writes some of those of the job's meeting.
<1>5. ASSUME stopping' \subseteq stopping,
             pc' \notin {"starting", "sweeping", "swept"},
             pc' \in {"idle", "peeked"} \/ cur' = m,
             pc' \notin {"idle", "peeked", "claimed"}
                => before' \notin {"RECORDING", "DISCARDED"},
             \A n \in Meetings : n # m =>
                /\ jobs'[n] = jobs[n] \/ \A t \in JobStage : jobs'[n][t] = Absent
                /\ state'[n] = state[n],
             state'[m] \notin {"RECORDING", "DISCARDED"}
                \/ (state'[m] = state[m] /\ (Begun(m)' => Begun(m))),
             m \in stopping' => Spent(m)',
             \A n \in Meetings : n # m => ~Held(n)
      PROVE  StopInv'
  <2>1. \A n \in Meetings : n # m => ~Held(n)'
    BY <1>5 DEF Held
  <2>2. \A n \in Meetings : n # m => (Begun(n)' => Begun(n))
    BY <1>5, <2>1 DEF Begun, Exists, Absent
  <2>3. \A n \in Meetings : Begun(n)' => state'[n] \notin {"RECORDING", "DISCARDED"}
    BY <1>5, <2>2 DEF StopInv
  <2>4. ASSUME NEW n \in stopping'
        PROVE  Spent(n)'
    <3>1. n \in Meetings /\ n \in stopping
      BY <1>2, <1>5
    <3>2. CASE n = m
      BY <1>5, <2>4, <3>2
    <3>3. CASE n # m
      BY <1>2, <1>5, <3>1, <3>3 DEF StopInv, Spent, Present, Waits, Absent
    <3> QED BY <3>2, <3>3
  <2> QED BY <1>3, <1>5, <2>3, <2>4 DEF StopInv
<1>6. ASSUME UNCHANGED <<state, jobs>>, pc' \in {"idle", "peeked"},
             stopping' \subseteq stopping,
             m \in stopping /\ Held(m) => ~Present(m) \/ ~Waits(m, "transcribe"),
             \A n \in Meetings : n # m => ~Held(n)
      PROVE  StopInv'
  <2>1. Begun(m)' => Begun(m)
    BY <1>6 DEF Begun, Held, Exists
  <2>2. m \in stopping' => Spent(m)'
    BY <1>6 DEF StopInv, Spent, Present, Waits
  <2> QED BY <1>5, <1>6, <2>1, <2>2
<1>7. \A n \in Meetings : n # m => ~Held(n)
  BY <1>1 DEF Held
<1>8. CASE Peek
  <2>1. pc = "idle" /\ pc' = "peeked" /\ UNCHANGED <<state, jobs, stopping>> /\ ~Held(m)
    BY <1>8 DEF Peek, Held
  <2> QED BY <1>6, <1>7, <2>1
<1>9. CASE Claim
  <2>1. pc = "peeked" /\ UNCHANGED <<state, stopping>> /\ ~Held(m)
    BY <1>9 DEF Claim, Held
  <2>2. CASE UNCHANGED jobs /\ pc' = "idle"
    BY <1>6, <1>7, <2>1, <2>2
  <2>3. CASE /\ Found(job) /\ claim(job.meeting, job.stage)
             /\ job' = JobOf(job.meeting, job.stage) /\ pc' = "claimed"
    <3>1. cur' = m /\ Begun(m)
      BY <1>2, <2>3 DEF JobOf, cur, Begun, Found
    <3>2. /\ \A n \in Meetings : n # m => jobs'[n] = jobs[n]
          /\ jobs'[m]["transcribe"] = jobs[m]["transcribe"] \/ ~Waits(m, "transcribe")'
      BY <1>2, <2>3 DEF claim, SetRow, Waits, TypeOK, QueueTypeOK, Row
    <3>3. m \in stopping' => Spent(m)'
      BY <2>1, <3>2 DEF StopInv, Spent, Present, Waits
    <3> QED BY <1>5, <1>7, <2>1, <2>3, <3>1, <3>2, <3>3
  <2> QED BY <1>9, <2>2, <2>3 DEF Claim, ToIdle, WorkerAt
<1>10. CASE Begin
  <2>1. pc = "claimed" /\ UNCHANGED <<state, jobs, stopping>>
    BY <1>10 DEF Begin
  <2>2. CASE Present(m)
    <3>1. pc' = "marking" /\ before' = state[m] /\ job' = job
      BY <1>1, <1>10, <2>2 DEF Begin
    <3>2. m \in stopping' => Spent(m)'
      BY <1>1, <1>4, <2>1, <3>1 DEF StopInv, Spent, Present, Waits, Held, cur, Found, Exists
    <3>3. cur' = m
      BY <1>1, <3>1 DEF cur
    <3> QED BY <1>4, <1>5, <2>1, <3>1, <3>2, <3>3
  <2>3. CASE ~Present(m)
    BY <1>1, <1>4, <1>6, <1>10, <2>1, <2>3 DEF Begin, ToIdle, WorkerAt
  <2> QED BY <2>2, <2>3
\* The run goes on: the press stays its own.
<1>11. ASSUME {pc, pc'} \subseteq {"marking", "stage", "handle", "failing", "finally",
                                    "removing", "emptied"},
              UNCHANGED <<job, before>>, stopping' \subseteq stopping,
              \A n \in Meetings : n # m => jobs'[n] = jobs[n] /\ state'[n] = state[n],
              state'[m] \notin {"RECORDING", "DISCARDED"},
              state[m] = "GONE" => state'[m] = "GONE",
              \/ m \notin stopping'
              \/ /\ \A t \in JobStage : t # job.stage => jobs'[m][t] = jobs[m][t]
                 /\ Found(job) => Found(job)'
                 /\ Found(job) \/ UNCHANGED jobs
       PROVE  StopInv'
  <2>1. cur' = m /\ Held(m)' /\ Held(m)
    BY <1>1, <1>11 DEF cur, Held
  <2>2. m \in stopping' => Spent(m)'
    <3> SUFFICES ASSUME m \in stopping'
                 PROVE  Spent(m)'
      OBVIOUS
    <3>1. Spent(m)
      BY <1>11 DEF StopInv
    <3>2. CASE job.stage = "transcribe" /\ Found(job)
      BY <1>11, <2>1, <3>2 DEF Spent
    <3>3. CASE ~(job.stage = "transcribe" /\ Found(job))
      <4>1. ~Present(m) \/ ~Waits(m, "transcribe")
        BY <3>1, <3>3 DEF Spent
      <4>2. jobs'[m]["transcribe"] = jobs[m]["transcribe"]
        BY <1>2, <1>11, <3>3
      <4> QED BY <1>11, <4>1, <4>2 DEF Spent, Present, Waits
    <3> QED BY <3>2, <3>3
  <2>3. before' \notin {"RECORDING", "DISCARDED"}
    BY <1>11 DEF StopInv
  <2> QED BY <1>4, <1>5, <1>11, <2>1, <2>2, <2>3
<1>12. CASE MarkRunning
  <2>1. CASE Present(m)
    <3>1. /\ pc = "marking" /\ pc' = "stage"
          /\ SetIfLegal(m, STAGE_RUNNING_STATE[job.stage])
          /\ UNCHANGED <<jobs, stopping, job, before>>
      BY <1>1, <1>12, <2>1 DEF MarkRunning, Goto
    <3>2. STAGE_RUNNING_STATE[job.stage] \notin {"RECORDING", "DISCARDED"}
      BY <1>2 DEF JobStage, STAGE_RUNNING_STATE
    <3>3. /\ state'[m] \notin {"RECORDING", "DISCARDED"}
          /\ \A n \in Meetings : n # m => state'[n] = state[n]
      BY <1>2, <1>4, <3>1, <3>2, StageStatesType, SetIfLegalEffect
    <3> QED BY <1>11, <2>1, <3>1, <3>3 DEF Present, Found, Exists
  <2>2. CASE ~Present(m)
    BY <1>1, <1>4, <1>6, <1>12, <2>2 DEF MarkRunning, ToIdle, WorkerAt
  <2> QED BY <2>1, <2>2
<1>13. CASE StageReturns \/ StageCancelled \/ StagePreempted \/ StageDefers \/ StageRaises
  <2>1. /\ pc = "stage" /\ pc' \in {"finally", "handle"}
        /\ UNCHANGED <<jobs, state, stopping, job, before>>
    BY <1>13
       DEF StageReturns, StageCancelled, StagePreempted, StageDefers, StageRaises, EndStage
  <2> QED BY <1>4, <1>11, <2>1 DEF Found, Exists
<1>14. CASE HandleCancelled
  <2>1. pc = "handle" /\ pc' = "finally" /\ UNCHANGED <<job, before>>
    BY <1>14 DEF HandleCancelled, Goto
  <2>2. CASE UNCHANGED <<jobs, state>> /\ stopping' \subseteq stopping
    BY <1>4, <1>11, <2>1, <2>2 DEF Found, Exists
  <2>3. CASE stopped(job) /\ settle_stopped(m, before)
    <3>1. m \notin stopping' /\ stopping' \subseteq stopping
      BY <1>2, <2>3 DEF stopped
    <3>2. \A n \in Meetings : n # m => jobs'[n] = jobs[n]
      BY <1>2, <2>3 DEF stopped, Update, SetRow, TypeOK, QueueTypeOK
    <3>3. SettleTarget(m, before) \notin {"RECORDING", "DISCARDED"}
      BY <2>1 DEF StopInv, SettleTarget
    <3>4. /\ state'[m] \notin {"RECORDING", "DISCARDED"}
          /\ \A n \in Meetings : n # m => state'[n] = state[n]
          /\ state[m] = "GONE" => state'[m] = "GONE"
      BY <1>2, <1>4, <2>1, <2>3, <3>3, SettleTargetType, SetIfLegalEffect, StateStays
         DEF settle_stopped
    <3> QED BY <1>11, <2>1, <3>1, <3>2, <3>4
  <2> QED
    BY <1>1, <1>14, <2>2, <2>3 DEF HandleCancelled, clear_stop
<1>15. ASSUME NEW row, Update(job, row), row.state # "absent", row.id = RowOf(job).id,
              UNCHANGED job, Found(job)
       PROVE  /\ Found(job)' /\ jobs'[m][job.stage] = row
              /\ \A t \in JobStage : t # job.stage => jobs'[m][t] = jobs[m][t]
              /\ \A n \in Meetings : n # m => jobs'[n] = jobs[n]
  <2>1. /\ jobs'[m][job.stage] = row
        /\ \A t \in JobStage : t # job.stage => jobs'[m][t] = jobs[m][t]
        /\ \A n \in Meetings : n # m => jobs'[n] = jobs[n]
    BY <1>2, <1>15 DEF Update, SetRow, TypeOK, QueueTypeOK
  <2> QED BY <1>2, <1>15, <2>1 DEF Found, Exists
<1>16. CASE HandlePutBack \/ HandleFailure
  <2>1. /\ pc = "handle" /\ pc' \in {"finally", "failing"}
        /\ UNCHANGED <<state, stopping, job, before>>
    BY <1>16 DEF HandlePutBack, HandleFailure, Goto
  <2>2. CASE UNCHANGED jobs
    BY <1>4, <1>11, <2>1, <2>2 DEF Found, Exists
  <2>3. CASE Found(job) /\ (release(job) \/ defer(job) \/ fail(job, outcome = "permanent"))
    <3>1. PICK row : Update(job, row) /\ row.state # "absent" /\ row.id = RowOf(job).id
      <4> DEFINE released == [RowOf(job) EXCEPT !.state = "pending"]
                 deferred == [RowOf(job) EXCEPT !.state = "pending", !.due = FALSE,
                                                !.last_error = "error"]
      <4>1. /\ released.state = "pending" /\ released.id = RowOf(job).id
            /\ deferred.state = "pending" /\ deferred.id = RowOf(job).id
        BY <1>2 DEF Row
      <4>2. LET failed == Failed(job, outcome = "permanent")
            IN  failed.state \in {"failed", "pending"} /\ failed.id = RowOf(job).id
        BY <1>2 DEF Failed, Row
      <4>3. \/ Update(job, released) \/ Update(job, deferred)
            \/ Update(job, Failed(job, outcome = "permanent"))
        BY <2>3 DEF release, defer, fail
      <4> HIDE DEF released, deferred
      <4> QED BY <4>1, <4>2, <4>3
    <3>2. /\ Found(job)'
          /\ \A t \in JobStage : t # job.stage => jobs'[m][t] = jobs[m][t]
          /\ \A n \in Meetings : n # m => jobs'[n] = jobs[n]
      BY <1>15, <2>1, <2>3, <3>1
    <3> QED BY <1>4, <1>11, <2>1, <2>3, <3>2
  <2> QED BY <1>16, <2>2, <2>3 DEF HandlePutBack, HandleFailure
<1>17. CASE FailMeeting
  <2>1. pc = "failing" /\ pc' = "finally" /\ UNCHANGED <<jobs, stopping, job, before>>
    BY <1>17 DEF FailMeeting, Goto
  <2>2. /\ state'[m] \in {state[m], "FAILED"}
        /\ state[m] = "GONE" => state'[m] = "GONE"
        /\ \A n \in Meetings : n # m => state'[n] = state[n]
    <3>1. CASE Present(m)
      <4>1. SetIfLegal(m, "FAILED") /\ "FAILED" \in MeetingState
        BY <1>1, <1>17, <3>1 DEF FailMeeting, MeetingState
      <4> QED BY <1>2, <3>1, <4>1, SetIfLegalEffect DEF Present
    <3>2. CASE ~Present(m)
      BY <1>1, <1>17, <3>2 DEF FailMeeting
    <3> QED BY <3>1, <3>2
  <2>3. state'[m] \notin {"RECORDING", "DISCARDED"}
    BY <1>4, <2>1, <2>2
  <2>4. /\ Found(job)' <=> Found(job)
        /\ \A t \in JobStage : t # job.stage => jobs'[m][t] = jobs[m][t]
        /\ \A n \in Meetings : n # m => jobs'[n] = jobs[n]
    BY <2>1 DEF Found, Exists
  <2> QED BY <1>4, <1>11, <2>1, <2>2, <2>3, <2>4
\* The press is forgotten at the end of the run, and one that comes later stays with a row
\* that is done.
<1>18. CASE Finally
  <2>1. /\ pc = "finally" /\ stopping' = stopping \ {m} /\ UNCHANGED <<jobs, state>>
        /\ pc' = "idle" \/ (pc' \in {"removing", "success"} /\ UNCHANGED <<job, before>>)
    BY <1>1, <1>18 DEF Finally, RunEnds, clear_stop, Goto, ToIdle, WorkerAt
  <2>2. pc' = "idle" \/ cur' = m
    BY <1>1, <2>1 DEF cur
  <2>3. pc' # "idle" => before' \notin {"RECORDING", "DISCARDED"}
    BY <2>1 DEF StopInv
  <2> QED BY <1>4, <1>5, <2>1, <2>2, <2>3
<1>23. CASE RemoveFiles \/ RemoveFolder
  <2>1. /\ {pc, pc'} \subseteq {"removing", "emptied"}
        /\ UNCHANGED <<job, before, stopping, state, jobs>>
    BY <1>23 DEF RemoveFiles, RemoveFolder, FolderStays, Goto, workerVars
  <2> QED BY <1>4, <1>11, <2>1 DEF Found, Exists
<1>24. CASE RemoveRow
  <2>1. /\ pc = "emptied" /\ stopping' = stopping
        /\ pc' = "idle" \/ (pc' = "success" /\ UNCHANGED <<job, before>>)
    BY <1>24 DEF RemoveRow, RunEnds, Goto, ToIdle, WorkerAt
  <2>2. /\ \A n \in Meetings : n # m => jobs'[n] = jobs[n] /\ state'[n] = state[n]
        /\ state'[m] = "GONE"
    BY <1>1, <1>2, <1>24, RowGoesEffect DEF RemoveRow
  <2>3. pc' = "idle" \/ cur' = m
    BY <1>1, <2>1 DEF cur
  <2>4. pc' = "success" => before' \notin {"RECORDING", "DISCARDED"}
    BY <2>1 DEF StopInv
  <2>5. Spent(m)'
    BY <2>2 DEF Spent, Present
  <2> QED BY <1>4, <1>5, <2>1, <2>2, <2>3, <2>4, <2>5
<1>19. CASE Complete
  <2>1. pc = "success" /\ UNCHANGED <<state, stopping>>
    BY <1>19 DEF Complete
  <2>2. CASE Found(job) /\ complete(job) /\ pc' = "settle" /\ UNCHANGED <<job, before>>
    <3> DEFINE row == [RowOf(job) EXCEPT !.state = "done", !.last_error = "none"]
    <3>1. row.state = "done" /\ row.id = RowOf(job).id /\ Update(job, row)
      BY <1>2, <2>2 DEF Row, complete
    <3> HIDE DEF row
    <3>2. /\ jobs'[m][job.stage] = row
          /\ \A t \in JobStage : t # job.stage => jobs'[m][t] = jobs[m][t]
          /\ \A n \in Meetings : n # m => jobs'[n] = jobs[n]
      BY <1>15, <2>2, <3>1
    <3>3. m \in stopping' => Spent(m)'
      <4>1. CASE job.stage = "transcribe"
        BY <3>1, <3>2, <4>1 DEF Spent, Waits
      <4>2. CASE job.stage # "transcribe"
        BY <1>2, <2>1, <3>2, <4>2 DEF StopInv, Spent, Waits, Present
      <4> QED BY <4>1, <4>2
    <3>4. cur' = m /\ before' \notin {"RECORDING", "DISCARDED"}
      BY <1>1, <2>1, <2>2 DEF cur, StopInv
    <3> QED BY <1>4, <1>5, <2>1, <2>2, <3>2, <3>3, <3>4
  <2>3. CASE ~(Present(m) /\ Found(job)) /\ UNCHANGED jobs /\ pc' = "idle"
    <3>1. m \in stopping => ~Present(m) \/ ~Waits(m, "transcribe")
      BY <2>3 DEF StopInv, Spent
    <3> QED BY <1>6, <1>7, <2>1, <2>3, <3>1
  <2> QED BY <1>1, <1>19, <2>2, <2>3 DEF Complete, Goto, ToIdle, WorkerAt
<1>20. ASSUME pc \in {"settle", "next"}, m \in stopping
       PROVE  ~Present(m) \/ ~Waits(m, "transcribe")
  BY <1>20 DEF StopInv, Spent
<1>21. CASE SetDone
  <2>1. CASE ~Present(m)
    BY <1>1, <1>4, <1>6, <1>21, <2>1 DEF SetDone, ToIdle, WorkerAt
  <2>2. CASE Present(m)
    <3>1. /\ pc = "settle" /\ pc' = "next" /\ UNCHANGED <<jobs, stopping, job, before>>
          /\ state' = state \/ SetIfLegal(m, STAGE_DONE_STATE[job.stage])
      BY <1>1, <1>21, <2>2 DEF SetDone, Goto
    <3>2. STAGE_DONE_STATE[job.stage] \notin {"RECORDING", "DISCARDED"}
      BY <1>2 DEF JobStage, STAGE_DONE_STATE
    <3>3. /\ state'[m] \notin {"RECORDING", "DISCARDED"}
          /\ \A n \in Meetings : n # m => state'[n] = state[n]
      BY <1>2, <1>4, <3>1, <3>2, StageStatesType, SetIfLegalEffect
    <3>4. m \in stopping' => Spent(m)'
      BY <1>20, <2>2, <3>1 DEF Spent, Waits, Present
    <3>5. cur' = m /\ before' \notin {"RECORDING", "DISCARDED"}
      BY <1>1, <3>1 DEF cur, StopInv
    <3> QED BY <1>4, <1>5, <3>1, <3>3, <3>4, <3>5
  <2> QED BY <2>1, <2>2
<1>22. CASE EnqueueNext
  <2>1. /\ pc = "next" /\ pc' = "idle" /\ UNCHANGED <<state, stopping>>
        /\ UNCHANGED jobs \/ (HasNext /\ enqueue(m, next_stage(job.stage)))
    BY <1>2, <1>22 DEF EnqueueNext, enqueue_next_stage, ToIdle, WorkerAt
  <2>2. HasNext => next_stage(job.stage) \in JobStage \ {"transcribe"}
    BY <1>2, NextStages DEF HasNext, JobStage
  <2>3. /\ \A n \in Meetings : n # m => jobs'[n] = jobs[n]
        /\ jobs'[m]["transcribe"] = jobs[m]["transcribe"]
    BY <1>2, <2>1, <2>2 DEF enqueue, SetRow, TypeOK, QueueTypeOK
  <2>4. m \in stopping' => Spent(m)'
    BY <1>20, <2>1, <2>3 DEF Spent, Waits, Present
  <2> QED BY <1>4, <1>5, <2>1, <2>3, <2>4
<1> QED
  BY <1>8, <1>9, <1>10, <1>12, <1>13, <1>14, <1>16, <1>17, <1>18, <1>19, <1>21, <1>22,
     <1>23, <1>24 DEF WorkerStep

\* The step that claims a transcription finds no earlier press in force.
LEMMA ClaimsUnstopped ==
    ASSUME StopInv, Next, pc = "peeked", pc' = "claimed", job'.stage = "transcribe"
    PROVE  job'.meeting \notin stopping
<1>1. Claim
  <2>1. CASE WorkerStep
    BY <2>1
       DEF WorkerStep, Peek, Begin, MarkRunning, StageReturns, StageCancelled,
           StagePreempted, StageDefers, StageRaises, HandleCancelled, HandlePutBack,
           HandleFailure, FailMeeting, Finally, RemoveFiles, RemoveFolder,
           FolderStays, RemoveRow, RunEnds, Complete, SetDone, EnqueueNext
  <2>2. CASE \E m \in Meetings : ApiStep(m)
    BY <2>2
       DEF ApiStep, Finish, Keep, RetryStage, StopTranscription, DeleteRequest, DeleteCheck,
           DeleteFiles, DeleteFolder, FolderStays, DeleteRow, workerVars
  <2>3. CASE Environment
    BY <2>3
       DEF Environment, RecordingStarts, RecordingEnds, Restart, Starting, Sweep,
         SweepFiles, SweepFolder, FolderStays, SweepRow, StartBackground, Lifespan,
           TimePasses, workerVars, WorkerAt, ToIdle
  <2> QED BY <2>1, <2>2, <2>3 DEF Next
<1>2. /\ Found(job) /\ claim(job.meeting, job.stage)
      /\ job' = JobOf(job.meeting, job.stage)
  BY <1>1 DEF Claim, ToIdle, WorkerAt
<1>3. job'.meeting = job.meeting /\ job'.stage = job.stage /\ job.meeting \in Meetings
      /\ job.stage \in JobStage
  BY <1>2 DEF JobOf, StopInv, HeldInv, TypeOK, Job
<1>4. Waits(job.meeting, "transcribe") /\ Present(job.meeting)
  BY <1>2, <1>3 DEF claim, Waits, StopInv, HeldInv, GoneHasNoJobs, Found, Exists, Absent
<1> QED BY <1>3, <1>4 DEF StopInv, Spent, Held

\* Without a retry no stop outlives the run it was pressed for, however often one is
\* pressed, and whatever is deleted, kept, preempted or killed meanwhile.
THEOREM StopsEndWithTheirRun ==
    ASSUME ~PurgeFails, Budget["retry"] = 0
    PROVE  Spec => StopEndsWithItsRun
<1>1. Init => StopInv
  <2> SUFFICES ASSUME Init
               PROVE  StopInv
    OBVIOUS
  <2>1. left["retry"] = 0 /\ stopping = {} /\ pc = "idle"
        /\ \A m \in Meetings, s \in JobStage : jobs[m][s] = Absent
    BY DEF Init, QueueInit
  <2>2. \A m \in Meetings : ~Begun(m)
    BY <2>1 DEF Begun, Held, Exists, Absent
  <2> QED BY <2>1, <2>2, InitHeld DEF StopInv
<1>2. StopInv /\ [Next]_vars => StopInv'
  <2> SUFFICES ASSUME StopInv, [Next]_vars
               PROVE  StopInv'
    OBVIOUS
  <2>1. HeldInv'
    BY StepHeld DEF StopInv
  <2>2. CASE UNCHANGED vars
    <3>1. UNCHANGED <<jobs, state, stopping, left, workerVars>>
      BY <2>2 DEF vars, queueVars, meetingVars
    <3>2. UNCHANGED <<pc, job, before>>
      BY <3>1 DEF workerVars
    <3>3. \A m \in Meetings : (Begun(m)' <=> Begun(m)) /\ (Spent(m)' <=> Spent(m))
      BY <3>1, <3>2 DEF Begun, Spent, Held, cur, Exists, Found, Waits, Present
    <3>4. stopping \subseteq Meetings
      BY DEF StopInv, HeldInv, TypeOK, QueueTypeOK
    <3> QED BY <2>1, <3>1, <3>2, <3>3, <3>4 DEF StopInv
  <2> QED BY <2>1, <2>2, WorkerStepStop, ApiStepStop, EnvironmentStop DEF Next
<1>3. StopInv /\ [Next]_vars =>
         [pc = "peeked" /\ pc' = "claimed" /\ job'.stage = "transcribe"
             => job'.meeting \notin stopping]_vars
  BY ClaimsUnstopped
<1> QED BY <1>1, <1>2, <1>3, PTL DEF Spec, StopEndsWithItsRun

(***************************************************************************)
(* No redo request outlives a stop.  A stop forgets those there are, so    *)
(* what is asked of a stopped meeting came after it, and began at a stage  *)
(* that comes after the transcription.  That stage waits, runs or failed,  *)
(* or it has just ended, and then queues the next: the request goes along  *)
(* with the row, up to the delivery.                                       *)
(***************************************************************************)
Later == JobStage \ {"transcribe"}

Asked(m) == \E s \in JobStage : <<m, s>> \in rerun

Stopped(m) == jobs[m]["transcribe"].state = "cancelled"

Begins(m) == jobs[m]["transcribe"].state \notin {"done", "absent"}

AtWork(m) == Held(m) \/ \E s \in JobStage : Exists(m, s)

Transcribes(m) == Held(m) /\ job.stage = "transcribe" /\ pc \notin {"settle", "next"}

\* Before the first retry: what is not transcribed has no other row, and no other stage
\* in hand.
FirstTime(m) ==
    /\ AtWork(m) => state[m] \notin {"RECORDING", "DISCARDED"}
    /\ Held(m) /\ pc # "claimed" => before \notin {"RECORDING", "DISCARDED"}
    /\ Begins(m) =>
          /\ \A s \in Later : ~Exists(m, s)
          /\ Held(m) => job.stage = "transcribe" /\ pc \notin {"settle", "next"}
    /\ Transcribes(m) => jobs[m]["transcribe"].state # "done"

Stands(m, s) == jobs[m][s].state \in {"pending", "running", "failed"}

HasEnded(m, s) == Held(m) /\ job.stage = s /\ pc \in {"settle", "next"}

\* What is to be redone comes at or after this stage.
LeadsFrom(m, s) ==
    /\ \A t \in JobStage : <<m, t>> \in rerun => t \in StagesFrom(s)
    /\ Stands(m, s) \/ HasEnded(m, s)

Redoing(m) == Stopped(m) /\ Asked(m) => \E s \in Later : LeadsFrom(m, s)

\* The stage in hand is not to be redone: its run has taken the request.
Taken(m) ==
    Stopped(m) /\ Held(m) /\ pc # "claimed" /\ job.stage # "transcribe"
        => <<m, job.stage>> \notin rerun

RowsArePresent(m) == \A s \in JobStage : Exists(m, s) => Present(m)

Redone(m) ==
    /\ RowsArePresent(m) /\ Redoing(m) /\ Taken(m)
    /\ left["retry"] = 1 => FirstTime(m)

RerunInv ==
    /\ TypeOK
    /\ left["retry"] \in {0, 1}
    /\ left["retry"] = 1 => rerun = {}
    /\ \A m \in Meetings : Redone(m)

\* What most steps do to a meeting: the place of its run, if any, is of the same kind, or
\* the run is over; rows that stand do so, no row comes, and who is stopped was stopped,
\* or is not asked for any more.
RunGoesOn(m) ==
    \/ UNCHANGED <<pc, job, before>>
    \/ /\ UNCHANGED <<job, before>>
       /\ pc \notin {"starting", "sweeping", "swept", "idle", "peeked", "claimed"}
       /\ pc' \notin {"starting", "sweeping", "swept", "idle", "peeked", "claimed"}
       /\ pc \in {"settle", "next"} <=> pc' \in {"settle", "next"}
    \/ ~Held(m)' /\ (~Held(m) \/ pc \notin {"settle", "next"} \/ ~Stopped(m)')

RowsStand(m) ==
    /\ \A s \in JobStage : Exists(m, s)' => Exists(m, s)
    /\ Stopped(m)' => Stopped(m) \/ ~Asked(m)'
    /\ \A s \in Later : Stands(m, s) => Stands(m, s)' \/ ~Stopped(m)' \/ ~Asked(m)'
    /\ left["retry"] = 1 /\ Begins(m)' => Begins(m)
    /\ jobs'[m]["transcribe"].state = "done" => jobs[m]["transcribe"].state = "done"

StateHolds(m) ==
    /\ left["retry"] = 1 /\ state'[m] \in {"RECORDING", "DISCARDED"} => state'[m] = state[m]
    /\ state'[m] = "GONE" => state[m] = "GONE" \/ \A s \in JobStage : ~Exists(m, s)'

LEMMA KeepsRedone ==
    ASSUME RerunInv, NEW m \in Meetings, rerun' \subseteq rerun,
           left'["retry"] = left["retry"], RunGoesOn(m), RowsStand(m), StateHolds(m)
    PROVE  Redone(m)'
<1>1. Redone(m)
  BY DEF RerunInv
<1>2. Asked(m)' => Asked(m)
  BY DEF Asked
<1>3. Held(m)' => Held(m)
  BY DEF RunGoesOn, Held, cur
<1>4. RowsArePresent(m)'
  BY <1>1 DEF Redone, RowsArePresent, RowsStand, StateHolds, Present
<1>5. Redoing(m)'
  <2> SUFFICES ASSUME Stopped(m)', Asked(m)'
               PROVE  \E s \in Later : LeadsFrom(m, s)'
    BY DEF Redoing
  <2>1. Stopped(m)
    BY DEF RowsStand
  <2>2. PICK s \in Later : LeadsFrom(m, s)
    BY <1>1, <1>2, <2>1 DEF Redone, Redoing
  <2>3. HasEnded(m, s) => HasEnded(m, s)'
    BY DEF RunGoesOn, HasEnded, Held, cur
  <2>4. Stands(m, s) => Stands(m, s)'
    BY DEF RowsStand
  <2>5. StagesFrom(s)' = StagesFrom(s)
    BY DEF StagesFrom, Index
  <2>6. LeadsFrom(m, s)'
    BY <2>2, <2>3, <2>4 DEF LeadsFrom
  <2> QED BY <2>6
<1>6. Taken(m)'
  <2>1. CASE Stopped(m)
    BY <1>1, <1>3, <2>1 DEF Redone, Taken, RunGoesOn, Held, cur
  <2>2. CASE ~Asked(m)' /\ Held(m)' /\ RerunInv
    <3>1. Held(m)' => job'.stage \in JobStage /\ job' = job
      BY <1>3, <2>2 DEF RunGoesOn, Held, cur, RerunInv, TypeOK, Job
    <3> QED BY <2>2, <3>1 DEF Taken, Asked
  <2> QED BY <2>1, <2>2 DEF RowsStand, Taken
<1>7. left'["retry"] = 1 => FirstTime(m)'
  <2> SUFFICES ASSUME left["retry"] = 1
               PROVE  FirstTime(m)'
    OBVIOUS
  <2>1. FirstTime(m)
    BY <1>1 DEF Redone
  <2>2. AtWork(m)' => state'[m] \notin {"RECORDING", "DISCARDED"}
    BY <1>3, <2>1 DEF FirstTime, AtWork, RowsStand, StateHolds
  <2>3. Held(m)' /\ pc' # "claimed" => before' \notin {"RECORDING", "DISCARDED"}
    BY <2>1 DEF FirstTime, RunGoesOn, Held, cur
  <2>4. Begins(m)' =>
           /\ \A s \in Later : ~Exists(m, s)'
           /\ Held(m)' => job'.stage = "transcribe" /\ pc' \notin {"settle", "next"}
    BY <2>1 DEF FirstTime, RunGoesOn, RowsStand, Held, cur, Later
  <2>5. Transcribes(m)' => jobs'[m]["transcribe"].state # "done"
    BY <1>3, <2>1 DEF FirstTime, Transcribes, RunGoesOn, RowsStand, Held, cur
  <2> QED BY <2>2, <2>3, <2>4, <2>5 DEF FirstTime
<1> QED BY <1>4, <1>5, <1>6, <1>7 DEF Redone

LEMMA UntouchedStands ==
    ASSUME NEW m \in Meetings, jobs'[m] = jobs[m]
    PROVE  RowsStand(m) /\ (state'[m] = state[m] => StateHolds(m))
BY DEF RowsStand, StateHolds, Exists, Stopped, Stands, Begins

LEMMA AllRedone ==
    ASSUME RerunInv, TypeOK', rerun' \subseteq rerun, left'["retry"] = left["retry"],
           \A m \in Meetings : Redone(m)'
    PROVE  RerunInv'
BY DEF RerunInv

\* Where each stage leads, and what a stage that has been redone leaves to its next.
LEMMA StagesInOrder ==
    /\ \A s \in JobStage : s \in StagesFrom(s)
    /\ \A s \in Later \ {"deliver"} :
          /\ next_stage(s) \in Later
          /\ \A t \in StagesFrom(s) : t # s => t \in StagesFrom(next_stage(s))
    /\ \A t \in StagesFrom("deliver") : t = "deliver"
    /\ next_stage("transcribe") \in Later
<1>1. \A s \in JobStage : Index(s) \in 1 .. 5
  BY StageIndices DEF JobStage
<1>2. \A s \in JobStage : s \in StagesFrom(s)
  BY <1>1 DEF StagesFrom
<1> QED BY <1>2, StageIndices, NextStages DEF StagesFrom, Later, JobStage

\* Whichever way a run ends but by its success, its row stands or was never there, or a stop
\* forgot what was asked.
LEMMA UpdatedStands ==
    ASSUME TypeOK, NEW m \in Meetings, cur = m, Found(job), NEW row \in Row,
           Update(job, row), Held(m), pc \notin {"settle", "next"},
           left["retry"] = 1 => FirstTime(m),
           row.state \in {"pending", "failed"} \/ (row.state = "cancelled" /\ ~Asked(m)')
    PROVE  RowsStand(m) /\ \A n \in Meetings : n # m => jobs'[n] = jobs[n]
<1>1. job.meeting = m /\ job.stage \in JobStage
  BY DEF cur, TypeOK, Job
<1>2. /\ \A n \in Meetings : n # m => jobs'[n] = jobs[n]
      /\ \A s \in JobStage : jobs'[m][s] = IF s = job.stage THEN row ELSE jobs[m][s]
  BY <1>1 DEF Update, SetRow, TypeOK, QueueTypeOK
<1>3. Exists(m, job.stage) /\ "transcribe" \in JobStage
  BY <1>1 DEF Found, JobStage
<1>4. \A s \in JobStage : Exists(m, s)' => Exists(m, s)
  BY <1>2, <1>3 DEF Exists
<1>5. Stopped(m)' => Stopped(m) \/ ~Asked(m)'
  BY <1>2, <1>3 DEF Stopped
<1>6. \A s \in Later : Stands(m, s) => Stands(m, s)' \/ ~Stopped(m)' \/ ~Asked(m)'
  BY <1>2 DEF Stands, Later
<1>7. left["retry"] = 1 /\ Begins(m)' => Begins(m)
  <2>1. job.stage # "transcribe" => jobs'[m]["transcribe"] = jobs[m]["transcribe"]
    BY <1>2, <1>3
  <2>2. CASE job.stage = "transcribe"
    BY <1>2, <1>3, <2>2 DEF Begins, Exists, FirstTime, Transcribes
  <2> QED BY <2>1, <2>2 DEF Begins
<1>8. jobs'[m]["transcribe"].state = "done" => jobs[m]["transcribe"].state = "done"
  BY <1>2, <1>3
<1> QED
  BY <1>2, <1>4, <1>5, <1>6, <1>7, <1>8 DEF RowsStand

\* A meeting's row takes all its jobs along.
LEMMA RowGoesStands ==
    ASSUME TypeOK, NEW m \in Meetings, RowGoes(m), NEW n \in Meetings
    PROVE  RowsStand(n) /\ StateHolds(n)
<1>1. CASE n = m
  <2>1. /\ \A s \in JobStage : jobs'[n][s] = Absent
        /\ "transcribe" \in JobStage /\ state'[n] = "GONE"
    BY <1>1, RowGoesEffect DEF JobStage
  <2> QED
    BY <2>1 DEF RowsStand, StateHolds, Exists, Stopped, Stands, Begins, Absent
<1>2. CASE n # m
  BY <1>2, RowGoesEffect, UntouchedStands
<1> QED BY <1>1, <1>2

\* A row that is queued waits, and is the only one that changes.
LEMMA EnqueueEffect ==
    ASSUME QueueTypeOK, NEW m \in Meetings, NEW s \in JobStage, enqueue(m, s)
    PROVE  /\ \A n \in Meetings : n # m => jobs'[n] = jobs[n]
           /\ \A t \in JobStage : t # s => jobs'[m][t] = jobs[m][t]
           /\ jobs'[m][s].state = "pending"
<1>1. PICK row : SetRow(m, s, row) /\ row.state = "pending"
  <2>1. [jobs[m][s] EXCEPT !.state = "pending", !.due = TRUE].state = "pending"
    BY RowType DEF Row
  <2>2. [Absent EXCEPT !.id = nextId, !.state = "pending"].state = "pending"
    BY DEF Absent
  <2> QED BY <2>1, <2>2 DEF enqueue
<1>2. row.state = "pending" /\ jobs' = [jobs EXCEPT ![m][s] = row]
  BY <1>1 DEF SetRow
<1> QED BY <1>2 DEF QueueTypeOK

\* The worker's steps.  What a request asks for goes from a stage that has ended to the next.
LEMMA WorkerStepRedone ==
    ASSUME HasProvider, RerunInv, TypeOK', WorkerStep
    PROVE  RerunInv'
<1> USE DEF meetingVars, queueVars
<1> DEFINE Between == {"starting", "sweeping", "swept", "idle", "peeked"}
           Ended == {"settle", "next"}
<1>1. PICK m \in Meetings : cur = m /\ job.meeting = m /\ job.stage \in JobStage
  BY DEF RerunInv, TypeOK, Job, cur
<1>2. /\ TypeOK /\ QueueTypeOK /\ RowOf(job) \in Row /\ Redone(m) /\ "transcribe" \in JobStage
      /\ left \in [Events -> Nat]
  BY <1>1, RowType DEF RerunInv, TypeOK, RowOf, JobStage
<1>3. left'["retry"] = left["retry"]
  <2>1. StageDefers => left'["retry"] = left["retry"]
    BY <1>2 DEF StageDefers, Spend
  <2>2. UNCHANGED left \/ StageDefers
    BY DEF WorkerStep, Peek, Claim, Begin, MarkRunning, StageReturns, StageCancelled,
           StagePreempted, StageRaises, HandleCancelled, HandlePutBack, HandleFailure,
           FailMeeting, Finally, RemoveFiles, RemoveFolder,
           FolderStays, RemoveRow, RunEnds, Complete, SetDone, EnqueueNext
  <2> QED BY <2>1, <2>2
<1>4. rerun' \subseteq rerun
  BY DEF WorkerStep, Peek, Claim, Begin, MarkRunning, StageReturns, StageCancelled,
         StagePreempted, StageDefers, StageRaises, HandleCancelled, HandlePutBack,
         HandleFailure, FailMeeting, Finally, RemoveFiles, RemoveFolder,
           FolderStays, RemoveRow, RunEnds, Complete, SetDone, EnqueueNext, stopped,
         WithoutReruns
\* The other meetings are not in its hand.
<1>5. ASSUME pc' \in Between \/ cur' = m, Redone(m)',
             \A n \in Meetings : n # m => jobs'[n] = jobs[n] /\ state'[n] = state[n]
      PROVE  RerunInv'
  <2>1. ASSUME NEW n \in Meetings, n # m
        PROVE  Redone(n)'
    <3>1. ~Held(n) /\ ~Held(n)'
      BY <1>1, <1>5, <2>1 DEF Held
    <3>2. RowsStand(n) /\ StateHolds(n)
      BY <1>5, <2>1, UntouchedStands
    <3> QED BY <1>3, <1>4, <3>1, <3>2, KeepsRedone DEF RunGoesOn
  <2> QED BY <1>3, <1>4, <1>5, <2>1, AllRedone
\* A step after which the rows stand.
<1>6. ASSUME \/ pc' \in Between /\ (pc \notin Ended \/ ~Stopped(m)')
             \/ /\ UNCHANGED <<job, before>>
                /\ pc \notin Between \union {"claimed"} /\ pc' \notin Between \union {"claimed"}
                /\ pc \in Ended <=> pc' \in Ended,
             RowsStand(m), StateHolds(m),
             \A n \in Meetings : n # m => jobs'[n] = jobs[n] /\ state'[n] = state[n]
      PROVE  RerunInv'
  <2>1. pc' \in Between \/ cur' = m
    BY <1>1, <1>6 DEF cur
  <2>2. RunGoesOn(m)
    BY <1>6 DEF RunGoesOn, Held
  <2> QED BY <1>3, <1>4, <1>5, <1>6, <2>1, <2>2, KeepsRedone
<1>7. UNCHANGED jobs => RowsStand(m)
  BY UntouchedStands
<1>8. UNCHANGED state => StateHolds(m)
  BY DEF StateHolds
<1>9. ASSUME NEW st \in MeetingState \ {"RECORDING", "DISCARDED"}, SetIfLegal(m, st)
      PROVE  StateHolds(m) /\ \A n \in Meetings : n # m => state'[n] = state[n]
  BY <1>2, <1>9, SetIfLegalEffect, StateStays DEF StateHolds
<1>10. CASE Peek
  BY <1>6, <1>7, <1>8, <1>10 DEF Peek
<1>11. CASE Claim
  <2>1. pc = "peeked" /\ UNCHANGED <<state, rerun>>
    BY <1>11 DEF Claim
  <2>2. CASE pc' = "idle" /\ UNCHANGED jobs
    BY <1>6, <1>7, <1>8, <2>1, <2>2
  <2>3. CASE Found(job) /\ claim(m, job.stage) /\ job' = JobOf(m, job.stage)
             /\ pc' = "claimed"
    <3> DEFINE row == [jobs[m][job.stage] EXCEPT !.state = "running"]
    <3>1. row.state = "running" /\ Exists(m, job.stage)
      BY <1>1, <1>2, <2>3 DEF Found, RowOf, Row
    <3> HIDE DEF row
    <3>2. /\ \A n \in Meetings : n # m => jobs'[n] = jobs[n]
          /\ \A s \in JobStage : jobs'[m][s] = IF s = job.stage THEN row ELSE jobs[m][s]
      BY <1>1, <1>2, <2>3 DEF claim, SetRow, QueueTypeOK, row
    <3>3. /\ \A s \in JobStage : Exists(m, s)' <=> Exists(m, s)
          /\ \A s \in JobStage : Stands(m, s) => Stands(m, s)'
          /\ Stopped(m)' => Stopped(m)
      BY <1>2, <3>1, <3>2 DEF Exists, Stands, Stopped
    <3>4. cur' = m /\ job'.stage = job.stage
      BY <1>1, <2>3 DEF cur, JobOf
    <3>5. ~Held(m)
      BY <2>1 DEF Held
    <3>6. RowsArePresent(m)'
      BY <1>2, <2>1, <3>3 DEF Redone, RowsArePresent, Present
    <3>7. Redoing(m)'
      <4>1. ASSUME NEW s \in JobStage, LeadsFrom(m, s)
            PROVE  LeadsFrom(m, s)'
        BY <2>1, <3>3, <3>5, <4>1 DEF LeadsFrom, HasEnded, StagesFrom, Index
      <4> QED BY <1>2, <2>1, <3>3, <4>1 DEF Redone, Redoing, Asked, Later
    <3>8. Taken(m)'
      BY <2>3 DEF Taken
    <3>9. left'["retry"] = 1 => FirstTime(m)'
      <4> SUFFICES ASSUME left["retry"] = 1
                   PROVE  FirstTime(m)'
        BY <1>3
      <4>1. FirstTime(m)
        BY <1>2 DEF Redone
      <4>2. AtWork(m)
        BY <1>1, <3>1 DEF AtWork
      <4>3. CASE job.stage = "transcribe"
        <5>1. jobs'[m]["transcribe"].state = "running" /\ Begins(m)
          BY <1>2, <2>3, <3>1, <3>2, <4>3 DEF Begins, claim
        <5> QED
          BY <2>1, <2>3, <3>3, <3>4, <4>1, <4>2, <4>3, <5>1
             DEF FirstTime, Later, Transcribes, Held
      <4>4. CASE job.stage # "transcribe"
        <5>1. jobs'[m]["transcribe"] = jobs[m]["transcribe"]
          BY <1>2, <3>2, <4>4
        <5>2. ~Begins(m)'
          BY <1>1, <3>1, <4>1, <4>4, <5>1 DEF FirstTime, Later, Begins
        <5> QED
          BY <2>1, <2>3, <3>4, <4>1, <4>2, <4>4, <5>2 DEF FirstTime, Transcribes
      <4> QED BY <4>3, <4>4
    <3> QED
      BY <1>5, <2>1, <3>2, <3>4, <3>6, <3>7, <3>8, <3>9 DEF Redone
  <2> QED BY <1>1, <1>11, <2>2, <2>3 DEF Claim, ToIdle, WorkerAt
<1>12. CASE Begin
  <2>1. pc = "claimed" /\ UNCHANGED <<state, jobs>>
    BY <1>12 DEF Begin
  <2>2. CASE ~Present(m)
    BY <1>1, <1>6, <1>7, <1>8, <1>12, <2>1, <2>2 DEF Begin, ToIdle, WorkerAt
  <2>3. CASE Present(m)
    <3>1. /\ pc' = "marking" /\ before' = state[m] /\ job' = job
          /\ rerun' = rerun \ {<<m, job.stage>>}
      BY <1>1, <1>12, <2>3 DEF Begin
    <3>2. cur' = m /\ Held(m) /\ Held(m)'
      BY <1>1, <2>1, <3>1 DEF cur, Held
    <3>3. RowsArePresent(m)'
      BY <1>2, <2>1 DEF Redone, RowsArePresent, Present, Exists
    <3>4. Redoing(m)'
      <4>1. ASSUME NEW s \in JobStage, LeadsFrom(m, s)
            PROVE  LeadsFrom(m, s)'
        BY <2>1, <3>1, <4>1 DEF LeadsFrom, HasEnded, StagesFrom, Index, Stands
      <4> QED BY <1>2, <2>1, <3>1, <4>1 DEF Redone, Redoing, Asked, Later, Stopped
    <3>5. Taken(m)'
      BY <1>1, <3>1 DEF Taken
    <3>6. left'["retry"] = 1 => FirstTime(m)'
      BY <1>2, <1>3, <2>1, <3>1, <3>2
         DEF Redone, FirstTime, AtWork, Begins, Exists, Transcribes
    <3> QED BY <1>5, <2>1, <3>2, <3>3, <3>4, <3>5, <3>6 DEF Redone
  <2> QED BY <2>2, <2>3
<1>13. CASE MarkRunning
  <2>1. pc = "marking" /\ UNCHANGED jobs
    BY <1>13 DEF MarkRunning
  <2>2. CASE Present(m)
    <3>1. /\ pc' = "stage" /\ UNCHANGED <<job, before>>
          /\ SetIfLegal(m, STAGE_RUNNING_STATE[job.stage])
      BY <1>1, <1>13, <2>2 DEF MarkRunning, Goto
    <3>2. STAGE_RUNNING_STATE[job.stage] \in MeetingState \ {"RECORDING", "DISCARDED"}
      BY <1>1, StageStatesType DEF JobStage, STAGE_RUNNING_STATE
    <3> QED BY <1>6, <1>7, <1>9, <2>1, <3>1, <3>2
  <2>3. CASE ~Present(m)
    BY <1>1, <1>6, <1>7, <1>8, <1>13, <2>1, <2>3 DEF MarkRunning, ToIdle, WorkerAt
  <2> QED BY <2>2, <2>3
<1>14. CASE StageReturns \/ StageCancelled \/ StagePreempted \/ StageDefers \/ StageRaises
  <2>1. /\ pc = "stage" /\ pc' \in {"finally", "handle"}
        /\ UNCHANGED <<jobs, state, job, before>>
    BY <1>14
       DEF StageReturns, StageCancelled, StagePreempted, StageDefers, StageRaises, EndStage
  <2> QED BY <1>6, <1>7, <1>8, <2>1
<1>15. ASSUME pc = "handle", pc' \in {"finally", "failing"}, UNCHANGED <<job, before>>,
              StateHolds(m), \A n \in Meetings : n # m => state'[n] = state[n],
              Found(job), NEW row \in Row, Update(job, row),
              row.state \in {"pending", "failed"} \/ (row.state = "cancelled" /\ ~Asked(m)')
       PROVE  RerunInv'
  <2>1. Held(m) /\ (left["retry"] = 1 => FirstTime(m))
    BY <1>1, <1>2, <1>15 DEF Held, Redone
  <2>2. RowsStand(m) /\ \A n \in Meetings : n # m => jobs'[n] = jobs[n]
    BY <1>1, <1>2, <1>15, <2>1, UpdatedStands
  <2> QED BY <1>6, <1>15, <2>2
<1>16. CASE HandleCancelled
  <2>1. pc = "handle" /\ pc' = "finally" /\ UNCHANGED <<job, before>>
    BY <1>16 DEF HandleCancelled, Goto
  <2>2. CASE UNCHANGED <<jobs, state>>
    BY <1>6, <1>7, <1>8, <2>1, <2>2
  <2>3. CASE Found(job) /\ stopped(job) /\ settle_stopped(m, before)
    <3>1. /\ Update(job, StoppedRow(RowOf(job))) /\ StoppedRow(RowOf(job)).state = "cancelled"
          /\ ~Asked(m)'
      BY <1>1, <1>2, <2>3 DEF stopped, StoppedRow, Row, Asked, WithoutReruns
    <3>2. StoppedRow(RowOf(job)) \in Row
      BY <1>2, WrittenType DEF StoppedRow, JobState, LastError
    <3>3. /\ state'[m] = IF is_legal(state[m], SettleTarget(m, before))
                         THEN SettleTarget(m, before) ELSE state[m]
          /\ \A n \in Meetings : n # m => state'[n] = state[n]
          /\ state'[m] = "GONE" <=> state[m] = "GONE"
      BY <1>2, <2>3, SettleTargetType, SetIfLegalEffect, StateStays DEF settle_stopped, TypeOK
    <3>4. left["retry"] = 1 => before \notin {"RECORDING", "DISCARDED"}
      BY <1>1, <1>2, <2>1 DEF Redone, FirstTime, Held
    <3>5. StateHolds(m)
      BY <3>3, <3>4 DEF StateHolds, SettleTarget
    <3> QED BY <1>15, <2>1, <2>3, <3>1, <3>2, <3>3, <3>5
  <2> QED BY <1>1, <1>16, <2>2, <2>3 DEF HandleCancelled
<1>17. CASE HandlePutBack \/ HandleFailure
  <2>1. /\ pc = "handle" /\ pc' \in {"finally", "failing"}
        /\ UNCHANGED <<state, job, before>>
    BY <1>17 DEF HandlePutBack, HandleFailure, Goto
  <2>2. CASE UNCHANGED jobs
    BY <1>6, <1>7, <1>8, <2>1, <2>2
  <2>3. CASE Found(job) /\ (release(job) \/ defer(job) \/ fail(job, outcome = "permanent"))
    <3>1. PICK row \in Row : Update(job, row) /\ row.state \in {"pending", "failed"}
      <4> DEFINE released == [RowOf(job) EXCEPT !.state = "pending"]
                 deferred == [RowOf(job) EXCEPT !.state = "pending", !.due = FALSE,
                                                !.last_error = "error"]
                 failed == Failed(job, outcome = "permanent")
      <4>1. released \in Row /\ deferred \in Row
        BY <1>2, WrittenType DEF JobState, LastError
      <4>2. released.state = "pending" /\ deferred.state = "pending"
        BY <1>2 DEF Row
      <4>3. job.attempts + 1 \in Nat
        BY <1>2 DEF TypeOK, Job
      <4>4. failed \in Row /\ failed.state \in {"pending", "failed"}
        <5>1. FailsForGood(job, outcome = "permanent") \in BOOLEAN
          BY DEF FailsForGood
        <5>2. failed \in Row
          BY <1>2, <4>3, <5>1, WrittenType DEF Failed, JobState, LastError
        <5>3. failed.state \in {"pending", "failed"}
          BY <1>2 DEF Failed, Row
        <5> QED BY <5>2, <5>3
      <4>5. Update(job, released) \/ Update(job, deferred) \/ Update(job, failed)
        BY <2>3 DEF release, defer, fail
      <4> HIDE DEF released, deferred, failed
      <4> QED BY <4>1, <4>2, <4>4, <4>5
    <3> QED BY <1>8, <1>15, <2>1, <2>3, <3>1
  <2> QED BY <1>17, <2>2, <2>3 DEF HandlePutBack, HandleFailure
<1>18. CASE FailMeeting
  <2>1. pc = "failing" /\ pc' = "finally" /\ UNCHANGED <<jobs, job, before>>
    BY <1>18 DEF FailMeeting, Goto
  <2>2. UNCHANGED state \/ SetIfLegal(m, "FAILED")
    BY <1>1, <1>18 DEF FailMeeting
  <2>3. "FAILED" \in MeetingState \ {"RECORDING", "DISCARDED"}
    BY DEF MeetingState
  <2> QED BY <1>6, <1>7, <1>8, <1>9, <2>1, <2>2, <2>3
<1>19. CASE Finally \/ RemoveFiles \/ RemoveFolder \/ RemoveRow
  <2>1. /\ pc \in {"finally", "removing", "emptied"}
        /\ \/ pc' = "idle"
           \/ pc' \in {"removing", "emptied", "success"} /\ UNCHANGED <<job, before>>
    BY <1>19 DEF Finally, RemoveFiles, RemoveFolder, FolderStays, RemoveRow, RunEnds, Goto,
                 ToIdle, WorkerAt, workerVars
  <2>2. CASE UNCHANGED <<jobs, state>>
    BY <1>6, <1>7, <1>8, <2>1, <2>2
  <2>3. CASE RemoveRow
    <3>1. RowGoes(m)
      BY <1>1, <2>3 DEF RemoveRow
    <3>2. \A n \in Meetings : n # m => jobs'[n] = jobs[n] /\ state'[n] = state[n]
      BY <1>2, <3>1, RowGoesEffect
    <3>3. RowsStand(m) /\ StateHolds(m)
      BY <1>2, <3>1, RowGoesStands
    <3> QED BY <1>6, <2>1, <3>2, <3>3
  <2> QED
    BY <1>19, <2>2, <2>3 DEF Finally, RemoveFiles, RemoveFolder, FolderStays
<1>20. CASE Complete
  <2>1. pc = "success" /\ UNCHANGED <<state, rerun>>
    BY <1>20 DEF Complete
  <2>2. CASE UNCHANGED jobs /\ pc' = "idle"
    BY <1>6, <1>7, <1>8, <2>1, <2>2
  <2>3. CASE Found(job) /\ complete(job) /\ pc' = "settle" /\ UNCHANGED <<job, before>>
    <3> DEFINE row == [RowOf(job) EXCEPT !.state = "done", !.last_error = "none"]
    <3>1. row.state = "done" /\ Update(job, row)
      BY <1>2, <2>3 DEF complete, Row
    <3> HIDE DEF row
    <3>2. /\ \A n \in Meetings : n # m => jobs'[n] = jobs[n]
          /\ \A s \in JobStage : jobs'[m][s] = IF s = job.stage THEN row ELSE jobs[m][s]
      BY <1>1, <1>2, <3>1 DEF Update, SetRow, QueueTypeOK
    <3>3. cur' = m /\ Held(m) /\ Held(m)'
      BY <1>1, <2>1, <2>3 DEF cur, Held
    <3>4. \A s \in JobStage : Exists(m, s)' => Exists(m, s)
      BY <1>1, <2>3, <3>2 DEF Found, Exists
    <3>5. RowsArePresent(m)'
      BY <1>2, <2>1, <3>4 DEF Redone, RowsArePresent, Present
    <3>6. Stopped(m)' => Stopped(m) /\ job.stage # "transcribe"
      BY <1>2, <3>1, <3>2 DEF Stopped
    <3>7. Redoing(m)'
      <4> SUFFICES ASSUME Stopped(m)', Asked(m)'
                   PROVE  \E s \in Later : LeadsFrom(m, s)'
        BY DEF Redoing
      <4>1. PICK s \in Later : LeadsFrom(m, s)
        BY <1>2, <2>1, <3>6 DEF Redone, Redoing, Asked
      <4>2. s \in JobStage /\ Stands(m, s)
        BY <2>1, <4>1 DEF LeadsFrom, HasEnded, Later
      <4>3. Stands(m, s)' \/ HasEnded(m, s)'
        BY <2>3, <3>2, <3>3, <4>2 DEF Stands, HasEnded
      <4>4. StagesFrom(s)' = StagesFrom(s)
        BY DEF StagesFrom, Index
      <4>5. LeadsFrom(m, s)'
        BY <2>1, <4>1, <4>3, <4>4 DEF LeadsFrom
      <4> QED BY <4>5
    <3>8. Taken(m)'
      BY <1>2, <2>1, <2>3, <3>3, <3>6 DEF Redone, Taken
    <3>9. left'["retry"] = 1 => FirstTime(m)'
      <4> SUFFICES ASSUME left["retry"] = 1
                   PROVE  FirstTime(m)'
        BY <1>3
      <4>1. FirstTime(m)
        BY <1>2 DEF Redone
      <4>2. ~Begins(m)'
        <5>1. CASE job.stage = "transcribe"
          BY <1>2, <3>1, <3>2, <5>1 DEF Begins
        <5>2. CASE job.stage # "transcribe"
          BY <1>2, <3>2, <3>3, <4>1, <5>2 DEF FirstTime, Begins
        <5> QED BY <5>1, <5>2
      <4>3. AtWork(m) /\ before \notin {"RECORDING", "DISCARDED"}
        BY <2>1, <3>3, <4>1 DEF AtWork, FirstTime
      <4> QED BY <2>1, <2>3, <4>1, <4>2, <4>3 DEF FirstTime, Transcribes
    <3> QED BY <1>5, <2>1, <3>2, <3>3, <3>5, <3>7, <3>8, <3>9 DEF Redone
  <2> QED BY <1>20, <2>2, <2>3 DEF Complete, Goto, ToIdle, WorkerAt
<1>21. CASE SetDone
  <2>1. pc = "settle" /\ UNCHANGED jobs
    BY <1>21 DEF SetDone
  <2>2. CASE Present(m)
    <3>1. /\ pc' = "next" /\ UNCHANGED <<job, before>>
          /\ UNCHANGED state \/ SetIfLegal(m, STAGE_DONE_STATE[job.stage])
      BY <1>1, <1>21, <2>2 DEF SetDone, Goto
    <3>2. STAGE_DONE_STATE[job.stage] \in MeetingState \ {"RECORDING", "DISCARDED"}
      BY <1>1, StageStatesType DEF JobStage, STAGE_DONE_STATE
    <3> QED BY <1>6, <1>7, <1>8, <1>9, <2>1, <3>1, <3>2
  <2>3. CASE ~Present(m)
    <3>1. ~Stopped(m)'
      BY <1>2, <2>1, <2>3 DEF Redone, RowsArePresent, Exists, Stopped
    <3> QED
      BY <1>1, <1>6, <1>7, <1>8, <1>21, <2>1, <2>3, <3>1 DEF SetDone, ToIdle, WorkerAt
  <2> QED BY <2>2, <2>3
<1>22. CASE EnqueueNext
  <2>1. /\ pc = "next" /\ pc' = "idle" /\ UNCHANGED <<state, rerun>>
        /\ IF HasNext /\ Present(m) THEN enqueue(m, next_stage(job.stage)) ELSE UNCHANGED jobs
    BY <1>1, <1>22 DEF EnqueueNext, enqueue_next_stage, ToIdle, WorkerAt
  <2>2. Held(m) /\ ~Held(m)'
    BY <1>1, <2>1 DEF Held
  <2>3. CASE ~(HasNext /\ Present(m))
    <3>1. Redoing(m)'
      <4> SUFFICES ASSUME Stopped(m)', Asked(m)'
                   PROVE  \E s \in Later : LeadsFrom(m, s)'
        BY DEF Redoing
      <4>1. Stopped(m) /\ Asked(m) /\ Present(m)
        BY <1>2, <2>1, <2>3 DEF Stopped, Asked, Redone, RowsArePresent, Exists
      <4>2. job.stage = "deliver" /\ <<m, "deliver">> \notin rerun
        BY <1>2, <2>1, <2>2, <2>3, <4>1 DEF HasNext, Redone, Taken
      <4>3. PICK s \in Later : LeadsFrom(m, s)
        BY <1>2, <4>1 DEF Redone, Redoing
      <4>4. Stands(m, s)
        BY <4>1, <4>2, <4>3, StagesInOrder DEF LeadsFrom, HasEnded, Asked
      <4>5. StagesFrom(s)' = StagesFrom(s) /\ Stands(m, s)'
        BY <2>1, <2>3, <4>4 DEF StagesFrom, Index, Stands
      <4>6. LeadsFrom(m, s)'
        BY <2>1, <4>3, <4>5 DEF LeadsFrom
      <4> QED BY <4>6
    <3>2. UNCHANGED <<jobs, state>>
      BY <2>1, <2>3
    <3>3. RowsArePresent(m)' /\ Taken(m)' /\ (left'["retry"] = 1 => FirstTime(m)')
      BY <1>2, <1>3, <2>2, <3>2
         DEF Redone, RowsArePresent, Present, Exists, Taken, FirstTime, AtWork, Begins,
             Transcribes
    <3> QED BY <1>5, <2>1, <3>1, <3>2, <3>3 DEF Redone
  <2>4. CASE HasNext /\ Present(m)
    <3>1. PICK x \in Later : x = next_stage(job.stage) /\ job.stage # "deliver"
      BY <1>1, <2>4, StagesInOrder DEF HasNext, Later
    <3>2. enqueue(m, x) /\ x \in JobStage
      BY <2>1, <2>4, <3>1 DEF Later
    <3>3. /\ \A n \in Meetings : n # m => jobs'[n] = jobs[n]
          /\ \A s \in JobStage : s # x => jobs'[m][s] = jobs[m][s]
          /\ jobs'[m][x].state = "pending"
      BY <1>2, <3>1, <3>2, EnqueueEffect
    <3>4. jobs'[m]["transcribe"] = jobs[m]["transcribe"]
      BY <1>2, <3>1, <3>3 DEF Later
    <3>5. RowsArePresent(m)'
      BY <2>1, <2>4 DEF RowsArePresent, Present
    <3>6. Redoing(m)'
      <4> SUFFICES ASSUME Stopped(m)', Asked(m)'
                   PROVE  \E s \in Later : LeadsFrom(m, s)'
        BY DEF Redoing
      <4>1. Stopped(m) /\ Asked(m)
        BY <2>1, <3>4 DEF Stopped, Asked
      <4>2. PICK s \in Later : LeadsFrom(m, s)
        BY <1>2, <4>1 DEF Redone, Redoing
      <4>3. StagesFrom(s)' = StagesFrom(s) /\ StagesFrom(x)' = StagesFrom(x)
        BY DEF StagesFrom, Index
      <4>4. CASE Stands(m, s)
        <5>1. Stands(m, s)'
          BY <3>3, <4>2, <4>4 DEF Stands, Later
        <5> QED BY <2>1, <4>2, <4>3, <5>1 DEF LeadsFrom
      <4>5. CASE ~Stands(m, s)
        <5>1. job.stage = s /\ <<m, s>> \notin rerun /\ s # "transcribe"
          BY <1>2, <2>1, <2>2, <4>1, <4>2, <4>5 DEF LeadsFrom, HasEnded, Redone, Taken, Later
        <5>2. \A t \in JobStage : <<m, t>> \in rerun => t \in StagesFrom(x)
          BY <3>1, <4>2, <5>1, StagesInOrder DEF LeadsFrom
        <5>3. LeadsFrom(m, x)'
          BY <2>1, <3>3, <4>3, <5>2 DEF LeadsFrom, Stands
        <5> QED BY <3>1, <5>3
      <4> QED BY <4>4, <4>5
    <3>7. Taken(m)'
      BY <2>2 DEF Taken
    <3>8. left'["retry"] = 1 => FirstTime(m)'
      BY <1>2, <1>3, <2>1, <2>2, <3>4
         DEF Redone, FirstTime, AtWork, Begins, Transcribes
    <3> QED BY <1>5, <2>1, <3>3, <3>5, <3>6, <3>7, <3>8 DEF Redone
  <2> QED BY <2>3, <2>4
<1> QED
  BY <1>10, <1>11, <1>12, <1>13, <1>14, <1>16, <1>17, <1>18, <1>19, <1>20, <1>21, <1>22
     DEF WorkerStep

\* A retry comes once: nothing was asked before, and a stopped meeting has no row but its
\* transcription's.
LEMMA RetryRedone ==
    ASSUME RerunInv, TypeOK', NEW m \in Meetings, NEW s \in JobStage, RetryStage(m, s)
    PROVE  RerunInv'
<1> USE DEF meetingVars, workerVars
<1>1. /\ TypeOK /\ QueueTypeOK /\ left \in [Events -> Nat] /\ "transcribe" \in JobStage
      /\ Present(m) /\ UNCHANGED <<state, pc, job, before>>
  BY DEF RerunInv, TypeOK, RetryStage, JobStage
<1>2. left["retry"] = 1 /\ left'["retry"] = 0 /\ rerun = {}
  BY <1>1 DEF RetryStage, Spend, RerunInv, Events
<1>3. \A n \in Meetings : FirstTime(n) /\ RowsArePresent(n)
  BY <1>2 DEF RerunInv, Redone
<1>4. rerun' \subseteq {m} \X StagesFrom(s)
  BY <1>2 DEF RetryStage, request_rerun_from
<1>5. /\ \A n \in Meetings : n # m => jobs'[n] = jobs[n]
      /\ \A t \in JobStage : t # s => jobs'[m][t] = jobs[m][t]
      /\ jobs'[m][s].state = "pending"
  <2>1. CASE Exists(m, s)
    <3> DEFINE row == [jobs[m][s] EXCEPT !.state = "pending", !.attempts = 0,
                                         !.due = TRUE, !.last_error = "none"]
    <3>1. jobs' = [jobs EXCEPT ![m][s] = row]
      BY <2>1 DEF RetryStage, retry, SetRow
    <3>2. row.state = "pending"
      BY <1>1, RowType DEF Row
    <3> HIDE DEF row
    <3> QED BY <1>1, <3>1, <3>2 DEF QueueTypeOK
  <2>2. CASE ~Exists(m, s)
    BY <1>1, <2>2, EnqueueEffect DEF RetryStage, retry
  <2> QED BY <2>1, <2>2
<1>6. ASSUME NEW n \in Meetings
      PROVE  Redone(n)'
  <2>1. RowsArePresent(n)'
    BY <1>1, <1>3, <1>5 DEF RowsArePresent, Present, Exists
  <2>2. CASE n # m
    <3>1. ~Asked(n)'
      BY <1>4, <2>2 DEF Asked
    <3>2. Taken(n)'
      BY <1>4, <2>2 DEF Taken
    <3> QED BY <1>2, <2>1, <3>1, <3>2 DEF Redone, Redoing
  <2>3. CASE n = m /\ s = "transcribe"
    <3>1. ~Stopped(m)'
      BY <1>5, <2>3 DEF Stopped
    <3> QED BY <1>2, <2>1, <2>3, <3>1 DEF Redone, Redoing, Taken
  <2>4. CASE n = m /\ s # "transcribe"
    <3>1. Stopped(m)' => Begins(m)
      BY <1>1, <1>5, <2>4 DEF Stopped, Begins
    <3>2. Taken(m)'
      BY <1>1, <1>3, <3>1 DEF Taken, FirstTime, Held, cur
    <3>3. LeadsFrom(m, s)'
      <4>1. StagesFrom(s)' = StagesFrom(s)
        BY DEF StagesFrom, Index
      <4> QED BY <1>4, <1>5, <4>1 DEF LeadsFrom, Stands
    <3>4. Redoing(m)'
      BY <2>4, <3>3 DEF Redoing, Later
    <3> QED BY <1>2, <2>1, <2>4, <3>2, <3>4 DEF Redone
  <2> QED BY <2>2, <2>3, <2>4
<1> QED BY <1>2, <1>6 DEF RerunInv

\* No other handler asks for anything, and none makes a row of a later stage.
LEMMA ApiStepRedone ==
    ASSUME RerunInv, TypeOK', NEW m \in Meetings, ApiStep(m)
    PROVE  RerunInv'
<1> USE DEF meetingVars, queueVars, workerVars
<1>1. /\ TypeOK /\ QueueTypeOK /\ left \in [Events -> Nat] /\ "transcribe" \in JobStage
      /\ Redone(m)
  BY DEF RerunInv, TypeOK, JobStage
<1>2. ASSUME NEW e \in {"stop", "delete", "keep"}, Spend(e)
      PROVE  left'["retry"] = left["retry"]
  BY <1>1, <1>2 DEF Spend
\* What goes for the meeting goes for all.
<1>3. ASSUME UNCHANGED <<pc, job, before>>, rerun' \subseteq rerun,
             left'["retry"] = left["retry"], RowsStand(m), StateHolds(m),
             \A n \in Meetings : n # m => jobs'[n] = jobs[n] /\ state'[n] = state[n]
      PROVE  RerunInv'
  <2>1. \A n \in Meetings : RowsStand(n) /\ StateHolds(n)
    BY <1>3, UntouchedStands
  <2> QED BY <1>3, <2>1, KeepsRedone, AllRedone DEF RunGoesOn
<1>4. CASE Finish(m) \/ Keep(m)
  <2>1. /\ UNCHANGED <<pc, job, before, rerun>> /\ left'["retry"] = left["retry"]
        /\ state[m] \in {"RECORDING", "DISCARDED"}
        /\ \/ SetState(m, "RECORDED") /\ enqueue(m, "transcribe")
           \/ SetState(m, "DISCARDED") /\ UNCHANGED jobs
    BY <1>2, <1>4 DEF Finish, Keep
  <2>2. /\ \A n \in Meetings : n # m => jobs'[n] = jobs[n] /\ state'[n] = state[n]
        /\ Present(m)'
    <3>1. /\ \A n \in Meetings : n # m => state'[n] = state[n]
          /\ state'[m] \in {"RECORDED", "DISCARDED"}
      BY <1>1, <2>1 DEF SetState, TypeOK
    <3> QED BY <1>1, <2>1, <3>1, EnqueueEffect DEF Present
  <2>3. Redone(m)'
    <3>1. RowsArePresent(m)'
      BY <2>2 DEF RowsArePresent, Present
    <3>2. left["retry"] = 1 => FirstTime(m) /\ ~AtWork(m)
      BY <1>1, <2>1 DEF Redone, FirstTime
    <3>3. CASE enqueue(m, "transcribe") /\ SetState(m, "RECORDED")
      <4>1. /\ jobs'[m]["transcribe"].state = "pending"
            /\ \A t \in JobStage : t # "transcribe" => jobs'[m][t] = jobs[m][t]
            /\ state'[m] = "RECORDED"
        BY <1>1, <3>3, EnqueueEffect DEF SetState, TypeOK
      <4>2. Redoing(m)' /\ Taken(m)'
        BY <4>1 DEF Redoing, Taken, Stopped
      <4>3. left["retry"] = 1 => FirstTime(m)'
        BY <2>1, <3>2, <4>1 DEF FirstTime, AtWork, Held, cur, Exists, Later
      <4> QED BY <2>1, <3>1, <4>2, <4>3 DEF Redone
    <3>4. CASE UNCHANGED jobs
      <4>1. Redoing(m)' /\ Taken(m)'
        <5>1. \A s \in Later : LeadsFrom(m, s) => LeadsFrom(m, s)'
          BY <2>1, <3>4 DEF LeadsFrom, Stands, HasEnded, Held, cur, StagesFrom, Index
        <5> QED
          BY <1>1, <2>1, <3>4, <5>1 DEF Redone, Redoing, Taken, Stopped, Asked, Held, cur
      <4>2. left["retry"] = 1 => FirstTime(m)'
        BY <2>1, <3>2, <3>4
           DEF FirstTime, AtWork, Held, cur, Exists, Begins, Transcribes
      <4> QED BY <2>1, <3>1, <4>1, <4>2 DEF Redone
    <3> QED BY <2>1, <3>3, <3>4
  <2>4. \A n \in Meetings : n # m => Redone(n)'
    BY <2>1, <2>2, UntouchedStands, KeepsRedone DEF RunGoesOn
  <2> QED BY <2>1, <2>3, <2>4, AllRedone
<1>5. CASE StopTranscription(m)
  <2>1. UNCHANGED <<pc, job, before>> /\ left'["retry"] = left["retry"] /\ Present(m)
    BY <1>2, <1>5 DEF StopTranscription
  <2>2. CASE UNCHANGED <<jobs, rerun, state>>
    <3>1. RowsStand(m) /\ StateHolds(m)
      BY <2>2, UntouchedStands
    <3> QED BY <1>3, <2>1, <2>2, <3>1
  <2>3. CASE request_stop_waiting(m) /\ settle_stopped(m, state[m])
    <3>1. /\ \A n \in Meetings : n # m => jobs'[n] = jobs[n]
          /\ \A t \in JobStage : t # "transcribe" => jobs'[m][t] = jobs[m][t]
          /\ jobs'[m]["transcribe"].state = "cancelled"
          /\ jobs[m]["transcribe"].state = "pending"
          /\ rerun' \subseteq rerun /\ ~Asked(m)'
      <4>1. StoppedRow(jobs[m]["transcribe"]).state = "cancelled"
        BY <1>1, RowType DEF StoppedRow, Row
      <4>2. SetRow(m, "transcribe", StoppedRow(jobs[m]["transcribe"]))
            /\ rerun' = WithoutReruns(m) /\ jobs[m]["transcribe"].state = "pending"
        BY <2>3 DEF request_stop_waiting
      <4> QED BY <1>1, <4>1, <4>2, SetRowEffect DEF WithoutReruns, Asked, QueueTypeOK, SetRow
    <3>2. RowsStand(m)
      BY <3>1 DEF RowsStand, Exists, Stopped, Stands, Begins, Later
    <3>3. state[m] \in MeetingState
      BY <1>1, <2>1 DEF Present, TypeOK
    <3>4. /\ state'[m] \in {state[m], SettleTarget(m, state[m])}
          /\ \A n \in Meetings : n # m => state'[n] = state[n]
          /\ state'[m] = "GONE" <=> state[m] = "GONE"
      BY <1>1, <2>3, <3>3, SettleTargetType, SetIfLegalEffect, StateStays DEF settle_stopped
    <3>5. StateHolds(m)
      BY <3>4 DEF StateHolds, SettleTarget
    <3> QED BY <1>3, <2>1, <3>1, <3>2, <3>4, <3>5
  <2> QED BY <1>5, <2>2, <2>3 DEF StopTranscription
<1>6. CASE DeleteRequest(m)
  <2>1. /\ UNCHANGED <<pc, job, before, rerun, state>> /\ left'["retry"] = left["retry"]
        /\ \A n \in Meetings : n # m => jobs'[n] = jobs[n]
        /\ \A t \in JobStage : jobs'[m][t] = IF jobs[m][t].state = "running"
                                             THEN jobs[m][t] ELSE Absent
    BY <1>1, <1>2, <1>6 DEF DeleteRequest, request_delete, QueueTypeOK
  <2>2. RowsStand(m)
    BY <1>1, <2>1 DEF RowsStand, Exists, Stopped, Stands, Begins, Absent
  <2> QED BY <1>3, <2>1, <2>2 DEF StateHolds
<1>7. CASE DeleteCheck(m)
  <2>1. UNCHANGED <<pc, job, before, rerun, state, jobs, left>>
    BY <1>7 DEF DeleteCheck
  <2> QED BY <1>3, <2>1, UntouchedStands
<1>8. CASE DeleteFiles(m) \/ DeleteFolder(m) \/ DeleteRow(m)
  <2>1. UNCHANGED <<pc, job, before, rerun>> /\ left'["retry"] = left["retry"]
    BY <1>8 DEF DeleteFiles, DeleteFolder, FolderStays, DeleteRow
  <2>2. CASE UNCHANGED <<jobs, state>>
    BY <1>3, <2>1, <2>2, UntouchedStands
  <2>3. CASE DeleteRow(m)
    <3>1. RowGoes(m)
      BY <2>3 DEF DeleteRow
    <3>2. \A n \in Meetings : n # m => jobs'[n] = jobs[n] /\ state'[n] = state[n]
      BY <1>1, <3>1, RowGoesEffect
    <3>3. RowsStand(m) /\ StateHolds(m)
      BY <1>1, <3>1, RowGoesStands
    <3> QED BY <1>3, <2>1, <3>2, <3>3
  <2> QED BY <1>8, <2>2, <2>3 DEF DeleteFiles, DeleteFolder, FolderStays
<1> QED
  BY <1>4, <1>5, <1>6, <1>7, <1>8, RetryRedone DEF ApiStep

LEMMA EnvironmentRedone ==
    ASSUME RerunInv, TypeOK', Environment
    PROVE  RerunInv'
<1> USE DEF meetingVars, queueVars, workerVars
<1>1. TypeOK /\ QueueTypeOK /\ left \in [Events -> Nat] /\ "transcribe" \in JobStage
  BY DEF RerunInv, TypeOK, JobStage
<1>2. left'["retry"] = left["retry"] /\ rerun' \subseteq rerun
  BY <1>1
     DEF Environment, RecordingStarts, RecordingEnds, Restart, Starting, Sweep,
         SweepFiles, SweepFolder, FolderStays, SweepRow, StartBackground, Lifespan,
         TimePasses, Spend, Events
<1> DEFINE Start == {"starting", "sweeping", "swept", "idle"}
<1>3. ASSUME UNCHANGED <<pc, job, before>> \/ (pc' \in Start /\ (rerun' = {} \/ pc \in Start)),
             \A n \in Meetings : RowsStand(n) /\ StateHolds(n)
      PROVE  RerunInv'
  <2>1. CASE UNCHANGED <<pc, job, before>> \/ (pc \in Start /\ pc' \in Start)
    BY <1>2, <1>3, <2>1, KeepsRedone, AllRedone DEF RunGoesOn, Held
  <2>2. CASE pc' \in Start /\ rerun' = {}
    <3>1. ASSUME NEW n \in Meetings
          PROVE  Redone(n)'
      <4>1. Redone(n) /\ ~Held(n)' /\ ~Asked(n)' /\ RowsStand(n) /\ StateHolds(n)
        BY <1>3, <2>2 DEF RerunInv, Held, Asked
      <4>2. RowsArePresent(n)'
        BY <4>1 DEF Redone, RowsArePresent, RowsStand, StateHolds, Present
      <4>3. left'["retry"] = 1 => FirstTime(n)'
        BY <1>2, <4>1
           DEF Redone, FirstTime, RowsStand, StateHolds, AtWork, Transcribes, Later
      <4> QED BY <4>1, <4>2, <4>3 DEF Redone, Redoing, Taken
    <3> QED BY <1>2, <3>1, AllRedone
  <2> QED BY <1>3, <2>1, <2>2
\* Rows that are reset or due go on standing.
<1>4. ASSUME \A n \in Meetings, t \in JobStage :
                \/ jobs'[n][t].state = jobs[n][t].state
                \/ jobs[n][t].state = "running" /\ jobs'[n][t].state = "pending"
      PROVE  \A n \in Meetings : RowsStand(n)
  <2>1. ASSUME NEW n \in Meetings
        PROVE  RowsStand(n)
    BY <1>1, <1>4 DEF RowsStand, Exists, Stopped, Stands, Begins, Later
  <2> QED BY <2>1
<1>5. ASSUME jobs' = reset_running
      PROVE  \A n \in Meetings : RowsStand(n)
  <2>1. \A n \in Meetings, t \in JobStage :
           jobs'[n][t] = IF jobs[n][t].state = "running"
                         THEN [jobs[n][t] EXCEPT !.state = "pending"] ELSE jobs[n][t]
    BY <1>5 DEF reset_running
  <2>2. \A n \in Meetings, t \in JobStage :
           [jobs[n][t] EXCEPT !.state = "pending"].state = "pending"
    BY <1>1, RowType DEF Row
  <2>3. ASSUME NEW n \in Meetings, NEW t \in JobStage
        PROVE  \/ jobs'[n][t].state = jobs[n][t].state
               \/ jobs[n][t].state = "running" /\ jobs'[n][t].state = "pending"
    <3> DEFINE reset == [jobs[n][t] EXCEPT !.state = "pending"]
    <3>1. reset.state = "pending"
      BY <2>2
    <3>2. jobs'[n][t] = IF jobs[n][t].state = "running" THEN reset ELSE jobs[n][t]
      BY <2>1
    <3> HIDE DEF reset
    <3> QED BY <3>1, <3>2
  <2> QED BY <1>4, <2>3
<1>6. CASE RecordingStarts \/ RecordingEnds
  <2>1. UNCHANGED <<pc, job, before, jobs, state>>
    BY <1>6 DEF RecordingStarts, RecordingEnds
  <2>2. \A n \in Meetings : RowsStand(n) /\ StateHolds(n)
    BY <2>1, UntouchedStands
  <2> QED BY <1>3, <2>1, <2>2
<1>7. CASE Restart
  BY <1>3, <1>5, <1>7 DEF Restart, WorkerAt, StateHolds
<1>8. CASE Starting
  <2>1. pc \in Start /\ pc' \in Start
    BY <1>8 DEF Starting, Sweep, SweepFiles, SweepFolder, FolderStays, SweepRow,
                StartBackground, ToIdle, WorkerAt, Goto
  <2>2. \A n \in Meetings : RowsStand(n) /\ StateHolds(n)
    <3>1. CASE UNCHANGED <<jobs, state>>
      BY <3>1, UntouchedStands
    <3>2. CASE SweepRow
      <4>1. cur \in Meetings /\ RowGoes(cur)
        BY <1>1, <3>2 DEF TypeOK, Job, cur, SweepRow
      <4> QED BY <1>1, <4>1, RowGoesStands
    <3> QED
      BY <1>8, <3>1, <3>2
         DEF Starting, Sweep, SweepFiles, SweepFolder, FolderStays, StartBackground
  <2> QED BY <1>3, <2>1, <2>2
<1>9. CASE Lifespan
  BY <1>3, <1>5, <1>9 DEF Lifespan, StateHolds
<1>10. ASSUME NEW m \in Meetings, NEW s \in JobStage, TimePasses(m, s)
       PROVE  RerunInv'
  <2>1. \A n \in Meetings, t \in JobStage :
           jobs'[n][t] = IF n = m /\ t = s THEN [jobs[m][s] EXCEPT !.due = TRUE]
                                           ELSE jobs[n][t]
    BY <1>1, <1>10, SetRowEffect DEF TimePasses, BecomeDue
  <2>2. [jobs[m][s] EXCEPT !.due = TRUE].state = jobs[m][s].state
    BY <1>1, RowType DEF Row
  <2>3. \A n \in Meetings : RowsStand(n)
    BY <1>4, <2>1, <2>2
  <2> QED BY <1>3, <1>10, <2>3 DEF TimePasses, StateHolds
<1> QED BY <1>6, <1>7, <1>8, <1>9, <1>10 DEF Environment

\* With a provider for the summary and one retry, a stopped transcription leaves no request
\* to redo a stage behind for some later run, whatever else is pressed, fails or dies.
THEOREM StopsForgetReruns ==
    ASSUME HasProvider, Budget["retry"] \in {0, 1}
    PROVE  Spec => []NoRerunAfterStop
<1>1. Init => RerunInv
  <2> SUFFICES ASSUME Init
               PROVE  RerunInv
    OBVIOUS
  <2>1. TypeOK
    BY InitType, PipelineAssumption
  <2>2. /\ left["retry"] \in {0, 1} /\ rerun = {} /\ pc = "idle" /\ "transcribe" \in JobStage
        /\ \A m \in Meetings, s \in JobStage : jobs[m][s].state = "absent"
    BY DEF Init, QueueInit, Absent, JobStage
  <2>3. ASSUME NEW m \in Meetings
        PROVE  Redone(m)
    <3>1. ~Held(m) /\ ~Asked(m) /\ ~Begins(m) /\ \A s \in JobStage : ~Exists(m, s)
      BY <2>2 DEF Held, Asked, Begins, Exists
    <3> QED
      BY <3>1
         DEF Redone, RowsArePresent, Redoing, Taken, FirstTime, AtWork, Transcribes
  <2> QED BY <2>1, <2>2, <2>3 DEF RerunInv
<1>2. RerunInv /\ [Next]_vars => RerunInv'
  <2> SUFFICES ASSUME RerunInv, [Next]_vars
               PROVE  RerunInv'
    OBVIOUS
  <2>1. TypeOK'
    BY StepType, PipelineAssumption DEF RerunInv
  <2>2. CASE UNCHANGED vars
    <3>1. UNCHANGED <<jobs, state, rerun, left, pc, job, before>>
      BY <2>2 DEF vars, queueVars, meetingVars, workerVars
    <3>2. \A m \in Meetings : Redone(m)'
      BY <3>1, UntouchedStands, KeepsRedone DEF RunGoesOn
    <3> QED BY <2>1, <3>1, <3>2, AllRedone
  <2> QED BY <2>1, <2>2, WorkerStepRedone, ApiStepRedone, EnvironmentRedone DEF Next
<1>3. RerunInv => NoRerunAfterStop
  <2> SUFFICES ASSUME RerunInv, NEW m \in Meetings, Stopped(m), ~Held(m),
                      \A s \in JobStage : ~Stands(m, s)
               PROVE  WithoutReruns(m) = rerun
    BY DEF NoRerunAfterStop, Stopped, Stands
  <2>1. \A s \in Later : ~LeadsFrom(m, s)
    BY DEF LeadsFrom, HasEnded, Later
  <2>2. ~Asked(m)
    BY <2>1 DEF RerunInv, Redone, Redoing
  <2>3. \A r \in rerun : r[1] # m
    <3> SUFFICES ASSUME NEW r \in rerun, r[1] = m
                 PROVE  FALSE
      OBVIOUS
    <3>1. r \in Meetings \X JobStage
      BY DEF RerunInv, TypeOK, QueueTypeOK
    <3>2. r = <<m, r[2]>> /\ r[2] \in JobStage
      BY <3>1
    <3> QED BY <2>2, <3>2 DEF Asked
  <2> QED BY <2>3 DEF WithoutReruns
<1> QED BY <1>1, <1>2, <1>3, PTL DEF Spec

============================================================================
