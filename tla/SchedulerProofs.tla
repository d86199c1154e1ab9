-------------------------- MODULE SchedulerProofs --------------------------
(***************************************************************************)
(* Proofs about two parts that share nothing.                              *)
(*                                                                         *)
(* Scheduler, for any meetings, files, budget and clock: the first file,   *)
(* the top of the list, and that nobody pushes in.                         *)
(*                                                                         *)
(* SignIn, for any number of presses, polls and histories: the types; that *)
(* no login is left which nobody would stop; and, where the sign-out's     *)
(* command is waited for, that what is held says signed in only of a CLI   *)
(* that is.                                                                *)
(***************************************************************************)
EXTENDS Scheduler, SignIn, JobQueueProofs, FiniteSetTheorems, SequenceTheorems,
        WellFoundedInduction

(***************************************************************************)
(* Scheduler: types.                                                       *)
(***************************************************************************)
\* The worker with nothing in hand.
LEMMA ToIdleType ==
    ASSUME SchedulerAssumption, ToIdle
    PROVE  at' = "idle" /\ job' \in Job /\ fifo' \in Nat /\ cur' \in Files
<1>1. NoJob \in Job
  BY DEF NoJob, Job, JobStage, SchedulerAssumption
<1>2. NoFile \in Files
  BY DEF NoFile, SchedulerAssumption
<1> QED BY <1>1, <1>2 DEF ToIdle

LEMMA SpendType == ASSUME left \in Nat, Spend PROVE left' \in Nat
BY DEF Spend

\* A key is written with a time.
LEMMA SetKeyType ==
    ASSUME key \in [Meetings -> [JobStage -> Nat]],
           NEW m \in Meetings, NEW s \in JobStage, NEW k \in Nat, SetKey(m, s, k)
    PROVE  /\ key' \in [Meetings -> [JobStage -> Nat]]
           /\ \A n \in Meetings, t \in JobStage :
                 key'[n][t] = IF n = m /\ t = s THEN k ELSE key[n][t]
BY DEF SetKey

\* The fields of a file's row.
LEMMA FileRowType ==
    ASSUME TypeOK, NEW f \in Files
    PROVE  /\ file[f] \in FileRow /\ file[f].state \in FileState
           /\ file[f].due \in BOOLEAN /\ file[f].key \in Nat
           /\ \A st \in FileState, d \in BOOLEAN, k \in Nat :
                 /\ [file[f] EXCEPT !.state = st] \in FileRow
                 /\ [file[f] EXCEPT !.due = d] \in FileRow
                 /\ [file[f] EXCEPT !.state = st, !.due = d] \in FileRow
                 /\ [state |-> st, due |-> d, key |-> k] \in FileRow
BY DEF TypeOK, FileRow

LEMMA InitType == SchedulerAssumption /\ Init => TypeOK
<1> SUFFICES ASSUME SchedulerAssumption, Init PROVE TypeOK
  OBVIOUS
<1>1. QueueTypeOK
  BY AbsentType DEF Init, QueueInit, QueueTypeOK
<1>2. NoJob \in Job /\ NoFile \in Files
  BY DEF NoJob, NoFile, Job, JobStage, SchedulerAssumption
<1>3. NewFile \in FileRow
  BY DEF NewFile, FileRow, FileState
<1> QED BY <1>1, <1>2, <1>3 DEF Init, TypeOK, SchedulerAssumption

LEMMA WorkerStepType ==
    ASSUME SchedulerAssumption, TypeOK, WorkerStep
    PROVE  TypeOK'
<1> USE DEF TypeOK, QueueTypeOK, requests
<1>1. job.meeting \in Meetings /\ job.stage \in JobStage
  BY DEF Job
<1>2. CASE ClaimMeeting
  <2>1. PICK m \in Meetings, s \in JobStage :
           claim(m, s) /\ job' = JobOf(m, s) /\ fifo' = key[m][s]
    BY <1>2 DEF ClaimMeeting
  <2>2. [jobs[m][s] EXCEPT !.state = "running"] \in Row
    BY RowType, WrittenType DEF JobState
  <2>3. jobs' \in [Meetings -> [JobStage -> Row]]
    BY <2>1, <2>2, SetRowType DEF claim
  <2>4. job' \in Job /\ fifo' \in Nat
    BY <2>1, RowType
  <2> QED BY <1>2, <2>3, <2>4 DEF ClaimMeeting
<1>3. CASE CompleteMeeting
  <2>1. jobs' \in [Meetings -> [JobStage -> Row]]
    BY <1>3, EndsType DEF CompleteMeeting
  <2> QED BY <1>3, <2>1 DEF CompleteMeeting
<1>4. CASE EnqueueNext
  <2>1. CASE HasNext /\ enqueue_next_stage(job)
             /\ SetKey(job.meeting, next_stage(job.stage), fifo)
    <3>1. next_stage(job.stage) \in JobStage
      BY <1>1, <2>1, NextStageType DEF HasNext
    <3>2. jobs' \in [Meetings -> [JobStage -> Row]] /\ nextId' \in Nat \ {0}
      BY <1>1, <2>1, <3>1, EnqueueType DEF enqueue_next_stage
    <3>3. key' \in [Meetings -> [JobStage -> Nat]]
      BY <1>1, <2>1, <3>1, SetKeyType
    <3> QED BY <1>4, <3>2, <3>3, ToIdleType DEF EnqueueNext
  <2>2. CASE UNCHANGED <<jobs, nextId, key>>
    BY <1>4, <2>2, ToIdleType DEF EnqueueNext
  <2> QED BY <1>4, <2>1, <2>2 DEF EnqueueNext
<1>5. CASE MeetingEndsElse
  <2>1. jobs' \in [Meetings -> [JobStage -> Row]]
    BY <1>5, EndsType DEF MeetingEndsElse
  <2> QED BY <1>5, <2>1, ToIdleType, SpendType DEF MeetingEndsElse
<1>6. CASE ClaimFile
  <2>1. PICK f \in Files : file' = [file EXCEPT ![f].state = "running"] /\ cur' = f
    BY <1>6 DEF ClaimFile
  <2>2. file' \in [Files -> FileRow]
    BY <2>1, FileRowType DEF FileState
  <2> QED BY <1>6, <2>1, <2>2 DEF ClaimFile, queueVars
<1>7. CASE FileEnds
  <2>1. file' \in [Files -> FileRow]
    <3>1. ASSUME NEW st \in FileState, FileEndsAs(st)
          PROVE  file' \in [Files -> FileRow]
      BY <3>1, FileRowType DEF FileEndsAs
    <3>2. ASSUME NEW d \in BOOLEAN, FilePutBack(d)
          PROVE  file' \in [Files -> FileRow]
      <4>1. [file[cur] EXCEPT !.state = "pending", !.due = d] \in FileRow
        BY FileRowType DEF FileState
      <4> QED BY <3>2, <4>1 DEF FilePutBack
    <3> QED BY <1>7, <3>1, <3>2 DEF FileEnds, FileState
  <2> QED BY <1>7, <2>1, ToIdleType, SpendType DEF FileEnds, queueVars
<1> QED BY <1>2, <1>3, <1>4, <1>5, <1>6, <1>7 DEF WorkerStep

LEMMA OthersType ==
    ASSUME SchedulerAssumption, TypeOK,
           \/ \E m \in Meetings :
                 \/ Recorded(m) \/ StopWaiting(m)
                 \/ \E s \in JobStage : RetryStage(m, s)
           \/ \E f \in Files : Submit(f) \/ RetryFile(f) \/ CancelFile(f)
           \/ Tick \/ TimePasses \/ Restart
    PROVE  TypeOK'
<1> USE DEF TypeOK, QueueTypeOK, requests, workerVars
<1>1. ASSUME NEW m \in Meetings, Recorded(m)
      PROVE  TypeOK'
  <2>1. "transcribe" \in JobStage
    BY DEF JobStage
  <2>2. jobs' \in [Meetings -> [JobStage -> Row]] /\ nextId' \in Nat \ {0}
    BY <1>1, <2>1, EnqueueType DEF Recorded
  <2>3. key' \in [Meetings -> [JobStage -> Nat]]
    BY <1>1, <2>1, SetKeyType DEF Recorded
  <2> QED BY <1>1, <2>2, <2>3 DEF Recorded
<1>2. ASSUME NEW m \in Meetings, StopWaiting(m)
      PROVE  TypeOK'
  <2>1. "transcribe" \in JobStage
    BY DEF JobStage
  <2>2. StoppedRow(jobs[m]["transcribe"]) \in Row
    BY <2>1, RowType, WrittenType DEF StoppedRow, JobState, LastError
  <2>3. jobs' \in [Meetings -> [JobStage -> Row]]
    BY <1>2, <2>1, <2>2, SetRowType DEF StopWaiting, request_stop_waiting
  <2>4. rerun' \subseteq Meetings \X JobStage
    BY <1>2 DEF StopWaiting, request_stop_waiting, WithoutReruns
  <2> QED BY <1>2, <2>3, <2>4, SpendType DEF StopWaiting
<1>3. ASSUME NEW m \in Meetings, NEW s \in JobStage, RetryStage(m, s)
      PROVE  TypeOK'
  <2>1. jobs' \in [Meetings -> [JobStage -> Row]] /\ nextId' \in Nat \ {0}
    BY <1>3, RetryType DEF RetryStage
  <2>2. key' \in [Meetings -> [JobStage -> Nat]]
    BY <1>3, SetKeyType DEF RetryStage, KeyOfRetry
  <2> QED BY <1>3, <2>1, <2>2, SpendType DEF RetryStage
<1>4. ASSUME NEW f \in Files, Submit(f) \/ RetryFile(f) \/ CancelFile(f)
      PROVE  TypeOK'
  <2>1. file' \in [Files -> FileRow]
    BY <1>4, FileRowType DEF Submit, RetryFile, CancelFile, AtTheBack, FileState
  <2> QED BY <1>4, <2>1, SpendType DEF Submit, RetryFile, CancelFile, queueVars
<1>5. CASE Tick
  BY <1>5 DEF Tick, queueVars
<1>6. CASE TimePasses
  <2>1. ASSUME NEW m \in Meetings, NEW s \in JobStage, BecomeDue(m, s)
        PROVE  jobs' \in [Meetings -> [JobStage -> Row]]
    <3>1. [jobs[m][s] EXCEPT !.due = TRUE] \in Row
      BY RowType, WrittenType
    <3> QED BY <2>1, <3>1, SetRowType DEF BecomeDue
  <2>2. ASSUME NEW f \in Files, file' = [file EXCEPT ![f].due = TRUE]
        PROVE  file' \in [Files -> FileRow]
    BY <2>2, FileRowType
  <2>3. jobs' \in [Meetings -> [JobStage -> Row]] /\ file' \in [Files -> FileRow]
    BY <1>6, <2>1, <2>2 DEF TimePasses, WaitingFiles
  <2> QED BY <1>6, <2>3 DEF TimePasses
<1>7. CASE Restart
  <2>1. file' \in [Files -> FileRow]
    BY <1>7, FileRowType DEF Restart, FileState
  <2> QED BY <1>7, <2>1, ToIdleType, SpendType, ResetType DEF Restart
<1> QED BY <1>1, <1>2, <1>3, <1>4, <1>5, <1>6, <1>7

LEMMA StepType == SchedulerAssumption /\ TypeOK /\ [Next]_vars => TypeOK'
<1> SUFFICES ASSUME SchedulerAssumption, TypeOK, [Next]_vars PROVE TypeOK'
  OBVIOUS
<1>1. CASE WorkerStep
  BY <1>1, WorkerStepType
<1>2. CASE Next /\ ~WorkerStep
  BY <1>2, OthersType DEF Next
<1>3. CASE UNCHANGED vars
  BY <1>3 DEF vars, queueVars, workerVars, TypeOK, QueueTypeOK
<1> QED BY <1>1, <1>2, <1>3

\* Every variable keeps its type: the rows of both tables, the keys, what the worker
\* has in hand.
THEOREM SchedulerTypeCorrect == Spec => []TypeOK
<1>1. SchedulerAssumption
  BY SchedulerAssumption
<1> QED BY <1>1, InitType, StepType, PTL DEF Spec

(***************************************************************************)
(* What position and next_head say of the first file.                      *)
(***************************************************************************)
\* Two files are in one order or the other.
LEMMA FilesOrdered ==
    ASSUME SchedulerAssumption, TypeOK, NEW f \in Files, NEW g \in Files, f # g,
           ~FileBefore(g, f)
    PROVE  FileBefore(f, g)
<1>1. f \in Nat /\ g \in Nat /\ file[f].key \in Nat /\ file[g].key \in Nat
  BY FileRowType DEF SchedulerAssumption
<1> QED BY <1>1 DEF FileBefore

\* The keys of jobs are times.
LEMMA KeyOfType ==
    ASSUME TypeOK, NEW j \in WaitingJobs
    PROVE  KeyOf(j) \in Nat
BY DEF TypeOK, WaitingJobs, KeyOf

\* What position counts is finite, and so are the files and the jobs it counts.
LEMMA AheadFinite ==
    ASSUME SchedulerAssumption, NEW f \in Files
    PROVE  IsFiniteSet(FilesBefore(f)) /\ IsFiniteSet(JobsBefore(f))
<1>1. IsFiniteSet(FilesBefore(f))
  <2>1. FilesBefore(f) \subseteq Files
    BY DEF FilesBefore, WaitingFiles
  <2> QED BY <2>1, FS_Subset DEF SchedulerAssumption
<1>2. IsFiniteSet(JobsBefore(f))
  <2>1. JobStage = {"transcribe"} \union {"assemble"} \union {"summarize"}
                       \union {"render"} \union {"deliver"}
    BY DEF JobStage
  <2>2. IsFiniteSet(JobStage)
    BY <2>1, FS_Singleton, FS_Union
  <2>3. IsFiniteSet(Meetings \X JobStage)
    BY <2>2, FS_Product DEF SchedulerAssumption
  <2>4. JobsBefore(f) \subseteq Meetings \X JobStage
    BY DEF JobsBefore, WaitingJobs
  <2> QED BY <2>3, <2>4, FS_Subset
<1> QED BY <1>1, <1>2

LEMMA FirstIsNext ==
    ASSUME SchedulerAssumption, TypeOK
    PROVE  FirstRunsNext
<1> SUFFICES ASSUME NEW f \in DueFiles, position(f) = 1
             PROVE  FileIsNext(f)
  BY DEF FirstRunsNext
<1>1. f \in Files
  BY DEF DueFiles, WaitingFiles
<1>2. FilesBefore(f) = {} /\ JobsBefore(f) = {}
  <2> DEFINE a == Cardinality(FilesBefore(f))
             b == Cardinality(JobsBefore(f))
             r == IF SomethingRuns THEN 1 ELSE 0
  <2>1. a \in Nat /\ b \in Nat
    BY <1>1, AheadFinite, FS_CardinalityType
  <2>2. r \in {0, 1}
    OBVIOUS
  <2>3. a + b + r + 1 = 1
    BY DEF position
  <2>4. a = 0 /\ b = 0
    <3> HIDE DEF a, b, r
    <3> QED BY <2>1, <2>2, <2>3
  <2> QED BY <1>1, <2>4, AheadFinite, FS_EmptySet
<1>3. \A g \in DueFiles \ {f} : FileBefore(f, g)
  BY <1>1, <1>2, FilesOrdered DEF FilesBefore, DueFiles, WaitingFiles
<1>4. \A j \in WaitingJobs : file[f].key < KeyOf(j)
  <2>1. file[f].key \in Nat
    BY <1>1, FileRowType
  <2> QED BY <1>2, <2>1, KeyOfType DEF JobsBefore
<1> QED BY <1>3, <1>4 DEF FileIsNext

\* A due file whose position is 1 is the one next_head gives, however many meetings and
\* files wait and whatever was retried.
THEOREM FirstFileRunsNext == Spec => []FirstRunsNext
<1>1. SchedulerAssumption
  BY SchedulerAssumption
<1> QED BY <1>1, FirstIsNext, SchedulerTypeCorrect, PTL

(***************************************************************************)
(* Nobody pushes in before a file.                                         *)
(***************************************************************************)
\* No key is of the future; the row of the job in hand has at least the key it was
\* claimed with, as a retry meanwhile only raises it; the file in hand runs.
KeysInv ==
    /\ \A m \in Meetings, s \in JobStage : key[m][s] <= now
    /\ fifo <= now
    /\ at = "meeting" => fifo <= key[job.meeting][job.stage]
    /\ at = "file" => file[cur].state = "running"

\* What a worker with nothing in hand must keep of it.
LEMMA IdleKeys ==
    ASSUME SchedulerAssumption, TypeOK, KeysInv, ToIdle,
           \A m \in Meetings, s \in JobStage : key'[m][s] <= now, now' = now
    PROVE  KeysInv'
<1>1. 0 <= now
  BY DEF TypeOK
<1> QED BY <1>1 DEF ToIdle, KeysInv

LEMMA WorkerStepKeys ==
    ASSUME SchedulerAssumption, TypeOK, KeysInv, WorkerStep
    PROVE  KeysInv'
<1>1. job.meeting \in Meetings /\ job.stage \in JobStage
  BY DEF TypeOK, Job
<1>2. CASE ClaimMeeting
  <2>1. PICK m \in Meetings, s \in JobStage : job' = JobOf(m, s) /\ fifo' = key[m][s]
    BY <1>2 DEF ClaimMeeting
  <2>2. job'.meeting = m /\ job'.stage = s
    BY <2>1 DEF JobOf
  <2>3. at' = "meeting" /\ UNCHANGED <<key, now>> /\ fifo' <= now /\ key[m][s] \in Nat
    BY <1>2, <2>1 DEF ClaimMeeting, KeysInv, TypeOK
  <2> QED BY <2>1, <2>2, <2>3 DEF KeysInv
<1>3. CASE CompleteMeeting
  BY <1>3 DEF CompleteMeeting, KeysInv
<1>4. CASE EnqueueNext
  <2>1. \A m \in Meetings, s \in JobStage : key'[m][s] <= now
    <3>1. CASE HasNext /\ SetKey(job.meeting, next_stage(job.stage), fifo)
      <4>1. next_stage(job.stage) \in JobStage
        BY <1>1, <3>1, NextStageType DEF HasNext
      <4> QED BY <1>1, <3>1, <4>1, SetKeyType DEF KeysInv, TypeOK
    <3>2. CASE UNCHANGED key
      BY <3>2 DEF KeysInv
    <3> QED BY <1>4, <3>1, <3>2 DEF EnqueueNext
  <2> QED BY <1>4, <2>1, IdleKeys DEF EnqueueNext
<1>5. CASE MeetingEndsElse
  <2>1. \A m \in Meetings, s \in JobStage : key'[m][s] <= now
    BY <1>5 DEF MeetingEndsElse, KeysInv
  <2> QED BY <1>5, <2>1, IdleKeys DEF MeetingEndsElse
<1>6. CASE ClaimFile
  <2>1. file'[cur'].state = "running"
    BY <1>6 DEF ClaimFile, TypeOK, FileRow
  <2> QED BY <1>6, <2>1 DEF ClaimFile, KeysInv
<1>7. CASE FileEnds
  <2>1. \A m \in Meetings, s \in JobStage : key'[m][s] <= now
    BY <1>7 DEF FileEnds, KeysInv
  <2> QED BY <1>7, <2>1, IdleKeys DEF FileEnds
<1> QED BY <1>2, <1>3, <1>4, <1>5, <1>6, <1>7 DEF WorkerStep

LEMMA OthersKeys ==
    ASSUME SchedulerAssumption, TypeOK, KeysInv,
           \/ \E m \in Meetings :
                 \/ Recorded(m) \/ StopWaiting(m)
                 \/ \E s \in JobStage : RetryStage(m, s)
           \/ \E f \in Files : Submit(f) \/ RetryFile(f) \/ CancelFile(f)
           \/ Tick \/ TimePasses \/ Restart
    PROVE  KeysInv'
<1> USE DEF workerVars
<1>1. now \in Nat /\ fifo \in Nat /\ job.meeting \in Meetings /\ job.stage \in JobStage
      /\ cur \in Files /\ \A m \in Meetings, s \in JobStage : key[m][s] \in Nat
  BY DEF TypeOK, Job
<1>2. ASSUME NEW m \in Meetings, NEW s \in JobStage, SetKey(m, s, now),
             UNCHANGED <<file, now, at, job, fifo, cur>>
      PROVE  KeysInv'
  <2>1. \A n \in Meetings, t \in JobStage :
           key'[n][t] = IF n = m /\ t = s THEN now ELSE key[n][t]
    BY <1>1, <1>2, SetKeyType DEF TypeOK
  <2>2. key[job.meeting][job.stage] <= key'[job.meeting][job.stage]
    BY <1>1, <2>1 DEF KeysInv
  <2>3. key'[job.meeting][job.stage] \in Nat
    BY <1>1, <2>1
  <2>4. at = "meeting" => fifo <= key'[job.meeting][job.stage]
    BY <1>1, <2>2, <2>3 DEF KeysInv
  <2> QED BY <1>1, <1>2, <2>1, <2>4 DEF KeysInv
<1>3. ASSUME NEW m \in Meetings, Recorded(m)
      PROVE  KeysInv'
  BY <1>2, <1>3 DEF Recorded, JobStage
<1>4. ASSUME NEW m \in Meetings, NEW s \in JobStage, RetryStage(m, s)
      PROVE  KeysInv'
  BY <1>2, <1>4 DEF RetryStage, KeyOfRetry
<1>5. ASSUME NEW m \in Meetings, StopWaiting(m)
      PROVE  KeysInv'
  BY <1>5 DEF StopWaiting, KeysInv
<1>6. ASSUME NEW f \in Files, Submit(f) \/ RetryFile(f) \/ CancelFile(f)
      PROVE  KeysInv'
  <2>1. at = "file" => f # cur
    BY <1>6 DEF Submit, RetryFile, CancelFile, KeysInv
  <2>2. at = "file" => file'[cur].state = "running"
    BY <1>1, <1>6, <2>1 DEF Submit, RetryFile, CancelFile, AtTheBack, KeysInv, TypeOK
  <2> QED BY <1>6, <2>2 DEF Submit, RetryFile, CancelFile, KeysInv
<1>7. CASE Tick
  <2>1. now' = now + 1
    BY <1>7 DEF Tick
  <2> QED BY <1>1, <1>7, <2>1 DEF Tick, KeysInv
<1>8. CASE TimePasses
  <2>1. \A f \in WaitingFiles : at = "file" => f # cur
    BY DEF WaitingFiles, KeysInv
  <2>2. at = "file" => file'[cur].state = "running"
    BY <1>1, <1>8, <2>1 DEF TimePasses, WaitingFiles, KeysInv, TypeOK
  <2> QED BY <1>8, <2>2 DEF TimePasses, KeysInv
<1>9. CASE Restart
  <2>1. \A m \in Meetings, s \in JobStage : key'[m][s] <= now
    BY <1>9 DEF Restart, KeysInv
  <2> QED BY <1>9, <2>1, IdleKeys DEF Restart
<1> QED BY <1>3, <1>4, <1>5, <1>6, <1>7, <1>8, <1>9

LEMMA KeysInvariant == Spec => []KeysInv
<1>1. SchedulerAssumption
  BY SchedulerAssumption
<1>2. Init => KeysInv
  BY DEF Init, KeysInv
<1>3. TypeOK /\ KeysInv /\ [Next]_vars => KeysInv'
  <2> SUFFICES ASSUME TypeOK, KeysInv, [Next]_vars PROVE KeysInv'
    OBVIOUS
  <2>1. CASE WorkerStep
    BY <1>1, <2>1, WorkerStepKeys
  <2>2. CASE Next /\ ~WorkerStep
    BY <1>1, <2>2, OthersKeys DEF Next
  <2>3. CASE UNCHANGED vars
    BY <2>3 DEF vars, workerVars, KeysInv
  <2> QED BY <2>1, <2>2, <2>3
<1> QED BY <1>2, <1>3, SchedulerTypeCorrect, PTL DEF Spec

\* What puts a meeting ahead of a file: a row that waits or runs, or the job in hand.
RowAhead(m, s, f) == jobs[m][s].state \in {"pending", "running"} /\ key[m][s] <= file[f].key

HandAhead(f) == at \in {"meeting", "next"} /\ fifo <= file[f].key

LEMMA AheadBy ==
    ASSUME TypeOK, NEW f \in Files
    PROVE  /\ \A m \in Meetings, s \in JobStage : RowAhead(m, s, f) => m \in MeetingsAhead(f)
           /\ HandAhead(f) => job.meeting \in MeetingsAhead(f)
           /\ \A m \in MeetingsAhead(f) :
                 \/ \E s \in JobStage : RowAhead(m, s, f)
                 \/ HandAhead(f) /\ job.meeting = m
BY DEF MeetingsAhead, RowAhead, HandAhead, TypeOK, Job

\* Writing one row puts no other meeting ahead.
LEMMA WriteAhead ==
    ASSUME TypeOK, NEW f \in Files, NEW m \in Meetings, NEW s \in JobStage, NEW row,
           SetRow(m, s, row), UNCHANGED file,
           \A n \in Meetings, t \in JobStage : n # m \/ t # s => key'[n][t] = key[n][t],
           key'[m][s] <= file[f].key => m \in MeetingsAhead(f)
    PROVE  \A n \in Meetings, t \in JobStage : RowAhead(n, t, f)' => n \in MeetingsAhead(f)
<1> SUFFICES ASSUME NEW n \in Meetings, NEW t \in JobStage, RowAhead(n, t, f)'
             PROVE  n \in MeetingsAhead(f)
  OBVIOUS
<1>1. CASE n = m /\ t = s
  BY <1>1 DEF RowAhead
<1>2. CASE n # m \/ t # s
  <2>1. jobs'[n][t] = jobs[n][t]
    BY <1>2, SetRowEffect DEF TypeOK
  <2> QED BY <1>2, <2>1, AheadBy DEF RowAhead
<1> QED BY <1>1, <1>2

\* Neither does a step that starts nothing.
LEMMA QuietAhead ==
    ASSUME TypeOK, NEW f \in Files, UNCHANGED key, file'[f].key = file[f].key,
           \A m \in Meetings, s \in JobStage :
              jobs'[m][s].state \in {"pending", "running"}
                  => jobs[m][s].state \in {"pending", "running"}
    PROVE  \A m \in Meetings, s \in JobStage : RowAhead(m, s, f)' => m \in MeetingsAhead(f)
BY AheadBy DEF RowAhead

\* A row written by enqueue or retry.
LEMMA EnqueueWrites ==
    ASSUME NEW m \in Meetings, NEW s \in JobStage, enqueue(m, s) \/ retry(m, s)
    PROVE  \E row : SetRow(m, s, row)
BY DEF enqueue, retry

LEMMA EndWrites ==
    ASSUME TypeOK, NEW permanent \in BOOLEAN,
           \/ complete(job) \/ release(job) \/ defer(job) \/ fail(job, permanent)
           \/ Update(job, StoppedRow(RowOf(job)))
    PROVE  \E row : SetRow(job.meeting, job.stage, row)
BY DEF complete, release, defer, fail, Update

\* The rows that put a meeting ahead of a file after a step of the worker.
LEMMA WorkerRowsAhead ==
    ASSUME SchedulerAssumption, TypeOK, KeysInv, WorkerStep, NEW f \in Files,
           file'[f].key = file[f].key
    PROVE  \A m \in Meetings, s \in JobStage : RowAhead(m, s, f)' => m \in MeetingsAhead(f)
<1>1. job.meeting \in Meetings /\ job.stage \in JobStage
  BY DEF TypeOK, Job
<1>2. fifo \in Nat /\ file[f].key \in Nat /\ key[job.meeting][job.stage] \in Nat
  BY <1>1, FileRowType DEF TypeOK
<1>3. CASE ClaimMeeting
  <2>1. PICK m \in Meetings, s \in JobStage : claim(m, s)
    BY <1>3 DEF ClaimMeeting
  <2>2. \A n \in Meetings, t \in JobStage :
           jobs'[n][t].state \in {"pending", "running"}
               => jobs[n][t].state \in {"pending", "running"}
    BY <2>1, SetRowEffect DEF claim, TypeOK
  <2> QED BY <1>3, <2>2, QuietAhead DEF ClaimMeeting
<1>4. CASE CompleteMeeting \/ MeetingEndsElse
  <2>1. PICK row : SetRow(job.meeting, job.stage, row)
    BY <1>4, EndWrites DEF CompleteMeeting, MeetingEndsElse
  <2>2. fifo <= key[job.meeting][job.stage] /\ at = "meeting"
    BY <1>4 DEF CompleteMeeting, MeetingEndsElse, KeysInv
  <2>3. key[job.meeting][job.stage] <= file[f].key => job.meeting \in MeetingsAhead(f)
    <3>1. key[job.meeting][job.stage] <= file[f].key => fifo <= file[f].key
      BY <1>2, <2>2
    <3> QED BY <2>2, <3>1, AheadBy DEF HandAhead
  <2> QED BY <1>1, <1>4, <2>1, <2>3, WriteAhead DEF CompleteMeeting, MeetingEndsElse
<1>5. CASE EnqueueNext
  <2>1. CASE HasNext /\ enqueue_next_stage(job)
             /\ SetKey(job.meeting, next_stage(job.stage), fifo)
    <3> DEFINE s == next_stage(job.stage)
    <3>1. s \in JobStage
      BY <1>1, <2>1, NextStageType DEF HasNext
    <3>2. PICK row : SetRow(job.meeting, s, row)
      BY <1>1, <2>1, <3>1, EnqueueWrites DEF enqueue_next_stage
    <3>3. \A n \in Meetings, t \in JobStage :
             key'[n][t] = IF n = job.meeting /\ t = s THEN fifo ELSE key[n][t]
      BY <1>1, <1>2, <2>1, <3>1, SetKeyType DEF TypeOK
    <3>4. key'[job.meeting][s] <= file[f].key => job.meeting \in MeetingsAhead(f)
      BY <1>1, <1>5, <3>1, <3>3, AheadBy DEF EnqueueNext, HandAhead
    <3> HIDE DEF s
    <3> QED BY <1>1, <1>5, <3>1, <3>2, <3>3, <3>4, WriteAhead DEF EnqueueNext
  <2>2. CASE UNCHANGED <<jobs, key>>
    BY <1>5, <2>2, QuietAhead DEF EnqueueNext
  <2> QED BY <1>5, <2>1, <2>2 DEF EnqueueNext
<1>6. CASE ClaimFile \/ FileEnds
  BY <1>6, QuietAhead DEF ClaimFile, FileEnds, queueVars
<1> QED BY <1>3, <1>4, <1>5, <1>6 DEF WorkerStep

\* What the handlers and time do: new keys are the time, which the file's is before.
LEMMA OthersRowsAhead ==
    ASSUME SchedulerAssumption, TypeOK, NEW f \in Files,
           file'[f].key = file[f].key, file[f].key < now,
           \/ \E m \in Meetings :
                 \/ Recorded(m) \/ StopWaiting(m)
                 \/ \E s \in JobStage : RetryStage(m, s)
           \/ \E g \in Files : Submit(g) \/ RetryFile(g) \/ CancelFile(g)
           \/ Tick \/ TimePasses \/ Restart
    PROVE  \A m \in Meetings, s \in JobStage : RowAhead(m, s, f)' => m \in MeetingsAhead(f)
<1>1. now \in Nat /\ file[f].key \in Nat /\ ~(now <= file[f].key)
  <2>1. now \in Nat /\ file[f].key \in Nat
    BY FileRowType DEF TypeOK
  <2> QED BY <2>1
<1>2. ASSUME NEW m \in Meetings, NEW s \in JobStage, enqueue(m, s) \/ retry(m, s),
             SetKey(m, s, now), UNCHANGED file
      PROVE  \A n \in Meetings, t \in JobStage : RowAhead(n, t, f)' => n \in MeetingsAhead(f)
  <2>1. PICK row : SetRow(m, s, row)
    BY <1>2, EnqueueWrites
  <2>2. \A n \in Meetings, t \in JobStage :
           key'[n][t] = IF n = m /\ t = s THEN now ELSE key[n][t]
    BY <1>1, <1>2, SetKeyType DEF TypeOK
  <2>3. ~(key'[m][s] <= file[f].key)
    BY <1>1, <2>2
  <2>4. \A n \in Meetings, t \in JobStage : n # m \/ t # s => key'[n][t] = key[n][t]
    BY <2>2
  <2> QED BY <1>2, <2>1, <2>3, <2>4, WriteAhead
<1>3. ASSUME NEW m \in Meetings, Recorded(m)
      PROVE  \A n \in Meetings, t \in JobStage : RowAhead(n, t, f)' => n \in MeetingsAhead(f)
  BY <1>2, <1>3 DEF Recorded, JobStage
<1>4. ASSUME NEW m \in Meetings, NEW s \in JobStage, RetryStage(m, s)
      PROVE  \A n \in Meetings, t \in JobStage : RowAhead(n, t, f)' => n \in MeetingsAhead(f)
  BY <1>2, <1>4 DEF RetryStage, KeyOfRetry
<1>5. ASSUME NEW m \in Meetings, StopWaiting(m)
      PROVE  \A n \in Meetings, t \in JobStage : RowAhead(n, t, f)' => n \in MeetingsAhead(f)
  <2>1. SetRow(m, "transcribe", StoppedRow(jobs[m]["transcribe"]))
        /\ jobs[m]["transcribe"].state = "pending" /\ "transcribe" \in JobStage
    BY <1>5 DEF StopWaiting, request_stop_waiting, JobStage
  <2>2. \A n \in Meetings, t \in JobStage :
           jobs'[n][t].state \in {"pending", "running"}
               => jobs[n][t].state \in {"pending", "running"}
    BY <2>1, SetRowEffect DEF TypeOK
  <2> QED BY <1>5, <2>2, QuietAhead DEF StopWaiting
<1>6. ASSUME NEW g \in Files, Submit(g) \/ RetryFile(g) \/ CancelFile(g)
      PROVE  \A n \in Meetings, t \in JobStage : RowAhead(n, t, f)' => n \in MeetingsAhead(f)
  BY <1>6, QuietAhead DEF Submit, RetryFile, CancelFile, queueVars
<1>7. CASE Tick
  BY <1>7, QuietAhead DEF Tick, queueVars
<1>8. CASE TimePasses
  <2>1. \A n \in Meetings, t \in JobStage :
           jobs'[n][t].state \in {"pending", "running"}
               => jobs[n][t].state \in {"pending", "running"}
    <3>1. ASSUME NEW m \in Meetings, NEW s \in JobStage, BecomeDue(m, s)
          PROVE  \A n \in Meetings, t \in JobStage :
                    jobs'[n][t].state \in {"pending", "running"}
                        => jobs[n][t].state \in {"pending", "running"}
      BY <3>1, SetRowEffect DEF BecomeDue, TypeOK
    <3> QED BY <1>8, <3>1 DEF TimePasses
  <2> QED BY <1>8, <2>1, QuietAhead DEF TimePasses
<1>9. CASE Restart
  <2>1. \A n \in Meetings, t \in JobStage :
           jobs'[n][t].state \in {"pending", "running"}
               => jobs[n][t].state \in {"pending", "running"}
    BY <1>9 DEF Restart, reset_running, TypeOK, QueueTypeOK, Row
  <2> QED BY <1>9, <2>1, QuietAhead DEF Restart
<1> QED BY <1>3, <1>4, <1>5, <1>6, <1>7, <1>8, <1>9

\* The job in hand was ahead when it was claimed.
LEMMA HandStaysAhead ==
    ASSUME SchedulerAssumption, TypeOK, [Next]_vars, NEW f \in Files,
           file'[f].key = file[f].key, HandAhead(f)'
    PROVE  job'.meeting \in MeetingsAhead(f)
<1>1. CASE ClaimMeeting
  <2>1. PICK m \in Meetings, s \in JobStage :
           claim(m, s) /\ job' = JobOf(m, s) /\ fifo' = key[m][s]
    BY <1>1 DEF ClaimMeeting
  <2>2. RowAhead(m, s, f) /\ job'.meeting = m
    BY <1>1, <2>1 DEF claim, JobOf, HandAhead, RowAhead
  <2> QED BY <2>1, <2>2, AheadBy
<1>2. CASE CompleteMeeting
  BY <1>2, AheadBy DEF CompleteMeeting, HandAhead
<1>3. CASE EnqueueNext \/ MeetingEndsElse \/ ClaimFile \/ FileEnds \/ Restart
  BY <1>3 DEF EnqueueNext, MeetingEndsElse, ClaimFile, FileEnds, Restart, ToIdle, HandAhead
<1>4. CASE UNCHANGED workerVars
  BY <1>4, AheadBy DEF workerVars, HandAhead
<1>5. \/ ClaimMeeting \/ CompleteMeeting
      \/ EnqueueNext \/ MeetingEndsElse \/ ClaimFile \/ FileEnds \/ Restart
      \/ UNCHANGED workerVars
  BY DEF Next, WorkerStep, Recorded, StopWaiting, RetryStage, Submit, RetryFile, CancelFile,
         Tick, TimePasses, vars
<1> QED BY <1>1, <1>2, <1>3, <1>4, <1>5

\* A file is only put where it was, or behind every key of the past.
LEMMA FilesStayAhead ==
    ASSUME SchedulerAssumption, TypeOK, KeysInv, [Next]_vars, NEW f \in Files,
           file'[f].key = file[f].key, file[f].key < now
    PROVE  FilesAhead(f)' \subseteq FilesAhead(f)
<1> USE DEF FilesAhead, FileBefore
<1>0. now \in Nat /\ cur \in Files /\ file \in [Files -> FileRow]
      /\ \A g \in Files : file[g].key \in Nat
  BY FileRowType DEF TypeOK
<1>1. CASE UNCHANGED file
  BY <1>1
<1>2. ASSUME \A g \in Files :
                /\ file'[g].key = file[g].key
                /\ file'[g].state \in {"pending", "running"}
                      => file[g].state \in {"pending", "running"}
      PROVE  FilesAhead(f)' \subseteq FilesAhead(f)
  BY <1>2
<1>3. CASE ClaimFile
  <2>1. PICK h \in Files : file[h].state = "pending"
                           /\ file' = [file EXCEPT ![h].state = "running"]
    BY <1>3 DEF ClaimFile, FileIsNext, DueFiles, WaitingFiles
  <2> QED BY <1>0, <1>2, <2>1 DEF FileRow
<1>4. CASE FileEnds
  <2>1. file[cur].state = "running"
    BY <1>4 DEF FileEnds, KeysInv
  <2>2. \A g \in Files : file'[g].key = file[g].key /\ (g # cur => file'[g] = file[g])
    <3>1. ASSUME NEW st \in FileState, FileEndsAs(st)
          PROVE  \A g \in Files : file'[g].key = file[g].key /\ (g # cur => file'[g] = file[g])
      BY <1>0, <3>1 DEF FileEndsAs, FileRow
    <3>2. ASSUME NEW d \in BOOLEAN, FilePutBack(d)
          PROVE  \A g \in Files : file'[g].key = file[g].key /\ (g # cur => file'[g] = file[g])
      BY <1>0, <3>2 DEF FilePutBack, FileRow
    <3> QED BY <1>4, <3>1, <3>2 DEF FileEnds, FileState
  <2> QED BY <1>2, <2>1, <2>2
<1>5. ASSUME NEW h \in Files, AtTheBack(h)
      PROVE  FilesAhead(f)' \subseteq FilesAhead(f)
  <2>1. file'[h].key = now /\ \A g \in Files : g # h => file'[g] = file[g]
    BY <1>0, <1>5 DEF AtTheBack
  <2>2. ~FileBefore(h, f)'
    <3>1. /\ now \in Nat /\ file[f].key \in Nat /\ file[f].key < now
          /\ file'[f].key = file[f].key /\ file'[h].key = now
      BY <1>0, <2>1
    <3> QED BY <3>1
  <2>3. ASSUME NEW g \in FilesAhead(f)' PROVE g \in FilesAhead(f)
    <3>1. g \in Files /\ g # h
      BY <2>2, <2>3
    <3>2. file'[g] = file[g]
      BY <2>1, <3>1
    <3> QED BY <2>3, <3>1, <3>2
  <2> QED BY <2>3
<1>6. ASSUME NEW h \in Files, CancelFile(h)
      PROVE  FilesAhead(f)' \subseteq FilesAhead(f)
  <2>1. \A g \in Files : file'[g].key = file[g].key /\ (g # h => file'[g] = file[g])
    BY <1>0, <1>6 DEF CancelFile, FileRow
  <2>2. file[h].state = "pending"
    BY <1>6 DEF CancelFile
  <2> QED BY <1>2, <2>1, <2>2
<1>7. CASE TimePasses
  <2>1. ASSUME NEW h \in Files, file' = [file EXCEPT ![h].due = TRUE]
        PROVE  \A g \in Files : file'[g].key = file[g].key /\ file'[g].state = file[g].state
    BY <1>0, <2>1 DEF FileRow
  <2>2. \A g \in Files : file'[g].key = file[g].key /\ file'[g].state = file[g].state
    BY <1>7, <2>1 DEF TimePasses, WaitingFiles
  <2> QED BY <1>2, <2>2
<1>8. CASE Restart
  <2>1. \A g \in Files : file'[g] = IF file[g].state = "running"
                                    THEN [file[g] EXCEPT !.state = "pending"] ELSE file[g]
    BY <1>8 DEF Restart
  <2>2. \A g \in Files : file'[g].key = file[g].key
    BY <1>0, <2>1 DEF FileRow
  <2> QED BY <1>2, <2>1, <2>2
<1>9. \/ UNCHANGED file \/ ClaimFile \/ FileEnds \/ TimePasses \/ Restart
      \/ \E h \in Files : AtTheBack(h) \/ CancelFile(h)
  BY DEF Next, WorkerStep, ClaimMeeting, CompleteMeeting, EnqueueNext, MeetingEndsElse,
         Recorded, StopWaiting, RetryStage, Submit, RetryFile, Tick, vars
<1> QED BY <1>1, <1>3, <1>4, <1>5, <1>6, <1>7, <1>8, <1>9

\* Nothing gets ahead of a file that keeps waiting: what is retried, put back or enqueued
\* as a later stage was ahead already or goes behind it.
THEOREM NoPushingIn == Spec => NobodyPushesIn
<1>1. SchedulerAssumption
  BY SchedulerAssumption
<1>2. ASSUME TypeOK, KeysInv, [Next]_vars, NEW f \in Files,
             file'[f].key = file[f].key, file[f].key < now
      PROVE  MeetingsAhead(f)' \subseteq MeetingsAhead(f)
  <2>1. \A m \in Meetings, s \in JobStage : RowAhead(m, s, f)' => m \in MeetingsAhead(f)
    <3>1. CASE WorkerStep
      BY <1>1, <1>2, <3>1, WorkerRowsAhead
    <3>2. CASE Next /\ ~WorkerStep
      BY <1>1, <1>2, <3>2, OthersRowsAhead DEF Next
    <3>3. CASE UNCHANGED vars
      BY <1>2, <3>3, QuietAhead DEF vars, queueVars
    <3> QED BY <1>2, <3>1, <3>2, <3>3
  <2>2. HandAhead(f)' => job'.meeting \in MeetingsAhead(f)
    BY <1>1, <1>2, HandStaysAhead
  <2> QED BY <2>1, <2>2 DEF MeetingsAhead, RowAhead, HandAhead
<1>3. TypeOK /\ KeysInv /\ [Next]_vars =>
         [\A f \in Files :
            file[f].state = "pending" /\ file'[f].state = "pending"
                /\ file'[f].key = file[f].key /\ file[f].key < now
                => MeetingsAhead(f)' \subseteq MeetingsAhead(f)
                   /\ FilesAhead(f)' \subseteq FilesAhead(f)]_vars
  BY <1>1, <1>2, FilesStayAhead
<1> QED BY <1>3, SchedulerTypeCorrect, KeysInvariant, PTL DEF Spec, NobodyPushesIn

(***************************************************************************)
(* The top of the list is what next_head gives.                            *)
(***************************************************************************)
\* An id is one row's only, and nextId is nobody's yet.
UniqueIds ==
    \A m, n \in Meetings, s, t \in JobStage :
        Exists(m, s) =>
            /\ jobs[m][s].id < nextId
            /\ Exists(n, t) /\ jobs[n][t].id = jobs[m][s].id => n = m /\ t = s

\* The row of the job in hand is still there: an UPDATE makes no row of none.
IdsInv == UniqueIds /\ (at = "meeting" => Exists(job.meeting, job.stage))

\* Rows that keep their id.
LEMMA SameIds ==
    ASSUME UniqueIds, UNCHANGED nextId,
           \A m \in Meetings, s \in JobStage :
              Exists(m, s)' => Exists(m, s) /\ jobs'[m][s].id = jobs[m][s].id
    PROVE  UniqueIds'
BY DEF UniqueIds

\* One row written with the id it has.
LEMMA WrittenKeepsIds ==
    ASSUME TypeOK, UniqueIds, UNCHANGED nextId, NEW m \in Meetings, NEW s \in JobStage,
           NEW row, SetRow(m, s, row), Exists(m, s), row.id = jobs[m][s].id
    PROVE  UniqueIds'
<1>1. \A n \in Meetings, t \in JobStage :
         jobs'[n][t] = IF n = m /\ t = s THEN row ELSE jobs[n][t]
  BY SetRowEffect DEF TypeOK
<1>2. \A n \in Meetings, t \in JobStage :
         Exists(n, t)' => Exists(n, t) /\ jobs'[n][t].id = jobs[n][t].id
  BY <1>1 DEF Exists
<1> QED BY <1>2, SameIds

\* A new row gets the next id.
LEMMA EnqueuedIds ==
    ASSUME TypeOK, UniqueIds, NEW m \in Meetings, NEW s \in JobStage,
           enqueue(m, s) \/ retry(m, s)
    PROVE  UniqueIds' /\ \A n \in Meetings, t \in JobStage : Exists(n, t) => Exists(n, t)'
<1>1. nextId \in Nat /\ \A n \in Meetings, t \in JobStage : jobs[n][t].id \in Nat
  BY RowType DEF TypeOK, QueueTypeOK
<1>2. CASE Exists(m, s)
  <2>1. PICK row : SetRow(m, s, row) /\ UNCHANGED nextId /\ row.state = "pending"
                   /\ row.id = jobs[m][s].id
    <3>0. jobs[m][s] \in Row
      BY RowType DEF TypeOK
    <3>1. CASE enqueue(m, s)
      <4> DEFINE row == [jobs[m][s] EXCEPT !.state = "pending", !.due = TRUE]
      <4>1. SetRow(m, s, row) /\ UNCHANGED nextId
        BY <1>2, <3>1 DEF enqueue
      <4>2. row.state = "pending" /\ row.id = jobs[m][s].id
        BY <3>0 DEF Row
      <4> QED BY <4>1, <4>2
    <3>2. CASE retry(m, s)
      <4> DEFINE row == [jobs[m][s] EXCEPT !.state = "pending", !.attempts = 0,
                                           !.due = TRUE, !.last_error = "none"]
      <4>1. SetRow(m, s, row) /\ UNCHANGED nextId
        BY <1>2, <3>2 DEF retry
      <4>2. row.state = "pending" /\ row.id = jobs[m][s].id
        BY <3>0 DEF Row
      <4> QED BY <4>1, <4>2
    <3> QED BY <3>1, <3>2
  <2>2. UniqueIds'
    BY <1>2, <2>1, WrittenKeepsIds
  <2> QED BY <2>1, <2>2, SetRowEffect DEF Exists, TypeOK
<1>3. CASE ~Exists(m, s)
  <2>1. PICK row : SetRow(m, s, row) /\ nextId' = nextId + 1 /\ row.state = "pending"
                   /\ row.id = nextId
    <3> DEFINE row == [Absent EXCEPT !.id = nextId, !.state = "pending"]
    <3>1. SetRow(m, s, row) /\ nextId' = nextId + 1
      BY <1>3 DEF enqueue, retry
    <3>2. row.state = "pending" /\ row.id = nextId
      BY DEF Absent
    <3> QED BY <3>1, <3>2
  <2>2. \A n \in Meetings, t \in JobStage :
           jobs'[n][t] = IF n = m /\ t = s THEN row ELSE jobs[n][t]
    BY <2>1, SetRowEffect DEF TypeOK
  <2>3. \A n \in Meetings, t \in JobStage :
           Exists(n, t)' => \/ n = m /\ t = s /\ jobs'[n][t].id = nextId
                            \/ /\ n # m \/ t # s
                               /\ Exists(n, t)
                               /\ jobs'[n][t].id = jobs[n][t].id
                               /\ jobs'[n][t].id < nextId
                               /\ jobs'[n][t].id \in Nat
    BY <1>1, <2>1, <2>2 DEF Exists, UniqueIds
  <2>4. \A n \in Meetings, t \in JobStage : Exists(n, t)' => jobs'[n][t].id < nextId'
    BY <1>1, <2>1, <2>3
  <2>5. \A n, o \in Meetings, t, u \in JobStage :
           Exists(n, t)' /\ Exists(o, u)' /\ jobs'[o][u].id = jobs'[n][t].id
               => o = n /\ u = t
    BY <1>1, <2>3 DEF UniqueIds
  <2> QED BY <2>1, <2>2, <2>4, <2>5 DEF UniqueIds, Exists
<1> QED BY <1>2, <1>3

\* However a run ends, its row keeps its id.
LEMMA EndKeepsId ==
    ASSUME TypeOK, NEW permanent \in BOOLEAN,
           \/ complete(job) \/ release(job) \/ defer(job) \/ fail(job, permanent)
           \/ Update(job, StoppedRow(RowOf(job)))
    PROVE  \E row : SetRow(job.meeting, job.stage, row) /\ row.id = RowOf(job).id
<1>1. RowOf(job) \in Row
  BY RowType DEF RowOf, TypeOK, Job
<1>2. \A row : Update(job, row) => SetRow(job.meeting, job.stage, row)
  BY DEF Update
<1>3. CASE complete(job)
  <2>1. [RowOf(job) EXCEPT !.state = "done", !.last_error = "none"].id = RowOf(job).id
    BY <1>1 DEF Row
  <2> QED BY <1>2, <1>3, <2>1 DEF complete
<1>4. CASE release(job)
  <2>1. [RowOf(job) EXCEPT !.state = "pending"].id = RowOf(job).id
    BY <1>1 DEF Row
  <2> QED BY <1>2, <1>4, <2>1 DEF release
<1>5. CASE defer(job)
  <2>1. [RowOf(job) EXCEPT !.state = "pending", !.due = FALSE,
                           !.last_error = "error"].id = RowOf(job).id
    BY <1>1 DEF Row
  <2> QED BY <1>2, <1>5, <2>1 DEF defer
<1>6. CASE fail(job, permanent)
  <2>1. Failed(job, permanent).id = RowOf(job).id
    BY <1>1 DEF Failed, Row
  <2> QED BY <1>2, <1>6, <2>1 DEF fail
<1>7. CASE Update(job, StoppedRow(RowOf(job)))
  <2>1. StoppedRow(RowOf(job)).id = RowOf(job).id
    BY <1>1 DEF StoppedRow, Row
  <2> QED BY <1>2, <1>7, <2>1
<1> QED BY <1>3, <1>4, <1>5, <1>6, <1>7

LEMMA StepIds ==
    ASSUME SchedulerAssumption, TypeOK, IdsInv, [Next]_vars
    PROVE  IdsInv'
<1> USE DEF workerVars, IdsInv
<1>0. job.meeting \in Meetings /\ job.stage \in JobStage /\ "transcribe" \in JobStage
  BY DEF TypeOK, Job, JobStage
<1>1. CASE UNCHANGED <<jobs, nextId>> /\ (UNCHANGED <<at, job>> \/ at' # "meeting")
  BY <1>1 DEF UniqueIds, Exists
<1>2. ASSUME NEW m \in Meetings, NEW s \in JobStage, NEW row, SetRow(m, s, row),
             UNCHANGED nextId, Exists(m, s), row.id = jobs[m][s].id,
             row.state # "absent" \/ at' # "meeting",
             \/ UNCHANGED <<at, job>>
             \/ job'.meeting = m /\ job'.stage = s
             \/ at' # "meeting"
      PROVE  IdsInv'
  <2>1. UniqueIds'
    BY <1>2, WrittenKeepsIds
  <2>2. \A n \in Meetings, t \in JobStage :
           jobs'[n][t] = IF n = m /\ t = s THEN row ELSE jobs[n][t]
    BY <1>2, SetRowEffect DEF TypeOK
  <2>3. at' = "meeting" => Exists(job.meeting, job.stage)'
    BY <1>0, <1>2, <2>2 DEF Exists
  <2> QED BY <2>1, <2>3
<1>3. ASSUME NEW m \in Meetings, NEW s \in JobStage, enqueue(m, s) \/ retry(m, s),
             UNCHANGED <<at, job>> \/ at' # "meeting"
      PROVE  IdsInv'
  BY <1>0, <1>3, EnqueuedIds DEF Exists
<1>4. CASE ClaimMeeting
  <2>1. PICK m \in Meetings, s \in JobStage : claim(m, s) /\ job' = JobOf(m, s)
    BY <1>4 DEF ClaimMeeting
  <2> DEFINE row == [jobs[m][s] EXCEPT !.state = "running"]
  <2>2. row.state = "running" /\ row.id = jobs[m][s].id
    BY RowType DEF TypeOK, Row
  <2>3. SetRow(m, s, row) /\ Exists(m, s) /\ job'.meeting = m /\ job'.stage = s
    BY <2>1 DEF claim, Exists, JobOf
  <2> HIDE DEF row
  <2> QED BY <1>2, <1>4, <2>2, <2>3 DEF ClaimMeeting
<1>5. CASE CompleteMeeting \/ MeetingEndsElse
  <2>1. PICK row : SetRow(job.meeting, job.stage, row) /\ row.id = RowOf(job).id
    BY <1>5, EndKeepsId DEF CompleteMeeting, MeetingEndsElse
  <2>2. Exists(job.meeting, job.stage) /\ at' # "meeting" /\ UNCHANGED nextId
    BY <1>5 DEF CompleteMeeting, MeetingEndsElse, ToIdle
  <2> QED BY <1>0, <1>2, <2>1, <2>2 DEF RowOf
<1>6. CASE EnqueueNext
  <2>1. at' # "meeting"
    BY <1>6 DEF EnqueueNext, ToIdle
  <2>2. CASE HasNext /\ enqueue_next_stage(job)
    BY <1>0, <1>3, <2>1, <2>2, NextStageType DEF HasNext, enqueue_next_stage
  <2> QED BY <1>1, <1>6, <2>1, <2>2 DEF EnqueueNext
<1>7. CASE ClaimFile \/ FileEnds \/ Tick
  BY <1>1, <1>7 DEF ClaimFile, FileEnds, Tick, ToIdle, queueVars
<1>8. ASSUME NEW m \in Meetings, Recorded(m) \/ \E s \in JobStage : RetryStage(m, s)
      PROVE  IdsInv'
  BY <1>0, <1>3, <1>8 DEF Recorded, RetryStage
<1>9. ASSUME NEW m \in Meetings, StopWaiting(m)
      PROVE  IdsInv'
  <2> DEFINE row == StoppedRow(jobs[m]["transcribe"])
  <2>1. row.state = "cancelled" /\ row.id = jobs[m]["transcribe"].id
    BY <1>0, RowType DEF StoppedRow, TypeOK, Row
  <2>2. SetRow(m, "transcribe", row) /\ Exists(m, "transcribe")
    BY <1>9 DEF StopWaiting, request_stop_waiting, Exists
  <2> HIDE DEF row
  <2> QED BY <1>0, <1>2, <1>9, <2>1, <2>2 DEF StopWaiting
<1>10. ASSUME NEW f \in Files, Submit(f) \/ RetryFile(f) \/ CancelFile(f)
       PROVE  IdsInv'
  BY <1>1, <1>10 DEF Submit, RetryFile, CancelFile, queueVars
<1>11. CASE TimePasses
  <2>1. ASSUME NEW m \in Meetings, NEW s \in JobStage, BecomeDue(m, s)
        PROVE  IdsInv'
    <3> DEFINE row == [jobs[m][s] EXCEPT !.due = TRUE]
    <3>1. row.state = jobs[m][s].state /\ row.id = jobs[m][s].id
      BY RowType DEF TypeOK, Row
    <3>2. SetRow(m, s, row) /\ Exists(m, s)
      BY <2>1 DEF BecomeDue, Exists
    <3> HIDE DEF row
    <3> QED BY <1>2, <1>11, <3>1, <3>2 DEF TimePasses, Exists
  <2> QED BY <1>1, <1>11, <2>1 DEF TimePasses
<1>12. CASE Restart
  <2>1. \A m \in Meetings, s \in JobStage :
           Exists(m, s)' => Exists(m, s) /\ jobs'[m][s].id = jobs[m][s].id
    BY <1>12, RowType DEF Restart, reset_running, Exists, TypeOK, Row
  <2> QED BY <1>12, <2>1, SameIds DEF Restart, ToIdle
<1>13. CASE UNCHANGED vars
  BY <1>1, <1>13 DEF vars, queueVars
<1> QED BY <1>4, <1>5, <1>6, <1>7, <1>8, <1>9, <1>10, <1>11, <1>12, <1>13
        DEF Next, WorkerStep

\* Ids are not shared, whatever is claimed, retried, enqueued as a later stage or
\* interrupted.
LEMMA IdsInvariant == Spec => []IdsInv
<1>1. SchedulerAssumption
  BY SchedulerAssumption
<1>2. Init => IdsInv
  BY DEF Init, QueueInit, IdsInv, UniqueIds, Exists, Absent
<1>3. TypeOK /\ IdsInv /\ [Next]_vars => IdsInv'
  BY <1>1, StepIds
<1> QED BY <1>2, <1>3, SchedulerTypeCorrect, PTL DEF Spec

LEMMA LeastExists ==
    ASSUME NEW S \in SUBSET Nat, S # {}
    PROVE  \E x \in S : \A y \in S : x <= y
<1>1. PICK x \in S : \A y \in S : <<y, x>> \notin OpToRel(<, Nat)
  BY NatLessThanWellFounded, WFMin
<1>2. \A y \in S : ~(y < x)
  BY <1>1 DEF OpToRel
<1> QED BY <1>2

\* Of the waiting jobs one has the least id.
LEMMA HeadExists ==
    ASSUME TypeOK, WaitingJobs # {}, \A j \in WaitingJobs : Runnable(j[1], j[2])
    PROVE  \E h \in WaitingJobs :
              IsHead(h[1], h[2]) /\ \A j \in WaitingJobs : IdOf(h) <= IdOf(j)
<1> DEFINE ids == {IdOf(j) : j \in WaitingJobs}
<1>1. \A j \in WaitingJobs : IdOf(j) \in Nat
  BY RowType DEF WaitingJobs, IdOf, TypeOK
<1>2. PICK x \in ids : \A y \in ids : x <= y
  <2>1. ids \in SUBSET Nat /\ ids # {}
    BY <1>1
  <2> HIDE DEF ids
  <2> QED BY <2>1, LeastExists
<1>3. PICK h \in WaitingJobs : x = IdOf(h)
  BY <1>2
<1>4. \A j \in WaitingJobs : IdOf(h) <= IdOf(j)
  BY <1>2, <1>3
<1>5. IsHead(h[1], h[2])
  <2>1. \A n \in Meetings, t \in JobStage : Runnable(n, t) => <<n, t>> \in WaitingJobs
    BY DEF Runnable, WaitingJobs
  <2>2. \A n \in Meetings, t \in JobStage : IdOf(<<n, t>>) = jobs[n][t].id
    BY DEF IdOf
  <2> QED BY <1>4, <2>1, <2>2 DEF IsHead, IdOf
<1> QED BY <1>4, <1>5

\* The order of the files is strict.
LEMMA NotBothBefore ==
    ASSUME SchedulerAssumption, TypeOK, NEW f \in Files, NEW g \in Files
    PROVE  ~(FileBefore(f, g) /\ FileBefore(g, f))
<1>1. f \in Nat /\ g \in Nat /\ file[f].key \in Nat /\ file[g].key \in Nat
  BY FileRowType DEF SchedulerAssumption
<1>2. \A a, b, k, l \in Nat :
         ~((k < l \/ (k = l /\ a < b)) /\ (l < k \/ (l = k /\ b < a)))
  OBVIOUS
<1> QED BY <1>1, <1>2 DEF FileBefore

\* The jobs that ordered puts before a file.
Unlisted(f) == {j \in WaitingJobs : ~FileListedBefore(f, j)}

LEMMA ListedFirst ==
    ASSUME SchedulerAssumption, NEW f \in Files
    PROVE  listed(f) = 1 + (IF SomethingRuns THEN 1 ELSE 0)
               <=> FilesBefore(f) = {} /\ Unlisted(f) = {}
<1> DEFINE a == Cardinality(FilesBefore(f))
           b == Cardinality(Unlisted(f))
           r == IF SomethingRuns THEN 1 ELSE 0
<1>1. IsFiniteSet(Unlisted(f))
  <2>1. JobStage = {"transcribe"} \union {"assemble"} \union {"summarize"}
                       \union {"render"} \union {"deliver"}
    BY DEF JobStage
  <2>2. IsFiniteSet(JobStage)
    BY <2>1, FS_Singleton, FS_Union
  <2>3. IsFiniteSet(Meetings \X JobStage)
    BY <2>2, FS_Product DEF SchedulerAssumption
  <2>4. Unlisted(f) \subseteq Meetings \X JobStage
    BY DEF Unlisted, WaitingJobs
  <2> QED BY <2>3, <2>4, FS_Subset
<1>2. a \in Nat /\ b \in Nat /\ r \in {0, 1}
  BY <1>1, AheadFinite, FS_CardinalityType
<1>3. listed(f) = a + b + r + 1
  BY DEF listed, Unlisted
<1>4. listed(f) = 1 + r <=> a = 0 /\ b = 0
  <2> HIDE DEF a, b, r
  <2> QED BY <1>2, <1>3
<1>5. (a = 0 <=> FilesBefore(f) = {}) /\ (b = 0 <=> Unlisted(f) = {})
  BY <1>1, AheadFinite, FS_EmptySet
<1> QED BY <1>4, <1>5

\* The file at the top and the head of the meetings: the merge puts the file before all
\* jobs exactly if the head has a later key.
LEMMA TopIsNext ==
    ASSUME SchedulerAssumption, TypeOK, UniqueIds
    PROVE  TopOfTheListRunsNext
<1> SUFFICES ASSUME \A j \in WaitingJobs : Runnable(j[1], j[2]), WaitingFiles = DueFiles,
                    NEW f \in WaitingFiles
             PROVE  FileIsNext(f) <=> FilesBefore(f) = {} /\ Unlisted(f) = {}
  BY ListedFirst DEF TopOfTheListRunsNext, WaitingFiles
<1>1. f \in Files /\ f \in DueFiles /\ \A g \in Files : g \in Nat /\ file[g].key \in Nat
  BY FileRowType DEF WaitingFiles, SchedulerAssumption
<1>2. \A j \in WaitingJobs : IdOf(j) \in Nat
  BY RowType DEF WaitingJobs, IdOf, TypeOK
<1>3. FilesBefore(f) = {} <=> \A g \in DueFiles \ {f} : FileBefore(f, g)
  <2>1. ASSUME FilesBefore(f) = {}
        PROVE  \A g \in DueFiles \ {f} : FileBefore(f, g)
    BY <1>1, <2>1, FilesOrdered DEF FilesBefore, DueFiles, WaitingFiles
  <2>2. ASSUME \A g \in DueFiles \ {f} : FileBefore(f, g), NEW g \in FilesBefore(f)
        PROVE  FALSE
    <3>1. g \in WaitingFiles /\ g \in Files /\ FileBefore(g, f)
      BY DEF FilesBefore, WaitingFiles
    <3>2. g # f
      BY <1>1, <3>1, NotBothBefore
    <3>3. FileBefore(f, g)
      BY <2>2, <3>1, <3>2
    <3> QED BY <1>1, <3>1, <3>3, NotBothBefore
  <2> QED BY <2>1, <2>2
<1>4. Unlisted(f) = {}
          <=> \A j \in WaitingJobs : IsHead(j[1], j[2]) => file[f].key < KeyOf(j)
  <2>1. ASSUME Unlisted(f) = {}, NEW h \in WaitingJobs, IsHead(h[1], h[2])
        PROVE  file[f].key < KeyOf(h)
    <3>1. PICK i \in WaitingJobs : IdOf(i) <= IdOf(h) /\ file[f].key < KeyOf(i)
      BY <2>1 DEF Unlisted, FileListedBefore
    <3>2. IdOf(h) <= IdOf(i)
      <4>1. i[1] \in Meetings /\ i[2] \in JobStage /\ Runnable(i[1], i[2])
        BY DEF WaitingJobs
      <4> QED BY <2>1, <4>1 DEF IsHead, IdOf
    <3>3. IdOf(h) = IdOf(i)
      BY <1>2, <3>1, <3>2
    <3>4. i[1] = h[1] /\ i[2] = h[2]
      <4>1. \A j \in WaitingJobs :
               j[1] \in Meetings /\ j[2] \in JobStage /\ Exists(j[1], j[2])
        BY DEF WaitingJobs, Exists
      <4> QED BY <3>3, <4>1 DEF UniqueIds, IdOf
    <3> QED BY <3>1, <3>4 DEF KeyOf
  <2>2. ASSUME \A j \in WaitingJobs : IsHead(j[1], j[2]) => file[f].key < KeyOf(j),
               NEW j \in WaitingJobs
        PROVE  FileListedBefore(f, j)
    <3>1. PICK h \in WaitingJobs :
             IsHead(h[1], h[2]) /\ \A i \in WaitingJobs : IdOf(h) <= IdOf(i)
      BY HeadExists
    <3> QED BY <2>2, <3>1 DEF FileListedBefore
  <2> QED BY <2>1, <2>2 DEF Unlisted
<1> QED BY <1>1, <1>3, <1>4 DEF FileIsNext

\* When nothing is held back, a file is at the top of the list, or right below what runs,
\* exactly if next_head gives it: one merges by id and key, the other compares heads.
THEOREM ListTellsTheNext == Spec => []TopOfTheListRunsNext
<1>1. SchedulerAssumption
  BY SchedulerAssumption
<1>2. IdsInv => UniqueIds
  BY DEF IdsInv
<1> QED BY <1>1, <1>2, TopIsNext, SchedulerTypeCorrect, IdsInvariant, PTL

(***************************************************************************)
(* SignIn.                                                                 *)
(***************************************************************************)
Logins ==
    [runs : BOOLEAN, link : BOOLEAN, young : BOOLEAN, done : BOOLEAN, outlived : BOOLEAN]
Press(n) == [at : {"sent", "lock", "stop", "start", "wait", "ok", "refused", "rest"}, login : 0 .. n]
Asked(n) == [who : {"poll", "check", "look", "out"}, timer : 0 .. n,
             at : {"asked", "said", "told"}, says : Answers,
             valid : BOOLEAN, late : BOOLEAN, open : BOOLEAN]
Timer == [kind : {"watch", "follow"}, gone : 0 .. 2]

\* The types, with the sequences as sequences.
LoginTypes ==
    /\ account \in {"in", "out"}
    /\ logins \in Seq(Logins)
    /\ registry \in 0 .. Len(logins) /\ starting \in BOOLEAN /\ lock \in 0 .. Len(presses)
    /\ presses \in Seq(Press(Len(logins)))
    /\ cancel \in [at : {"rest", "sent", "stop"}, login : 0 .. Len(logins)]
    /\ out \in [at : {"rest", "sent", "stop", "run", "again"}, login : 0 .. Len(logins)]
    /\ code \in [at : {"rest", "sent", "look", "send", "refused"}, login : 0 .. Len(logins)]
    /\ history \in [Troubles -> Nat]

CardTypes ==
    /\ held \in Answers \union {"none"}
    /\ asks \in Seq(Asked(Len(timers)))
    /\ card \in [phase : {"idle", "signing-in", "testing", "signin-failed"},
                 shown : Answers, timer : 0 .. Len(timers)]
    /\ timers \in Seq(Timer)

\* The press that replaces a login holds the lock from its look until the login runs; and
\* while it does, the app knows of no login.
LockHeld ==
    /\ \A n \in DOMAIN presses : presses[n].at \in {"stop", "start"} <=> lock = n
    /\ lock # 0 => registry = 0

\* What makes NoOrphan inductive.
LoginInv == LoginTypes /\ LockHeld /\ NoOrphan

\* A sign-out's command has run, and what was said before it is not forgotten yet.
SaidSo == account = "in" \/ out.at = "again"

\* Either no sign-out's command hangs, or nobody ever signs in.
HangsUnseen ==
    \/ history["hangs"] = 0
    \/ history["press"] = 0 /\ account = "out" /\ Len(logins) = 0 /\ Len(presses) = 0

\* What is still to be held was said by a CLI that is signed in.
AnswersTrue ==
    /\ held = "in" => SaidSo
    /\ \A i \in DOMAIN asks :
          asks[i].at # "told" /\ asks[i].valid /\ asks[i].says = "in" => SaidSo
    /\ HangsUnseen

(***************************************************************************)
(* The sequences.                                                          *)
(***************************************************************************)
LEMMA UsesEffect ==
    ASSUME history \in [Troubles -> Nat], NEW e \in Troubles, Uses(e)
    PROVE  /\ history' \in [Troubles -> Nat]
           /\ \A d \in Troubles : d # e => history'[d] = history[d]
BY DEF Uses

LEMMA WiderSeq ==
    ASSUME NEW S, NEW T, S \subseteq T, NEW s \in Seq(S)
    PROVE  s \in Seq(T)
OBVIOUS

\* More logins, more timers: what named one still does.
LEMMA WiderRequests ==
    ASSUME NEW n \in Nat, NEW m \in Nat, n <= m
    PROVE  /\ \A s : s \in Seq(Press(n)) => s \in Seq(Press(m))
           /\ \A s : s \in Seq(Asked(n)) => s \in Seq(Asked(m))
<1>1. Press(n) \subseteq Press(m) /\ Asked(n) \subseteq Asked(m)
  BY DEF Press, Asked
<1> QED BY <1>1, WiderSeq

\* What stays where one goes, and where it was.
LEMMA RemovedAt ==
    ASSUME NEW S, NEW s \in Seq(S), NEW i \in DOMAIN s
    PROVE  /\ RemoveAt(s, i) \in Seq(S)
           /\ \A j \in DOMAIN RemoveAt(s, i) :
                 LET k == IF j < i THEN j ELSE j + 1 IN
                 k \in DOMAIN s /\ k # i /\ RemoveAt(s, i)[j] = s[k]
<1> DEFINE a == SubSeq(s, 1, i - 1)
           b == SubSeq(s, i + 1, Len(s))
<1>1. i \in 1 .. Len(s)
  OBVIOUS
<1>2. a \in Seq(S) /\ Len(a) = i - 1 /\ \A j \in 1 .. i - 1 : a[j] = s[j]
  BY <1>1
<1>3. b \in Seq(S) /\ Len(b) = Len(s) - i /\ \A j \in 1 .. Len(s) - i : b[j] = s[j + i]
  BY <1>1
<1>4. RemoveAt(s, i) = a \o b
  BY DEF RemoveAt
<1> HIDE DEF a, b
<1>5. /\ a \o b \in Seq(S) /\ Len(a \o b) = Len(a) + Len(b)
      /\ \A j \in 1 .. Len(a) + Len(b) :
            (a \o b)[j] = IF j <= Len(a) THEN a[j] ELSE b[j - Len(a)]
  BY <1>2, <1>3, ConcatProperties
<1> SUFFICES ASSUME NEW j \in DOMAIN RemoveAt(s, i)
             PROVE  LET k == IF j < i THEN j ELSE j + 1 IN
                    k \in DOMAIN s /\ k # i /\ RemoveAt(s, i)[j] = s[k]
  BY <1>4, <1>5
<1>6. j \in 1 .. Len(s) - 1
  BY <1>1, <1>2, <1>3, <1>4, <1>5
<1>7. CASE j < i
  <2>1. j \in 1 .. Len(a) + Len(b) /\ j <= Len(a) /\ j \in 1 .. i - 1
    BY <1>6, <1>7, <1>1, <1>2, <1>3
  <2>2. RemoveAt(s, i)[j] = s[j] /\ j \in DOMAIN s /\ j # i
    BY <2>1, <1>1, <1>2, <1>4, <1>5
  <2> QED BY <1>7, <2>2
<1>8. CASE ~(j < i)
  <2> DEFINE m == j - Len(a)
  <2>1. /\ j \in 1 .. Len(a) + Len(b) /\ ~(j <= Len(a))
        /\ m \in 1 .. Len(s) - i /\ m + i = j + 1
    BY <1>6, <1>8, <1>1, <1>2, <1>3
  <2>2. RemoveAt(s, i)[j] = b[m]
    BY <2>1, <1>4, <1>5
  <2>3. RemoveAt(s, i)[j] = s[j + 1]
    BY <2>1, <2>2, <1>3
  <2>4. j + 1 \in DOMAIN s /\ j + 1 # i
    BY <1>6, <1>8, <1>1
  <2> QED BY <1>8, <2>3, <2>4
<1> QED BY <1>7, <1>8

\* Ending a process.
LEMMA KilledEffect ==
    ASSUME logins \in Seq(Logins), NEW l \in 0 .. Len(logins)
    PROVE  /\ Killed(l) \in Seq(Logins) /\ Len(Killed(l)) = Len(logins)
           /\ DOMAIN Killed(l) = DOMAIN logins
           /\ \A k \in DOMAIN logins :
                 /\ Killed(l)[k].runs => logins[k].runs /\ k # l
                 /\ Killed(l)[k].outlived = logins[k].outlived
<1>1. CASE l = 0
  BY <1>1 DEF Killed
<1>2. CASE l # 0
  <2> DEFINE dead == [logins[l] EXCEPT !.runs = FALSE]
  <2>1. l \in DOMAIN logins /\ logins[l] \in Logins
    BY <1>2
  <2>2. dead \in Logins /\ ~dead.runs /\ dead.outlived = logins[l].outlived
    BY <2>1 DEF Logins
  <2>3. Killed(l) = [logins EXCEPT ![l] = dead]
    BY <1>2, <2>1 DEF Killed
  <2> HIDE DEF dead
  <2> QED BY <2>1, <2>2, <2>3
<1> QED BY <1>1, <1>2

\* A login is one its stop left running.
Outlived(l) == logins[l].outlived

\* Stopping one: it ends, or it is known for one that was not waited for.
LEMMA StopsEffect ==
    ASSUME logins \in Seq(Logins), history \in [Troubles -> Nat], NEW l \in 0 .. Len(logins),
           StopsLogin(l)
    PROVE  /\ logins' \in Seq(Logins) /\ Len(logins') = Len(logins) /\ DOMAIN logins' = DOMAIN logins
           /\ history' \in [Troubles -> Nat] /\ (history' = history \/ Uses("outlives"))
           /\ \A k \in DOMAIN logins :
                 /\ Runs(k)' => Runs(k) /\ (k # l \/ Outlived(k)')
                 /\ Outlived(k) => Outlived(k)'
<1>1. CASE logins' = Killed(l) /\ UNCHANGED history
  BY <1>1, KilledEffect DEF Runs, Outlived
<1>2. CASE Runs(l) /\ Uses("outlives") /\ logins' = [logins EXCEPT ![l].outlived = TRUE]
  <2> DEFINE gone == [logins[l] EXCEPT !.outlived = TRUE]
  <2>1. l \in DOMAIN logins /\ logins[l] \in Logins /\ logins[l].runs
    BY <1>2 DEF Runs
  <2>2. gone \in Logins /\ gone.outlived /\ gone.runs
    BY <2>1 DEF Logins
  <2>3. logins' = [logins EXCEPT ![l] = gone]
    BY <1>2, <2>1
  <2>4. history' \in [Troubles -> Nat]
    BY <1>2, UsesEffect DEF Troubles
  <2> HIDE DEF gone
  <2>5. /\ logins' \in Seq(Logins) /\ Len(logins') = Len(logins) /\ DOMAIN logins' = DOMAIN logins
        /\ \A k \in DOMAIN logins : logins'[k] = IF k = l THEN gone ELSE logins[k]
    BY <2>1, <2>2, <2>3
  <2>6. \A k \in DOMAIN logins : Runs(k)' => Runs(k)
    BY <1>2, <2>5 DEF Runs
  <2>7. \A k \in DOMAIN logins : (k # l \/ Outlived(k)') /\ (Outlived(k) => Outlived(k)')
    BY <2>2, <2>5 DEF Outlived
  <2> QED BY <1>2, <2>4, <2>5, <2>6, <2>7
<1> QED BY <1>1, <1>2 DEF StopsLogin

(***************************************************************************)
(* No login is gone that nobody would stop.                                *)
(***************************************************************************)
LEMMA InitLoginInv ==
    ASSUME SignInAssumption, SignInInit
    PROVE  LoginInv
<1>1. history \in [Troubles -> Nat]
  BY DEF SignInInit, SignInAssumption
<1>2. Len(logins) = 0 /\ Len(presses) = 0 /\ DOMAIN logins = {} /\ DOMAIN presses = {}
  BY DEF SignInInit
<1>3. logins \in Seq(Logins) /\ presses \in Seq(Press(Len(logins)))
  BY DEF SignInInit
<1>4. LoginTypes
  <2>1. [at |-> "rest", login |-> 0] \in [at : {"rest"}, login : 0 .. Len(logins)]
    BY <1>2
  <2> QED BY <1>1, <1>2, <1>3, <2>1 DEF SignInInit, LoginTypes
<1> QED BY <1>2, <1>4 DEF SignInInit, LoginInv, LockHeld, NoOrphan

CodeType(n) == [at : {"rest", "sent", "look", "send", "refused"}, login : 0 .. n]

\* What touches neither the logins nor the requests that stop them.
LEMMA ElsewhereKeepsLogins ==
    ASSUME LoginInv, UNCHANGED <<loginVars, presses, cancel, out>>,
           account' \in {"in", "out"}, code' \in CodeType(Len(logins)),
           history' \in [Troubles -> Nat]
    PROVE  LoginInv'
BY DEF LoginInv, LoginTypes, LockHeld, NoOrphan, Stopping, Runs, loginVars, CodeType

\* The same logins, or fewer of them running.
LEMMA FewerLoginsRun ==
    ASSUME LoginInv, logins' \in Seq(Logins), Len(logins') = Len(logins),
           \A l \in DOMAIN logins : (Runs(l)' => Runs(l)) /\ (Outlived(l) => Outlived(l)'),
           UNCHANGED <<registry, starting, lock, presses, cancel, out, code>>,
           account' \in {"in", "out"}, history' \in [Troubles -> Nat]
    PROVE  LoginInv'
<1>1. DOMAIN logins' = DOMAIN logins
  BY DEF LoginInv, LoginTypes
<1>2. LoginTypes' /\ LockHeld'
  BY DEF LoginInv, LoginTypes, LockHeld
<1>3. NoOrphan'
  <2>1. \A l : Stopping(l)' <=> Stopping(l)
    BY DEF Stopping
  <2> QED BY <1>1, <2>1 DEF LoginInv, NoOrphan, Outlived
<1> QED BY <1>2, <1>3 DEF LoginInv

LEMMA ElsewhereActions ==
    ASSUME LoginInv,
           AskStep \/ Looks \/ CodePasted \/ SignOutPressed \/ Ticks \/ TestEnds \/ CodeStep
    PROVE  LoginInv'
<1> USE DEF requestVars, cardVars, loginVars
<1>1. /\ account \in {"in", "out"} /\ code \in CodeType(Len(logins))
      /\ history \in [Troubles -> Nat] /\ registry \in 0 .. Len(logins)
  BY DEF LoginInv, LoginTypes, CodeType
<1>2. CASE AskStep
  <2>1. PICK i \in DOMAIN asks : Says(i) \/ Tells(i) \/ RowArrives(i)
    BY <1>2 DEF AskStep
  <2>2. CASE Says(i)
    BY <1>1, <2>2, UsesEffect, ElsewhereKeepsLogins DEF Says, Troubles
  <2>3. CASE Tells(i) \/ RowArrives(i)
    BY <1>1, <2>3, ElsewhereKeepsLogins DEF Tells, RowArrives
  <2> QED BY <2>1, <2>2, <2>3
<1>3. CASE Looks
  BY <1>1, <1>3, UsesEffect, ElsewhereKeepsLogins DEF Looks, Troubles
<1>4. CASE CodePasted
  BY <1>1, <1>4, UsesEffect, ElsewhereKeepsLogins DEF CodePasted, Troubles, CodeType
<1>5. CASE SignOutPressed
  <2>1. history' \in [Troubles -> Nat]
    BY <1>1, <1>5, UsesEffect DEF SignOutPressed, Troubles
  <2>2. out.at = "rest" /\ out' = [out EXCEPT !.at = "sent"]
    BY <1>5 DEF SignOutPressed
  <2> QED BY <1>5, <2>1, <2>2
          DEF SignOutPressed, LoginInv, LoginTypes, LockHeld, NoOrphan, Stopping, Runs
<1>6. CASE Ticks \/ TestEnds
  BY <1>1, <1>6, ElsewhereKeepsLogins DEF Ticks, TestEnds
<1>7. CASE CodeStep
  <2>1. code' \in CodeType(Len(logins))
    BY <1>1, <1>7 DEF CodeStep, CodeArrives, CodeLooks, CodeSent, CodeRefused, CodeType
  <2> QED BY <1>1, <1>7, <2>1, ElsewhereKeepsLogins
          DEF CodeStep, CodeArrives, CodeLooks, CodeSent, CodeRefused
<1> QED BY <1>2, <1>3, <1>4, <1>5, <1>6, <1>7

\* The processes' own steps.
LEMMA ProcessActions ==
    ASSUME LoginInv, NEW l \in DOMAIN logins,
           LoginStep(l) \/ Approved(l) \/ LoginFails(l) \/ LoginAges(l)
    PROVE  LoginInv'
<1> USE DEF requestVars, cardVars, loginVars
<1>1. /\ account \in {"in", "out"} /\ logins \in Seq(Logins)
      /\ history \in [Troubles -> Nat] /\ l \in 0 .. Len(logins)
  BY DEF LoginInv, LoginTypes
<1>2. CASE LoginEnds(l) \/ LoginFails(l)
  <2>1. logins' = Killed(l) /\ UNCHANGED <<account, registry, starting, lock, presses, cancel, out, code>>
    BY <1>2 DEF LoginEnds, LoginFails
  <2>2. history' \in [Troubles -> Nat]
    BY <1>1, <1>2, UsesEffect DEF LoginEnds, LoginFails, Troubles
  <2>3. \A k \in DOMAIN logins : (Runs(k)' => Runs(k)) /\ (Outlived(k) => Outlived(k)')
    BY <1>1, <2>1, KilledEffect DEF Runs, Outlived
  <2> QED BY <1>1, <2>1, <2>2, <2>3, KilledEffect, FewerLoginsRun
<1>3. CASE LinkPrinted(l) \/ Approved(l) \/ LoginAges(l)
  <2>1. PICK new \in Logins : logins' = [logins EXCEPT ![l] = new] /\ new.runs = logins[l].runs
                              /\ new.outlived = logins[l].outlived
    <3>1. logins[l] \in Logins
      BY <1>1
    <3>2. /\ [logins[l] EXCEPT !.link = TRUE] \in Logins
          /\ [logins[l] EXCEPT !.done = TRUE] \in Logins
          /\ [logins[l] EXCEPT !.young = FALSE] \in Logins
      BY <3>1 DEF Logins
    <3> QED BY <1>3, <3>1, <3>2 DEF LinkPrinted, Approved, LoginAges, Logins
  <2>2. logins' \in Seq(Logins) /\ Len(logins') = Len(logins)
    BY <1>1, <2>1
  <2>3. \A k \in DOMAIN logins : (Runs(k)' => Runs(k)) /\ (Outlived(k) => Outlived(k)')
    BY <1>1, <2>1 DEF Runs, Outlived
  <2> QED BY <1>1, <1>3, <2>2, <2>3, FewerLoginsRun DEF LinkPrinted, Approved, LoginAges
<1> QED BY <1>2, <1>3 DEF LoginStep

\* By Cancel or Sign out.
StoppedBeside(l) ==
    \/ cancel.at = "stop" /\ cancel.login = l
    \/ out.at = "stop" /\ out.login = l

\* One request of Sign in goes on; the logins may end.
LEMMA PressMoves ==
    ASSUME LoginInv, NEW n \in DOMAIN presses, NEW p \in Press(Len(logins)),
           presses' = [presses EXCEPT ![n] = p],
           p.at \in {"stop", "start"} <=> presses[n].at \in {"stop", "start"},
           presses[n].at = "stop" =>
              \A l \in DOMAIN logins : l = presses[n].login => ~Runs(l)' \/ Outlived(l)',
           logins' \in Seq(Logins), Len(logins') = Len(logins),
           \A l \in DOMAIN logins : (Runs(l)' => Runs(l)) /\ (Outlived(l) => Outlived(l)'),
           UNCHANGED <<account, registry, starting, lock, cancel, out, code>>,
           history' \in [Troubles -> Nat]
    PROVE  LoginInv'
<1>1. /\ presses' \in Seq(Press(Len(logins'))) /\ DOMAIN presses' = DOMAIN presses
      /\ Len(presses') = Len(presses) /\ DOMAIN logins' = DOMAIN logins
      /\ \A m \in DOMAIN presses : presses'[m] = IF m = n THEN p ELSE presses[m]
  BY DEF LoginInv, LoginTypes
<1>2. LoginTypes'
  BY <1>1 DEF LoginInv, LoginTypes
<1>3. LockHeld'
  BY <1>1 DEF LoginInv, LockHeld
<1>4. NoOrphan'
  <2> SUFFICES ASSUME NEW l \in DOMAIN logins, Runs(l)', l # registry, ~Outlived(l)'
               PROVE  Stopping(l)'
    BY <1>1 DEF NoOrphan, Outlived
  <2>1. Stopping(l)
    BY DEF LoginInv, NoOrphan, Outlived
  <2>2. CASE StoppedBeside(l)
    BY <2>2 DEF Stopping, StoppedBeside
  <2>3. CASE \E m \in DOMAIN presses : presses[m].at = "stop" /\ presses[m].login = l
    <3>1. PICK m \in DOMAIN presses : presses[m].at = "stop" /\ presses[m].login = l
      BY <2>3
    <3>2. presses'[m] = presses[m]
      BY <1>1, <3>1
    <3> QED BY <1>1, <3>1, <3>2 DEF Stopping
  <2> QED BY <2>1, <2>2, <2>3 DEF Stopping, StoppedBeside
<1> QED BY <1>2, <1>3, <1>4 DEF LoginInv

\* The request that takes the lock: what the app knew of is what it will stop.
LEMMA LooksKeeps ==
    ASSUME LoginInv, NEW n \in DOMAIN presses, LooksForLogin(n)
    PROVE  LoginInv'
<1> USE DEF LoginTypes
<1>1. CASE Joinable(registry)
  <2> DEFINE p == [at |-> "wait", login |-> registry]
  <2>1. p \in Press(Len(logins)) /\ p.at = "wait"
    BY DEF LoginInv, Press
  <2>2. presses' = [presses EXCEPT ![n] = p] /\ presses[n].at = "lock"
    BY <1>1 DEF LooksForLogin
  <2>3. UNCHANGED <<account, loginVars, cancel, out, code, history>>
    BY <1>1 DEF LooksForLogin
  <2>4. \A l \in DOMAIN logins : (Runs(l)' => Runs(l)) /\ (Outlived(l) => Outlived(l)')
    BY <2>3 DEF Runs, Outlived, loginVars
  <2> HIDE DEF p
  <2> QED BY <2>1, <2>2, <2>3, <2>4, PressMoves DEF LoginInv, loginVars
<1>2. CASE ~Joinable(registry)
  <2> DEFINE p == [at |-> "stop", login |-> registry]
  <2>1. p \in Press(Len(logins)) /\ p.at = "stop" /\ p.login = registry
    BY DEF LoginInv, Press
  <2>2. /\ presses' = [presses EXCEPT ![n] = p] /\ presses[n].at = "lock"
        /\ lock = 0 /\ lock' = n /\ starting' = TRUE /\ registry' = 0
        /\ UNCHANGED <<account, logins, cancel, out, code, history>>
    BY <1>2 DEF LooksForLogin
  <2> HIDE DEF p
  <2>3. /\ presses' \in Seq(Press(Len(logins'))) /\ DOMAIN presses' = DOMAIN presses
        /\ Len(presses') = Len(presses)
        /\ \A m \in DOMAIN presses : presses'[m] = IF m = n THEN p ELSE presses[m]
    BY <2>1, <2>2 DEF LoginInv
  <2>4. LoginTypes'
    BY <2>2, <2>3 DEF LoginInv
  <2>5. LockHeld'
    BY <2>1, <2>2, <2>3 DEF LoginInv, LockHeld
  <2>6. NoOrphan'
    <3> SUFFICES ASSUME NEW l \in DOMAIN logins, Runs(l), ~Outlived(l) PROVE Stopping(l)'
      BY <2>2 DEF NoOrphan, Runs, Outlived
    <3>1. CASE l = registry
      BY <3>1, <2>1, <2>3 DEF Stopping
    <3>2. CASE l # registry
      <4>1. Stopping(l) /\ \A m \in DOMAIN presses : presses[m].at # "stop"
        BY <3>2, <2>2 DEF LoginInv, NoOrphan, LockHeld, Outlived
      <4> QED BY <4>1, <2>2 DEF Stopping
    <3> QED BY <3>1, <3>2
  <2> QED BY <2>4, <2>5, <2>6 DEF LoginInv
<1> QED BY <1>1, <1>2

\* The request that starts the login, and lets the lock go.
LEMMA StartsKeeps ==
    ASSUME LoginInv, NEW n \in DOMAIN presses, StartsLogin(n)
    PROVE  LoginInv'
<1> USE DEF LoginTypes
<1>1. /\ presses[n].at = "start" /\ lock = n /\ registry = 0
      /\ \A m \in DOMAIN presses : m # n => presses[m].at \notin {"stop", "start"}
  BY DEF StartsLogin, LoginInv, LockHeld
<1>2. lock' = 0 /\ starting' = FALSE /\ UNCHANGED <<account, cancel, out, code>>
  BY DEF StartsLogin
<1>3. \A l \in DOMAIN logins : Runs(l) => StoppedBeside(l) \/ Outlived(l)
  <2> SUFFICES ASSUME NEW l \in DOMAIN logins, Runs(l), ~Outlived(l)
               PROVE  StoppedBeside(l)
    OBVIOUS
  <2>1. l # registry
    BY <1>1 DEF LoginInv
  <2>2. Stopping(l)
    BY <2>1 DEF LoginInv, NoOrphan, Outlived
  <2>3. \A m \in DOMAIN presses : presses[m].at # "stop"
    BY <1>1
  <2> QED BY <2>2, <2>3 DEF Stopping, StoppedBeside
<1>4. CASE history' = history
           /\ logins' = Append(logins, NewLogin)
           /\ registry' = Len(logins) + 1
           /\ presses' = [presses EXCEPT ![n] = [at |-> "wait", login |-> Len(logins) + 1]]
  <2> DEFINE new == NewLogin
             p == [at |-> "wait", login |-> Len(logins) + 1]
  <2>1. new \in Logins /\ p \in Press(Len(logins) + 1) /\ p.at = "wait"
    BY DEF LoginInv, Logins, Press, NewLogin
  <2>2. logins' = Append(logins, new) /\ presses' = [presses EXCEPT ![n] = p]
    BY <1>4
  <2> HIDE DEF new, p
  <2>3. /\ logins' \in Seq(Logins) /\ Len(logins') = Len(logins) + 1
        /\ \A l \in DOMAIN logins' : l # Len(logins) + 1 => l \in DOMAIN logins /\ logins'[l] = logins[l]
    BY <2>1, <2>2 DEF LoginInv
  <2>4. presses \in Seq(Press(Len(logins) + 1))
    BY WiderRequests DEF LoginInv
  <2>5. /\ presses' \in Seq(Press(Len(logins'))) /\ DOMAIN presses' = DOMAIN presses
        /\ \A m \in DOMAIN presses : presses'[m] = IF m = n THEN p ELSE presses[m]
    BY <2>1, <2>2, <2>3, <2>4
  <2>6. LoginTypes'
    <3>1. 0 .. Len(logins) \subseteq 0 .. Len(logins')
      BY <2>3 DEF LoginInv
    <3>2. /\ cancel \in [at : {"rest", "sent", "stop"}, login : 0 .. Len(logins')]
          /\ out \in [at : {"rest", "sent", "stop", "run", "again"}, login : 0 .. Len(logins')]
          /\ code \in [at : {"rest", "sent", "look", "send", "refused"}, login : 0 .. Len(logins')]
      BY <3>1 DEF LoginInv
    <3>3. registry' \in 0 .. Len(logins') /\ 0 \in 0 .. Len(presses')
      BY <1>4, <2>3, <2>5 DEF LoginInv
    <3> QED BY <1>2, <1>4, <2>3, <2>5, <3>2, <3>3 DEF LoginInv
  <2>7. LockHeld'
    <3>1. \A m \in DOMAIN presses' : presses'[m].at \notin {"stop", "start"} /\ m # 0
      BY <1>1, <2>1, <2>5 DEF LoginInv
    <3> QED BY <1>2, <3>1 DEF LockHeld
  <2>8. NoOrphan'
    BY <1>2, <1>3, <1>4, <2>3 DEF NoOrphan, Stopping, StoppedBeside, Runs, Outlived
  <2> QED BY <2>6, <2>7, <2>8 DEF LoginInv
<1>5. CASE Uses("refused") /\ Goes(n, "refused") /\ UNCHANGED <<logins, registry>>
  <2> DEFINE p == [presses[n] EXCEPT !.at = "refused"]
  <2>1. p \in Press(Len(logins)) /\ p.at = "refused"
    <3>1. presses[n] \in Press(Len(logins))
      BY DEF LoginInv
    <3> QED BY <3>1 DEF Press
  <2>2. presses' = [presses EXCEPT ![n] = p]
    BY <1>5 DEF Goes
  <2> HIDE DEF p
  <2>3. /\ presses' \in Seq(Press(Len(logins))) /\ DOMAIN presses' = DOMAIN presses
        /\ \A m \in DOMAIN presses : presses'[m] = IF m = n THEN p ELSE presses[m]
    BY <2>1, <2>2 DEF LoginInv
  <2>4. history' \in [Troubles -> Nat]
    BY <1>5, UsesEffect DEF LoginInv, Troubles
  <2>5. LoginTypes'
    <3>1. 0 \in 0 .. Len(presses')
      BY <2>3
    <3> QED BY <1>2, <1>5, <2>3, <2>4, <3>1 DEF LoginInv
  <2>6. LockHeld'
    BY <1>1, <1>2, <2>1, <2>3 DEF LoginInv, LockHeld
  <2>7. NoOrphan'
    BY <1>2, <1>3, <1>5 DEF NoOrphan, Stopping, StoppedBeside, Runs, Outlived
  <2> QED BY <2>5, <2>6, <2>7 DEF LoginInv
<1> QED BY <1>4, <1>5 DEF StartsLogin

LEMMA PressActions ==
    ASSUME LoginInv, NEW n \in DOMAIN presses, PressStep(n)
    PROVE  LoginInv'
<1> USE DEF loginVars, cardVars
<1>1. /\ logins \in Seq(Logins) /\ presses[n] \in Press(Len(logins))
      /\ history \in [Troubles -> Nat] /\ presses[n].login \in 0 .. Len(logins)
  <2>1. presses[n] \in Press(Len(logins))
    BY DEF LoginInv, LoginTypes
  <2> QED BY <2>1 DEF LoginInv, LoginTypes, Press
<1>2. \A next \in {"lock", "start", "ok", "refused", "rest"} :
         /\ [presses[n] EXCEPT !.at = next] \in Press(Len(logins))
         /\ [presses[n] EXCEPT !.at = next].at = next
  BY <1>1 DEF Press
<1>3. CASE PressArrives(n) \/ LinkAwaited(n) \/ PressAnswered(n)
  <2>1. PICK next \in {"lock", "ok", "refused", "rest"} :
           presses' = [presses EXCEPT ![n] = [presses[n] EXCEPT !.at = next]]
    BY <1>3 DEF PressArrives, LinkAwaited, PressAnswered, Goes
  <2>2. presses[n].at \in {"sent", "wait", "ok", "refused"}
    BY <1>3 DEF PressArrives, LinkAwaited, PressAnswered
  <2>3. UNCHANGED <<account, loginVars, cancel, out, code>>
    BY <1>3 DEF PressArrives, LinkAwaited, PressAnswered
  <2>4. history' \in [Troubles -> Nat]
    BY <1>1, <1>3, UsesEffect DEF PressArrives, LinkAwaited, PressAnswered, Troubles
  <2>5. \A l \in DOMAIN logins : (Runs(l)' => Runs(l)) /\ (Outlived(l) => Outlived(l)')
    BY <2>3 DEF Runs, Outlived
  <2> DEFINE p == [presses[n] EXCEPT !.at = next]
  <2>6. p \in Press(Len(logins)) /\ p.at = next /\ presses' = [presses EXCEPT ![n] = p]
    BY <1>2, <2>1
  <2> HIDE DEF p
  <2> QED BY <1>1, <2>2, <2>3, <2>4, <2>5, <2>6, PressMoves
<1>4. CASE StopsPrevious(n)
  <2> DEFINE p == [presses[n] EXCEPT !.at = "start"]
  <2>1. p \in Press(Len(logins)) /\ p.at = "start" /\ presses' = [presses EXCEPT ![n] = p]
    BY <1>2, <1>4 DEF StopsPrevious, Goes
  <2>2. /\ presses[n].at = "stop" /\ StopsLogin(presses[n].login)
        /\ UNCHANGED <<account, registry, starting, lock, cancel, out, code>>
    BY <1>4 DEF StopsPrevious
  <2>3. /\ logins' \in Seq(Logins) /\ Len(logins') = Len(logins) /\ history' \in [Troubles -> Nat]
        /\ \A l \in DOMAIN logins :
              /\ Runs(l)' => Runs(l) /\ (l # presses[n].login \/ Outlived(l)')
              /\ Outlived(l) => Outlived(l)'
    BY <1>1, <2>2, StopsEffect
  <2> HIDE DEF p
  <2> QED BY <1>1, <2>1, <2>2, <2>3, PressMoves
<1> QED BY <1>3, <1>4, LooksKeeps, StartsKeeps DEF PressStep

\* Cancel and Sign out take what the app knows of, and stop it without the lock.
LEMMA StoppingActions ==
    ASSUME LoginInv, CancelStep \/ OutStep
    PROVE  LoginInv'
<1> USE DEF LoginTypes
<1>1. /\ logins \in Seq(Logins) /\ registry \in 0 .. Len(logins)
      /\ cancel.login \in 0 .. Len(logins) /\ out.login \in 0 .. Len(logins)
      /\ 0 \in 0 .. Len(logins) /\ history \in [Troubles -> Nat]
  BY DEF LoginInv
<1>2. CASE CancelArrives
  <2>1. /\ cancel' = [at |-> "stop", login |-> registry] /\ registry' = 0 /\ cancel.at = "sent"
        /\ UNCHANGED <<account, logins, starting, lock, presses, out, code, history>>
    BY <1>2 DEF CancelArrives
  <2>2. LoginTypes' /\ LockHeld'
    BY <1>1, <2>1 DEF LoginInv, LockHeld
  <2>3. NoOrphan'
    BY <2>1 DEF LoginInv, NoOrphan, Stopping, Runs
  <2> QED BY <2>2, <2>3 DEF LoginInv
<1>3. CASE OutArrives
  <2>1. /\ out' = [at |-> "stop", login |-> registry] /\ registry' = 0 /\ out.at = "sent"
        /\ UNCHANGED <<account, logins, starting, lock, presses, cancel, code, history>>
    BY <1>3 DEF OutArrives
  <2>2. LoginTypes' /\ LockHeld'
    BY <1>1, <2>1 DEF LoginInv, LockHeld
  <2>3. NoOrphan'
    BY <2>1 DEF LoginInv, NoOrphan, Stopping, Runs
  <2> QED BY <2>2, <2>3 DEF LoginInv
<1>4. CASE CancelStops
  <2>1. /\ cancel' = [at |-> "rest", login |-> 0] /\ StopsLogin(cancel.login)
        /\ UNCHANGED <<account, registry, starting, lock, presses, out, code>>
    BY <1>4 DEF CancelStops
  <2>2. /\ logins' \in Seq(Logins) /\ Len(logins') = Len(logins) /\ DOMAIN logins' = DOMAIN logins
        /\ history' \in [Troubles -> Nat]
        /\ \A l \in DOMAIN logins :
              /\ Runs(l)' => Runs(l) /\ (l # cancel.login \/ Outlived(l)')
              /\ Outlived(l) => Outlived(l)'
    BY <1>1, <2>1, StopsEffect
  <2>3. LoginTypes' /\ LockHeld'
    BY <1>1, <2>1, <2>2 DEF LoginInv, LockHeld
  <2>4. NoOrphan'
    BY <2>1, <2>2 DEF LoginInv, NoOrphan, Stopping, Outlived
  <2> QED BY <2>3, <2>4 DEF LoginInv
<1>5. CASE OutStops
  <2>1. /\ out' = [at |-> "run", login |-> 0] /\ StopsLogin(out.login)
        /\ UNCHANGED <<account, registry, starting, lock, presses, cancel, code>>
    BY <1>5 DEF OutStops
  <2>2. /\ logins' \in Seq(Logins) /\ Len(logins') = Len(logins) /\ DOMAIN logins' = DOMAIN logins
        /\ history' \in [Troubles -> Nat]
        /\ \A l \in DOMAIN logins :
              /\ Runs(l)' => Runs(l) /\ (l # out.login \/ Outlived(l)')
              /\ Outlived(l) => Outlived(l)'
    BY <1>1, <2>1, StopsEffect
  <2>3. LoginTypes' /\ LockHeld'
    BY <1>1, <2>1, <2>2 DEF LoginInv, LockHeld
  <2>4. NoOrphan'
    BY <2>1, <2>2 DEF LoginInv, NoOrphan, Stopping, Outlived
  <2> QED BY <2>3, <2>4 DEF LoginInv
<1>6. CASE OutRuns \/ OutAsksAgain
  <2>1. PICK next \in {"again", "rest"} : out' = [out EXCEPT !.at = next]
    BY <1>6 DEF OutRuns, OutAsksAgain
  <2>2. out.at # "stop" /\ account' \in {"in", "out"} /\ UNCHANGED <<loginVars, presses, cancel, code>>
    BY <1>6 DEF OutRuns, OutAsksAgain, LoginInv
  <2>3. history' \in [Troubles -> Nat]
    BY <1>1, <1>6, UsesEffect DEF OutRuns, OutAsksAgain, Troubles
  <2>4. LoginTypes' /\ LockHeld'
    BY <1>1, <2>1, <2>2, <2>3 DEF LoginInv, LockHeld, loginVars
  <2>5. NoOrphan'
    BY <2>1, <2>2 DEF LoginInv, NoOrphan, Stopping, Runs, loginVars
  <2> QED BY <2>4, <2>5 DEF LoginInv
<1> QED BY <1>2, <1>3, <1>4, <1>5, <1>6 DEF CancelStep, OutStep

\* The user's presses.
LEMMA PressedActions ==
    ASSUME LoginInv, SignInPressed \/ CancelPressed
    PROVE  LoginInv'
<1> USE DEF LoginTypes, loginVars
<1>1. CASE SignInPressed
  <2> DEFINE p == [at |-> "sent", login |-> 0]
  <2>1. p \in Press(Len(logins)) /\ p.at = "sent"
    BY DEF LoginInv, Press
  <2>2. /\ presses' = Append(presses, p)
        /\ UNCHANGED <<account, loginVars, cancel, out, code>>
    BY <1>1 DEF SignInPressed
  <2> HIDE DEF p
  <2>3. /\ presses' \in Seq(Press(Len(logins))) /\ Len(presses') = Len(presses) + 1
        /\ DOMAIN presses \subseteq DOMAIN presses' /\ lock \in 0 .. Len(presses')
        /\ \A m \in DOMAIN presses' :
              presses'[m] = IF m \in DOMAIN presses THEN presses[m] ELSE p
    BY <2>1, <2>2 DEF LoginInv
  <2>4. history' \in [Troubles -> Nat]
    BY <1>1, UsesEffect DEF SignInPressed, LoginInv, Troubles
  <2>5. LoginTypes'
    BY <2>2, <2>3, <2>4 DEF LoginInv
  <2>6. LockHeld'
    BY <2>1, <2>2, <2>3 DEF LoginInv, LockHeld
  <2>7. NoOrphan'
    BY <2>2, <2>3 DEF LoginInv, NoOrphan, Stopping, Runs
  <2> QED BY <2>5, <2>6, <2>7 DEF LoginInv
<1>2. CASE CancelPressed
  <2>1. /\ cancel.at = "rest" /\ cancel' = [at |-> "sent", login |-> 0]
        /\ UNCHANGED <<account, loginVars, presses, out, code>>
    BY <1>2 DEF CancelPressed
  <2>2. history' \in [Troubles -> Nat]
    BY <1>2, UsesEffect DEF CancelPressed, LoginInv, Troubles
  <2>3. LoginTypes' /\ LockHeld'
    BY <2>1, <2>2 DEF LoginInv, LockHeld
  <2>4. NoOrphan'
    BY <2>1 DEF LoginInv, NoOrphan, Stopping, Runs
  <2> QED BY <2>3, <2>4 DEF LoginInv
<1> QED BY <1>1, <1>2

LEMMA NextLoginInv ==
    ASSUME LoginInv, [SignInNext]_signInVars
    PROVE  LoginInv'
<1>1. CASE SignInNext
  BY <1>1, ElsewhereActions, ProcessActions, PressActions, StoppingActions, PressedActions
  DEF SignInNext
<1>2. CASE UNCHANGED signInVars
  BY <1>2 DEF signInVars, loginVars, requestVars, LoginInv, LoginTypes, LockHeld, NoOrphan,
              Stopping, Runs
<1> QED BY <1>1, <1>2

(***************************************************************************)
(* The card, what is asked and what is held.                               *)
(***************************************************************************)
CardType(n) ==
    [phase : {"idle", "signing-in", "testing", "signin-failed"}, shown : Answers, timer : 0 .. n]

LEMMA InitCardTypes == SignInInit => CardTypes
<1> SUFFICES ASSUME SignInInit PROVE CardTypes
  OBVIOUS
<1>1. Len(timers) = 0 /\ timers \in Seq(Timer) /\ asks \in Seq(Asked(Len(timers)))
  BY DEF SignInInit
<1> QED BY <1>1 DEF SignInInit, CardTypes, Answers

\* What asks one more, and what forgets.
LEMMA AskedOnce ==
    ASSUME CardTypes, NEW who \in {"poll", "check", "look", "out"}, NEW t \in 0 .. Len(timers)
    PROVE  /\ Append(asks, Ask(who, t)) \in Seq(Asked(Len(timers)))
           /\ \A i \in DOMAIN Append(asks, Ask(who, t)) :
                 Append(asks, Ask(who, t))[i] = IF i \in DOMAIN asks THEN asks[i] ELSE Ask(who, t)
<1>1. Ask(who, t) \in Asked(Len(timers))
  BY DEF Ask, Asked, Answers
<1> QED BY <1>1 DEF CardTypes

Unheld == [i \in DOMAIN asks |-> [asks[i] EXCEPT !.valid = FALSE]]

LEMMA UnheldTypes ==
    ASSUME CardTypes
    PROVE  /\ Unheld \in Seq(Asked(Len(timers))) /\ DOMAIN Unheld = DOMAIN asks
           /\ \A i \in DOMAIN asks : ~Unheld[i].valid
<1>1. \A i \in DOMAIN asks : asks[i] \in Asked(Len(timers))
  BY DEF CardTypes
<1>2. \A i \in DOMAIN asks :
         /\ [asks[i] EXCEPT !.valid = FALSE] \in Asked(Len(timers))
         /\ ~[asks[i] EXCEPT !.valid = FALSE].valid
  BY <1>1 DEF Asked
<1>3. DOMAIN asks = 1 .. Len(asks) /\ Len(asks) \in Nat
  BY DEF CardTypes
<1>4. Unheld \in [1 .. Len(asks) -> Asked(Len(timers))]
  BY <1>2, <1>3 DEF Unheld
<1>5. Unheld \in Seq(Asked(Len(timers)))
  BY <1>3, <1>4
<1>6. \A i \in DOMAIN asks : Unheld[i] = [asks[i] EXCEPT !.valid = FALSE]
  BY DEF Unheld
<1>7. DOMAIN Unheld = DOMAIN asks
  BY DEF Unheld
<1> HIDE DEF Unheld
<1> QED BY <1>2, <1>5, <1>6, <1>7

\* A timer more: those there are keep their names.
LEMMA PollsTypes ==
    ASSUME CardTypes, NEW kind \in {"watch", "follow"}, NEW shown \in Answers,
           NEW phase \in {"idle", "signing-in", "testing", "signin-failed"},
           Polls(kind, phase, shown)
    PROVE  /\ timers' \in Seq(Timer) /\ card' \in CardType(Len(timers'))
           /\ Len(timers') \in Nat /\ Len(timers) <= Len(timers')
<1> DEFINE new == [kind |-> kind, gone |-> 0]
<1>1. new \in Timer
  BY DEF Timer
<1>2. timers' = Append(timers, new)
  BY DEF Polls
<1> HIDE DEF new
<1>3. timers' \in Seq(Timer) /\ Len(timers') = Len(timers) + 1
  BY <1>1, <1>2 DEF CardTypes
<1>4. Len(timers) + 1 \in 0 .. Len(timers')
  BY <1>3 DEF CardTypes
<1>5. card' \in CardType(Len(timers'))
  BY <1>4 DEF Polls, CardType
<1> QED BY <1>3, <1>5 DEF CardTypes

\* What the card makes of a row.
LEMMA ShownTypes ==
    ASSUME CardTypes, NEW row \in Asked(Len(timers)), NEW t \in DOMAIN timers,
           Watched(t, row) \/ Followed(t, row) \/ Checked(row) \/ UNCHANGED cardVars
    PROVE  /\ timers' \in Seq(Timer) /\ card' \in CardType(Len(timers'))
           /\ Len(timers') \in Nat /\ Len(timers) <= Len(timers')
<1>1. row.says \in Answers /\ row.open \in BOOLEAN
  BY DEF Asked
<1>2. card \in CardType(Len(timers)) /\ card.shown \in Answers /\ Stops(t) \in 0 .. Len(timers)
  BY DEF CardTypes, CardType, Stops
<1>3. timers \in Seq(Timer) /\ timers[t] \in Timer /\ timers[t].gone \in 0 .. 2
  <2>1. timers[t] \in Timer
    BY DEF CardTypes
  <2> QED BY <2>1 DEF CardTypes, Timer
<1>4. CASE Fails(row.says) \/ Fails(card.shown)
  BY <1>1, <1>2, <1>4, PollsTypes DEF Fails
<1>5. CASE UNCHANGED timers /\ card' \in CardType(Len(timers))
  BY <1>3, <1>5 DEF CardTypes
<1>6. CASE Watched(t, row) /\ ~Fails(row.says)
  <2> DEFINE gone == IF row.open THEN 0 ELSE timers[t].gone + 1
  <2>1. CASE card.phase # "signing-in" \/ row.says = "in"
    <3>1. UNCHANGED timers
      BY <1>6, <2>1 DEF Watched
    <3>2. \/ card' = [card EXCEPT !.shown = row.says, !.timer = Stops(t)]
          \/ card' = [phase |-> "testing", shown |-> "in", timer |-> Stops(t)]
      BY <1>6, <2>1 DEF Watched
    <3>3. /\ [card EXCEPT !.shown = row.says, !.timer = Stops(t)] \in CardType(Len(timers))
          /\ [phase |-> "testing", shown |-> "in", timer |-> Stops(t)] \in CardType(Len(timers))
      <4> DEFINE s == Stops(t)
      <4>1. s \in 0 .. Len(timers)
        BY <1>2
      <4> HIDE DEF s
      <4>2. [card EXCEPT !.shown = row.says, !.timer = s] \in CardType(Len(timers))
        BY <1>1, <1>2, <4>1 DEF CardType
      <4>3. [phase |-> "testing", shown |-> "in", timer |-> s] \in CardType(Len(timers))
        BY <4>1 DEF CardType, Answers
      <4> QED BY <4>2, <4>3 DEF s
    <3>4. card' \in CardType(Len(timers))
      BY <3>2, <3>3
    <3> QED BY <1>5, <3>1, <3>4
  <2>2. CASE ~(card.phase # "signing-in" \/ row.says = "in")
    <3>1. ~Ended(gone) /\ timers' = [timers EXCEPT ![t].gone = gone]
          /\ card' = [card EXCEPT !.shown = row.says]
      BY <1>6, <2>2 DEF Watched
    <3>2. gone \in 0 .. 2
      BY <1>1, <1>3, <3>1 DEF Ended
    <3> HIDE DEF gone
    <3>3. [timers[t] EXCEPT !.gone = gone] \in Timer
      BY <1>3, <3>2 DEF Timer
    <3>4. timers' = [timers EXCEPT ![t] = [timers[t] EXCEPT !.gone = gone]]
      BY <1>3, <3>1
    <3>5. timers' \in Seq(Timer) /\ Len(timers') = Len(timers)
      BY <1>3, <3>3, <3>4
    <3> QED BY <1>1, <1>2, <1>3, <3>1, <3>5 DEF CardType
  <2> QED BY <2>1, <2>2
<1>7. CASE Followed(t, row)
  BY <1>1, <1>2, <1>5, <1>7 DEF Followed, CardType, Answers
<1>8. CASE Checked(row) /\ ~Fails(card.shown)
  BY <1>2, <1>5, <1>8 DEF Checked, cardVars
<1>9. CASE UNCHANGED cardVars
  BY <1>2, <1>5, <1>9 DEF cardVars
<1> QED BY <1>4, <1>6, <1>7, <1>8, <1>9

LEMMA NextCardTypes ==
    ASSUME LoginInv, CardTypes, [SignInNext]_signInVars
    PROVE  CardTypes'
<1> USE DEF cardVars
<1>1. /\ asks \in Seq(Asked(Len(timers))) /\ held \in Answers \union {"none"}
      /\ card \in CardType(Len(timers)) /\ timers \in Seq(Timer)
  BY DEF CardTypes, CardType
<1>2. SUFFICES /\ held' \in Answers \union {"none"} /\ asks' \in Seq(Asked(Len(timers')))
               /\ card' \in CardType(Len(timers')) /\ timers' \in Seq(Timer)
  BY DEF CardTypes, CardType
<1>3. ASSUME NEW i \in DOMAIN asks, Says(i)
      PROVE  asks' \in Seq(Asked(Len(timers)))
  <2>1. asks[i] \in Asked(Len(timers)) /\ account \in Answers
    BY <1>1 DEF LoginInv, LoginTypes, Answers
  <2>2. /\ [asks[i] EXCEPT !.at = "said", !.says = account] \in Asked(Len(timers))
        /\ [asks[i] EXCEPT !.at = "said"] \in Asked(Len(timers))
    BY <2>1 DEF Asked
  <2>3. \/ asks' = [asks EXCEPT ![i] = [asks[i] EXCEPT !.at = "said", !.says = account]]
        \/ asks' = [asks EXCEPT ![i] = [asks[i] EXCEPT !.at = "said"]]
    BY <1>3 DEF Says
  <2>4. i \in 1 .. Len(asks)
    BY <1>1
  <2>5. \A a \in Asked(Len(timers)) : [asks EXCEPT ![i] = a] \in Seq(Asked(Len(timers)))
    BY <1>1, <2>4, ExceptSeq
  <2> QED BY <2>2, <2>3, <2>5
<1>4. ASSUME NEW i \in DOMAIN asks, Tells(i)
      PROVE  asks' \in Seq(Asked(Len(timers))) /\ held' \in Answers \union {"none"}
  <2> DEFINE keeps == asks[i].valid /\ ~asks[i].late
             new(j) == IF j = i THEN [asks[i] EXCEPT !.at = "told", !.open = console_open]
                       ELSE [asks[j] EXCEPT !.late = @ \/ (keeps /\ j < i)]
  <2>1. \A j \in DOMAIN asks : asks[j] \in Asked(Len(timers))
    BY <1>1
  <2>2. console_open \in BOOLEAN /\ keeps \in BOOLEAN
    BY DEF console_open
  <2>3. asks[i].says \in Answers
    BY <2>1 DEF Asked
  <2>4. held' \in Answers \union {"none"}
    BY <1>1, <1>4, <2>3 DEF Tells
  <2>5. asks' = [j \in DOMAIN asks |-> new(j)]
    BY <1>4 DEF Tells
  <2>6. \A j \in DOMAIN asks : new(j) \in Asked(Len(timers))
    <3> SUFFICES ASSUME NEW j \in DOMAIN asks PROVE new(j) \in Asked(Len(timers))
      OBVIOUS
    <3>1. CASE j = i
      BY <2>1, <2>2, <3>1 DEF Asked
    <3>2. CASE j # i
      <4>1. (asks[j].late \/ (keeps /\ j < i)) \in BOOLEAN
        OBVIOUS
      <4> QED BY <2>1, <3>2, <4>1 DEF Asked
    <3> QED BY <3>1, <3>2
  <2>7. DOMAIN asks = 1 .. Len(asks) /\ Len(asks) \in Nat
    BY <1>1
  <2> HIDE DEF new
  <2>8. asks' \in [1 .. Len(asks) -> Asked(Len(timers))]
    BY <2>5, <2>6, <2>7
  <2> QED BY <2>4, <2>7, <2>8
<1>5. ASSUME NEW i \in DOMAIN asks, RowArrives(i)
      PROVE  /\ asks' \in Seq(Asked(Len(timers'))) /\ held' = held
             /\ card' \in CardType(Len(timers')) /\ timers' \in Seq(Timer)
  <2>1. asks[i] \in Asked(Len(timers)) /\ asks[i].timer \in 0 .. Len(timers)
    <3>1. asks[i] \in Asked(Len(timers))
      BY <1>1
    <3> QED BY <3>1 DEF Asked
  <2>2. asks' = RemoveAt(asks, i) /\ held' = held
    BY <1>5 DEF RowArrives
  <2>3. asks' \in Seq(Asked(Len(timers)))
    BY <1>1, <2>2, RemovedAt
  <2>4. CASE asks[i].timer = 0
    <3>1. Checked(asks[i]) \/ UNCHANGED cardVars
      BY <1>5, <2>4 DEF RowArrives
    <3>2. CASE UNCHANGED cardVars
      BY <1>1, <2>2, <2>3, <3>2
    <3>3. CASE Fails(card.shown)
      <4>1. card.shown \in Answers
        BY <1>1 DEF CardType
      <4> QED BY <1>1, <2>2, <2>3, <3>3, <4>1, PollsTypes, WiderRequests DEF Fails
    <3> QED BY <3>1, <3>2, <3>3 DEF Checked
  <2>5. CASE asks[i].timer # 0
    <3>1. Watched(asks[i].timer, asks[i]) \/ Followed(asks[i].timer, asks[i])
      BY <1>5, <2>5 DEF RowArrives
    <3>2. asks[i].timer \in DOMAIN timers
      BY <1>1, <2>1, <2>5
    <3>3. /\ timers' \in Seq(Timer) /\ card' \in CardType(Len(timers'))
          /\ Len(timers') \in Nat /\ Len(timers) <= Len(timers')
      BY <2>1, <3>1, <3>2, ShownTypes
    <3> QED BY <1>1, <2>2, <2>3, <3>3, WiderRequests
  <2> QED BY <2>4, <2>5
<1>6. CASE AskStep
  <2>1. PICK i \in DOMAIN asks : Says(i) \/ Tells(i) \/ RowArrives(i)
    BY <1>6 DEF AskStep
  <2>2. CASE Says(i)
    BY <1>1, <1>3, <2>2 DEF Says
  <2>3. CASE Tells(i)
    BY <1>1, <1>4, <2>3 DEF Tells
  <2>4. CASE RowArrives(i)
    BY <1>1, <1>5, <2>4
  <2> QED BY <2>1, <2>2, <2>3, <2>4
<1>7. CASE Looks \/ CodeRefused
  <2>1. 0 \in 0 .. Len(timers)
    BY <1>1
  <2> QED BY <1>1, <1>7, <2>1, AskedOnce DEF Looks, CodeRefused
<1>8. CASE Ticks
  <2>1. card.timer \in 0 .. Len(timers) /\ [card EXCEPT !.timer = 0] \in CardType(Len(timers))
    BY <1>1 DEF CardType
  <2>2. asks' = asks \/ asks' = Append(asks, Ask("poll", card.timer))
    BY <1>8 DEF Ticks
  <2>3. UNCHANGED <<held, timers>> /\ card' \in {card, [card EXCEPT !.timer = 0]}
    BY <1>8 DEF Ticks
  <2> QED BY <1>1, <2>1, <2>2, <2>3, AskedOnce
<1>9. CASE SignInPressed \/ CancelPressed \/ TestEnds
  <2>1. card' \in CardType(Len(timers)) /\ UNCHANGED <<asks, held, timers>>
    <3>1. /\ UNCHANGED <<asks, held, timers>>
          /\ \/ \E phase \in {"signing-in", "idle", "signin-failed"} :
                   card' = [card EXCEPT !.phase = phase]
             \/ card' = [card EXCEPT !.phase = "idle", !.timer = 0]
      BY <1>9 DEF SignInPressed, CancelPressed, TestEnds
    <3>2. \A phase \in {"signing-in", "idle", "signin-failed"} :
             [card EXCEPT !.phase = phase] \in CardType(Len(timers))
      BY <1>1 DEF CardType
    <3>3. 0 \in 0 .. Len(timers)
      BY <1>1
    <3>4. [card EXCEPT !.phase = "idle", !.timer = 0] \in CardType(Len(timers))
      BY <1>1, <3>3 DEF CardType
    <3> QED BY <3>1, <3>2, <3>4
  <2> QED BY <1>1, <2>1
<1>10. ASSUME Forgets, UNCHANGED cardVars
       PROVE  CardTypes'
  <2>1. asks' = Unheld /\ held' = "none"
    BY <1>10 DEF Forgets, Unheld
  <2> QED BY <1>1, <1>10, <2>1, UnheldTypes DEF CardTypes, CardType
<1>11. CASE CancelArrives \/ CodeArrives \/ OutArrives \/ \E n \in DOMAIN presses : PressArrives(n)
  BY <1>10, <1>11 DEF CancelArrives, CodeArrives, OutArrives, PressArrives, CardTypes, CardType
<1>12. CASE OutAsksAgain
  <2> DEFINE new == Ask("out", 0)
  <2>1. new \in Asked(Len(timers))
    BY <1>1 DEF Ask, Asked, Answers
  <2>2. asks' = Append(Unheld, new) /\ held' = "none" /\ UNCHANGED cardVars
    BY <1>12 DEF OutAsksAgain, ForgetsAgain, Unheld
  <2> HIDE DEF new
  <2> QED BY <1>1, <2>1, <2>2, UnheldTypes
<1>13. ASSUME NEW n \in DOMAIN presses, PressStep(n), ~PressArrives(n)
       PROVE  CardTypes'
  <2>1. CASE PressAnswered(n)
    <3>1. card.shown \in Answers /\ card.phase \in {"idle", "signing-in", "testing", "signin-failed"}
      BY <1>1 DEF CardType
    <3>2. UNCHANGED <<asks, held>>
      BY <2>1 DEF PressAnswered
    <3>3. /\ timers' \in Seq(Timer) /\ card' \in CardType(Len(timers'))
          /\ Len(timers') \in Nat /\ Len(timers) <= Len(timers')
      BY <2>1, <3>1, PollsTypes DEF PressAnswered, Fails
    <3> QED BY <1>1, <3>2, <3>3, WiderRequests DEF CardTypes, CardType
  <2>2. CASE LooksForLogin(n) \/ StopsPrevious(n) \/ StartsLogin(n) \/ LinkAwaited(n)
    BY <2>2 DEF LooksForLogin, StopsPrevious, StartsLogin, LinkAwaited, CardTypes
  <2> QED BY <1>13, <2>1, <2>2 DEF PressStep
<1>14. CASE \E n \in DOMAIN presses : PressStep(n)
  BY <1>11, <1>13, <1>14 DEF CardTypes, CardType
<1>15. CASE \/ CodePasted \/ SignOutPressed \/ CancelStops \/ CodeLooks \/ CodeSent \/ OutStops \/ OutRuns
            \/ \E l \in DOMAIN logins : LoginStep(l) \/ Approved(l) \/ LoginFails(l) \/ LoginAges(l)
  <2>1. UNCHANGED <<asks, held, card, timers>>
    BY <1>15 DEF CodePasted, SignOutPressed, CancelStops, CodeLooks, CodeSent, OutStops, OutRuns,
                 LoginStep, LinkPrinted, LoginEnds, Approved, LoginFails, LoginAges
  <2> QED BY <1>1, <2>1
<1>16. CASE UNCHANGED signInVars
  BY <1>1, <1>16 DEF signInVars
<1> QED BY <1>6, <1>7, <1>8, <1>9, <1>11, <1>12, <1>14, <1>15, <1>16
        DEF SignInNext, CancelStep, CodeStep, OutStep

(***************************************************************************)
(* What is held is so, where the command of a sign-out is waited for.      *)
(***************************************************************************)
\* Only a sign-out ends what was said, and it is noted.
LEMMA SaidSoLasts ==
    ASSUME LoginInv, AnswersTrue, SignInNext, SaidSo, ~OutAsksAgain
    PROVE  SaidSo'
<1> USE DEF SaidSo, loginVars, requestVars, cardVars
<1>1. CASE OutStep
  <2>1. CASE OutRuns
    <3>1. CASE Uses("hangs")
      <4>1. history["hangs"] # 0 /\ out.at = "run"
        BY <2>1, <3>1 DEF OutRuns, Uses
      <4> QED BY <4>1 DEF AnswersTrue, HangsUnseen
    <3>2. CASE out' = [out EXCEPT !.at = "again"]
      BY <3>2 DEF LoginInv, LoginTypes
    <3> QED BY <2>1, <3>1, <3>2 DEF OutRuns
  <2>2. CASE OutArrives \/ OutStops
    BY <2>2 DEF OutArrives, OutStops
  <2> QED BY <1>1, <2>1, <2>2 DEF OutStep
<1>2. CASE SignOutPressed
  BY <1>2 DEF SignOutPressed
<1>3. CASE \E l \in DOMAIN logins : LoginStep(l) \/ Approved(l) \/ LoginFails(l) \/ LoginAges(l)
  BY <1>3 DEF LoginStep, LinkPrinted, LoginEnds, Approved, LoginFails, LoginAges
<1>4. CASE \E n \in DOMAIN presses : PressStep(n)
  BY <1>4 DEF PressStep, PressArrives, LooksForLogin, StopsPrevious, StartsLogin, LinkAwaited,
              PressAnswered
<1>5. CASE AskStep \/ Looks \/ SignInPressed \/ CancelPressed \/ CodePasted \/ Ticks \/ TestEnds
  BY <1>5 DEF AskStep, Says, Tells, RowArrives, Looks, SignInPressed, CancelPressed, CodePasted,
              Ticks, TestEnds
<1>6. CASE CancelStep \/ CodeStep
  BY <1>6 DEF CancelStep, CancelArrives, CancelStops, CodeStep, CodeArrives, CodeLooks, CodeSent,
              CodeRefused
<1> QED BY <1>1, <1>2, <1>3, <1>4, <1>5, <1>6 DEF SignInNext

LEMMA NoHang ==
    ASSUME LoginInv, history["hangs"] = 0, SignInNext
    PROVE  history'["hangs"] = 0
<1> USE DEF loginVars, requestVars, cardVars, Troubles
<1>1. history \in [Troubles -> Nat] /\ history["hangs"] = 0
  BY DEF LoginInv, LoginTypes
<1>2. \A e \in Troubles : Uses(e) => e # "hangs" /\ history'["hangs"] = 0
  BY <1>1 DEF Uses
<1>3. CASE OutStep
  BY <1>1, <1>2, <1>3 DEF OutStep, OutArrives, OutStops, StopsLogin, OutRuns, OutAsksAgain
<1>4. CASE \E l \in DOMAIN logins : LoginStep(l) \/ Approved(l) \/ LoginFails(l) \/ LoginAges(l)
  BY <1>1, <1>2, <1>4 DEF LoginStep, LinkPrinted, LoginEnds, Approved, LoginFails, LoginAges
<1>5. CASE \E n \in DOMAIN presses : PressStep(n)
  BY <1>1, <1>2, <1>5 DEF PressStep, PressArrives, LooksForLogin, StopsPrevious, StopsLogin,
                          StartsLogin, LinkAwaited, PressAnswered
<1>6. CASE AskStep \/ Looks \/ SignInPressed \/ CancelPressed \/ CodePasted \/ SignOutPressed
           \/ Ticks \/ TestEnds
  BY <1>1, <1>2, <1>6 DEF AskStep, Says, Tells, RowArrives, Looks, SignInPressed, CancelPressed,
                          CodePasted, SignOutPressed, Ticks, TestEnds
<1>7. CASE CancelStep \/ CodeStep
  BY <1>1, <1>2, <1>7 DEF CancelStep, CancelArrives, CancelStops, StopsLogin, CodeStep, CodeArrives,
                          CodeLooks, CodeSent, CodeRefused
<1> QED BY <1>3, <1>4, <1>5, <1>6, <1>7 DEF SignInNext

\* Where nobody presses Sign in there is no login to end, and no press.
LEMMA NobodySignsIn ==
    ASSUME LoginInv, SignInNext,
           history["press"] = 0, account = "out", Len(logins) = 0, Len(presses) = 0
    PROVE  history'["press"] = 0 /\ account' = "out" /\ Len(logins') = 0 /\ Len(presses') = 0
<1> USE DEF loginVars, requestVars, cardVars
<1>1. /\ history \in [Troubles -> Nat] /\ DOMAIN logins = {} /\ DOMAIN presses = {}
      /\ cancel.login = 0 /\ out.login = 0
  BY DEF LoginInv, LoginTypes
<1>2. ~Uses("press") /\ \A e \in Troubles : Uses(e) => history'["press"] = 0
  BY <1>1 DEF Uses, Troubles
<1>3. StopsLogin(0) => UNCHANGED <<logins, history>>
  BY DEF StopsLogin, Killed, Runs
<1>4. CASE OutStep
  BY <1>1, <1>2, <1>3, <1>4 DEF OutStep, OutArrives, OutStops, OutRuns, OutAsksAgain, Troubles
<1>5. CASE AskStep \/ Looks \/ CancelPressed \/ CodePasted \/ SignOutPressed \/ Ticks \/ TestEnds
  BY <1>1, <1>2, <1>5 DEF AskStep, Says, Tells, RowArrives, Looks, CancelPressed, CodePasted,
                          SignOutPressed, Ticks, TestEnds, Troubles
<1>6. CASE CancelStep \/ CodeStep
  BY <1>1, <1>3, <1>6 DEF CancelStep, CancelArrives, CancelStops, CodeStep, CodeArrives, CodeLooks,
                          CodeSent, CodeRefused
<1> QED BY <1>1, <1>2, <1>4, <1>5, <1>6 DEF SignInNext, SignInPressed

LEMMA HangsStayUnseen ==
    ASSUME LoginInv, HangsUnseen, SignInNext
    PROVE  HangsUnseen'
BY NoHang, NobodySignsIn DEF HangsUnseen

\* A step that says nothing of what is held.
HeldAsIs ==
    /\ held' = held \/ held' = "none"
    /\ \A i \in DOMAIN asks' :
          asks'[i].at # "told" /\ asks'[i].valid /\ asks'[i].says = "in" =>
             \E j \in DOMAIN asks :
                asks[j].at # "told" /\ asks[j].valid /\ asks[j].says = "in"

LEMMA HeldAsIsKeeps ==
    ASSUME LoginInv, AnswersTrue, SignInNext, HeldAsIs, ~OutAsksAgain
    PROVE  AnswersTrue'
<1>1. SaidSo => SaidSo'
  BY SaidSoLasts
<1>2. held' = "in" => SaidSo'
  BY <1>1 DEF AnswersTrue, HeldAsIs
<1>3. \A i \in DOMAIN asks' :
         asks'[i].at # "told" /\ asks'[i].valid /\ asks'[i].says = "in" => SaidSo'
  BY <1>1 DEF AnswersTrue, HeldAsIs
<1> QED BY <1>2, <1>3, HangsStayUnseen DEF AnswersTrue

LEMMA AnswersActions ==
    ASSUME LoginInv, CardTypes, AnswersTrue, AskStep
    PROVE  AnswersTrue'
<1>1. /\ asks \in Seq(Asked(Len(timers))) /\ \A j \in DOMAIN asks : asks[j] \in Asked(Len(timers))
      /\ ~OutAsksAgain
  BY DEF CardTypes, AskStep, Says, Tells, RowArrives, OutAsksAgain, LoginInv, LoginTypes, requestVars
<1>2. SignInNext
  BY DEF SignInNext
<1>3. PICK i \in DOMAIN asks : Says(i) \/ Tells(i) \/ RowArrives(i)
  BY DEF AskStep
<1>4. CASE Says(i)
  <2>1. SaidSo' <=> SaidSo
    BY <1>4 DEF Says, SaidSo, requestVars
  <2>2. held' = held
    BY <1>4 DEF Says
  <2>3. ASSUME NEW j \in DOMAIN asks', asks'[j].at # "told", asks'[j].valid, asks'[j].says = "in"
        PROVE  SaidSo
    <3>1. \/ asks' = [asks EXCEPT ![i] = [asks[i] EXCEPT !.at = "said", !.says = account]]
          \/ asks' = [asks EXCEPT ![i] = [asks[i] EXCEPT !.at = "said"]] /\ Uses("mute")
      BY <1>4 DEF Says
    <3>2. j \in DOMAIN asks /\ (j # i => asks'[j] = asks[j])
      BY <1>1, <2>3, <3>1
    <3>3. CASE j # i
      BY <2>3, <3>2, <3>3 DEF AnswersTrue
    <3>4. CASE j = i /\ asks' = [asks EXCEPT ![i] = [asks[i] EXCEPT !.at = "said", !.says = account]]
      <4>1. asks'[i].says = account
        BY <1>1, <3>4 DEF Asked
      <4> QED BY <2>3, <3>4, <4>1 DEF SaidSo
    <3>5. CASE j = i /\ asks' = [asks EXCEPT ![i] = [asks[i] EXCEPT !.at = "said"]]
      <4>1. asks'[i].says = asks[i].says /\ asks'[i].valid = asks[i].valid /\ asks[i].at = "asked"
        BY <1>1, <1>4, <3>5 DEF Asked, Says
      <4> QED BY <2>3, <3>5, <4>1 DEF AnswersTrue
    <3> QED BY <3>1, <3>3, <3>4, <3>5
  <2>4. held' = "in" => SaidSo'
    BY <2>1, <2>2 DEF AnswersTrue
  <2> QED BY <1>2, <2>1, <2>3, <2>4, HangsStayUnseen DEF AnswersTrue
<1>5. CASE Tells(i)
  <2>1. SaidSo' <=> SaidSo
    BY <1>5 DEF Tells, SaidSo, requestVars
  <2>2. held' = "in" => SaidSo'
    BY <1>5, <2>1 DEF Tells, AnswersTrue
  <2>3. ASSUME NEW j \in DOMAIN asks', asks'[j].at # "told", asks'[j].valid, asks'[j].says = "in"
        PROVE  SaidSo
    <3>1. DOMAIN asks' = DOMAIN asks
      BY <1>5 DEF Tells
    <3>2. CASE j = i
      <4>1. asks'[i].at = "told"
        BY <1>1, <1>5 DEF Tells, Asked
      <4> QED BY <2>3, <3>2, <4>1
    <3>3. CASE j # i
      <4>1. asks'[j].at = asks[j].at /\ asks'[j].valid = asks[j].valid /\ asks'[j].says = asks[j].says
        BY <1>1, <1>5, <3>1, <3>3 DEF Tells, Asked
      <4> QED BY <2>3, <3>1, <4>1 DEF AnswersTrue
    <3> QED BY <3>2, <3>3
  <2> QED BY <1>2, <2>1, <2>2, <2>3, HangsStayUnseen DEF AnswersTrue
<1>6. CASE RowArrives(i)
  <2>1. asks' = RemoveAt(asks, i) /\ held' = held
    BY <1>6 DEF RowArrives
  <2>2. HeldAsIs
    BY <1>1, <2>1, RemovedAt DEF HeldAsIs
  <2> QED BY <1>1, <1>2, <2>2, HeldAsIsKeeps
<1> QED BY <1>3, <1>4, <1>5, <1>6

LEMMA ForgotActions ==
    ASSUME LoginInv, CardTypes, AnswersTrue,
           \/ CancelArrives \/ CodeArrives \/ OutArrives \/ OutAsksAgain
           \/ \E n \in DOMAIN presses : PressArrives(n)
    PROVE  AnswersTrue'
<1>1. SignInNext
  BY DEF SignInNext, CancelStep, CodeStep, OutStep, PressStep
<1>2. DOMAIN Unheld = DOMAIN asks /\ \A i \in DOMAIN asks : ~Unheld[i].valid
  BY UnheldTypes
<1>3. CASE OutAsksAgain
  <2> DEFINE new == Ask("out", 0)
  <2>1. asks' = Append(Unheld, new) /\ held' = "none"
    BY <1>3 DEF OutAsksAgain, ForgetsAgain, Unheld
  <2>2. new \in Asked(Len(timers)) /\ new.says = "unknown"
    BY DEF Ask, Asked, Answers, CardTypes
  <2> HIDE DEF new
  <2>3. \A j \in DOMAIN asks' : asks'[j] = IF j \in DOMAIN Unheld THEN Unheld[j] ELSE new
    BY <2>1, <2>2, UnheldTypes
  <2>4. \A j \in DOMAIN asks' : ~(asks'[j].valid /\ asks'[j].says = "in")
    BY <1>2, <2>2, <2>3
  <2> QED BY <1>1, <2>1, <2>4, HangsStayUnseen DEF AnswersTrue
<1>4. CASE \/ CancelArrives \/ CodeArrives \/ OutArrives
           \/ \E n \in DOMAIN presses : PressArrives(n)
  <2>1. asks' = Unheld /\ held' = "none"
    BY <1>4 DEF CancelArrives, CodeArrives, OutArrives, PressArrives, Forgets, Unheld
  <2> QED BY <1>1, <1>2, <2>1, HangsStayUnseen DEF AnswersTrue
<1> QED BY <1>3, <1>4

LEMMA NextAnswersTrue ==
    ASSUME LoginInv, CardTypes, AnswersTrue, [SignInNext]_signInVars
    PROVE  AnswersTrue'
<1>1. CASE AskStep
  BY <1>1, AnswersActions
<1>2. CASE \/ CancelArrives \/ CodeArrives \/ OutArrives \/ OutAsksAgain
           \/ \E n \in DOMAIN presses : PressArrives(n)
  BY <1>2, ForgotActions
<1>3. ASSUME SignInNext, ~OutAsksAgain, UNCHANGED <<held, asks>>
      PROVE  AnswersTrue'
  BY <1>3, HeldAsIsKeeps DEF HeldAsIs
<1>4. CASE Looks \/ CodeRefused \/ Ticks
  <2>1. SignInNext /\ ~OutAsksAgain
    BY <1>4 DEF SignInNext, CodeStep, Looks, CodeRefused, Ticks, OutAsksAgain, requestVars,
                LoginInv, LoginTypes
  <2>2. held' = held /\ \/ asks' = asks
                        \/ \E who \in {"look", "check"} : asks' = Append(asks, Ask(who, 0))
                        \/ asks' = Append(asks, Ask("poll", card.timer))
    BY <1>4 DEF Looks, CodeRefused, Ticks
  <2>3. 0 \in 0 .. Len(timers) /\ card.timer \in 0 .. Len(timers)
    BY DEF CardTypes
  <2>4. \A who, t : Ask(who, t).says = "unknown"
    BY DEF Ask
  <2>5. HeldAsIs
    BY <2>2, <2>3, <2>4, AskedOnce DEF HeldAsIs
  <2> QED BY <2>1, <2>5, HeldAsIsKeeps
<1>5. CASE \/ SignInPressed \/ CancelPressed \/ CodePasted \/ SignOutPressed \/ TestEnds
           \/ \E l \in DOMAIN logins : LoginStep(l) \/ Approved(l) \/ LoginFails(l) \/ LoginAges(l)
  <2>1. SignInNext /\ UNCHANGED <<held, asks>>
    BY <1>5 DEF SignInNext, SignInPressed, CancelPressed, CodePasted, SignOutPressed, TestEnds,
                LoginStep, LinkPrinted, LoginEnds, Approved, LoginFails, LoginAges
  <2>2. ~OutAsksAgain
    BY <1>5 DEF SignInPressed, CancelPressed, CodePasted, SignOutPressed, TestEnds, LoginStep,
                LinkPrinted, LoginEnds, Approved, LoginFails, LoginAges, OutAsksAgain, requestVars,
                LoginInv, LoginTypes
  <2> QED BY <1>3, <2>1, <2>2
<1>6. ASSUME NEW n \in DOMAIN presses, PressStep(n), ~PressArrives(n)
      PROVE  AnswersTrue'
  <2>1. SignInNext /\ UNCHANGED <<held, asks>> /\ ~OutAsksAgain
    BY <1>6 DEF SignInNext, PressStep, LooksForLogin, StopsPrevious, StartsLogin, LinkAwaited,
                PressAnswered, OutAsksAgain, LoginInv, LoginTypes
  <2> QED BY <1>3, <2>1
<1>7. CASE CancelStops \/ CodeLooks \/ CodeSent \/ OutStops \/ OutRuns
  <2>1. SignInNext /\ UNCHANGED <<held, asks>>
    BY <1>7 DEF SignInNext, CancelStep, CodeStep, OutStep, CancelStops, CodeLooks, CodeSent,
                OutStops, OutRuns
  <2>2. ~OutAsksAgain
    BY <1>7 DEF CancelStops, CodeLooks, CodeSent, OutStops, OutRuns, OutAsksAgain, LoginInv,
                LoginTypes
  <2> QED BY <1>3, <2>1, <2>2
<1>8. CASE UNCHANGED signInVars
  BY <1>8 DEF signInVars, loginVars, requestVars, AnswersTrue, SaidSo, HangsUnseen
<1> QED BY <1>1, <1>2, <1>4, <1>5, <1>6, <1>7, <1>8
        DEF SignInNext, CancelStep, CodeStep, OutStep

(***************************************************************************)
(* The theorems.                                                           *)
(***************************************************************************)
\* A CLI's login is stopped by whoever replaces or leaves it: however the handlers of Sign
\* in, Cancel and Sign out overlap, every login that runs is the one the app knows of, one
\* that somebody is about to stop, or one that outlived its stop.
THEOREM NoLoginIsLost == SignInSpec => []NoOrphan
<1>1. SignInInit => LoginInv
  BY SignInAssumption, InitLoginInv
<1>2. LoginInv /\ [SignInNext]_signInVars => LoginInv'
  BY NextLoginInv
<1>3. LoginInv => NoOrphan
  BY DEF LoginInv
<1> QED BY <1>1, <1>2, <1>3, PTL DEF SignInSpec

LEMMA TypesAreDeclared ==
    ASSUME LoginInv, CardTypes
    PROVE  SignInTypeOK
<1>1. /\ ToSet(logins) \subseteq Logins /\ ToSet(presses) \subseteq Press(Len(logins))
      /\ ToSet(asks) \subseteq Asked(Len(timers)) /\ ToSet(timers) \subseteq Timer
  BY DEF LoginInv, LoginTypes, CardTypes, ToSet
<1>2. starting \in BOOLEAN /\ lock \in 0 .. Len(presses)
  BY DEF LoginInv, LoginTypes
<1> QED BY <1>1, <1>2
        DEF LoginInv, LoginTypes, CardTypes, SignInTypeOK, Logins, Press, Asked, Timer

\* Every variable keeps its type: no row names a timer or a login that is not there.
THEOREM SignInTypeCorrect == SignInSpec => []SignInTypeOK
<1> DEFINE Inv == LoginInv /\ CardTypes
<1>1. SignInInit => Inv
  BY SignInAssumption, InitLoginInv, InitCardTypes
<1>2. Inv /\ [SignInNext]_signInVars => Inv'
  BY NextLoginInv, NextCardTypes
<1>3. Inv => SignInTypeOK
  BY TypesAreDeclared
<1> QED BY <1>1, <1>2, <1>3, PTL DEF SignInSpec

\* After a sign-out nobody is told from what is held that the CLI is signed in, whoever
\* asked while its command ran: cli_status forgets before the command and after it, and an
\* answer from before does not count.  Where the command is not waited for to its end it
\* forgets only before: what may happen excludes that beside a sign-in.
THEOREM SignedOutIsTold ==
    ASSUME \A h \in Histories : h["hangs"] = 0 \/ h["press"] = 0
    PROVE  SignInSpec => []SignInInv
<1> DEFINE Inv == LoginInv /\ CardTypes /\ AnswersTrue
<1>1. SignInInit => Inv
  <2> SUFFICES ASSUME SignInInit PROVE AnswersTrue
    BY SignInAssumption, InitLoginInv, InitCardTypes
  <2>1. DOMAIN asks = {} /\ held = "none" /\ HangsUnseen
    BY DEF SignInInit, HangsUnseen
  <2> QED BY <2>1 DEF AnswersTrue
<1>2. Inv /\ [SignInNext]_signInVars => Inv'
  BY NextLoginInv, NextCardTypes, NextAnswersTrue
<1>3. Inv => SignInInv
  BY TypesAreDeclared DEF SignInInv, SignedOutIsHeld, AnswersTrue, SaidSo, LoginInv
<1> QED BY <1>1, <1>2, <1>3, PTL DEF SignInSpec
=============================================================================
