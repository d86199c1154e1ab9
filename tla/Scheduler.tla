----------------------------- MODULE Scheduler -----------------------------
(***************************************************************************)
(* One worker, two queues: app/transcription/scheduler.py over the         *)
(* meetings' jobs (JobQueue) and the file jobs of                          *)
(* app/transcription/store.py.                                             *)
(*                                                                         *)
(* What is claimed next, in which order, and what the handlers say of it.  *)
(* claim_next_any is one step (its race with a cancel is in Pipeline and   *)
(* FileJobs), a run ends as it likes, and a request to stop or delete is   *)
(* one of these ends.  Nothing here reads the requests kept in memory.     *)
(***************************************************************************)
EXTENDS JobQueue

CONSTANTS
    Files,        \* the ids of the transcriptions, in their order
    HasProvider,  \* whether a summary is made of a transcript
    MaxNow,       \* when the clock stops
    Budget        \* how many retries, stops, interrupted runs and crashes at most

ASSUME SchedulerAssumption ==
    /\ Meetings # {} /\ IsFiniteSet(Meetings)
    /\ Files \subseteq Nat /\ Files # {} /\ IsFiniteSet(Files)
    /\ MaxNow \in Nat
    /\ Budget \in Nat

VARIABLES
    key,   \* queued_at of each row of jobs
    file,  \* the table of transcriptions
    now,   \* the clock; several things may happen in one millisecond
    at,    \* what the worker is about
    job,   \* the meeting's job in hand
    fifo,  \* its queued_at, as the claim returned it
    cur,   \* the file in hand
    left   \* how much of Budget is left

workerVars == <<at, job, fifo, cur>>
vars == <<queueVars, key, file, now, workerVars, left>>

FileState == {"new", "pending", "running", "done", "failed", "cancelled"}

FileRow == [state : FileState, due : BOOLEAN, key : Nat]

NewFile == [state |-> "new", due |-> TRUE, key |-> 0]

NoJob == [meeting |-> CHOOSE m \in Meetings : TRUE, stage |-> "transcribe",
          id |-> 0, attempts |-> 0]

NoFile == CHOOSE f \in Files : TRUE

TypeOK ==
    /\ QueueTypeOK
    /\ key \in [Meetings -> [JobStage -> Nat]]
    /\ file \in [Files -> FileRow]
    /\ now \in Nat
    /\ at \in {"idle", "meeting", "next", "file"}
    /\ job \in Job
    /\ fifo \in Nat
    /\ cur \in Files
    /\ left \in Nat

Init ==
    /\ QueueInit
    /\ key = [m \in Meetings |-> [s \in JobStage |-> 0]]
    /\ file = [f \in Files |-> NewFile]
    /\ now = 0
    /\ at = "idle"
    /\ job = NoJob
    /\ fifo = 0
    /\ cur = NoFile
    /\ left = Budget

Spend == left > 0 /\ left' = left - 1

(***************************************************************************)
(* What is waiting.                                                        *)
(***************************************************************************)
WaitingJobs == {j \in Meetings \X JobStage : jobs[j[1]][j[2]].state = "pending"}

WaitingFiles == {f \in Files : file[f].state = "pending"}

DueFiles == {f \in WaitingFiles : file[f].due}

KeyOf(j) == key[j[1]][j[2]]

IdOf(j) == jobs[j[1]][j[2]].id

\* (queued_at, id): the order of the files among themselves.
FileBefore(f, g) ==
    \/ file[f].key < file[g].key
    \/ file[f].key = file[g].key /\ f < g

\* next_head: the head of each queue, and between the two the earlier key; a tie goes
\* to the meeting.
MeetingIsNext(m, s) ==
    /\ IsHead(m, s)
    /\ \A f \in DueFiles : key[m][s] <= file[f].key

FileIsNext(f) ==
    /\ f \in DueFiles
    /\ \A g \in DueFiles \ {f} : FileBefore(f, g)
    /\ \A j \in WaitingJobs : IsHead(j[1], j[2]) => file[f].key < KeyOf(j)

SomethingRuns ==
    \/ \E m \in Meetings : running_for(m)
    \/ \E f \in Files : file[f].state = "running"

FilesBefore(f) == {g \in WaitingFiles : FileBefore(g, f)}

\* Mutant: a tie counted for the file.
JobsStrictlyBefore(f) == {j \in WaitingJobs : KeyOf(j) < file[f].key}

JobsBefore(f) == {j \in WaitingJobs : KeyOf(j) <= file[f].key}

position(f) ==
    Cardinality(FilesBefore(f)) + Cardinality(JobsBefore(f))
        + (IF SomethingRuns THEN 1 ELSE 0) + 1

\* Mutant: ordered gives a tie to the file.
FileListedFirstOnTie(f, j) ==
    \E i \in WaitingJobs : IdOf(i) <= IdOf(j) /\ file[f].key <= KeyOf(i)

\* ordered merges the files by key into the jobs by id: a file comes before the first
\* job that has a later key, and so before all that follow it.
FileListedBefore(f, j) ==
    \E i \in WaitingJobs : IdOf(i) <= IdOf(j) /\ file[f].key < KeyOf(i)

\* The place of a waiting file in ordered(), which active_jobs shows as its position.
listed(f) ==
    Cardinality(FilesBefore(f))
        + Cardinality({j \in WaitingJobs : ~FileListedBefore(f, j)})
        + (IF SomethingRuns THEN 1 ELSE 0) + 1

(***************************************************************************)
(* The worker.                                                             *)
(***************************************************************************)
ToIdle == at' = "idle" /\ job' = NoJob /\ fifo' = 0 /\ cur' = NoFile

requests == <<rerun, deleting, stopping>>

ClaimMeeting ==
    /\ at = "idle"
    /\ \E m \in Meetings, s \in JobStage :
          /\ MeetingIsNext(m, s)
          /\ claim(m, s)
          /\ job' = JobOf(m, s)
          /\ fifo' = key[m][s]
    /\ at' = "meeting"
    /\ UNCHANGED <<nextId, requests, key, file, now, cur, left>>

\* The stage has run: its row is done ...
CompleteMeeting ==
    /\ at = "meeting"
    /\ complete(job)
    /\ at' = "next"
    /\ UNCHANGED <<nextId, requests, key, file, now, job, fifo, cur, left>>

SetKey(m, s, k) == key' = [key EXCEPT ![m][s] = k]

HasNext == job.stage # "deliver" /\ (job.stage # "assemble" \/ HasProvider)

\* ... and the next stage waits, in the place the meeting has.
EnqueueNext ==
    /\ at = "next"
    /\ \/ /\ HasNext
          /\ enqueue_next_stage(job)
          /\ SetKey(job.meeting, next_stage(job.stage), fifo)
       \/ ~HasNext /\ UNCHANGED <<jobs, nextId, key>>
    /\ ToIdle
    /\ UNCHANGED <<requests, file, now, left>>

\* Preempted, put off, failed or stopped: the row keeps its place.
MeetingEndsElse ==
    /\ at = "meeting"
    /\ Spend
    /\ \/ release(job) \/ defer(job)
       \/ \E permanent \in BOOLEAN : fail(job, permanent)
       \/ Update(job, StoppedRow(RowOf(job)))
    /\ ToIdle
    /\ UNCHANGED <<nextId, requests, key, file, now>>

ClaimFile ==
    /\ at = "idle"
    /\ \E f \in Files :
          /\ FileIsNext(f)
          /\ file' = [file EXCEPT ![f].state = "running"]
          /\ cur' = f
    /\ at' = "file"
    /\ UNCHANGED <<queueVars, key, now, job, fifo, left>>

\* Mutant: a state nothing looks for.
FilePutBackMisspelt(d) ==
    file' = [file EXCEPT ![cur].state = "waiting", ![cur].due = d]

FilePutBack(d) == file' = [file EXCEPT ![cur].state = "pending", ![cur].due = d]

FileEndsAs(st) == file' = [file EXCEPT ![cur].state = st]

FileEnds ==
    /\ at = "file"
    /\ \/ (FileEndsAs("done") \/ FileEndsAs("failed")) /\ UNCHANGED left
       \/ (FileEndsAs("cancelled") \/ FilePutBack(TRUE) \/ FilePutBack(FALSE)) /\ Spend
    /\ ToIdle
    /\ UNCHANGED <<queueVars, key, now>>

WorkerStep ==
    ClaimMeeting \/ CompleteMeeting \/ EnqueueNext \/ MeetingEndsElse \/ ClaimFile \/ FileEnds

(***************************************************************************)
(* The handlers, and the recorder.                                         *)
(***************************************************************************)
\* A recording has ended.
Recorded(m) ==
    /\ \A s \in JobStage : ~Exists(m, s)
    /\ enqueue(m, "transcribe")
    /\ SetKey(m, "transcribe", now)
    /\ UNCHANGED <<requests, file, now, workerVars, left>>

\* Mutant: a retry keeps the place the job had.
KeyKept(m, s) == key[m][s]

KeyOfRetry(m, s) == now

\* "Try again", of whatever stage and whatever it is doing.
RetryStage(m, s) ==
    /\ Exists(m, "transcribe")
    /\ Spend
    /\ retry(m, s)
    /\ SetKey(m, s, KeyOfRetry(m, s))
    /\ UNCHANGED <<requests, file, now, workerVars>>

\* A waiting transcription is stopped.
StopWaiting(m) ==
    /\ Spend
    /\ request_stop_waiting(m)
    /\ UNCHANGED <<nextId, deleting, stopping, key, file, now, workerVars>>

AtTheBack(f) == file' = [file EXCEPT ![f] = [state |-> "pending", due |-> TRUE, key |-> now]]

Submit(f) ==
    /\ file[f].state = "new"
    /\ AtTheBack(f)
    /\ UNCHANGED <<queueVars, key, now, workerVars, left>>

RetryFile(f) ==
    /\ file[f].state \in {"failed", "cancelled"}
    /\ Spend
    /\ AtTheBack(f)
    /\ UNCHANGED <<queueVars, key, now, workerVars>>

CancelFile(f) ==
    /\ file[f].state = "pending"
    /\ Spend
    /\ file' = [file EXCEPT ![f].state = "cancelled", ![f].due = TRUE]
    /\ UNCHANGED <<queueVars, key, now, workerVars>>

(***************************************************************************)
(* Time, and the process.                                                  *)
(***************************************************************************)
Tick ==
    /\ now < MaxNow
    /\ now' = now + 1
    /\ UNCHANGED <<queueVars, key, file, workerVars, left>>

\* A not_before has come.
TimePasses ==
    /\ \/ \E m \in Meetings, s \in JobStage : BecomeDue(m, s) /\ UNCHANGED file
       \/ \E f \in WaitingFiles \ DueFiles :
             file' = [file EXCEPT ![f].due = TRUE] /\ UNCHANGED jobs
    /\ UNCHANGED <<nextId, requests, key, now, workerVars, left>>

Restart ==
    /\ Spend
    /\ jobs' = reset_running
    /\ file' = [f \in Files |-> IF file[f].state = "running"
                                THEN [file[f] EXCEPT !.state = "pending"] ELSE file[f]]
    /\ ToIdle
    /\ UNCHANGED <<nextId, requests, key, now>>

Next ==
    \/ WorkerStep
    \/ \E m \in Meetings : Recorded(m) \/ StopWaiting(m) \/ (\E s \in JobStage : RetryStage(m, s))
    \/ \E f \in Files : Submit(f) \/ RetryFile(f) \/ CancelFile(f)
    \/ Tick \/ TimePasses \/ Restart

Spec == Init /\ [][Next]_vars

(***************************************************************************)
(* Properties.                                                             *)
(***************************************************************************)
\* position: "1 for the next to run".  A due file that is told 1 is the one next_head
\* gives, though one goes by the keys and the other by the heads of two queues of which
\* one is not ordered by key.
FirstRunsNext == \A f \in DueFiles : position(f) = 1 => FileIsNext(f)

\* ordered lists the waiting work "as next_head would take it": when nothing is held
\* back, the file at the top of the list is the next one, and only that.
TopOfTheListRunsNext ==
    (\A j \in WaitingJobs : Runnable(j[1], j[2])) /\ WaitingFiles = DueFiles =>
        \A f \in WaitingFiles :
            FileIsNext(f) <=> listed(f) = 1 + (IF SomethingRuns THEN 1 ELSE 0)

\* The meetings and the files that go before a file: those with work that waits, runs or
\* is about to wait again, and an earlier key.
MeetingsAhead(f) ==
    {m \in Meetings :
        \/ \E s \in JobStage : /\ jobs[m][s].state \in {"pending", "running"}
                               /\ key[m][s] <= file[f].key
        \/ at \in {"meeting", "next"} /\ job.meeting = m /\ fifo <= file[f].key}

FilesAhead(f) ==
    {g \in Files : file[g].state \in {"pending", "running"} /\ FileBefore(g, f)}

\* First in, first out (R5): nobody gets ahead of a file that keeps waiting, whatever is
\* retried, put back, restarted or enqueued as a later stage.  Work that enters the queue
\* in the file's own millisecond may: a tie goes to the meeting.
NobodyPushesIn ==
    [][\A f \in Files :
        file[f].state = "pending" /\ file'[f].state = "pending" /\ file'[f].key = file[f].key
            /\ file[f].key < now
            => MeetingsAhead(f)' \subseteq MeetingsAhead(f)
               /\ FilesAhead(f)' \subseteq FilesAhead(f)]_vars

\* "so a meeting being transcribed finishes its summary before a file queued after it":
\* no file is claimed while a later stage of an earlier meeting is due.
SummaryBeforeLaterFile ==
    [][ClaimFile =>
        \A m \in Meetings, s \in JobStage \ {"transcribe"} :
            Runnable(m, s) => file[cur'].key <= key[m][s]]_vars
=============================================================================
