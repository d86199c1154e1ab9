------------------------------ MODULE JobQueue ------------------------------
(***************************************************************************)
(* The job queue of app/pipeline/queue.py: the jobs table, one row per     *)
(* meeting and stage, and the three sets the process keeps in memory.      *)
(* Each method is an action over the variables it touches; the module that *)
(* calls it says when, and leaves the others unchanged.                    *)
(*                                                                         *)
(* Of a row's columns the model keeps the identity, the state, the count   *)
(* of failed attempts, whether not_before has passed (due) and what kind   *)
(* of text last_error holds.  A meeting without a row for a stage has      *)
(* Absent there.  All priorities are the default, so "ORDER BY priority,   *)
(* id" is the order of the ids, which AUTOINCREMENT never uses twice.      *)
(***************************************************************************)
EXTENDS MeetingStates, FiniteSets

CONSTANTS
    Meetings,     \* the ids of the meetings
    MAX_ATTEMPTS  \* failed attempts after which a job fails for good

ASSUME MaxAttemptsAssumption == MAX_ATTEMPTS \in Nat \ {0}

VARIABLES
    jobs,      \* the table: the row of each meeting and stage
    nextId,    \* the next row id
    rerun,     \* _rerun: <<meeting, stage>> pairs to redo from scratch
    deleting,  \* _deleting: meetings being deleted
    stopping   \* _stopping: meetings whose running transcription is to stop

queueVars == <<jobs, nextId, rerun, deleting, stopping>>

LastError == {"none", "error", "stopped"}

Row == [id : Nat, state : JobState \union {"absent"}, attempts : Nat,
        due : BOOLEAN, last_error : LastError]

Absent == [id |-> 0, state |-> "absent", attempts |-> 0, due |-> TRUE,
           last_error |-> "none"]

\* What claim returns: the row's identity and the attempts read at that moment.
Job == [meeting : Meetings, stage : JobStage, id : Nat, attempts : Nat]

QueueTypeOK ==
    /\ jobs \in [Meetings -> [JobStage -> Row]]
    /\ nextId \in Nat \ {0}
    /\ rerun \subseteq Meetings \X JobStage
    /\ deleting \subseteq Meetings
    /\ stopping \subseteq Meetings

QueueInit ==
    /\ jobs = [m \in Meetings |-> [s \in JobStage |-> Absent]]
    /\ nextId = 1
    /\ rerun = {}
    /\ deleting = {}
    /\ stopping = {}

(***************************************************************************)
(* Reading.                                                                *)
(***************************************************************************)
Exists(m, s) == jobs[m][s].state # "absent"

Runnable(m, s) == jobs[m][s].state = "pending" /\ jobs[m][s].due

\* peek: the runnable row that ORDER BY priority, id puts first.
IsHead(m, s) ==
    /\ Runnable(m, s)
    /\ \A n \in Meetings, t \in JobStage :
          Runnable(n, t) => jobs[m][s].id <= jobs[n][t].id

running_for(m) == \E s \in JobStage : jobs[m][s].state = "running"

\* A statement "WHERE id = ?" finds its row: it was not deleted since the claim.
Found(job) ==
    /\ Exists(job.meeting, job.stage)
    /\ jobs[job.meeting][job.stage].id = job.id

(***************************************************************************)
(* Writing.                                                                *)
(***************************************************************************)
JobOf(m, s) == [meeting |-> m, stage |-> s, id |-> jobs[m][s].id,
                attempts |-> jobs[m][s].attempts]

SetRow(m, s, row) == jobs' = [jobs EXCEPT ![m][s] = row]

Update(job, row) == SetRow(job.meeting, job.stage, row)

RowOf(job) == jobs[job.meeting][job.stage]

\* INSERT ... ON CONFLICT: a new row, or the old one runnable again with its
\* attempts and its last_error as they were.
enqueue(m, s) ==
    IF Exists(m, s)
    THEN /\ SetRow(m, s, [jobs[m][s] EXCEPT !.state = "pending", !.due = TRUE])
         /\ UNCHANGED nextId
    ELSE /\ SetRow(m, s, [Absent EXCEPT !.id = nextId, !.state = "pending"])
         /\ nextId' = nextId + 1

\* Guarded by the row still being pending; not_before was looked at by peek only.
claim(m, s) ==
    /\ jobs[m][s].state = "pending"
    /\ SetRow(m, s, [jobs[m][s] EXCEPT !.state = "running"])

complete(job) ==
    Update(job, [RowOf(job) EXCEPT !.state = "done", !.last_error = "none"])

\* Mutant: a preempted job is left running.
ReleaseForgotten(job) == UNCHANGED jobs

release(job) == Update(job, [RowOf(job) EXCEPT !.state = "pending"])

\* The count is one more than when the job was claimed, whatever the row says now.
FailsForGood(job, permanent) == permanent \/ job.attempts + 1 >= MAX_ATTEMPTS

Failed(job, permanent) ==
    [RowOf(job) EXCEPT
        !.state = IF FailsForGood(job, permanent) THEN "failed" ELSE "pending",
        !.attempts = job.attempts + 1,
        !.due = FailsForGood(job, permanent),
        !.last_error = "error"]

fail(job, permanent) == Update(job, Failed(job, permanent))

\* Mutant: a deferred job is left running.
DeferForgotten(job) == UNCHANGED jobs

defer(job) ==
    Update(job, [RowOf(job) EXCEPT !.state = "pending", !.due = FALSE,
                                   !.last_error = "error"])

enqueue_next_stage(job) == enqueue(job.meeting, next_stage(job.stage))

\* Mutant: a start leaves the table as the dead process left it.
NoReset == jobs

reset_running ==
    [m \in Meetings |-> [s \in JobStage |->
        IF jobs[m][s].state = "running"
        THEN [jobs[m][s] EXCEPT !.state = "pending"]
        ELSE jobs[m][s]]]

\* Waiting jobs are dropped; a running one is left for its checkpoint.
request_delete(m) ==
    /\ deleting' = deleting \union {m}
    /\ jobs' = [jobs EXCEPT ![m] = [s \in JobStage |->
                    IF jobs[m][s].state = "running" THEN jobs[m][s] ELSE Absent]]

WithoutReruns(m) == {r \in rerun : r[1] # m}

request_stop_running(m) ==
    /\ jobs[m]["transcribe"].state = "running"
    /\ stopping' = stopping \union {m}

\* Mutant: the text that marks a stop is taken for the state.
StoppedAsState(row) == [row EXCEPT !.state = "stopped"]

StoppedRow(row) == [row EXCEPT !.state = "cancelled", !.last_error = "stopped"]

request_stop_waiting(m) ==
    /\ jobs[m]["transcribe"].state = "pending"
    /\ SetRow(m, "transcribe", StoppedRow(jobs[m]["transcribe"]))
    /\ rerun' = WithoutReruns(m)

\* Mutant: the redo requests of the stopped press are kept.
StoppedKeepsReruns(job) ==
    /\ Update(job, StoppedRow(RowOf(job)))
    /\ stopping' = stopping \ {job.meeting}
    /\ rerun' = rerun

stopped(job) ==
    /\ Update(job, StoppedRow(RowOf(job)))
    /\ stopping' = stopping \ {job.meeting}
    /\ rerun' = WithoutReruns(job.meeting)

\* Mutant: the press is never forgotten.
StopKept(m) == UNCHANGED stopping

clear_stop(m) == stopping' = stopping \ {m}

request_rerun_from(m, s) == rerun' = rerun \union ({m} \X StagesFrom(s))

\* Whatever state the row is in.
retry(m, s) ==
    IF Exists(m, s)
    THEN /\ SetRow(m, s, [jobs[m][s] EXCEPT !.state = "pending", !.attempts = 0,
                                           !.due = TRUE, !.last_error = "none"])
         /\ UNCHANGED nextId
    ELSE enqueue(m, s)

\* Mutant: the comparison with not_before the wrong way round.
BecomeDueReversed(m, s) ==
    /\ jobs[m][s].state = "pending"
    /\ jobs[m][s].due
    /\ UNCHANGED jobs

\* not_before has come.
BecomeDue(m, s) ==
    /\ jobs[m][s].state = "pending"
    /\ ~jobs[m][s].due
    /\ SetRow(m, s, [jobs[m][s] EXCEPT !.due = TRUE])
=============================================================================
