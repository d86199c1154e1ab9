--------------------------- MODULE JobQueueProofs ---------------------------
(***************************************************************************)
(* Lemmas about the operations of JobQueue, for the modules that prove     *)
(* something of the worker.                                                *)
(***************************************************************************)
EXTENDS JobQueue, TLAPS

(***************************************************************************)
(* The operations on the queue keep the types of its variables.            *)
(***************************************************************************)
\* A row written where the table has one keeps the table's type.
LEMMA SetRowType ==
    ASSUME QueueTypeOK, NEW m \in Meetings, NEW s \in JobStage, NEW row \in Row,
           SetRow(m, s, row)
    PROVE  jobs' \in [Meetings -> [JobStage -> Row]]
BY DEF QueueTypeOK, SetRow

\* The constants of the row type.
LEMMA AbsentType == Absent \in Row
BY DEF Absent, Row, JobState, LastError

LEMMA RowType ==
    ASSUME QueueTypeOK, NEW m \in Meetings, NEW s \in JobStage
    PROVE  /\ jobs[m][s] \in Row
           /\ jobs[m][s].id \in Nat
           /\ jobs[m][s].attempts \in Nat
           /\ jobs[m][s].state \in JobState \union {"absent"}
           /\ JobOf(m, s) \in Job
           /\ JobOf(m, s).meeting = m
           /\ JobOf(m, s).stage = s
           /\ JobOf(m, s).id = jobs[m][s].id
BY DEF QueueTypeOK, Row, JobOf, Job

\* What the statements write is a row.
LEMMA WrittenType ==
    ASSUME NEW row \in Row
    PROVE  /\ \A st \in JobState : [row EXCEPT !.state = st] \in Row
           /\ \A st \in JobState, d \in BOOLEAN :
                 [row EXCEPT !.state = st, !.due = d] \in Row
           /\ \A st \in JobState, d \in BOOLEAN, e \in LastError :
                 [row EXCEPT !.state = st, !.due = d, !.last_error = e] \in Row
           /\ \A st \in JobState, e \in LastError :
                 [row EXCEPT !.state = st, !.last_error = e] \in Row
           /\ \A st \in JobState, n \in Nat, d \in BOOLEAN, e \in LastError :
                 [row EXCEPT !.state = st, !.attempts = n, !.due = d,
                             !.last_error = e] \in Row
           /\ \A st \in JobState, n \in Nat :
                 [row EXCEPT !.id = n, !.state = st] \in Row
           /\ \A d \in BOOLEAN : [row EXCEPT !.due = d] \in Row
BY DEF Row

LEMMA EnqueueType ==
    ASSUME QueueTypeOK, NEW m \in Meetings, NEW s \in JobStage, enqueue(m, s)
    PROVE  jobs' \in [Meetings -> [JobStage -> Row]] /\ nextId' \in Nat \ {0}
<1>1. CASE Exists(m, s)
  <2>1. SetRow(m, s, [jobs[m][s] EXCEPT !.state = "pending", !.due = TRUE])
        /\ nextId' = nextId
    BY <1>1 DEF enqueue
  <2>2. [jobs[m][s] EXCEPT !.state = "pending", !.due = TRUE] \in Row
    BY RowType, WrittenType DEF JobState
  <2> QED BY <2>1, <2>2, SetRowType DEF QueueTypeOK
<1>2. CASE ~Exists(m, s)
  <2>1. SetRow(m, s, [Absent EXCEPT !.id = nextId, !.state = "pending"])
        /\ nextId' = nextId + 1
    BY <1>2 DEF enqueue
  <2>2. [Absent EXCEPT !.id = nextId, !.state = "pending"] \in Row
    BY AbsentType, WrittenType DEF JobState, QueueTypeOK
  <2> QED BY <2>1, <2>2, SetRowType DEF QueueTypeOK
<1> QED BY <1>1, <1>2

LEMMA RetryType ==
    ASSUME QueueTypeOK, NEW m \in Meetings, NEW s \in JobStage, retry(m, s)
    PROVE  jobs' \in [Meetings -> [JobStage -> Row]] /\ nextId' \in Nat \ {0}
<1>1. CASE Exists(m, s)
  <2> DEFINE row == [jobs[m][s] EXCEPT !.state = "pending", !.attempts = 0,
                                       !.due = TRUE, !.last_error = "none"]
  <2>1. SetRow(m, s, row) /\ nextId' = nextId
    BY <1>1 DEF retry
  <2>2. row \in Row
    BY RowType, WrittenType DEF JobState, LastError
  <2> HIDE DEF row
  <2> QED BY <2>1, <2>2, SetRowType DEF QueueTypeOK
<1>2. CASE ~Exists(m, s)
  BY <1>2, EnqueueType DEF retry
<1> QED BY <1>1, <1>2

LEMMA UpdateType ==
    ASSUME QueueTypeOK, NEW job \in Job, NEW row \in Row, Update(job, row)
    PROVE  jobs' \in [Meetings -> [JobStage -> Row]]
BY SetRowType DEF Update, Job

\* Whichever way a run ends, the row of its job is written as a row.
LEMMA EndsType ==
    ASSUME QueueTypeOK, NEW job \in Job, NEW permanent \in BOOLEAN,
           \/ complete(job) \/ release(job) \/ fail(job, permanent)
           \/ defer(job) \/ Update(job, StoppedRow(RowOf(job)))
    PROVE  jobs' \in [Meetings -> [JobStage -> Row]]
<1>1. RowOf(job) \in Row /\ job.attempts \in Nat
  BY RowType DEF RowOf, Job
<1>2. CASE complete(job)
  <2>1. [RowOf(job) EXCEPT !.state = "done", !.last_error = "none"] \in Row
    BY <1>1, WrittenType DEF JobState, LastError
  <2> QED BY <1>2, <2>1, UpdateType DEF complete
<1>3. CASE release(job)
  <2>1. [RowOf(job) EXCEPT !.state = "pending"] \in Row
    BY <1>1, WrittenType DEF JobState
  <2> QED BY <1>3, <2>1, UpdateType DEF release
<1>4. CASE fail(job, permanent)
  <2>1. Failed(job, permanent) \in Row
    <3>1. FailsForGood(job, permanent) \in BOOLEAN
      BY DEF FailsForGood
    <3>2. (IF FailsForGood(job, permanent) THEN "failed" ELSE "pending") \in JobState
      BY DEF JobState
    <3>3. job.attempts + 1 \in Nat /\ "error" \in LastError
      BY <1>1 DEF LastError
    <3> QED BY <1>1, <3>1, <3>2, <3>3, WrittenType DEF Failed
  <2> QED BY <1>4, <2>1, UpdateType DEF fail
<1>5. CASE defer(job)
  <2>1. [RowOf(job) EXCEPT !.state = "pending", !.due = FALSE,
                           !.last_error = "error"] \in Row
    BY <1>1, WrittenType DEF JobState, LastError
  <2> QED BY <1>5, <2>1, UpdateType DEF defer
<1>6. CASE Update(job, StoppedRow(RowOf(job)))
  <2>1. StoppedRow(RowOf(job)) \in Row
    BY <1>1, WrittenType DEF StoppedRow, JobState, LastError
  <2> QED BY <1>6, <2>1, UpdateType
<1> QED BY <1>2, <1>3, <1>4, <1>5, <1>6

\* So does a start of the process.
LEMMA ResetType ==
    ASSUME QueueTypeOK
    PROVE  reset_running \in [Meetings -> [JobStage -> Row]]
<1>1. \A m \in Meetings, s \in JobStage :
         (IF jobs[m][s].state = "running"
          THEN [jobs[m][s] EXCEPT !.state = "pending"] ELSE jobs[m][s]) \in Row
  BY RowType, WrittenType DEF JobState
<1> QED BY <1>1 DEF reset_running

\* A row that is written is the only one that changes.
LEMMA SetRowEffect ==
    ASSUME QueueTypeOK, NEW m \in Meetings, NEW s \in JobStage, NEW row,
           SetRow(m, s, row)
    PROVE  \A n \in Meetings, t \in JobStage :
              jobs'[n][t] = IF n = m /\ t = s THEN row ELSE jobs[n][t]
BY DEF QueueTypeOK, SetRow

\* The next stage of every stage but the last is a stage.
LEMMA NextStageType ==
    ASSUME NEW s \in JobStage, s # "deliver"
    PROVE  next_stage(s) \in JobStage
<1> DEFINE i == Index(s)
<1>1. i \in 1 .. 5 /\ STAGE_ORDER[i] = s
  <2>1. \E k \in 1 .. 5 : STAGE_ORDER[k] = s
    <3>1. STAGE_ORDER[1] = "transcribe" /\ STAGE_ORDER[2] = "assemble"
          /\ STAGE_ORDER[3] = "summarize" /\ STAGE_ORDER[4] = "render"
          /\ STAGE_ORDER[5] = "deliver"
      BY DEF STAGE_ORDER
    <3> QED BY <3>1 DEF JobStage
  <2> QED BY <2>1 DEF Index
<1>2. i # 5
  BY <1>1 DEF STAGE_ORDER
<1>3. i + 1 \in 2 .. 5
  <2> HIDE DEF i
  <2> QED BY <1>1, <1>2
<1>4. \A k \in 2 .. 5 : STAGE_ORDER[k] \in JobStage
  BY DEF STAGE_ORDER, JobStage
<1>5. STAGE_ORDER[i + 1] \in JobStage
  <2> HIDE DEF i
  <2> QED BY <1>3, <1>4
<1> QED BY <1>5 DEF next_stage
=============================================================================
