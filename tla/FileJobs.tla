------------------------------ MODULE FileJobs ------------------------------
(***************************************************************************)
(* The transcription of single files: the rows and folders of              *)
(* app/transcription/store.py, the worker that runs a job (_execute_file   *)
(* in app/pipeline/worker.py) and the HTTP handlers of                     *)
(* app/transcription/api.py on threads of their own.                       *)
(*                                                                         *)
(* claim, cancel, retry, delete and purge_finished hold the store's lock   *)
(* from what they read to what they write: each is one step, but for the   *)
(* two of a removal, whose folder a crash or a reader may see gone before  *)
(* its row.  What the worker does at the end of a run takes no lock, and   *)
(* is several.                                                             *)
(***************************************************************************)
EXTENDS Naturals

CONSTANTS
    Files,         \* the ids of the transcriptions
    MAX_ATTEMPTS,  \* failed attempts after which a job fails for good
    Budget         \* how often each kind of outside event happens at most

\* "held": a folder cannot be removed, something has a file of it open (Windows).
Events == {"retry", "recording", "crash", "held"}

ASSUME FileJobsAssumption ==
    /\ Files # {}
    /\ MAX_ATTEMPTS \in Nat \ {0}
    /\ Budget \in [Events -> Nat]

VARIABLES
    row,       \* the table, with "new" and "gone" for no row yet and none any more
    nextKey,   \* the next queued_at
    folder,    \* files that have a folder under transcriptions/
    result,    \* files whose folder holds result.json
    removed,   \* history: files a removal took files of since their last result
    stopping,  \* _stopping: what was asked of a running job
    uploads,   \* uploads moved into their folder by a request that has no row yet
    purging,   \* the file whose removal holds the lock, its folder gone and its row not
    pc,        \* what the worker does next
    cur,       \* the job it has in hand
    outcome,   \* how the engine ended
    yield,     \* should_yield()
    left       \* how much of Budget is left

diskVars == <<folder, result, removed>>
workerVars == <<pc, cur, outcome>>
vars == <<row, nextKey, diskVars, stopping, uploads, purging, workerVars, yield, left>>

States == {"new", "pending", "running", "done", "failed", "cancelled", "gone"}

Row == [state : States, attempts : Nat, due : BOOLEAN, key : Nat]

NoRow == [state |-> "new", attempts |-> 0, due |-> TRUE, key |-> 0]

PC == {"idle", "peeked", "claimed", "engine", "handle", "marking", "popping",
       "finally", "removing", "complete"}

Outcome == {"none", "ok", "cancelled", "preempted", "permanent", "error"}

NoFile == CHOOSE f \in Files : TRUE

TypeOK ==
    /\ row \in [Files -> Row]
    /\ nextKey \in Nat
    /\ folder \subseteq Files
    /\ result \subseteq Files
    /\ removed \subseteq Files
    /\ stopping \in [Files -> {"none", "cancel", "delete"}]
    /\ uploads \subseteq Files
    /\ purging \subseteq Files
    /\ pc \in PC
    /\ cur \in Files
    /\ outcome \in Outcome
    /\ yield \in BOOLEAN
    /\ left \in [Events -> Nat]

Init ==
    /\ row = [f \in Files |-> NoRow]
    /\ nextKey = 1
    /\ folder = {}
    /\ result = {}
    /\ removed = {}
    /\ stopping = [f \in Files |-> "none"]
    /\ uploads = {}
    /\ purging = {}
    /\ pc = "idle"
    /\ cur = NoFile
    /\ outcome = "none"
    /\ yield = FALSE
    /\ left = Budget

Spend(e) == left[e] > 0 /\ left' = [left EXCEPT ![e] = @ - 1]

Is(f, st) == row[f].state = st

Ended(f) == row[f].state \in {"done", "failed", "cancelled"}

SetState(f, st) == row' = [row EXCEPT ![f].state = st]

\* A row that stops waits for nothing: not_before goes.
Stop(f) == row' = [row EXCEPT ![f].state = "cancelled", ![f].due = TRUE]

Ask(f, how) == stopping' = [stopping EXCEPT ![f] = how]

\* The store's lock is free.
Unlocked == purging = {}

\* purge, first: remove_folder takes the files and the folder ...
FolderGoes(f) ==
    /\ folder' = folder \ {f}
    /\ result' = result \ {f}
    /\ removed' = removed \union {f}
    /\ UNCHANGED <<row, stopping, left>>

\* ... or raises half-way, and the row and the request stay ...
FolderStays(f) ==
    /\ Spend("held")
    /\ result' \in {result, result \ {f}}
    /\ removed' = removed \union {f}
    /\ UNCHANGED <<row, folder, stopping>>

\* ... then: the row goes, and what was asked of it.
RowGoes(f) ==
    /\ SetState(f, "gone")
    /\ Ask(f, "none")
    /\ UNCHANGED <<diskVars, left>>

(***************************************************************************)
(* A file comes in.                                                        *)
(***************************************************************************)
\* _from_upload: the upload is moved into the folder of a job that has no row yet ...
Upload(f) ==
    /\ Is(f, "new")
    /\ f \notin folder
    /\ folder' = folder \union {f}
    /\ uploads' = uploads \union {f}
    /\ UNCHANGED <<row, nextKey, result, removed, stopping, purging, workerVars, yield,
                   left>>

Created(f) ==
    /\ row' = [row EXCEPT ![f] = [NoRow EXCEPT !.state = "pending", !.key = nextKey]]
    /\ nextKey' = nextKey + 1

\* ... which is created, for a path without any upload, or cannot be.
Create(f) ==
    /\ Is(f, "new")
    /\ \/ /\ f \in uploads \/ f \notin folder
          /\ Created(f)
          /\ UNCHANGED folder
       \/ /\ f \in uploads
          /\ folder' = folder \ {f}
          /\ UNCHANGED <<row, nextKey>>
    /\ uploads' = uploads \ {f}
    /\ UNCHANGED <<result, removed, stopping, purging, workerVars, yield, left>>

(***************************************************************************)
(* The worker.                                                             *)
(***************************************************************************)
Goto(next) == pc' = next /\ UNCHANGED <<cur, outcome>>

ToIdle == pc' = "idle" /\ cur' = NoFile /\ outcome' = "none"

Runnable(f) == Is(f, "pending") /\ row[f].due

Peek ==
    /\ pc = "idle"
    /\ ~yield
    /\ \E f \in Files :
          /\ Runnable(f)
          /\ \A g \in Files : Runnable(g) => row[f].key <= row[g].key
          /\ cur' = f
    /\ pc' = "peeked"
    /\ UNCHANGED <<row, nextKey, diskVars, stopping, uploads, purging, outcome, yield, left>>

\* Mutant: the state is not looked at again.
ClaimAnyState == row[cur].state # "gone"

\* WHERE ... AND state='pending'
Claimable == Is(cur, "pending")

Claim ==
    /\ pc = "peeked"
    /\ Unlocked
    /\ \/ Claimable /\ SetState(cur, "running") /\ Goto("claimed")
       \/ ~Claimable /\ ToIdle /\ UNCHANGED row
    /\ UNCHANGED <<nextKey, diskVars, stopping, uploads, purging, yield, left>>

MakeFolder ==
    /\ pc = "claimed"
    /\ folder' = folder \union {cur}
    /\ Goto("engine")
    /\ UNCHANGED <<row, nextKey, result, removed, stopping, uploads, purging, yield, left>>

EngineEnds(next, how) == pc' = next /\ outcome' = how /\ UNCHANGED cur

EngineReturns ==
    /\ pc = "engine"
    /\ cur \in folder
    /\ result' = result \union {cur}
    /\ removed' = removed \ {cur}
    /\ EngineEnds("finally", "ok")
    /\ UNCHANGED <<row, nextKey, folder, stopping, uploads, purging, yield, left>>

\* stop_check, or a checkpoint between two phases, or an error.
EngineRaises ==
    /\ pc = "engine"
    /\ \/ stopping[cur] # "none" /\ EngineEnds("handle", "cancelled")
       \/ stopping[cur] = "none" /\ yield /\ EngineEnds("handle", "preempted")
       \/ EngineEnds("handle", "permanent")
       \/ EngineEnds("handle", "error")
    /\ UNCHANGED <<row, nextKey, diskVars, stopping, uploads, purging, yield, left>>

\* except Cancelled: a look at the request, and then mark_cancelled.
HandleCancelled ==
    /\ pc = "handle"
    /\ outcome = "cancelled"
    /\ Goto(IF stopping[cur] = "delete" THEN "finally" ELSE "marking")
    /\ UNCHANGED <<row, nextKey, diskVars, stopping, uploads, purging, yield, left>>

\* mark_cancelled: the row ...
MarkCancelled ==
    /\ pc = "marking"
    /\ Stop(cur)
    /\ Goto("popping")
    /\ UNCHANGED <<nextKey, diskVars, stopping, uploads, purging, yield, left>>

\* ... and the request.
PopRequest ==
    /\ pc = "popping"
    /\ Ask(cur, "none")
    /\ Goto("finally")
    /\ UNCHANGED <<row, nextKey, diskVars, uploads, purging, yield, left>>

\* Mutant: a state nothing looks for.
ReleasedMisspelt == [row[cur] EXCEPT !.state = "waiting"]

Released == [row[cur] EXCEPT !.state = "pending"]

\* Mutant: the attempt is not counted.
FailedUncounted ==
    LET final == outcome = "permanent" \/ row[cur].attempts >= MAX_ATTEMPTS
    IN  [row[cur] EXCEPT !.state = IF final THEN "failed" ELSE "pending", !.due = final]

Failed ==
    LET attempts == row[cur].attempts + 1
        final == outcome = "permanent" \/ attempts >= MAX_ATTEMPTS
    IN  [row[cur] EXCEPT !.state = IF final THEN "failed" ELSE "pending",
                         !.attempts = attempts,
                         !.due = final]

\* release and fail.
HandleOther ==
    /\ pc = "handle"
    /\ outcome # "cancelled"
    /\ row' = [row EXCEPT ![cur] = IF outcome = "preempted" THEN Released ELSE Failed]
    /\ Goto("finally")
    /\ UNCHANGED <<nextKey, diskVars, stopping, uploads, purging, yield, left>>

\* Mutant: only a job that was stopped does not end done.
NotStopped == outcome # "cancelled"

Returned == outcome = "ok"

\* finally: finish_delete, which a folder that stays does not keep from going on ...
FinishDelete ==
    /\ pc = "finally"
    /\ \/ stopping[cur] = "delete" /\ FolderGoes(cur) /\ Goto("removing")
       \/ /\ \/ stopping[cur] = "delete" /\ FolderStays(cur)
             \/ stopping[cur] # "delete" /\ UNCHANGED <<row, diskVars, stopping, left>>
          /\ IF Returned THEN Goto("complete") ELSE ToIdle
    /\ UNCHANGED <<nextKey, uploads, purging, yield>>

\* ... and which takes no lock between the folder and the row.
FinishRow ==
    /\ pc = "removing"
    /\ RowGoes(cur)
    /\ ToIdle
    /\ UNCHANGED <<nextKey, uploads, purging, yield>>

Complete ==
    /\ pc = "complete"
    /\ SetState(cur, "done")
    /\ ToIdle
    /\ UNCHANGED <<nextKey, diskVars, stopping, uploads, purging, yield, left>>

\* A removal under the lock, by a handler or by the sweep, up to the row ...
RemoveFolder(f) ==
    \/ FolderGoes(f) /\ purging' = {f}
    \/ FolderStays(f) /\ UNCHANGED purging

\* ... and the row.
RemoveRow(f) ==
    /\ f \in purging
    /\ RowGoes(f)
    /\ purging' = {}
    /\ UNCHANGED <<nextKey, uploads, workerVars, yield>>

\* Retention's purge_finished, from the worker when it has nothing to run and from the
\* handler of POST /retention/sweep at any time.
Sweep(f) ==
    /\ Unlocked
    /\ Ended(f)
    /\ RemoveFolder(f)
    /\ UNCHANGED <<nextKey, uploads, workerVars, yield>>

WorkerStep ==
    \/ Peek \/ Claim \/ MakeFolder \/ EngineReturns \/ EngineRaises
    \/ HandleCancelled \/ MarkCancelled \/ PopRequest \/ HandleOther
    \/ FinishDelete \/ FinishRow \/ Complete

(***************************************************************************)
(* The handlers.                                                           *)
(***************************************************************************)
Cancel(f) ==
    /\ Unlocked
    /\ \/ Is(f, "pending") /\ Stop(f) /\ Ask(f, "none")
       \/ /\ Is(f, "running")
          /\ stopping[f] = "none"
          /\ Ask(f, "cancel")
          /\ UNCHANGED row
    /\ UNCHANGED <<nextKey, diskVars, uploads, purging, workerVars, yield, left>>

\* At the back of the queue.
Retry(f) ==
    /\ Unlocked
    /\ Is(f, "failed") \/ Is(f, "cancelled")
    /\ Spend("retry")
    /\ Created(f)
    /\ UNCHANGED <<diskVars, stopping, uploads, purging, workerVars, yield>>

\* Mutant: a running job's files are removed at once.
NeverHandedOff(f) == FALSE

HandedOff(f) == Is(f, "running")

Delete(f) ==
    /\ Unlocked
    /\ ~Is(f, "new") /\ ~Is(f, "gone")
    /\ IF HandedOff(f)
       THEN Ask(f, "delete") /\ UNCHANGED <<row, diskVars, purging, left>>
       ELSE RemoveFolder(f)
    /\ UNCHANGED <<nextKey, uploads, workerVars, yield>>

(***************************************************************************)
(* The rest of the world.                                                  *)
(***************************************************************************)
BecomeDue(f) ==
    /\ Is(f, "pending") /\ ~row[f].due
    /\ row' = [row EXCEPT ![f].due = TRUE]
    /\ UNCHANGED <<nextKey, diskVars, stopping, uploads, purging, workerVars, yield, left>>

RecordingStarts ==
    /\ ~yield
    /\ Spend("recording")
    /\ yield' = TRUE
    /\ UNCHANGED <<row, nextKey, diskVars, stopping, uploads, purging, workerVars>>

RecordingEnds ==
    /\ yield
    /\ yield' = FALSE
    /\ UNCHANGED <<row, nextKey, diskVars, stopping, uploads, purging, workerVars, left>>

\* Mutant: a start leaves the table as it finds it.
NoReset == row

\* reset_running, and what is in memory gone.
Reset ==
    [f \in Files |-> IF Is(f, "running") THEN [row[f] EXCEPT !.state = "pending"]
                                        ELSE row[f]]

Restart ==
    /\ Spend("crash")
    /\ row' = Reset
    /\ stopping' = [f \in Files |-> "none"]
    /\ uploads' = {}
    /\ purging' = {}
    /\ ToIdle
    /\ yield' = FALSE
    /\ UNCHANGED <<nextKey, diskVars>>

Next ==
    \/ WorkerStep
    \/ \E f \in Files :
          \/ Upload(f) \/ Create(f) \/ Sweep(f) \/ RemoveRow(f)
          \/ Cancel(f) \/ Retry(f) \/ Delete(f) \/ BecomeDue(f)
    \/ RecordingStarts \/ RecordingEnds \/ Restart

Spec == Init /\ [][Next]_vars

\* The worker and the threads that remove run on, recordings end, time passes and what
\* ended is swept in the end.
FairSpec ==
    /\ Spec
    /\ WF_vars(WorkerStep)
    /\ WF_vars(RecordingEnds)
    /\ \A f \in Files :
          WF_vars(RemoveRow(f)) /\ WF_vars(BecomeDue(f)) /\ SF_vars(Sweep(f))

(***************************************************************************)
(* Properties.                                                             *)
(***************************************************************************)
\* "At most one job runs", and it is the worker's: a row says "running" only while
\* the worker has it in hand, or busy() would keep updates from installing and a
\* delete would hand the file off to nobody.
RunningIsHeld ==
    \A f \in Files : Is(f, "running") => pc \notin {"idle", "peeked"} /\ cur = f

\* A removed transcription leaves nothing on disk, whichever of the worker, the
\* handler and the sweep removed it, and whatever the others were about to do.
GoneLeavesNothing == \A f \in Files : Is(f, "gone") => f \notin folder \union result

\* A job that is done has the result GET .../result reads, unless a removal took files of
\* it since: one on its way to the row, one that was refused, one a crash cut off.
DoneHasResult == \A f \in Files \ removed : Is(f, "done") => f \in result

\* A client of the service sees the life of a file job: FileLife.
Life == INSTANCE FileLife WITH life <- [f \in Files |-> row[f].state], asked <- stopping

LifeSpec == Life!Spec

\* A deletion whose folder would not go, of a job that was running.
LeftOver(f) == pc = "idle" /\ Is(f, "running") /\ stopping[f] = "delete"

\* Every job that waits ends: done, failed, cancelled, removed or left over, through
\* recordings, failures and refused removals.
WaitingEnds ==
    \A f \in Files : Is(f, "pending") ~> (Ended(f) \/ Is(f, "gone") \/ LeftOver(f))

\* finish_delete says of what it leaves over that "the sweep retries later".
LeftoverGoes == \A f \in Files : LeftOver(f) ~> Is(f, "gone")
=============================================================================
